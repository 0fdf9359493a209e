----------------------------- MODULE AdminResults -----------------------------
(***************************************************************************)
(* How the result events of librdkafka become Go values: the cTo*          *)
(* conversions of kafka/adminapi.go.  A C result is a sequence of entries, *)
(* each with a name (a topic, group, resource, user, partition), an error  *)
(* code and a body: what else the entry carries, or Nil.                   *)
(***************************************************************************)
EXTENDS Integers, Sequences

CONSTANT Null       \* a nil pointer, in C or in Go

NoError == "none"

\* Go's results: the entries of a slice, or of a map by name (later entries
\* overwrite earlier ones).
Slice(r, F(_)) == [i \in DOMAIN r |-> F(r[i])]
Map(r, F(_)) == {F(r[i]) : i \in {k \in DOMAIN r : \A j \in DOMAIN r : j > k => r[j].name # r[k].name}}

\* Entries that carry a name and an error ...
NameAndError(e) == [name |-> e.name, error |-> e.error, body |-> Null]
\* ... a body as well, whatever the error ...
Whole(e) == [name |-> e.name, error |-> e.error, body |-> e.body]
\* ... or the body only without an error.
Exclusive(e) == IF e.error = NoError THEN Whole(e) ELSE NameAndError(e)
cToConsumerGroupResults(r) == Slice(r, NameAndError)
cToTopicResults(r) == Slice(r, NameAndError)
cToCreateACLResults(r) == Slice(r, NameAndError)
cToErrorList(r) == Slice(r, NameAndError)
newTopicPartitionsFromCTopicPartitionResult(r) == Slice(r, Whole)
cToConsumerGroupListings(r) == Slice(r, Whole)

\* A node, nil included: -1 for a Node, nil for a *Node.
cToNode(n) == IF n = Null THEN -1 ELSE n
cToNodePtr(n) == IF n = Null THEN Null ELSE cToNode(n)
cToNodes(ns) == [i \in DOMAIN ns |-> cToNode(ns[i])]
cToAuthorizedOperations(ops) == IF ops = Null THEN Null ELSE [i \in DOMAIN ops |-> ops[i]]

\* The body of a described group is its coordinator and what it may do, of a
\* topic its leaders, replicas and what it may do.
GroupDescription(e) ==
  [name |-> e.name, error |-> e.error,
   body |-> <<cToNode(e.body.node), cToAuthorizedOperations(e.body.ops)>>]
cToConsumerGroupDescriptions(r) == Slice(r, GroupDescription)

cToTopicPartitionInfo(p) == <<cToNodePtr(p.node), cToNodes(p.replicas)>>
TopicDescription(e) ==
  IF e.error # NoError THEN NameAndError(e)
  ELSE [name |-> e.name, error |-> e.error,
        body |-> <<cToTopicPartitionInfo(e.body), cToAuthorizedOperations(e.body.ops)>>]
cToTopicDescriptions(r) == Slice(r, TopicDescription)

cToDescribeClusterResult(c) ==
  [name |-> c.name, error |-> NoError,
   body |-> <<cToNodePtr(c.body.node), cToNodes(c.body.replicas), cToAuthorizedOperations(c.body.ops)>>]

ScramDescription(e) == Exclusive(e)
cToDescribeUserScramCredentialsResult(r) == Map(r, ScramDescription)
AlterUserScramErrors(r) == Map(r, NameAndError)

\* A leader epoch below zero becomes nil.
OffsetsResultInfo(e) == [name |-> e.name, error |-> e.error, body |-> IF e.body < 0 THEN Null ELSE e.body]
\* The map's keys hold pointers to their topics, so no two of them are equal.
cToListOffsetsResult(r) == {OffsetsResultInfo(r[i]) : i \in DOMAIN r}

\* Only a partition without an error has its low watermark.
DeletedRecord(e) == Exclusive(e)
cToDeletedRecordResult(r) == Slice(r, DeletedRecord)

\* Configuration entries by name, with their synonyms.
GoString(s) == IF s = Null THEN "" ELSE s
configEntryResultFromC(e) == [name |-> e.name, value |-> GoString(e.value)]
ConfigResourceResult(e) ==
  [name |-> e.name, error |-> e.error,
   body |-> {configEntryResultFromC(e.body[i]) : i \in DOMAIN e.body}]
cConfigResourceToResult(r) == Slice(r, ConfigResourceResult)

cToACLBinding(b) == [name |-> GoString(b.name), principal |-> GoString(b.principal)]
cToACLBindings(bs) == Slice(bs, cToACLBinding)
cToDescribeACLsResult(e) == [name |-> e.name, error |-> e.error, body |-> cToACLBindings(e.body)]
cToDeleteACLsResults(r) == Slice(r, cToDescribeACLsResult)

\* The metadata of a topic by name, with the errors of its partitions.
getMetadata(r) == Map(r, Whole)

\* The partitions of a group; an error of the group itself is not looked at.
GroupTopicPartitions(e) == [name |-> e.name, error |-> NoError, body |-> e.body]
cToConsumerGroupTopicPartitions(r) == Slice(r, GroupTopicPartitions)
=============================================================================
