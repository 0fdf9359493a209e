---------------------------- MODULE AdminRequests ----------------------------
(***************************************************************************)
(* What each admin operation of kafka/adminapi.go does with its arguments  *)
(* before it hands the request to librdkafka: which C objects it makes,    *)
(* which of them no defer destroys, and how the conversion ends.           *)
(*                                                                         *)
(* An argument is abstracted to what decides that: a list is a sequence of *)
(* elements, nil is Nil, and an element says whether librdkafka accepts    *)
(* it (valid, sets).  A C object is a kind and the index of its element.   *)
(***************************************************************************)
EXTENDS Integers, Sequences, FiniteSets

CONSTANT Nil

\* One element converted: the objects made, those left for nobody to destroy,
\* and "ok", "invalid" (an error is returned) or "panic".
Conv(made, leaked, end) == [made |-> made, leaked |-> leaked, end |-> end]

\* The elements are converted in order up to the first that does not go well.
Each(items, F(_)) ==
  LET bad  == {i \in DOMAIN items : F(items[i]).end # "ok"}
      last == IF bad = {} THEN Len(items) ELSE CHOOSE i \in bad : \A j \in bad : i <= j
  IN [made   |-> UNION {F(items[i]).made \X {i} : i \in 1 .. last},
      leaked |-> UNION {F(items[i]).leaked \X {i} : i \in 1 .. last},
      end    |-> IF bad = {} THEN "ok" ELSE F(items[last]).end]

Nothing == [made |-> {}, leaked |-> {}, end |-> "ok"]
Refused == [made |-> {}, leaked |-> {}, end |-> "invalid"]

\* A request: the conversion of its arguments, whether verifyClient() comes
\* first, whether `&list[0]` panics in the asynchronous call, and whether the
\* AdminOptions are destroyed on return.
Request(c) == [conv |-> c, verified |-> TRUE, indexes |-> FALSE, freesOptions |-> TRUE]
IndexedBy(c, items) == [Request(c) EXCEPT !.indexes = items = <<>>]
KeepsOptions(c) == [Request(c) EXCEPT !.freesOptions = FALSE]
Unverified(c) == [Request(c) EXCEPT !.verified = FALSE]

-----------------------------------------------------------------------------
(* Topics and configurations.                                               *)

\* The outcome of setting replica assignments (t.assign of them, with t.replicas
\* brokers each) and configuration entries on a made object.
Assigned(t) == t.assign \notin {Nil, 0}
Settings(t, config) == IF Assigned(t) /\ t.replicas = 0 THEN "panic"
                       ELSE IF (Assigned(t) \/ config) /\ ~t.sets THEN "invalid" ELSE "ok"

NewTopic(t) ==
  IF t.assign # Nil /\ (t.factor # 0 \/ t.assign # t.parts) THEN Conv({}, {}, "invalid")
  ELSE IF ~t.valid THEN Conv({"string"}, {"string"}, "invalid")
  ELSE Conv({"string", "topic"}, {"string"}, Settings(t, t.config))
CreateTopics(topics) == IndexedBy(Each(topics, NewTopic), topics)

DeleteTopic(t) == IF t.valid THEN Conv({"string", "topic"}, {"string"}, "ok")
                  ELSE Conv({"string"}, {"string"}, "invalid")
DeleteTopics(topics) == IndexedBy(Each(topics, DeleteTopic), topics)

NewPartitions(t) == IF t.valid THEN Conv({"string", "parts"}, {"string"}, Settings(t, FALSE))
                    ELSE Conv({"string"}, {"string"}, "invalid")
CreatePartitions(partitions) == IndexedBy(Each(partitions, NewPartitions), partitions)

\* A resource with an entry whose Operation is not AlterOperationSet panics.
AlterResource(r) ==
  IF ~r.valid THEN Conv({"string"}, {"string"}, "invalid")
  ELSE Conv({"string", "resource"}, {"string"},
            CASE r.op = "set" -> IF r.sets THEN "ok" ELSE "invalid"
              [] r.op = "none" -> "ok"
              [] OTHER -> "panic")
AlterConfigs(resources) == IndexedBy(Each(resources, AlterResource), resources)

\* IncrementalAlterConfigs() frees its strings and takes any operation.
IncrementalResource(r) ==
  IF ~r.valid THEN Conv({"string"}, {}, "invalid")
  ELSE Conv({"string", "resource"}, {}, IF r.op = "none" \/ r.sets THEN "ok" ELSE "invalid")
IncrementalAlterConfigs(resources) == IndexedBy(Each(resources, IncrementalResource), resources)

DescribeResource(r) == IF r.valid THEN Conv({"string", "resource"}, {"string"}, "ok")
                       ELSE Conv({"string"}, {"string"}, "invalid")
DescribeConfigs(resources) == IndexedBy(Each(resources, DescribeResource), resources)

-----------------------------------------------------------------------------
(* ACLs: the options of these three are never destroyed, nor is the filter  *)
(* of DescribeACLs().                                                       *)
aclBindingToC(b) == IF b.valid THEN Conv({"binding"}, {}, "ok") ELSE Conv({}, {}, "invalid")
aclBindingFilterToC(f) == IF f.valid THEN Conv({"filter"}, {}, "ok") ELSE Conv({}, {}, "invalid")

CreateACLs(bindings) ==
  KeepsOptions(IF bindings \in {Nil, <<>>} THEN Refused ELSE Each(bindings, aclBindingToC))

DescribeACLs(f) ==
  KeepsOptions([Each(<<f>>, aclBindingFilterToC) EXCEPT !.leaked = @ \cup Each(<<f>>, aclBindingFilterToC).made])

DeleteACLs(filters) ==
  KeepsOptions(IF filters \in {Nil, <<>>} THEN Refused ELSE Each(filters, aclBindingFilterToC))

-----------------------------------------------------------------------------
(* Consumer groups, topics, the cluster.                                    *)
Name(n) == Conv({"string"}, {}, "ok")

ListConsumerGroups(none) == Request(Nothing)
DescribeConsumerGroups(groups) == Request(Each(groups, Name))
DescribeTopics(names) ==
  Request(IF names = Nil THEN Refused
          ELSE [Each(names, Name) EXCEPT !.made = @ \cup {<<"collection", 0>>}])
DescribeCluster(none) == Request(Nothing)

DeleteGroup(g) == IF g.valid THEN Conv({"string", "group"}, {}, "ok")
                  ELSE Conv({"string"}, {}, "invalid")
DeleteConsumerGroups(groups) == IndexedBy(Each(groups, DeleteGroup), groups)

\* (GroupPartitions: the list of partitions may be nil.)
GroupPartitions(g) == Conv(IF g = Nil THEN {"string", "request"} ELSE {"string", "request", "list"}, {}, "ok")
ListConsumerGroupOffsets(groups) ==
  Request(IF Len(groups) # 1 THEN Refused ELSE Each(groups, GroupPartitions))

\* The partition list of AlterConsumerGroupOffsets() is not destroyed.
AlterOffsets(g) == Conv({"string", "request", "list"}, {"list"}, "ok")
AlterConsumerGroupOffsets(groups) ==
  Request(IF Len(groups) # 1 THEN Refused ELSE Each(groups, AlterOffsets))

-----------------------------------------------------------------------------
(* Credentials, offsets, records, leaders.                                  *)
DescribeUserScramCredentials(users) == Request(Each(users, Name))

\* An upsertion takes the address of its password's first byte, and of its
\* salt's unless the salt is nil; a deletion has neither.
Alteration(a) ==
  IF a.delete THEN Conv({"string", "alteration"}, {}, "ok")
  ELSE IF 0 \in {a.password, a.salt} THEN Conv({"string"}, {}, "panic")
  ELSE Conv({"string", "alteration"}, {}, "ok")
AlterUserScramCredentials(alterations) == Request(Each(alterations, Alteration))

\* ListOffsets() does not call verifyClient().
ListOffsets(offsets) ==
  Unverified(IF offsets = Nil THEN Refused
             ELSE [Each(offsets, Name) EXCEPT !.made = @ \cup {<<"list", 0>>}])

DeleteRecords(records) ==
  Request(IF records = <<>> THEN Refused
          ELSE [Nothing EXCEPT !.made = {<<"list", 0>>, <<"request", 0>>}])

ElectLeaders(partitions) ==
  Request([Nothing EXCEPT !.made = {<<"request", 0>>} \cup
                                   (IF partitions = Nil THEN {} ELSE {<<"list", 0>>})])

-----------------------------------------------------------------------------
(* The operations that make one call; a token has `extensions' extensions.  *)
Strings(names) == Request([Nothing EXCEPT !.made = names \X {0}])
setOAuthBearerToken(extensions) ==
  Request([Nothing EXCEPT !.made = ({"token", "principal", "errstr"} \X {0})
                                     \cup ({"key", "value"} \X (1 .. extensions))])
setOAuthBearerTokenFailure(none) == Strings({"errstr"})
setSaslCredentials(none) == Strings({"username", "password"})

-----------------------------------------------------------------------------
(* Options (kafka/adminoptions.go): the operations an option is for, and    *)
(* what apply() comes to with a value: nothing is done for one that is not  *)
(* set, librdkafka may refuse it, which destroys the options, and a list    *)
(* that is empty, not nil, panics.  A value is "unset", Nil, "empty",       *)
(* "accepted" or "refused".                                                 *)
Option(ops, list, v) ==
  [ops |-> ops,
   apply |-> CASE v = "refused" -> "refused"
               [] v = "empty" /\ list -> "panic"
               [] OTHER -> "ok"]

OperationTimeout(v) == Option({"CreateTopics", "DeleteTopics", "CreatePartitions", "DeleteRecords", "ElectLeaders"}, FALSE, v)
RequestTimeout(v) ==
  Option({"CreateTopics", "DeleteTopics", "CreatePartitions", "AlterConfigs", "IncrementalAlterConfigs", "DescribeConfigs",
          "CreateACLs", "DescribeACLs", "DeleteACLs", "ListConsumerGroups", "DescribeConsumerGroups", "DescribeTopics",
          "DescribeCluster", "DeleteConsumerGroups", "ListConsumerGroupOffsets", "AlterConsumerGroupOffsets",
          "ListOffsets", "DescribeUserScramCredentials", "AlterUserScramCredentials", "DeleteRecords", "ElectLeaders"}, FALSE, v)
IsolationLevel(v) == Option({"ListOffsets"}, FALSE, v)
ValidateOnly(v) == Option({"CreateTopics", "CreatePartitions", "AlterConfigs", "IncrementalAlterConfigs"}, FALSE, v)
RequireStableOffsets(v) == Option({"ListConsumerGroupOffsets"}, FALSE, v)
MatchConsumerGroupStates(v) == Option({"ListConsumerGroups"}, TRUE, v)
MatchConsumerGroupTypes(v) == Option({"ListConsumerGroups"}, TRUE, v)
IncludeAuthorizedOperations(v) == Option({"DescribeConsumerGroups", "DescribeTopics", "DescribeCluster"}, FALSE, v)

AdminOptions(o, v) ==
  {ao \in {OperationTimeout(v), RequestTimeout(v), IsolationLevel(v), ValidateOnly(v), RequireStableOffsets(v),
           MatchConsumerGroupStates(v), MatchConsumerGroupTypes(v), IncludeAuthorizedOperations(v)} : o \in ao.ops}

OptionValues == {Nil, "unset", "empty", "accepted", "refused"}

\* The options are applied in order; the first that fails ends it.
Applied(options) ==
  LET bad == {i \in DOMAIN options : options[i].apply # "ok"}
  IN IF bad = {} THEN "ok" ELSE options[CHOOSE i \in bad : \A j \in bad : i <= j].apply
=============================================================================
