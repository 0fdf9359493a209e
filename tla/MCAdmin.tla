------------------------------- MODULE MCAdmin -------------------------------
EXTENDS AdminClient, SequencesExt

UpTo2(S) == {<<>>} \cup {<<a>> : a \in S} \cup {<<a, b>> : a, b \in S}

\* Topics that are refused by the client, by librdkafka or by a setter, or panic.
MCTopics ==
  {[parts |-> 2, factor |-> 1, assign |-> Nil, replicas |-> 0, valid |-> v, sets |-> s, config |-> TRUE]
     : v, s \in BOOLEAN}
  \cup {[parts |-> 2, factor |-> f, assign |-> a, replicas |-> r, valid |-> TRUE, sets |-> TRUE, config |-> FALSE]
     : f \in {0, 1}, a \in {1, 2}, r \in {0, 1}}
MCPartitions == {p \in [assign : {Nil, 1}, replicas : {0, 1}, valid : BOOLEAN, sets : BOOLEAN] : p.valid \/ p.sets}
MCResources == [valid : BOOLEAN, op : {"set", "none", "other"}, sets : BOOLEAN]
MCValid == [valid : BOOLEAN]
MCAlterations == [delete : BOOLEAN, password : {0, 1}, salt : {Nil, 0, 1}]

MCInputs(o) ==
  CASE o = "CreateTopics" -> UpTo2(MCTopics)
    [] o = "CreatePartitions" -> UpTo2(MCPartitions)
    [] o \in {"AlterConfigs", "IncrementalAlterConfigs", "DescribeConfigs"} -> UpTo2(MCResources)
    [] o \in {"DeleteTopics", "DeleteConsumerGroups"} -> UpTo2(MCValid)
    [] o \in {"CreateACLs", "DeleteACLs"} -> UpTo2(MCValid) \cup {Nil}
    [] o = "DescribeACLs" -> MCValid
    [] o \in {"ListConsumerGroupOffsets", "AlterConsumerGroupOffsets"} -> UpTo2({Nil, "list"})
    [] o = "AlterUserScramCredentials" -> UpTo2(MCAlterations)
    [] o \in {"DescribeTopics", "ListOffsets", "ElectLeaders"} -> UpTo2({"n"}) \cup {Nil}
    [] o \in {"DescribeConsumerGroups", "DescribeUserScramCredentials", "DeleteRecords"} -> UpTo2({"n"})
    [] o = "SetOAuthBearerToken" -> {0, 2}
    [] OTHER -> {Nil}

\* One option with any value, or two that are set.
MCOptionLists(o) ==
  {<<>>} \cup {<<a>> : a \in UNION {AdminOptions(o, v) : v \in {Nil, "unset", "empty", "accepted", "refused"}}}
    \cup {<<a, b>> : a, b \in AdminOptions(o, "accepted") \cup AdminOptions(o, "refused")}

\* A request and a query are also made with a nil context.
MCContexts(o) == {"deadline", "background"} \cup IF o \in {"DeleteRecords", "ClusterID"} THEN {"nil"} ELSE {}

\* Two entries, with an error or without, and a body of the operation's kind.
Entry(n, e, b) == [name |-> n, error |-> e, body |-> b]
Pairs(Bodies) == {<<Entry("a", NoError, b), Entry("b", f, b)>> : f \in {NoError, "failed"}, b \in Bodies}
Acl == [name |-> "n", principal |-> Null]
Described == {[node |-> Null, replicas |-> <<>>, ops |-> <<"read">>], [node |-> 1, replicas |-> <<1, 2>>, ops |-> Null]}
MCResponses(o) ==
  CASE o \in {"DescribeConsumerGroups", "DescribeTopics"} -> Pairs(Described)
    [] o = "DescribeCluster" -> {<<Entry("a", NoError, b)>> : b \in Described}
    [] o = "DescribeACLs" -> {<<Entry("a", e, b)>> : e \in {NoError, "failed"}, b \in {<<>>, <<Acl>>}}
    [] o = "DeleteACLs" -> Pairs({<<>>, <<Acl>>})
    [] o \in {"AlterConfigs", "IncrementalAlterConfigs", "DescribeConfigs"} ->
         Pairs({<<>>, <<[name |-> "k", value |-> Null], [name |-> "l", value |-> "v"]>>})
    [] o = "ListOffsets" -> Pairs({-1, 5})
    [] OTHER -> Pairs({"data"})

\* Every operation alone; three of them with the log poller and Close(); two
\* callers of a derived client and the Close() of its parent.
Use(derived, logs, closes) == [derived |-> derived, logs |-> logs, closes |-> closes]
MCUses == {Use(FALSE, "none", FALSE), Use(FALSE, "own", TRUE), Use(FALSE, "app", TRUE), Use(TRUE, "none", TRUE)}
MCOps(u, t) ==
  CASE u = Use(FALSE, "none", FALSE) -> IF t = "t1" THEN Requests \cup Queries \cup Directs ELSE {}
    [] u = Use(FALSE, "own", TRUE) -> IF t = "t1" THEN {"ElectLeaders", "ListOffsets", "ClusterID"} ELSE {}
    [] u = Use(FALSE, "app", TRUE) -> IF t = "t1" THEN {"SetSaslCredentials"} ELSE {"GetMetadata"}
    [] u = Use(TRUE, "none", TRUE) -> IF t = "t1" THEN {"DescribeACLs"} ELSE {"GetMetadata", "ControllerID"}

=============================================================================
