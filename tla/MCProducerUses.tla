--------------------------- MODULE MCProducerUses ---------------------------
(***************************************************************************)
(* Two uses of a producer, each with an instance of its own: writing to a   *)
(* batching ProduceChannel(), and committing transactions.                  *)
(***************************************************************************)
EXTENDS BatchProducer, TxnProcessor

CONSTANTS p1, p2, a1, a2

VARIABLE use

MCTopicOf == [m \in Msgs |-> IF m \in {"m1", "m3"} THEN "t1" ELSE "t2"]

MCInput(in1, in2) == [p \in Partitions |-> IF p = p1 THEN in1 ELSE in2]

\* No transactions; two processes that share a partition; one that has two.
MCNone == [running |-> {}, input |-> MCInput(<<>>, <<>>)]
MCScenarios == {
  MCNone,
  [running |-> {a1, a2}, input |-> MCInput(<<Nil, "n1">>, <<>>)],
  [running |-> {a1}, input |-> MCInput(<<"n1", "n1">>, <<"n2">>)]}

MCInit ==
  /\ BInit /\ TInit
  /\ use = IF input = MCNone.input THEN "batch" ELSE "txn"

Batching == use = "batch" /\ BNext /\ UNCHANGED <<tvars, use>>
Transacting == use = "txn" /\ TNext /\ UNCHANGED <<bvars, use>>

MCSpec == MCInit /\ [][Batching \/ Transacting]_<<bvars, tvars, use>> /\ BFair /\ TFair
=============================================================================
