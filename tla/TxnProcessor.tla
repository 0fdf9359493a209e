---------------------------- MODULE TxnProcessor ----------------------------
(***************************************************************************)
(* The transactional calls of kafka/producer.go under the consume-process- *)
(* produce loop of examples/transactions_example: processes of one group   *)
(* read input partitions, count what they read in memory, and commit       *)
(* output messages and input offsets in one transaction, with a producer   *)
(* of its own for every input partition.                                   *)
(*                                                                         *)
(* The brokers are external: a group that hands partitions to one process  *)
(* at a time but may forget a process that still runs, and a coordinator   *)
(* that keeps one open transaction for every transactional.id, which is    *)
(* the number of the input partition.                                      *)
(***************************************************************************)
EXTENDS Integers, Sequences

CONSTANTS
  Procs,           \* processes that run the example
  Partitions,      \* of the input topic
  Intersections,   \* keys of the input messages
  Scenarios,       \* what is in the topic, and which processes run
  Nil,
  MaxFaults,       \* bound: calls that fail or time out
  MaxRebalances    \* bound: revocations

\* The state of an intersection, which is also the output message made of it: the
\* partition its messages come from, and their offsets.  (kept, a history: it has
\* outlived a transaction that was aborted.)
States == [partition : Partitions, cars : Seq(Nat), kept : BOOLEAN]
NoStates == [n \in Intersections |-> Nil]

\* A transaction: the offsets read and the messages written since it began.
Batches == [read : Seq(Nat), out : [Intersections -> States \cup {Nil}]]
Fresh == [read |-> <<>>, out |-> NoStates]

\* What groupRebalance() is called with.
RebalanceEvents == [type : {"assign", "revoke", "close"}, parts : SUBSET Partitions]

\* Messages with the same key are in the same partition (generator.go:90).
Keyed(in) == \A p, q \in Partitions : \A i \in 1 .. Len(in[p]), j \in 1 .. Len(in[q]) :
  in[p][i] = in[q][j] /\ in[p][i] # Nil => p = q

ASSUME TxnConstants ==
  /\ \A s \in Scenarios : /\ s.input \in [Partitions -> Seq(Intersections \cup {Nil})]
                          /\ Keyed(s.input)
                          /\ s.running \subseteq Procs
  /\ Nil \notin Procs \cup Intersections /\ Nil \notin Nat
  /\ Nil \notin States /\ Nil \notin RebalanceEvents
  /\ {MaxFaults, MaxRebalances} \subseteq Nat

VARIABLES
  \* the keys of the messages in each partition, Nil for one without a key
  input,
  \* a process: where it is, the rebalance event or the partitions of the loop
  \* it is in, the one it commits, and its globals
  tpc, todo, cur, intersectionStates, producers,
  \* its consumer: the assignment, the next offset of each partition, events
  assigned, position, rebq,
  \* its producers, by input partition: the state of the transaction, and the
  \* messages read and written since it began
  txn, local,
  \* the group: who has a partition
  owner,
  \* the coordinator: the epoch of each transactional.id, what the last call to
  \* end a transaction left undone, the offsets it got for the transaction
  epoch, ending, offsets,
  \* what readers of the brokers see: offsets of the group, and the latest
  \* message of each intersection
  committed, output,
  \* history: the inputs of committed transactions, faults and rebalances so
  \* far, and whether a process stopped at one of its own assertions
  done, faults, rebalances, bug

proc == <<tpc, todo, cur, intersectionStates, producers>>
cons == <<assigned, position, rebq>>
prod == <<txn, local>>
coord == <<input, epoch, ending, offsets>>
seen == <<committed, output, done>>
hist == <<faults, rebalances, bug>>
tvars == <<proc, cons, prod, owner, coord, seen, hist>>

Stopped == {"dead", "done"}
\* Where a process is in commitTransactionForInputPartition().
Committing == {"commit", "end", "abort", "rewind", "begin"}
PartitionsOf(x) == {intersectionStates[x][n].partition : n \in {m \in Intersections : intersectionStates[x][m] # Nil}}

TInit ==
  /\ \E s \in Scenarios : /\ input = s.input
                          /\ tpc = [x \in Procs |-> IF x \in s.running THEN "loop" ELSE "done"]
  /\ todo = [x \in Procs |-> {}]
  /\ cur = [x \in Procs |-> Nil]
  /\ intersectionStates = [x \in Procs |-> NoStates]
  /\ producers = [x \in Procs |-> [p \in Partitions |-> Nil]]
  /\ assigned = [x \in Procs |-> {}]
  /\ position = [x \in Procs |-> [p \in Partitions |-> 0]]
  /\ rebq = [x \in Procs |-> Nil]
  /\ txn = [x \in Procs |-> [p \in Partitions |-> "none"]]
  /\ local = [x \in Procs |-> [p \in Partitions |-> Fresh]]
  /\ owner = [p \in Partitions |-> Nil]
  /\ epoch = [p \in Partitions |-> 0]
  /\ ending = [p \in Partitions |-> Nil]
  /\ offsets = [p \in Partitions |-> Nil]
  /\ committed = [p \in Partitions |-> 0]
  /\ output = [n \in Intersections |-> Nil]
  /\ done = [p \in Partitions |-> <<>>]
  /\ faults = 0 /\ rebalances = 0 /\ bug = FALSE

TGoto(x, l) == tpc' = [tpc EXCEPT ![x] = l]

-----------------------------------------------------------------------------
(* The coordinator (external).                                              *)
Fenced(x, p) == producers[x][p] # epoch[p]

\* A transaction of p with the given messages becomes visible, with its offset.
Visible(p, t, o) ==
  /\ committed' = [committed EXCEPT ![p] = IF o = Nil THEN @ ELSE o]
  /\ output' = [n \in Intersections |-> IF t.out[n] # Nil THEN t.out[n] ELSE output[n]]
  /\ done' = [done EXCEPT ![p] = @ \o t.read]

\* A commit that the coordinator has begun is finished in the background.
Finish(p) ==
  /\ ending[p] # Nil
  /\ Visible(p, ending[p], offsets[p])
  /\ ending' = [ending EXCEPT ![p] = Nil]
  /\ offsets' = [offsets EXCEPT ![p] = Nil]
  /\ UNCHANGED <<proc, cons, prod, owner, input, epoch, hist>>

\* A call fails for a reason that lies outside the process.
Fault == faults < MaxFaults /\ faults' = faults + 1

-----------------------------------------------------------------------------
(* The transactional calls of the producer for input partition p, as x makes *)
(* them.  Each says what it does to txn, local and the coordinator.          *)

\* InitTransactions() fences every earlier producer of the transactional.id and
\* disposes of its transaction: a commit that has begun is finished first.
InitTransactions(x, p) ==
  /\ ending[p] = Nil
  /\ epoch' = [epoch EXCEPT ![p] = @ + 1]
  /\ offsets' = [offsets EXCEPT ![p] = Nil]
  /\ producers' = [producers EXCEPT ![x][p] = epoch'[p]]
  /\ UNCHANGED <<input, ending>>

BeginTransaction(x, p) ==
  /\ txn' = [txn EXCEPT ![x][p] = "open"]
  /\ local' = [local EXCEPT ![x][p] = Fresh]

\* SendOffsetsToTransaction() adds the offset to the open transaction.
SendOffsetsOk(x, p, o) ==
  /\ txn[x][p] = "open" /\ ~Fenced(x, p)
  /\ offsets' = [offsets EXCEPT ![p] = o]
  /\ UNCHANGED <<txn, faults>>

\* It, or CommitTransaction(), fails: fenced, in an abortable state, or for a
\* reason of the brokers that makes it abortable.
CallFails(x, p) ==
  \/ Fenced(x, p) /\ txn' = [txn EXCEPT ![x][p] = "fatal"] /\ UNCHANGED faults
  \/ ~Fenced(x, p) /\ txn[x][p] = "abortable" /\ UNCHANGED <<txn, faults>>
  \/ ~Fenced(x, p) /\ txn[x][p] = "open" /\ Fault /\ txn' = [txn EXCEPT ![x][p] = "abortable"]

CommitOk(x, p) ==
  /\ txn[x][p] = "open" /\ ~Fenced(x, p)
  /\ Visible(p, local[x][p], offsets[p])
  /\ offsets' = [offsets EXCEPT ![p] = Nil]
  /\ txn' = [txn EXCEPT ![x][p] = "ready"]
  /\ UNCHANGED <<ending, faults>>

\* CommitTransaction() times out: the coordinator has begun and will finish.
CommitTimesOut(x, p) ==
  /\ txn[x][p] = "open" /\ ~Fenced(x, p)
  /\ Fault
  /\ ending' = [ending EXCEPT ![p] = local[x][p]]
  /\ txn' = [txn EXCEPT ![x][p] = "committing"]
  /\ UNCHANGED <<offsets, seen>>

AbortOk(x, p) ==
  /\ txn[x][p] \in {"open", "abortable"} /\ ~Fenced(x, p)
  /\ offsets' = [offsets EXCEPT ![p] = Nil]
  /\ txn' = [txn EXCEPT ![x][p] = "ready"]
  /\ UNCHANGED faults

AbortFails(x, p) ==
  /\ \/ (Fenced(x, p) \/ txn[x][p] \in {"fatal", "committing"}) /\ UNCHANGED faults
     \/ ~Fenced(x, p) /\ txn[x][p] \in {"open", "abortable"} /\ Fault
  /\ UNCHANGED <<offsets, txn>>

\* A message of the transaction is not delivered: no further call but an abort.
DeliveryFails(x, p) ==
  /\ txn[x][p] = "open" /\ local[x][p].out # Fresh.out
  /\ tpc[x] \notin Stopped
  /\ Fault
  /\ txn' = [txn EXCEPT ![x][p] = "abortable"]
  /\ UNCHANGED <<proc, cons, local, owner, coord, seen, rebalances, bug>>

-----------------------------------------------------------------------------
(* The consumer's poll: messages, and rebalances through groupRebalance().   *)

\* (CountedOnce: only the first car of an intersection is.)
CountedOnce(x, p, o) ==
  LET n == input[p][o + 1] IN
  IF n = Nil THEN intersectionStates
  ELSE IF intersectionStates[x][n] # Nil THEN intersectionStates
  ELSE [intersectionStates EXCEPT ![x][n] = [partition |-> p, cars |-> <<o>>, kept |-> FALSE]]

\* A car is counted in the state of its intersection, which the first one
\* creates; a message without a key is passed over.
Counted(x, p, o) ==
  LET n == input[p][o + 1]
      old == IF intersectionStates[x][n] # Nil THEN intersectionStates[x][n]
             ELSE [partition |-> p, cars |-> <<>>, kept |-> FALSE]
  IN IF n = Nil THEN intersectionStates
     ELSE [intersectionStates EXCEPT ![x][n] = [old EXCEPT !.cars = Append(@, o)]]

PollMessage(x, p) ==
  /\ tpc[x] = "loop"
  /\ p \in assigned[x] /\ position[x][p] < Len(input[p])
  /\ position' = [position EXCEPT ![x][p] = @ + 1]
  /\ local' = [local EXCEPT ![x][p].read = Append(@, position[x][p])]
  /\ intersectionStates' = Counted(x, p, position[x][p])
  /\ UNCHANGED <<tpc, todo, cur, producers, assigned, rebq, txn, owner, coord, seen, hist>>

\* groupRebalance() goes through the partitions it is given, or through all the
\* producers there are.
PollRebalance(x) ==
  /\ tpc[x] = "loop"
  /\ rebq[x] # Nil
  /\ IF rebq[x].type = "assign"
     THEN TGoto(x, "create") /\ todo' = [todo EXCEPT ![x] = rebq[x].parts]
     ELSE TGoto(x, "destroy") /\ todo' = [todo EXCEPT ![x] = {p \in Partitions : producers[x][p] # Nil}]
  /\ UNCHANGED <<cur, intersectionStates, producers, cons, prod, owner, coord, seen, hist>>

createTransactionalProducer(x, p) ==
  /\ tpc[x] = "create" /\ p \in todo[x]
  /\ \/ /\ InitTransactions(x, p)
        /\ BeginTransaction(x, p)
        /\ todo' = [todo EXCEPT ![x] = @ \ {p}]
        /\ UNCHANGED <<tpc, faults>>
     \/ /\ Fault
        /\ TGoto(x, "dead")
        /\ UNCHANGED <<todo, producers, prod, coord>>
  /\ UNCHANGED <<cur, intersectionStates, cons, owner, seen, rebalances, bug>>

\* (AssignNot: the rebalance is not answered.)
AssignNot(x) ==
  /\ tpc[x] = "create" /\ todo[x] = {}
  /\ rebq' = [rebq EXCEPT ![x] = Nil]
  /\ TGoto(x, "loop")
  /\ UNCHANGED <<todo, cur, intersectionStates, producers, assigned, position, prod, owner, coord, seen, hist>>

\* Only now the consumer is assigned, and looks up where it has to start.
Assign(x) ==
  /\ tpc[x] = "create" /\ todo[x] = {}
  /\ assigned' = [assigned EXCEPT ![x] = rebq[x].parts]
  /\ position' = [position EXCEPT ![x] = [p \in Partitions |-> IF p \in rebq[x].parts THEN committed[p] ELSE @[p]]]
  /\ rebq' = [rebq EXCEPT ![x] = Nil]
  /\ TGoto(x, "loop")
  /\ UNCHANGED <<todo, cur, intersectionStates, producers, prod, owner, coord, seen, hist>>

\* There always is a transaction to abort: its ErrState does not occur.
destroyTransactionalProducer(x, p) ==
  /\ tpc[x] = "destroy" /\ p \in todo[x]
  /\ todo' = [todo EXCEPT ![x] = @ \ {p}]
  /\ \/ AbortOk(x, p) /\ UNCHANGED tpc
     \/ AbortFails(x, p) /\ TGoto(x, "dead")
  /\ UNCHANGED <<cur, intersectionStates, producers, cons, local, owner, input, epoch, ending, seen, rebalances, bug>>

\* The maps of producers and intersections are made anew, and the consumer is
\* unassigned.
Unassign(x) ==
  /\ tpc[x] = "destroy" /\ todo[x] = {}
  /\ producers' = [producers EXCEPT ![x] = [p \in Partitions |-> Nil]]
  /\ intersectionStates' = [intersectionStates EXCEPT ![x] = NoStates]
  /\ assigned' = [assigned EXCEPT ![x] = {}]
  /\ owner' = [p \in Partitions |-> IF owner[p] = x THEN Nil ELSE owner[p]]
  /\ rebq' = [rebq EXCEPT ![x] = Nil]
  /\ TGoto(x, IF rebq[x].type = "close" THEN "done" ELSE "loop")
  /\ UNCHANGED <<todo, cur, position, prod, coord, seen, hist>>

\* The loop is told to stop: the consumer's Close() revokes what it has, which
\* leaves no producers for the code after it.
Terminate(x) ==
  /\ tpc[x] = "loop"
  /\ rebq[x] = Nil
  /\ rebq' = [rebq EXCEPT ![x] = [type |-> "close", parts |-> assigned[x]]]
  /\ TGoto(x, "destroy")
  /\ todo' = [todo EXCEPT ![x] = {p \in Partitions : producers[x][p] # Nil}]
  /\ UNCHANGED <<cur, intersectionStates, producers, assigned, position, prod, owner, coord, seen, hist>>

-----------------------------------------------------------------------------
(* The ticker: one message for every intersection, then one commit for every *)
(* input partition they come from.                                           *)
Messages(x, p) == [n \in Intersections |->
  IF intersectionStates[x][n] = Nil THEN local[x][p].out[n]
  ELSE IF intersectionStates[x][n].partition = p THEN intersectionStates[x][n] ELSE local[x][p].out[n]]

Tick(x) ==
  /\ tpc[x] = "loop"
  /\ PartitionsOf(x) # {}
  /\ \/ /\ \E p \in PartitionsOf(x) : txn[x][p] # "open"
        /\ bug' = (\E p \in PartitionsOf(x) : producers[x][p] = Nil)
        /\ TGoto(x, "dead")
        /\ UNCHANGED <<todo, local>>
     \/ /\ \A p \in PartitionsOf(x) : txn[x][p] = "open"
        /\ local' = [local EXCEPT ![x] = [p \in Partitions |-> [local[x][p] EXCEPT !.out = Messages(x, p)]]]
        /\ TGoto(x, "commit")
        /\ todo' = [todo EXCEPT ![x] = PartitionsOf(x)]
        /\ UNCHANGED bug
  /\ UNCHANGED <<cur, intersectionStates, producers, cons, txn, owner, coord, seen, faults, rebalances>>

\* commitTransactionForInputPartition(): send the consumer's position ...
SendPosition(x, p) ==
  /\ tpc[x] = "commit" /\ p \in todo[x]
  /\ cur' = [cur EXCEPT ![x] = p]
  /\ todo' = [todo EXCEPT ![x] = @ \ {p}]
  /\ \/ SendOffsetsOk(x, p, position[x][p]) /\ TGoto(x, "end")
     \/ CallFails(x, p) /\ TGoto(x, "abort") /\ UNCHANGED offsets
  /\ UNCHANGED <<intersectionStates, producers, cons, local, owner, input, epoch, ending, seen, rebalances, bug>>

\* ... and commit, without a deadline of its own ...
Commit(x) ==
  /\ tpc[x] = "end"
  /\ \/ CommitOk(x, cur[x]) /\ TGoto(x, "begin")
     \/ CallFails(x, cur[x]) /\ TGoto(x, "abort") /\ UNCHANGED <<ending, offsets, seen>>
     \/ CommitTimesOut(x, cur[x]) /\ TGoto(x, "abort")
  /\ UNCHANGED <<todo, cur, intersectionStates, producers, cons, local, owner, input, epoch, rebalances, bug>>

\* ... or, after an error of either, abort: an error of the abort ends the process.
Abort(x) ==
  /\ tpc[x] = "abort"
  /\ \/ AbortOk(x, cur[x]) /\ TGoto(x, "rewind")
     \/ AbortFails(x, cur[x]) /\ TGoto(x, "dead")
  /\ UNCHANGED <<todo, cur, intersectionStates, producers, cons, local, owner, input, epoch, ending, seen, rebalances, bug>>

\* (RewindNot: the consumer goes on where it is.)
RewindNot(x) ==
  /\ tpc[x] = "rewind"
  /\ TGoto(x, "begin")
  /\ UNCHANGED <<todo, cur, intersectionStates, producers, cons, prod, owner, coord, seen, hist>>

\* What was counted stays.
Kept(x, p) == [n \in Intersections |->
  IF intersectionStates[x][n] = Nil \/ intersectionStates[x][n].partition # p THEN intersectionStates[x][n]
  ELSE [intersectionStates[x][n] EXCEPT !.kept = @ \/ position[x][p] # committed[p]]]

\* rewindConsumerPosition(): back to the committed offset.
Rewind(x) ==
  /\ tpc[x] = "rewind"
  /\ \/ /\ position' = [position EXCEPT ![x][cur[x]] = committed[cur[x]]]
        /\ intersectionStates' = [intersectionStates EXCEPT ![x] = Kept(x, cur[x])]
        /\ TGoto(x, "begin")
        /\ UNCHANGED faults
     \/ /\ Fault
        /\ TGoto(x, "dead")
        /\ UNCHANGED <<position, intersectionStates>>
  /\ UNCHANGED <<todo, cur, producers, assigned, rebq, prod, owner, coord, seen, rebalances, bug>>

\* A new transaction is begun in any case.
Begin(x) ==
  /\ tpc[x] = "begin"
  /\ BeginTransaction(x, cur[x])
  /\ TGoto(x, IF todo[x] = {} THEN "loop" ELSE "commit")
  /\ UNCHANGED <<todo, cur, intersectionStates, producers, cons, owner, coord, seen, hist>>

-----------------------------------------------------------------------------
(* The group (external).                                                    *)

Free == {p \in Partitions : owner[p] = Nil /\ input[p] # <<>>}
Alone(x) == \A y \in Procs \ {x} : tpc[y] \in Stopped

\* It hands partitions nobody has to a process that has none, all of them to the
\* last process that runs.
Give(x, ps) ==
  /\ ps # {} /\ ps \subseteq Free
  /\ Alone(x) => ps = Free
  /\ tpc[x] \notin Stopped
  /\ assigned[x] = {} /\ rebq[x] = Nil
  /\ owner' = [p \in Partitions |-> IF p \in ps THEN x ELSE owner[p]]
  /\ rebq' = [rebq EXCEPT ![x] = [type |-> "assign", parts |-> ps]]
  /\ UNCHANGED <<proc, assigned, position, prod, coord, seen, hist>>

\* It wants them back, and waits; or takes a process for dead, and does not.
Revoke(x) ==
  /\ tpc[x] \notin Stopped
  /\ assigned[x] # {} /\ rebq[x] = Nil
  /\ rebq' = [rebq EXCEPT ![x] = [type |-> "revoke", parts |-> assigned[x]]]
  /\ IF Alone(x) /\ Free # {} THEN UNCHANGED rebalances
     ELSE rebalances < MaxRebalances /\ rebalances' = rebalances + 1
  /\ UNCHANGED <<proc, assigned, position, prod, owner, coord, seen, faults, bug>>

Forget(x) ==
  /\ \E p \in Partitions : owner[p] = x
  /\ IF tpc[x] \in Stopped THEN UNCHANGED rebalances
     ELSE rebalances < MaxRebalances /\ rebalances' = rebalances + 1
  /\ owner' = [p \in Partitions |-> IF owner[p] = x THEN Nil ELSE owner[p]]
  /\ UNCHANGED <<proc, cons, prod, coord, seen, faults, bug>>

\* A process that was taken for dead learns of it.
Lost(x) ==
  /\ tpc[x] \notin Stopped
  /\ rebq[x] = Nil /\ \E p \in assigned[x] : owner[p] # x
  /\ rebq' = [rebq EXCEPT ![x] = [type |-> "revoke", parts |-> assigned[x]]]
  /\ UNCHANGED <<proc, assigned, position, prod, owner, coord, seen, hist>>

-----------------------------------------------------------------------------
Poll(x) == PollRebalance(x) \/ \E p \in Partitions : PollMessage(x, p)

\* What a process does once it has begun.
TStep(x) ==
  \/ \E p \in Partitions : \/ createTransactionalProducer(x, p)
                           \/ destroyTransactionalProducer(x, p)
                           \/ SendPosition(x, p)
  \/ Assign(x) \/ Unassign(x) \/ Commit(x) \/ Abort(x) \/ Rewind(x) \/ Begin(x)

Group(x) == Forget(x) \/ Lost(x) \/ \E ps \in SUBSET Partitions : Give(x, ps)

TNext ==
  \/ \E x \in Procs : \/ Poll(x) \/ Tick(x) \/ TStep(x) \/ Terminate(x)
                      \/ Group(x) \/ Revoke(x)
                      \/ \E p \in Partitions : DeliveryFails(x, p)
  \/ \E p \in Partitions : Finish(p)

TSpec == TInit /\ [][TNext]_tvars

\* Calls return, the ticker ticks, and between two ticks there is time for a poll:
\* the transactions of one tick take less than the ticker's 500 ms.  The group
\* notices the dead and gives away what nobody has; the coordinator finishes.
TFair ==
  /\ \A x \in Procs : /\ WF_tvars(TStep(x)) /\ WF_tvars(Tick(x)) /\ SF_tvars(Poll(x))
                      /\ WF_tvars(Group(x)) /\ WF_tvars(Free # {} /\ Revoke(x))
  /\ \A p \in Partitions : WF_tvars(Finish(p))

-----------------------------------------------------------------------------
ProcTypeOK ==
  /\ tpc \in [Procs -> {"loop", "create", "destroy"} \cup Committing \cup Stopped]
  /\ todo \in [Procs -> SUBSET Partitions] /\ cur \in [Procs -> Partitions \cup {Nil}]
  /\ intersectionStates \in [Procs -> [Intersections -> States \cup {Nil}]]

ConsTypeOK ==
  /\ assigned \in [Procs -> SUBSET Partitions] /\ position \in [Procs -> [Partitions -> Nat]]
  /\ rebq \in [Procs -> RebalanceEvents \cup {Nil}]

TxnTypeOK ==
  /\ producers \in [Procs -> [Partitions -> Nat \cup {Nil}]] /\ epoch \in [Partitions -> Nat]
  /\ \A x \in Procs, p \in Partitions : producers[x][p] \in 1 .. epoch[p] \cup {Nil}
  /\ txn \in [Procs -> [Partitions -> {"none", "ready", "open", "abortable", "committing", "fatal"}]]
  /\ local \in [Procs -> [Partitions -> Batches]]
  /\ ending \in [Partitions -> Batches \cup {Nil}] /\ offsets \in [Partitions -> Nat \cup {Nil}]

SeenTypeOK ==
  /\ input \in [Partitions -> Seq(Intersections \cup {Nil})]
  /\ committed \in [Partitions -> Nat] /\ done \in [Partitions -> Seq(Nat)]
  /\ output \in [Intersections -> States \cup {Nil}] /\ bug \in BOOLEAN

\* Types: a producer has an epoch that the coordinator has given out.
TTypeOK == ProcTypeOK /\ ConsTypeOK /\ TxnTypeOK /\ SeenTypeOK

\* Exactly once: the transactions that were committed for an input partition have
\* read its messages one after the other, each once, up to the group's offset,
\* whatever was aborted, revoked, fenced or left behind (txnhelpers.go:178-225).
ExactlyOnce == \A p \in Partitions : done[p] = [i \in 1 .. committed[p] |-> i - 1]

\* No process stops at "BUG: No producer for intersection": states of
\* intersections do not outlive the producer of their partition
\* (processor.go:190-193, txnhelpers.go:119-121).
NoBug == ~bug

\* A process has a producer for every partition it reads (txnhelpers.go:102-113), and
\* neither it nor the group is beyond what was written to one.
InBounds ==
  /\ \A x \in Procs : \A p \in assigned[x] : producers[x][p] # Nil
  /\ \A p \in Partitions : /\ committed[p] <= Len(input[p])
                            /\ \A x \in Procs : position[x][p] <= Len(input[p])

\* The cars of r are those of intersection n in the input, from the first that was counted up to
\* offset e, in the order of the input.
CountsUpTo(in, n, r, e) ==
  /\ r.cars # <<>>
  /\ \A i, j \in 1 .. Len(r.cars) : i < j => r.cars[i] < r.cars[j]
  /\ \A i \in 1 .. Len(r.cars) : r.cars[i] < e /\ in[r.partition][r.cars[i] + 1] = n
  /\ \A o \in r.cars[1] .. e - 1 : in[r.partition][o + 1] = n => \E i \in 1 .. Len(r.cars) : r.cars[i] = o

\* What readers see of an intersection is what was read of its input up to the
\* group's offset, since the process that wrote it began: output and offsets move
\* together (processor.go:179-238).  Not so after an abort, which leaves the counts
\* as they are.
OutputMatchesOffsets ==
  /\ TTypeOK /\ InBounds /\ NoBug
  /\ \A n \in Intersections :
       output[n] # Nil /\ ~output[n].kept => CountsUpTo(input, n, output[n], committed[output[n].partition])

\* Every input is committed in the end, unless every process has stopped.
Processed == \/ <>(\A p \in Partitions : committed[p] = Len(input[p]))
             \/ <>(\A x \in Procs : tpc[x] \in Stopped)
=============================================================================
