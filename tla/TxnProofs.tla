------------------------------ MODULE TxnProofs ------------------------------
(***************************************************************************)
(* For any processes, partitions, input and number of faults: committed     *)
(* transactions have read every message of a partition once, and what they  *)
(* wrote matches the group's offsets.                                       *)
(***************************************************************************)
EXTENDS TxnProcessor, TLAPS

USE Zenon

-----------------------------------------------------------------------------
(* The inductive invariant: what holds of each process x, of each partition *)
(* p, and of both.                                                          *)

\* The offsets from a up to b.
Span(a, b) == [i \in 1 .. b - a |-> a + i - 1]

\* The producer of x for p is the one the coordinator listens to, and its
\* transaction is open.
Open(x, p) == ~Fenced(x, p) /\ txn[x][p] = "open"

\* The coordinator listens to one producer for each partition.
OneProducer == \A x, y \in Procs, p \in Partitions : ~Fenced(x, p) /\ ~Fenced(y, p) => x = y

\* A process is given partitions while it has none, and assigns them when it has
\* made their producers.
RebalanceInv(x) ==
  /\ rebq[x] # Nil /\ rebq[x].type = "assign" => assigned[x] = {}
  /\ tpc[x] = "create" => /\ rebq[x] # Nil /\ rebq[x].type = "assign"
                          /\ \A p \in rebq[x].parts \ todo[x] : producers[x][p] # Nil
  /\ \A p \in assigned[x] : producers[x][p] # Nil

\* What is counted and what is committed is of a partition that is assigned.
LoopInv(x) ==
  /\ \A n \in Intersections : intersectionStates[x][n] # Nil => intersectionStates[x][n].partition \in assigned[x]
  /\ tpc[x] \in Committing => todo[x] \subseteq assigned[x]
  /\ tpc[x] \in Committing \ {"commit"} => cur[x] \in assigned[x] /\ cur[x] \notin todo[x]

PositionInv(x) == \A p \in Partitions : position[x][p] <= Len(input[p])

\* The steps of commitTransactionForInputPartition().
PhaseInv(x) ==
  /\ tpc[x] = "end" /\ Open(x, cur[x]) => offsets[cur[x]] = position[x][cur[x]]
  /\ tpc[x] = "abort" => ~Open(x, cur[x])
  /\ tpc[x] \in {"rewind", "begin"} /\ ~Fenced(x, cur[x]) => txn[x][cur[x]] = "ready"
  /\ tpc[x] = "begin" /\ ~Fenced(x, cur[x]) => position[x][cur[x]] = committed[cur[x]]

\* An open transaction has read from the group's offset to the consumer's position.
ReadInv(x, p) == Open(x, p) =>
  IF p \in assigned[x] THEN /\ committed[p] <= position[x][p]
                            /\ local[x][p].read = Span(committed[p], position[x][p])
                       ELSE local[x][p].read = <<>>

\* What a process has counted is what it has read ...
StateInv(x, n) == intersectionStates[x][n] # Nil =>
  LET s == intersectionStates[x][n] IN
  /\ \E i \in 1 .. Len(input[s.partition]) : input[s.partition][i] = n
  /\ ~s.kept => CountsUpTo(input, n, s, position[x][s.partition])

\* ... all an open transaction has read is counted ...
CountedInv(x, p) == Open(x, p) /\ p \in assigned[x] =>
  \A o \in committed[p] .. position[x][p] - 1 :
    input[p][o + 1] # Nil => intersectionStates[x][input[p][o + 1]] # Nil

\* ... and it has the states of its partition as messages, between the ticker that
\* wrote them and their commit.
Pending(x) == IF tpc[x] \notin Committing THEN {}
              ELSE todo[x] \cup IF tpc[x] = "end" THEN {cur[x]} ELSE {}
OutInv(x, p) == tpc[x] \notin Stopped /\ Open(x, p) =>
  \A n \in Intersections :
    LET s == intersectionStates[x][n] IN
    local[x][p].out[n] = IF p \in Pending(x) /\ s # Nil /\ s.partition = p THEN s ELSE Nil

ProcInv(x) ==
  /\ RebalanceInv(x) /\ LoopInv(x) /\ PositionInv(x) /\ PhaseInv(x)
  /\ \A n \in Intersections : StateInv(x, n)
  /\ \A p \in Partitions : ReadInv(x, p) /\ CountedInv(x, p) /\ OutInv(x, p)

\* A commit that is being finished has read up to its offsets, and the producer that
\* asked for it can do no more ...
EndInv(p) == ending[p] # Nil =>
  /\ offsets[p] \in Nat /\ committed[p] <= offsets[p] /\ offsets[p] <= Len(input[p])
  /\ ending[p].read = Span(committed[p], offsets[p])
  /\ \A x \in Procs : ~Fenced(x, p) => txn[x][p] = "committing"

\* ... and it has a message for all it has read.
Holds(p, out, e) ==
  /\ \A n \in Intersections : out[n] # Nil =>
       out[n].partition = p /\ (~out[n].kept => CountsUpTo(input, n, out[n], e))
  /\ \A o \in committed[p] .. e - 1 : input[p][o + 1] # Nil => out[input[p][o + 1]] # Nil
EndOutInv(p) == ending[p] # Nil => Holds(p, ending[p].out, offsets[p])

DoneInv(p) == done[p] = [i \in 1 .. committed[p] |-> i - 1] /\ committed[p] <= Len(input[p])

PartInv(p) == EndInv(p) /\ EndOutInv(p) /\ DoneInv(p)

OutputInv == \A n \in Intersections :
  output[n] # Nil /\ ~output[n].kept => CountsUpTo(input, n, output[n], committed[output[n].partition])

TInv ==
  /\ TTypeOK /\ Keyed(input) /\ NoBug /\ OneProducer
  /\ \A x \in Procs : ProcInv(x)
  /\ \A p \in Partitions : PartInv(p)
  /\ OutputInv

-----------------------------------------------------------------------------
LEMMA NilFacts ==
  Nil \notin Nat /\ Nil \notin States /\ Nil \notin RebalanceEvents /\ Nil \notin Intersections
  BY TxnConstants

(* Offsets from one to another.                                             *)
LEMMA SpanSeq == ASSUME NEW a \in Nat, NEW b \in Nat PROVE Span(a, b) \in Seq(Nat)
  <1>1. CASE a <= b
    <2>1. \A i \in 1 .. b - a : a + i - 1 \in Nat
      BY SMT
    <2> QED BY <1>1, <2>1, SMT DEF Span
  <1>2. CASE b < a
    BY <1>2, SMT DEF Span
  <1> QED BY <1>1, <1>2, SMT

LEMMA SpanEmpty == ASSUME NEW a \in Nat PROVE Span(a, a) = <<>>
  BY SMT DEF Span

LEMMA SpanAppend ==
  ASSUME NEW a \in Nat, NEW b \in Nat, a <= b PROVE Append(Span(a, b), b) = Span(a, b + 1)
  <1>1. Span(a, b) \in Seq(Nat) /\ Len(Span(a, b)) = b - a
    BY SpanSeq, SMT DEF Span
  <1>2. Len(Append(Span(a, b), b)) = b + 1 - a /\ DOMAIN Append(Span(a, b), b) = 1 .. b + 1 - a
    BY <1>1, SMT
  <1>3. \A i \in 1 .. b + 1 - a : Append(Span(a, b), b)[i] = a + i - 1
    BY <1>1, SMT DEF Span
  <1>4. Append(Span(a, b), b) \in Seq(Nat)
    BY <1>1, SMT
  <1> QED BY <1>2, <1>3, <1>4, SMT DEF Span

LEMMA SpanJoin ==
  ASSUME NEW a \in Nat, NEW b \in Nat, a <= b
  PROVE  [i \in 1 .. a |-> i - 1] \o Span(a, b) = [i \in 1 .. b |-> i - 1]
  <1> DEFINE s == [i \in 1 .. a |-> i - 1]
  <1>1. s \in Seq(Nat) /\ Len(s) = a
    BY SMT
  <1>2. Span(a, b) \in Seq(Nat) /\ Len(Span(a, b)) = b - a
    BY SpanSeq, SMT DEF Span
  <1>3. s \o Span(a, b) \in Seq(Nat) /\ Len(s \o Span(a, b)) = b /\ DOMAIN (s \o Span(a, b)) = 1 .. b
    BY <1>1, <1>2, SMT
  <1>4. \A i \in 1 .. b : (s \o Span(a, b))[i] = i - 1
    BY <1>1, <1>2, SMT DEF Span
  <1> HIDE DEF s
  <1>5. \A t \in Seq(Nat) : DOMAIN t = 1 .. b /\ (\A i \in 1 .. b : t[i] = i - 1) => t = [i \in 1 .. b |-> i - 1]
    BY SMT
  <1> QED BY <1>3, <1>4, <1>5 DEF s

-----------------------------------------------------------------------------
(* What a step leaves alone.                                                *)

\* The step leaves what process x has, and what there is of partition p, alone.
SameProc(x) ==
  /\ tpc'[x] = tpc[x] /\ todo'[x] = todo[x] /\ cur'[x] = cur[x] /\ rebq'[x] = rebq[x]
  /\ intersectionStates'[x] = intersectionStates[x] /\ producers'[x] = producers[x]
  /\ assigned'[x] = assigned[x] /\ position'[x] = position[x]
  /\ txn'[x] = txn[x] /\ local'[x] = local[x]
SamePart(p) == epoch'[p] = epoch[p] /\ offsets'[p] = offsets[p] /\ committed'[p] = committed[p]

LEMMA OpenSame ==
  ASSUME NEW x, NEW p, producers'[x][p] = producers[x][p], epoch'[p] = epoch[p], txn'[x][p] = txn[x][p]
  PROVE  Fenced(x, p)' = Fenced(x, p) /\ Open(x, p)' = Open(x, p)
  BY DEF Fenced, Open

LEMMA PhaseSame ==
  ASSUME NEW x, PhaseInv(x), tpc'[x] = tpc[x], cur'[x] = cur[x], position'[x] = position[x],
         \/ Fenced(x, cur[x])'
         \/ /\ Fenced(x, cur[x])' = Fenced(x, cur[x]) /\ txn'[x][cur[x]] = txn[x][cur[x]]
            /\ offsets'[cur[x]] = offsets[cur[x]] /\ committed'[cur[x]] = committed[cur[x]]
  PROVE  PhaseInv(x)'
  BY DEF PhaseInv, Open, Fenced

LEMMA ReadSame ==
  ASSUME NEW x, NEW p, ReadInv(x, p), assigned'[x] = assigned[x],
         \/ ~Open(x, p)'
         \/ /\ Open(x, p)' = Open(x, p) /\ committed'[p] = committed[p]
            /\ position'[x][p] = position[x][p] /\ local'[x][p].read = local[x][p].read
  PROVE  ReadInv(x, p)'
  BY DEF ReadInv, Open, Fenced

LEMMA StateSame ==
  ASSUME NEW x, NEW n, StateInv(x, n), UNCHANGED input,
         intersectionStates'[x][n] = intersectionStates[x][n],
         intersectionStates[x][n] # Nil => position'[x][intersectionStates[x][n].partition] = position[x][intersectionStates[x][n].partition]
  PROVE  StateInv(x, n)'
  BY DEF StateInv

LEMMA CountedSame ==
  ASSUME NEW x, NEW p, CountedInv(x, p), UNCHANGED input, assigned'[x] = assigned[x],
         intersectionStates'[x] = intersectionStates[x],
         \/ ~Open(x, p)'
         \/ /\ Open(x, p)' = Open(x, p) /\ committed'[p] = committed[p]
            /\ position'[x][p] = position[x][p]
  PROVE  CountedInv(x, p)'
  BY DEF CountedInv, Open, Fenced

LEMMA OutSame ==
  ASSUME NEW x, NEW p, OutInv(x, p), intersectionStates'[x] = intersectionStates[x],
         \/ ~Open(x, p)'
         \/ tpc'[x] \in Stopped
         \/ /\ tpc[x] \notin Stopped /\ (p \in Pending(x))' = (p \in Pending(x))
            /\ Open(x, p)' = Open(x, p) /\ local'[x][p].out = local[x][p].out
  PROVE  OutInv(x, p)'
  BY DEF OutInv, Open, Fenced

\* What there is of a process stays if the step changes nothing of it, nor of a
\* partition that the coordinator lets it write to, unless it waits for a commit.
LEMMA OthersKeep ==
  ASSUME TInv, UNCHANGED input, NEW y \in Procs, SameProc(y),
         \A p \in Partitions : \/ SamePart(p) \/ Fenced(y, p)'
                               \/ epoch'[p] = epoch[p] /\ txn[y][p] = "committing"
  PROVE  ProcInv(y)'
  <1>1. ProcInv(y)
    BY DEF TInv
  <1>2. RebalanceInv(y)' /\ LoopInv(y)' /\ PositionInv(y)'
    BY <1>1 DEF ProcInv, SameProc, RebalanceInv, LoopInv, PositionInv
  <1>3. ASSUME NEW p \in Partitions
        PROVE  \/ Fenced(y, p)'
               \/ SamePart(p) /\ Fenced(y, p)' = Fenced(y, p) /\ Open(y, p)' = Open(y, p)
               \/ Fenced(y, p)' = Fenced(y, p) /\ txn'[y][p] = "committing" /\ txn[y][p] = "committing"
    BY OpenSame DEF SameProc, SamePart
  <1>4. PhaseInv(y)'
    <2>1. CASE tpc[y] \in Committing \ {"commit"}
      <3>1. cur[y] \in Partitions
        BY <1>1, <2>1 DEF ProcInv, LoopInv, TInv, TTypeOK, ConsTypeOK
      <3>2. CASE Fenced(y, cur[y])' = Fenced(y, cur[y]) /\ txn'[y][cur[y]] = "committing" /\ txn[y][cur[y]] = "committing"
        BY <1>1, <3>2 DEF ProcInv, PhaseInv, SameProc, Open, Fenced
      <3> QED BY <1>1, <1>3, <3>1, <3>2, PhaseSame DEF ProcInv, SameProc, SamePart
    <2>2. CASE tpc[y] \notin Committing \ {"commit"}
      BY <2>2 DEF PhaseInv, SameProc, Committing
    <2> QED BY <2>1, <2>2
  <1>5. ASSUME NEW n \in Intersections PROVE StateInv(y, n)'
    BY <1>1, StateSame DEF ProcInv, SameProc
  <1>6. ASSUME NEW p \in Partitions PROVE ReadInv(y, p)' /\ CountedInv(y, p)' /\ OutInv(y, p)'
    <2>1. \/ ~Open(y, p)'
          \/ SamePart(p) /\ Open(y, p)' = Open(y, p)
      BY <1>3 DEF Open, Fenced
    <2>2. ReadInv(y, p)'
      BY <1>1, <2>1, ReadSame DEF ProcInv, SameProc, SamePart
    <2>3. CountedInv(y, p)'
      BY <1>1, <2>1, CountedSame DEF ProcInv, SameProc, SamePart
    <2>4. (p \in Pending(y))' = (p \in Pending(y))
      BY DEF SameProc, Pending
    <2>5. OutInv(y, p)'
      BY <1>1, <2>1, <2>4, OutSame DEF ProcInv, SameProc
    <2> QED BY <2>2, <2>3, <2>5
  <1> QED BY <1>2, <1>4, <1>5, <1>6 DEF ProcInv

LEMMA PartKeep ==
  ASSUME NEW p \in Partitions, PartInv(p), UNCHANGED input,
         offsets'[p] = offsets[p], committed'[p] = committed[p], done'[p] = done[p],
         ending'[p] = ending[p],
         ending[p] # Nil => \A x \in Procs : ~Fenced(x, p)' => ~Fenced(x, p) /\ txn'[x][p] = txn[x][p]
  PROVE  PartInv(p)'
  <1>1. EndInv(p)'
    BY DEF PartInv, EndInv, Fenced
  <1>2. EndOutInv(p)'
    BY DEF PartInv, EndOutInv, Holds
  <1>3. DoneInv(p)'
    BY DEF PartInv, DoneInv
  <1> QED BY <1>1, <1>2, <1>3 DEF PartInv

LEMMA OutputKeep ==
  ASSUME OutputInv, UNCHANGED <<input, output, committed>> PROVE OutputInv'
  BY DEF OutputInv

\* A step of x that changes nothing of the brokers, nor of a transaction that they
\* are about to finish.
LEMMA ProcStep ==
  ASSUME TInv, NEW x \in Procs, TTypeOK', ProcInv(x)',
         UNCHANGED <<input, epoch, ending, offsets, committed, done, output, bug>>,
         \A y \in Procs \ {x} : SameProc(y),
         \A p \in Partitions : producers'[x][p] \in {producers[x][p], Nil},
         \A p \in Partitions : ending[p] # Nil /\ ~Fenced(x, p)' => txn'[x][p] = txn[x][p]
  PROVE  TInv'
  <1>1. \A y \in Procs, p \in Partitions : ~Fenced(y, p)' => ~Fenced(y, p)
    <2> SUFFICES ASSUME NEW y \in Procs, NEW p \in Partitions, ~Fenced(y, p)' PROVE ~Fenced(y, p)
      OBVIOUS
    <2>1. epoch'[p] = epoch[p] /\ epoch[p] \in Nat
      BY DEF TInv, TTypeOK, TxnTypeOK
    <2>2. producers'[y][p] \in {producers[y][p], Nil}
      BY DEF SameProc
    <2> QED BY <2>1, <2>2, NilFacts DEF Fenced
  <1>2. OneProducer'
    BY <1>1 DEF TInv, OneProducer
  <1>3. ASSUME NEW y \in Procs PROVE ProcInv(y)'
    <2>1. CASE y # x
      BY <2>1, OthersKeep DEF SamePart
    <2> QED BY <2>1
  <1>4. ASSUME NEW p \in Partitions PROVE PartInv(p)'
    <2>1. \A y \in Procs : ending[p] # Nil /\ ~Fenced(y, p)' => txn'[y][p] = txn[y][p]
      BY DEF SameProc
    <2> QED BY <1>1, <2>1, PartKeep DEF TInv
  <1>5. OutputInv'
    BY OutputKeep DEF TInv
  <1>6. NoBug' /\ Keyed(input)'
    BY DEF TInv, NoBug, Keyed
  <1> QED BY <1>2, <1>3, <1>4, <1>5, <1>6 DEF TInv

\* A step of x that changes what the brokers have of p, which nobody else may write to.
LEMMA PartStep ==
  ASSUME TInv, NEW x \in Procs, NEW p \in Partitions, TTypeOK', ProcInv(x)', PartInv(p)', OutputInv',
         UNCHANGED <<input, bug>>,
         \A y \in Procs \ {x} : SameProc(y) /\ Fenced(y, p)',
         \A q \in Partitions \ {p} : /\ SamePart(q) /\ ending'[q] = ending[q] /\ done'[q] = done[q]
                                     /\ producers'[x][q] = producers[x][q] /\ txn'[x][q] = txn[x][q]
  PROVE  TInv'
  <1>1. ASSUME NEW q \in Partitions \ {p}, NEW y \in Procs
        PROVE  Fenced(y, q)' = Fenced(y, q) /\ txn'[y][q] = txn[y][q]
    <2>1. producers'[y][q] = producers[y][q] /\ txn'[y][q] = txn[y][q]
      BY DEF SameProc
    <2>2. epoch'[q] = epoch[q]
      BY DEF SamePart
    <2> QED BY <2>1, <2>2, OpenSame
  <1>2. OneProducer'
    BY <1>1 DEF TInv, OneProducer
  <1>3. ASSUME NEW y \in Procs PROVE ProcInv(y)'
    <2>1. CASE y # x
      BY <2>1, OthersKeep
    <2> QED BY <2>1
  <1>4. ASSUME NEW q \in Partitions PROVE PartInv(q)'
    <2>1. CASE q # p
      BY <1>1, <2>1, PartKeep DEF TInv, SamePart
    <2> QED BY <2>1
  <1>5. NoBug' /\ Keyed(input)'
    BY DEF TInv, NoBug, Keyed
  <1> QED BY <1>2, <1>3, <1>4, <1>5 DEF TInv

\* The producers of the others are fenced where x has one that is not.
LEMMA OthersFenced ==
  ASSUME TInv, NEW x \in Procs, NEW p \in Partitions, ~Fenced(x, p), UNCHANGED <<producers, epoch>>
  PROVE  /\ \A y \in Procs \ {x} : Fenced(y, p)'
         /\ ~Fenced(x, p)'
  BY DEF TInv, OneProducer, Fenced

\* What of a process does not depend on its events ...
LEMMA EventStep ==
  ASSUME TInv, NEW x \in Procs, RebalanceInv(x)',
         UNCHANGED <<tpc, todo, cur, intersectionStates, producers, assigned, position, txn, local,
                     input, epoch, offsets, committed>>
  PROVE  ProcInv(x)'
  <1>1. ProcInv(x)
    BY DEF TInv
  <1>2. LoopInv(x)' /\ PositionInv(x)' /\ PhaseInv(x)'
    BY <1>1 DEF ProcInv, LoopInv, PositionInv, PhaseInv, Open, Fenced
  <1>3. ASSUME NEW n \in Intersections PROVE StateInv(x, n)'
    BY <1>1, StateSame DEF ProcInv
  <1>4. ASSUME NEW p \in Partitions PROVE ReadInv(x, p)' /\ CountedInv(x, p)' /\ OutInv(x, p)'
    BY <1>1 DEF ProcInv, ReadInv, CountedInv, OutInv, Open, Fenced, Pending
  <1> QED BY <1>2, <1>3, <1>4 DEF ProcInv

\* ... and the program counter of one that stops.
LEMMA DeadStep ==
  ASSUME TInv, NEW x \in Procs, tpc'[x] = "dead",
         UNCHANGED <<intersectionStates, cons, producers, txn, local, input, epoch, committed>>
  PROVE  ProcInv(x)'
  <1>1. ProcInv(x)
    BY DEF TInv
  <1>2. RebalanceInv(x)' /\ LoopInv(x)' /\ PositionInv(x)' /\ PhaseInv(x)'
    BY <1>1 DEF ProcInv, RebalanceInv, LoopInv, PositionInv, PhaseInv, cons, Committing
  <1>3. ASSUME NEW n \in Intersections PROVE StateInv(x, n)'
    BY <1>1, StateSame DEF ProcInv, cons
  <1>4. ASSUME NEW p \in Partitions PROVE ReadInv(x, p)' /\ CountedInv(x, p)' /\ OutInv(x, p)'
    BY <1>1 DEF ProcInv, ReadInv, CountedInv, OutInv, Open, Fenced, Stopped, cons
  <1> QED BY <1>2, <1>3, <1>4 DEF ProcInv

-----------------------------------------------------------------------------
(* The group.                                                               *)

LEMMA GroupKeeps ==
  ASSUME TInv, NEW x \in Procs, Group(x) \/ Revoke(x) PROVE TInv'
  <1>1. /\ UNCHANGED <<proc, assigned, position, prod, coord, seen, bug>>
        /\ \A y \in Procs \ {x} : rebq'[y] = rebq[y]
    BY DEF Group, Forget, Lost, Give, Revoke, cons, hist, TInv, TTypeOK, ConsTypeOK
  <1>2. \/ rebq' = rebq
        \/ \E ps \in SUBSET Partitions : /\ assigned[x] = {} /\ rebq[x] = Nil
                                         /\ rebq' = [rebq EXCEPT ![x] = [type |-> "assign", parts |-> ps]]
        \/ rebq[x] = Nil /\ rebq' = [rebq EXCEPT ![x] = [type |-> "revoke", parts |-> assigned[x]]]
    BY DEF Group, Forget, Lost, Give, Revoke, cons
  <1>3. TTypeOK'
    <2>1. rebq' \in [Procs -> RebalanceEvents \cup {Nil}]
      BY <1>2, SMT DEF RebalanceEvents, TInv, TTypeOK, ConsTypeOK
    <2> QED BY <1>1, <2>1 DEF TInv, TTypeOK, ProcTypeOK, ConsTypeOK, TxnTypeOK, SeenTypeOK, proc, prod, coord, seen
  <1>4. RebalanceInv(x)'
    <2>1. RebalanceInv(x)
      BY DEF TInv, ProcInv
    <2>2. /\ rebq'[x] # Nil /\ rebq'[x].type = "assign" => assigned[x] = {}
          /\ rebq[x] # Nil => rebq'[x] = rebq[x]
      BY <1>2, <2>1, SMT DEF RebalanceInv, TInv, TTypeOK, ConsTypeOK
    <2>3. UNCHANGED <<assigned, tpc, todo, producers>>
      BY <1>1 DEF proc
    <2> QED BY <2>1, <2>2, <2>3 DEF RebalanceInv
  <1>5. ProcInv(x)'
    BY <1>1, <1>4, EventStep DEF proc, prod, coord, seen
  <1> QED BY <1>1, <1>3, <1>5, ProcStep DEF SameProc, proc, prod, coord, seen

-----------------------------------------------------------------------------
(* Rebalances: groupRebalance() between its calls to the brokers.           *)

\* A call of the event loop that neither reads nor writes only moves the counter.
LEMMA MoveStep ==
  ASSUME TInv, NEW x \in Procs, RebalanceInv(x)', tpc[x] = "loop", tpc'[x] \in {"create", "destroy"},
         UNCHANGED <<cur, intersectionStates, producers, assigned, position, txn, local,
                     input, epoch, offsets, committed>>
  PROVE  ProcInv(x)'
  <1>1. ProcInv(x)
    BY DEF TInv
  <1>2. tpc[x] \notin Committing /\ tpc'[x] \notin Committing /\ tpc[x] \notin Stopped
    BY DEF Committing, Stopped
  <1>3. LoopInv(x)' /\ PositionInv(x)' /\ PhaseInv(x)'
    BY <1>1, <1>2 DEF ProcInv, LoopInv, PositionInv, PhaseInv, Committing
  <1>4. ASSUME NEW n \in Intersections PROVE StateInv(x, n)'
    BY <1>1, StateSame DEF ProcInv
  <1>5. ASSUME NEW p \in Partitions PROVE ReadInv(x, p)' /\ CountedInv(x, p)' /\ OutInv(x, p)'
    BY <1>1, <1>2 DEF ProcInv, ReadInv, CountedInv, OutInv, Open, Fenced, Pending
  <1> QED BY <1>3, <1>4, <1>5 DEF ProcInv

LEMMA PollRebalanceKeeps ==
  ASSUME TInv, NEW x \in Procs, PollRebalance(x) PROVE TInv'
  <1>1. UNCHANGED <<cur, intersectionStates, producers, cons, prod, coord, seen, bug>>
    BY DEF PollRebalance, hist
  <1>2. /\ tpc[x] = "loop" /\ tpc' = [tpc EXCEPT ![x] = IF rebq[x].type = "assign" THEN "create" ELSE "destroy"]
        /\ rebq[x].type = "assign" => todo' = [todo EXCEPT ![x] = rebq[x].parts]
        /\ rebq[x].type # "assign" => todo' = [todo EXCEPT ![x] = {p \in Partitions : producers[x][p] # Nil}]
        /\ rebq[x] # Nil
    BY DEF PollRebalance, TGoto
  <1>3. TTypeOK'
    <2>1. rebq[x] \in RebalanceEvents
      BY <1>2 DEF TInv, TTypeOK, ConsTypeOK
    <2>2. tpc' \in [Procs -> {"loop", "create", "destroy"} \cup Committing \cup Stopped]
      BY <1>2, SMT DEF TInv, TTypeOK, ProcTypeOK
    <2>3. todo' \in [Procs -> SUBSET Partitions]
      <3>1. rebq[x].parts \in SUBSET Partitions
        BY <2>1, SMT DEF RebalanceEvents
      <3>2. \E T \in SUBSET Partitions : todo' = [todo EXCEPT ![x] = T]
        BY <1>2, <3>1
      <3> QED BY <3>2, SMT DEF TInv, TTypeOK, ProcTypeOK
    <2> QED BY <1>1, <2>2, <2>3 DEF TInv, TTypeOK, ProcTypeOK, ConsTypeOK, TxnTypeOK, SeenTypeOK, cons, prod, coord, seen
  <1>4. tpc'[x] = (IF rebq[x].type = "assign" THEN "create" ELSE "destroy")
    BY <1>2 DEF TInv, TTypeOK, ProcTypeOK
  <1>5. RebalanceInv(x)'
    <2>1. RebalanceInv(x)
      BY DEF TInv, ProcInv
    <2>2. rebq[x].type = "assign" => todo'[x] = rebq[x].parts
      BY <1>2 DEF TInv, TTypeOK, ProcTypeOK
    <2>3. UNCHANGED <<rebq, assigned, producers>>
      BY <1>1 DEF cons
    <2>4. CASE rebq[x].type = "assign"
      BY <1>2, <1>4, <2>1, <2>2, <2>3, <2>4 DEF RebalanceInv
    <2>5. CASE rebq[x].type # "assign"
      <3>1. tpc'[x] # "create"
        BY <1>4, <2>5
      <3> QED BY <2>1, <2>3, <3>1 DEF RebalanceInv
    <2> QED BY <2>4, <2>5
  <1>6. ProcInv(x)'
    BY <1>1, <1>2, <1>4, <1>5, MoveStep DEF cons, prod, coord, seen
  <1>7. \A y \in Procs \ {x} : tpc'[y] = tpc[y] /\ todo'[y] = todo[y]
    BY <1>2 DEF TInv, TTypeOK, ProcTypeOK
  <1> QED BY <1>1, <1>3, <1>6, <1>7, ProcStep DEF SameProc, cons, prod, coord, seen

LEMMA TerminateKeeps ==
  ASSUME TInv, NEW x \in Procs, Terminate(x) PROVE TInv'
  <1>1. UNCHANGED <<cur, intersectionStates, producers, assigned, position, prod, coord, seen, bug>>
    BY DEF Terminate, hist
  <1>2. /\ tpc[x] = "loop" /\ tpc' = [tpc EXCEPT ![x] = "destroy"]
        /\ todo' = [todo EXCEPT ![x] = {p \in Partitions : producers[x][p] # Nil}]
        /\ rebq' = [rebq EXCEPT ![x] = [type |-> "close", parts |-> assigned[x]]]
    BY DEF Terminate, TGoto
  <1>3. TTypeOK'
    <2>1. tpc' \in [Procs -> {"loop", "create", "destroy"} \cup Committing \cup Stopped]
      BY <1>2, SMT DEF TInv, TTypeOK, ProcTypeOK
    <2>2. todo' \in [Procs -> SUBSET Partitions]
      BY <1>2, SMT DEF TInv, TTypeOK, ProcTypeOK
    <2>3. rebq' \in [Procs -> RebalanceEvents \cup {Nil}]
      BY <1>2, SMT DEF RebalanceEvents, TInv, TTypeOK, ConsTypeOK
    <2> QED BY <1>1, <2>1, <2>2, <2>3 DEF TInv, TTypeOK, ProcTypeOK, ConsTypeOK, TxnTypeOK, SeenTypeOK, prod, coord, seen
  <1>4. tpc'[x] = "destroy" /\ rebq'[x].type = "close"
    BY <1>2, SMT DEF TInv, TTypeOK, ProcTypeOK, ConsTypeOK
  <1>5. RebalanceInv(x)'
    BY <1>1, <1>4 DEF RebalanceInv, TInv, ProcInv
  <1>6. ProcInv(x)'
    BY <1>1, <1>2, <1>4, <1>5, MoveStep DEF prod, coord, seen
  <1>7. \A y \in Procs \ {x} : tpc'[y] = tpc[y] /\ todo'[y] = todo[y] /\ rebq'[y] = rebq[y]
    BY <1>2 DEF TInv, TTypeOK, ProcTypeOK, ConsTypeOK
  <1> QED BY <1>1, <1>3, <1>6, <1>7, ProcStep DEF SameProc, prod, coord, seen

\* Assign starts at the group's offsets, with nothing read or counted.
LEMMA AssignKeeps ==
  ASSUME TInv, NEW x \in Procs, Assign(x) PROVE TInv'
  <1>1. UNCHANGED <<todo, cur, intersectionStates, producers, prod, coord, seen, bug>>
    BY DEF Assign, hist
  <1>2. /\ tpc[x] = "create" /\ todo[x] = {} /\ tpc' = [tpc EXCEPT ![x] = "loop"]
        /\ assigned' = [assigned EXCEPT ![x] = rebq[x].parts]
        /\ position' = [position EXCEPT ![x] = [p \in Partitions |-> IF p \in rebq[x].parts THEN committed[p] ELSE position[x][p]]]
        /\ rebq' = [rebq EXCEPT ![x] = Nil]
    BY DEF Assign, TGoto, TInv, TTypeOK, ConsTypeOK
  <1>3. /\ rebq[x] \in RebalanceEvents /\ rebq[x].parts \subseteq Partitions /\ assigned[x] = {}
        /\ \A p \in rebq[x].parts : producers[x][p] # Nil
    <2>1. rebq[x] # Nil /\ rebq[x].type = "assign" /\ assigned[x] = {} /\ \A p \in rebq[x].parts : producers[x][p] # Nil
      BY <1>2 DEF TInv, ProcInv, RebalanceInv
    <2>2. rebq[x] \in RebalanceEvents
      BY <2>1 DEF TInv, TTypeOK, ConsTypeOK
    <2>3. rebq[x].parts \subseteq Partitions
      BY <2>2, SMT DEF RebalanceEvents
    <2> QED BY <2>1, <2>2, <2>3
  <1>4. TTypeOK'
    <2>1. tpc' \in [Procs -> {"loop", "create", "destroy"} \cup Committing \cup Stopped]
      BY <1>2, SMT DEF TInv, TTypeOK, ProcTypeOK
    <2>2. assigned' \in [Procs -> SUBSET Partitions] /\ rebq' \in [Procs -> RebalanceEvents \cup {Nil}]
      BY <1>2, <1>3, SMT DEF TInv, TTypeOK, ConsTypeOK
    <2>3. position' \in [Procs -> [Partitions -> Nat]]
      <3>1. [p \in Partitions |-> IF p \in rebq[x].parts THEN committed[p] ELSE position[x][p]] \in [Partitions -> Nat]
        BY SMT DEF TInv, TTypeOK, ConsTypeOK, SeenTypeOK
      <3> QED BY <1>2, <3>1, SMT DEF TInv, TTypeOK, ConsTypeOK
    <2> QED BY <1>1, <2>1, <2>2, <2>3 DEF TInv, TTypeOK, ProcTypeOK, ConsTypeOK, TxnTypeOK, SeenTypeOK, prod, coord, seen
  <1>5. /\ tpc'[x] = "loop" /\ assigned'[x] = rebq[x].parts /\ rebq'[x] = Nil
        /\ \A p \in Partitions : position'[x][p] = IF p \in rebq[x].parts THEN committed[p] ELSE position[x][p]
    BY <1>2 DEF TInv, TTypeOK, ProcTypeOK, ConsTypeOK
  <1>6. ProcInv(x)
    BY DEF TInv
  <1>7. \A n \in Intersections : intersectionStates[x][n] = Nil
    BY <1>3, <1>6 DEF ProcInv, LoopInv
  <1>8. RebalanceInv(x)' /\ LoopInv(x)' /\ PhaseInv(x)'
    BY <1>1, <1>3, <1>5, <1>7 DEF RebalanceInv, LoopInv, PhaseInv, Committing
  <1>9. PositionInv(x)'
    <2>1. ASSUME NEW p \in Partitions PROVE position'[x][p] <= Len(input[p])
      BY <1>5, <1>6 DEF ProcInv, PositionInv, TInv, PartInv, DoneInv
    <2> QED BY <1>1, <2>1 DEF PositionInv, coord
  <1>10. ASSUME NEW n \in Intersections PROVE StateInv(x, n)'
    BY <1>1, <1>7 DEF StateInv
  <1>11. ASSUME NEW p \in Partitions PROVE ReadInv(x, p)' /\ CountedInv(x, p)' /\ OutInv(x, p)'
    <2>1. Open(x, p)' = Open(x, p) /\ committed'[p] = committed[p] /\ local' = local /\ input' = input
      BY <1>1, OpenSame DEF prod, coord, seen
    <2>2. committed[p] \in Nat
      BY DEF TInv, TTypeOK, SeenTypeOK
    <2>3. Open(x, p) => local[x][p].read = <<>>
      BY <1>3, <1>6 DEF ProcInv, ReadInv
    <2>4. ReadInv(x, p)'
      <3>1. position'[x][p] = committed[p] => committed[p] <= position'[x][p] /\ Span(committed[p], position'[x][p]) = <<>>
        BY <2>2, SpanEmpty, SMT
      <3> QED BY <1>5, <2>1, <2>3, <3>1 DEF ReadInv
    <2>5. CountedInv(x, p)'
      <3>1. position'[x][p] = committed[p] => committed[p] .. position'[x][p] - 1 = {}
        BY <2>2, SMT
      <3> QED BY <1>5, <2>1, <3>1 DEF CountedInv
    <2>6. OutInv(x, p)'
      <3>1. Open(x, p) => \A n \in Intersections : local[x][p].out[n] = Nil
        BY <1>2, <1>6, <1>7 DEF ProcInv, OutInv, Stopped
      <3> QED BY <1>1, <1>7, <2>1, <3>1 DEF OutInv
    <2> QED BY <2>4, <2>5, <2>6
  <1>12. ProcInv(x)'
    BY <1>8, <1>9, <1>10, <1>11 DEF ProcInv
  <1>13. \A y \in Procs \ {x} : tpc'[y] = tpc[y] /\ assigned'[y] = assigned[y] /\ position'[y] = position[y] /\ rebq'[y] = rebq[y]
    BY <1>2 DEF TInv, TTypeOK, ProcTypeOK, ConsTypeOK
  <1> QED BY <1>1, <1>4, <1>12, <1>13, ProcStep DEF SameProc, prod, coord, seen

\* Unassign leaves x without producers: all of them are fenced, so to say.
LEMMA UnassignKeeps ==
  ASSUME TInv, NEW x \in Procs, Unassign(x) PROVE TInv'
  <1>1. UNCHANGED <<todo, cur, position, prod, coord, seen, bug>>
    BY DEF Unassign, hist
  <1>2. /\ tpc' = [tpc EXCEPT ![x] = IF rebq[x].type = "close" THEN "done" ELSE "loop"]
        /\ producers' = [producers EXCEPT ![x] = [p \in Partitions |-> Nil]]
        /\ intersectionStates' = [intersectionStates EXCEPT ![x] = NoStates]
        /\ assigned' = [assigned EXCEPT ![x] = {}]
        /\ rebq' = [rebq EXCEPT ![x] = Nil]
    BY DEF Unassign, TGoto
  <1>3. TTypeOK'
    <2>1. tpc' \in [Procs -> {"loop", "create", "destroy"} \cup Committing \cup Stopped]
      BY <1>2, SMT DEF TInv, TTypeOK, ProcTypeOK, Stopped
    <2>2. intersectionStates' \in [Procs -> [Intersections -> States \cup {Nil}]]
      BY <1>2, SMT DEF TInv, TTypeOK, ProcTypeOK, NoStates
    <2>3. assigned' \in [Procs -> SUBSET Partitions] /\ rebq' \in [Procs -> RebalanceEvents \cup {Nil}]
      BY <1>2, SMT DEF TInv, TTypeOK, ConsTypeOK
    <2>4. producers' \in [Procs -> [Partitions -> Nat \cup {Nil}]]
      BY <1>2, SMT DEF TInv, TTypeOK, TxnTypeOK
    <2>5. \A y \in Procs, p \in Partitions : producers'[y][p] \in 1 .. epoch[p] \cup {Nil}
      BY <1>2, SMT DEF TInv, TTypeOK, TxnTypeOK
    <2> QED BY <1>1, <2>1, <2>2, <2>3, <2>4, <2>5 DEF TInv, TTypeOK, ProcTypeOK, ConsTypeOK, TxnTypeOK, SeenTypeOK, prod, coord, seen
  <1>4. /\ tpc'[x] \in {"done", "loop"} /\ assigned'[x] = {} /\ rebq'[x] = Nil
        /\ \A p \in Partitions : producers'[x][p] = Nil
        /\ \A n \in Intersections : intersectionStates'[x][n] = Nil
    BY <1>2 DEF TInv, TTypeOK, ProcTypeOK, ConsTypeOK, TxnTypeOK, NoStates
  <1>5. \A p \in Partitions : Fenced(x, p)'
    <2>1. \A p \in Partitions : epoch'[p] \in Nat
      BY <1>1 DEF TInv, TTypeOK, TxnTypeOK, coord
    <2> QED BY <1>4, <2>1, NilFacts DEF Fenced
  <1>6. tpc'[x] \notin Committing /\ tpc'[x] # "create"
    BY <1>4 DEF Committing
  <1>7. RebalanceInv(x)' /\ LoopInv(x)' /\ PositionInv(x)' /\ PhaseInv(x)'
    BY <1>1, <1>4, <1>6 DEF RebalanceInv, LoopInv, PositionInv, PhaseInv, Committing, TInv, ProcInv, coord
  <1>8. \A n \in Intersections : StateInv(x, n)'
    BY <1>4 DEF StateInv
  <1>9. \A p \in Partitions : ReadInv(x, p)' /\ CountedInv(x, p)' /\ OutInv(x, p)'
    BY <1>5 DEF ReadInv, CountedInv, OutInv, Open, Fenced
  <1>10. ProcInv(x)'
    BY <1>7, <1>8, <1>9 DEF ProcInv
  <1>11. \A y \in Procs \ {x} : /\ tpc'[y] = tpc[y] /\ assigned'[y] = assigned[y] /\ rebq'[y] = rebq[y]
                                /\ producers'[y] = producers[y] /\ intersectionStates'[y] = intersectionStates[y]
    BY <1>2 DEF TInv, TTypeOK, ProcTypeOK, ConsTypeOK, TxnTypeOK
  <1> QED BY <1>1, <1>3, <1>4, <1>5, <1>10, <1>11, ProcStep DEF SameProc, prod, coord, seen

-----------------------------------------------------------------------------
(* The loop between its calls to the brokers.                               *)

LEMMA DeliveryFailsKeeps ==
  ASSUME TInv, NEW x \in Procs, NEW p \in Partitions, DeliveryFails(x, p) PROVE TInv'
  <1>1. UNCHANGED <<proc, cons, local, coord, seen, bug>>
    BY DEF DeliveryFails
  <1>2. txn[x][p] = "open" /\ txn' = [txn EXCEPT ![x][p] = "abortable"]
    BY DEF DeliveryFails
  <1>3. TTypeOK'
    <2>1. txn' \in [Procs -> [Partitions -> {"none", "ready", "open", "abortable", "committing", "fatal"}]]
      BY <1>2, SMT DEF TInv, TTypeOK, TxnTypeOK
    <2> QED BY <1>1, <2>1 DEF TInv, TTypeOK, ProcTypeOK, ConsTypeOK, TxnTypeOK, SeenTypeOK, proc, cons, coord, seen
  <1>4. \A y \in Procs, q \in Partitions : txn'[y][q] = IF y = x /\ q = p THEN "abortable" ELSE txn[y][q]
    BY <1>2, SMT DEF TInv, TTypeOK, TxnTypeOK
  <1>5. \A y \in Procs \ {x} : txn'[y] = txn[y]
    BY <1>2 DEF TInv, TTypeOK, TxnTypeOK
  <1>6. ProcInv(x)
    BY DEF TInv
  <1>7. \A q \in Partitions : Fenced(x, q)' = Fenced(x, q) /\ (~Open(x, q)' \/ Open(x, q)' = Open(x, q))
    BY <1>1, <1>4 DEF Fenced, Open, proc, coord
  <1>8. PhaseInv(x)'
    <2>1. CASE tpc[x] \in Committing \ {"commit"}
      <3>1. cur[x] \in Partitions
        BY <1>6, <2>1 DEF ProcInv, LoopInv, TInv, TTypeOK, ConsTypeOK
      <3>2. tpc[x] \in {"rewind", "begin"} /\ ~Fenced(x, cur[x]) => cur[x] # p
        BY <1>2, <1>6 DEF ProcInv, PhaseInv
      <3> QED BY <1>1, <1>2, <1>4, <1>6, <1>7, <3>1, <3>2 DEF ProcInv, PhaseInv, Open, Fenced, proc, cons, coord, seen
    <2>2. CASE tpc[x] \notin Committing \ {"commit"}
      BY <1>1, <2>2 DEF PhaseInv, Committing, proc
    <2> QED BY <2>1, <2>2
  <1>9. RebalanceInv(x)' /\ LoopInv(x)' /\ PositionInv(x)'
    BY <1>1, <1>6 DEF ProcInv, RebalanceInv, LoopInv, PositionInv, proc, cons, coord
  <1>10. ASSUME NEW n \in Intersections PROVE StateInv(x, n)'
    BY <1>1, <1>6, StateSame DEF ProcInv, proc, cons, coord
  <1>11. ASSUME NEW q \in Partitions PROVE ReadInv(x, q)' /\ CountedInv(x, q)' /\ OutInv(x, q)'
    <2>1. ReadInv(x, q)' /\ CountedInv(x, q)'
      BY <1>1, <1>6, <1>7, ReadSame, CountedSame DEF ProcInv, proc, cons, coord, seen
    <2>2. (q \in Pending(x))' = (q \in Pending(x)) /\ (tpc'[x] \in Stopped \/ tpc[x] \notin Stopped)
      BY <1>1 DEF Pending, proc
    <2>3. OutInv(x, q)'
      BY <1>1, <1>6, <1>7, <2>2, OutSame DEF ProcInv, proc
    <2> QED BY <2>1, <2>3
  <1>12. ProcInv(x)'
    BY <1>8, <1>9, <1>10, <1>11 DEF ProcInv
  <1>13. \A q \in Partitions : ending[q] # Nil /\ ~Fenced(x, q)' => txn'[x][q] = txn[x][q]
    <2>1. \A q \in Partitions : ending[q] # Nil /\ ~Fenced(x, q)' => txn[x][q] = "committing"
      BY <1>7 DEF TInv, PartInv, EndInv
    <2> QED BY <1>2, <1>4, <2>1
  <1> QED BY <1>1, <1>3, <1>5, <1>12, <1>13, ProcStep DEF SameProc, proc, cons, coord, seen

\* Begin starts anew where the last transaction ended.
LEMMA BeginKeeps ==
  ASSUME TInv, NEW x \in Procs, Begin(x) PROVE TInv'
  <1> DEFINE p == cur[x]
  <1>1. UNCHANGED <<todo, cur, intersectionStates, producers, cons, coord, seen, bug>>
    BY DEF Begin, hist
  <1>2. /\ tpc[x] = "begin" /\ tpc' = [tpc EXCEPT ![x] = IF todo[x] = {} THEN "loop" ELSE "commit"]
        /\ txn' = [txn EXCEPT ![x][p] = "open"]
        /\ local' = [local EXCEPT ![x][p] = Fresh]
    BY DEF Begin, BeginTransaction, TGoto
  <1>3. ProcInv(x)
    BY DEF TInv
  <1>4. /\ p \in Partitions /\ p \in assigned[x] /\ p \notin todo[x] /\ todo[x] \subseteq assigned[x]
        /\ ~Fenced(x, p) => txn[x][p] = "ready" /\ position[x][p] = committed[p]
    BY <1>2, <1>3 DEF ProcInv, LoopInv, PhaseInv, Committing, TInv, TTypeOK, ConsTypeOK
  <1> HIDE DEF p
  <1>5. TTypeOK'
    <2>1. txn' \in [Procs -> [Partitions -> {"none", "ready", "open", "abortable", "committing", "fatal"}]]
      BY <1>2, <1>4, SMT DEF TInv, TTypeOK, TxnTypeOK
    <2>2. tpc' \in [Procs -> {"loop", "create", "destroy"} \cup Committing \cup Stopped]
      BY <1>2, SMT DEF TInv, TTypeOK, ProcTypeOK, Committing
    <2>3. Fresh \in Batches
      BY SMT DEF Fresh, Batches, NoStates
    <2>4. local' \in [Procs -> [Partitions -> Batches]]
      BY <1>2, <1>4, <2>3, SMT DEF TInv, TTypeOK, TxnTypeOK
    <2> QED BY <1>1, <2>1, <2>2, <2>4 DEF TInv, TTypeOK, ProcTypeOK, ConsTypeOK, TxnTypeOK, SeenTypeOK, cons, coord, seen
  <1>6. /\ \A q \in Partitions : /\ txn'[x][q] = IF q = p THEN "open" ELSE txn[x][q]
                                 /\ local'[x][q] = IF q = p THEN Fresh ELSE local[x][q]
        /\ tpc'[x] = IF todo[x] = {} THEN "loop" ELSE "commit"
    BY <1>2, SMT DEF TInv, TTypeOK, TxnTypeOK, ProcTypeOK
  <1>7. \A y \in Procs \ {x} : tpc'[y] = tpc[y] /\ txn'[y] = txn[y] /\ local'[y] = local[y]
    BY <1>2 DEF TInv, TTypeOK, ProcTypeOK, TxnTypeOK
  <1>8. \A q \in Partitions : /\ Fenced(x, q)' = Fenced(x, q)
                              /\ q # p => Open(x, q)' = Open(x, q)
    BY <1>1, <1>6 DEF Fenced, Open, coord
  <1>9. RebalanceInv(x)' /\ LoopInv(x)' /\ PositionInv(x)' /\ PhaseInv(x)'
    <2>1. tpc'[x] \in {"loop", "commit"}
      BY <1>6
    <2> QED BY <1>1, <1>3, <1>4, <2>1 DEF ProcInv, RebalanceInv, LoopInv, PositionInv, PhaseInv, Committing, cons, coord
  <1>10. ASSUME NEW n \in Intersections PROVE StateInv(x, n)'
    BY <1>1, <1>3, StateSame DEF ProcInv, cons, coord
  <1>11. ASSUME NEW q \in Partitions PROVE ReadInv(x, q)' /\ CountedInv(x, q)' /\ OutInv(x, q)'
    <2>1. (q \in Pending(x))' = (q \in todo[x]) /\ (q \in Pending(x)) = (q \in todo[x])
      <3>1. (q \in Pending(x)) = (q \in todo[x])
        BY <1>2 DEF Pending, Committing
      <3>2. CASE todo[x] = {}
        <4>1. tpc'[x] = "loop"
          BY <1>6, <3>2
        <4> QED BY <1>1, <3>1, <3>2, <4>1 DEF Pending, Committing
      <3>3. CASE todo[x] # {}
        <4>1. tpc'[x] = "commit"
          BY <1>6, <3>3
        <4> QED BY <1>1, <3>1, <4>1 DEF Pending, Committing
      <3> QED BY <3>2, <3>3
    <2>2. CASE q # p
      <3>1. ReadInv(x, q)' /\ CountedInv(x, q)'
        BY <1>1, <1>3, <1>6, <1>8, <2>2, ReadSame, CountedSame DEF ProcInv, cons, coord, seen
      <3>2. tpc[x] \notin Stopped
        BY <1>2 DEF Stopped
      <3>3. OutInv(x, q)'
        BY <1>1, <1>3, <1>6, <1>8, <2>1, <2>2, <3>2, OutSame DEF ProcInv
      <3> QED BY <3>1, <3>3
    <2>3. CASE q = p /\ ~Fenced(x, p)
      <3>1. /\ committed[p] \in Nat /\ position'[x][p] = committed[p] /\ committed'[p] = committed[p]
            /\ assigned'[x] = assigned[x]
        BY <1>1, <1>4, <2>3 DEF TInv, TTypeOK, SeenTypeOK, cons, seen
      <3>2. local'[x][p].read = <<>> /\ \A n \in Intersections : local'[x][p].out[n] = Nil
        BY <1>4, <1>6, SMT DEF Fresh, NoStates
      <3>3. /\ committed'[p] <= position'[x][p] /\ Span(committed'[p], position'[x][p]) = <<>>
            /\ committed'[p] .. position'[x][p] - 1 = {}
        BY <3>1, SpanEmpty, SMT
      <3>4. ReadInv(x, q)' /\ CountedInv(x, q)'
        BY <1>4, <2>3, <3>1, <3>2, <3>3 DEF ReadInv, CountedInv
      <3>5. OutInv(x, q)'
        BY <1>4, <2>1, <2>3, <3>2 DEF OutInv
      <3> QED BY <3>4, <3>5
    <2>4. CASE q = p /\ Fenced(x, p)
      <3>1. ~Open(x, q)'
        BY <1>8, <2>4 DEF Open, Fenced
      <3> QED BY <3>1 DEF ReadInv, CountedInv, OutInv
    <2> QED BY <2>2, <2>3, <2>4
  <1>12. ProcInv(x)'
    BY <1>9, <1>10, <1>11 DEF ProcInv
  <1>13. \A q \in Partitions : ending[q] # Nil /\ ~Fenced(x, q)' => txn'[x][q] = txn[x][q]
    <2>1. \A q \in Partitions : ending[q] # Nil /\ ~Fenced(x, q) => txn[x][q] = "committing"
      BY DEF TInv, PartInv, EndInv
    <2> QED BY <1>4, <1>6, <1>8, <2>1
  <1> QED BY <1>1, <1>5, <1>7, <1>12, <1>13, ProcStep DEF SameProc, cons, coord, seen

LEMMA BatchOut ==
  ASSUME NEW b \in Batches, NEW m \in [Intersections -> States \cup {Nil}]
  PROVE  /\ [b EXCEPT !.out = m] \in Batches
         /\ [b EXCEPT !.out = m].read = b.read /\ [b EXCEPT !.out = m].out = m
  <1>1. \A S : \A c \in [read : Seq(Nat), out : S], l \in S :
          /\ [c EXCEPT !.out = l] \in [read : Seq(Nat), out : S]
          /\ [c EXCEPT !.out = l].read = c.read /\ [c EXCEPT !.out = l].out = l
    BY SMT
  <1> QED BY <1>1 DEF Batches

\* Only the partition and the cars of a state count.
LEMMA CountsCars ==
  ASSUME NEW in, NEW n, NEW e, NEW r, NEW s, r.cars = s.cars, r.partition = s.partition
  PROVE  CountsUpTo(in, n, r, e) <=> CountsUpTo(in, n, s, e)
  BY DEF CountsUpTo

LEMMA StateKept ==
  ASSUME NEW s \in States, NEW k \in BOOLEAN
  PROVE  /\ [s EXCEPT !.kept = k] \in States /\ [s EXCEPT !.kept = k] # Nil
         /\ [s EXCEPT !.kept = k].partition = s.partition /\ [s EXCEPT !.kept = k].cars = s.cars
         /\ [s EXCEPT !.kept = k].kept = k
  <1>1. /\ [s EXCEPT !.kept = k] \in States
        /\ [s EXCEPT !.kept = k].partition = s.partition /\ [s EXCEPT !.kept = k].cars = s.cars
        /\ [s EXCEPT !.kept = k].kept = k
    BY SMT DEF States
  <1> QED BY <1>1, NilFacts

\* A tick writes a message for every state, into transactions that are open.
LEMMA TickKeeps ==
  ASSUME TInv, NEW x \in Procs, Tick(x) PROVE TInv'
  <1>1. UNCHANGED <<cur, intersectionStates, producers, cons, txn, coord, seen>>
    BY DEF Tick
  <1>2. tpc[x] = "loop" /\ ProcInv(x)
    BY DEF Tick, TInv
  <1>3. /\ PartitionsOf(x) \subseteq assigned[x] /\ PartitionsOf(x) \subseteq Partitions
        /\ \A n \in Intersections : intersectionStates[x][n] # Nil => intersectionStates[x][n].partition \in PartitionsOf(x)
    BY <1>2, SMTT(30) DEF PartitionsOf, ProcInv, LoopInv, TInv, TTypeOK, ConsTypeOK
  <1>4. UNCHANGED bug
    <2>1. \A p \in PartitionsOf(x) : producers[x][p] # Nil
      BY <1>2, <1>3 DEF ProcInv, RebalanceInv
    <2>2. bug = FALSE
      BY DEF TInv, NoBug, TTypeOK, SeenTypeOK
    <2> QED BY <2>1, <2>2 DEF Tick
  <1>5. CASE tpc' = [tpc EXCEPT ![x] = "dead"] /\ UNCHANGED <<todo, local>>
    <2>1. tpc'[x] = "dead" /\ \A y \in Procs \ {x} : tpc'[y] = tpc[y]
      BY <1>5 DEF TInv, TTypeOK, ProcTypeOK
    <2>2. TTypeOK'
      <3>1. tpc' \in [Procs -> {"loop", "create", "destroy"} \cup Committing \cup Stopped]
        BY <1>5, SMT DEF TInv, TTypeOK, ProcTypeOK, Stopped
      <3> QED BY <1>1, <1>4, <1>5, <3>1 DEF TInv, TTypeOK, ProcTypeOK, ConsTypeOK, TxnTypeOK, SeenTypeOK, cons, coord, seen
    <2>3. ProcInv(x)'
      BY <1>1, <1>5, <2>1, DeadStep DEF coord, seen
    <2> QED BY <1>1, <1>4, <1>5, <2>1, <2>2, <2>3, ProcStep DEF SameProc, cons, coord, seen
  <1>6. CASE /\ local' = [local EXCEPT ![x] = [p \in Partitions |-> [local[x][p] EXCEPT !.out = Messages(x, p)]]]
             /\ tpc' = [tpc EXCEPT ![x] = "commit"] /\ todo' = [todo EXCEPT ![x] = PartitionsOf(x)]
    <2>0. ASSUME NEW p \in Partitions
          PROVE  /\ [local[x][p] EXCEPT !.out = Messages(x, p)] \in Batches
                 /\ [local[x][p] EXCEPT !.out = Messages(x, p)].read = local[x][p].read
                 /\ [local[x][p] EXCEPT !.out = Messages(x, p)].out = Messages(x, p)
      <3>1. local[x][p] \in Batches /\ intersectionStates[x] \in [Intersections -> States \cup {Nil}]
        BY DEF TInv, TTypeOK, TxnTypeOK, ProcTypeOK
      <3>2. local[x][p].out \in [Intersections -> States \cup {Nil}]
        BY <3>1, SMT DEF Batches
      <3>3. Messages(x, p) \in [Intersections -> States \cup {Nil}]
        BY <3>1, <3>2, SMT DEF Messages
      <3> QED BY <3>1, <3>3, BatchOut
    <2>1. TTypeOK'
      <3>1. tpc' \in [Procs -> {"loop", "create", "destroy"} \cup Committing \cup Stopped]
        BY <1>6, SMT DEF TInv, TTypeOK, ProcTypeOK, Committing
      <3>2. todo' \in [Procs -> SUBSET Partitions]
        BY <1>3, <1>6, SMT DEF TInv, TTypeOK, ProcTypeOK
      <3>4. local' \in [Procs -> [Partitions -> Batches]]
        <4>1. [p \in Partitions |-> [local[x][p] EXCEPT !.out = Messages(x, p)]] \in [Partitions -> Batches]
          BY <2>0
        <4> QED BY <1>6, <4>1 DEF TInv, TTypeOK, TxnTypeOK
      <3> QED BY <1>1, <1>4, <3>1, <3>2, <3>4 DEF TInv, TTypeOK, ProcTypeOK, ConsTypeOK, TxnTypeOK, SeenTypeOK, cons, coord, seen
    <2>2. /\ tpc'[x] = "commit" /\ todo'[x] = PartitionsOf(x)
          /\ \A p \in Partitions : local'[x][p] = [local[x][p] EXCEPT !.out = Messages(x, p)]
      BY <1>6 DEF TInv, TTypeOK, ProcTypeOK, TxnTypeOK
    <2>3. \A y \in Procs \ {x} : tpc'[y] = tpc[y] /\ todo'[y] = todo[y] /\ local'[y] = local[y]
      BY <1>6 DEF TInv, TTypeOK, ProcTypeOK, TxnTypeOK
    <2>4. \A p \in Partitions : local'[x][p].read = local[x][p].read /\ local'[x][p].out = Messages(x, p)
      BY <2>0, <2>2
    <2>5. RebalanceInv(x)' /\ LoopInv(x)' /\ PositionInv(x)' /\ PhaseInv(x)'
      BY <1>1, <1>2, <1>3, <2>2 DEF ProcInv, RebalanceInv, LoopInv, PositionInv, PhaseInv, Committing, cons, coord
    <2>6. ASSUME NEW n \in Intersections PROVE StateInv(x, n)'
      BY <1>1, <1>2, StateSame DEF ProcInv, cons, coord
    <2>7. ASSUME NEW p \in Partitions PROVE ReadInv(x, p)' /\ CountedInv(x, p)' /\ OutInv(x, p)'
      <3>1. Open(x, p)' = Open(x, p)
        BY <1>1, OpenSame DEF coord
      <3>2. ReadInv(x, p)' /\ CountedInv(x, p)'
        BY <1>1, <1>2, <2>4, <3>1, ReadSame, CountedSame DEF ProcInv, cons, coord, seen
      <3>3. Open(x, p) => \A n \in Intersections : local[x][p].out[n] = Nil
        BY <1>2 DEF ProcInv, OutInv, Pending, Committing, Stopped
      <3>4. (p \in Pending(x))' = (p \in PartitionsOf(x))
        BY <2>2 DEF Pending, Committing
      <3>5. Open(x, p) => \A n \in Intersections : Messages(x, p)[n] =
              IF intersectionStates[x][n] # Nil /\ intersectionStates[x][n].partition = p THEN intersectionStates[x][n] ELSE Nil
        BY <3>3 DEF Messages
      <3>6. OutInv(x, p)'
        BY <1>1, <1>3, <2>4, <3>1, <3>4, <3>5, SMT DEF OutInv
      <3> QED BY <3>2, <3>6
    <2>8. ProcInv(x)'
      BY <2>5, <2>6, <2>7 DEF ProcInv
    <2> QED BY <1>1, <1>4, <2>1, <2>3, <2>8, ProcStep DEF SameProc, cons, coord, seen
  <1> QED BY <1>5, <1>6 DEF Tick, TGoto

\* Rewinding leaves counts of what will be read again: they are kept, which is why
\* nothing is said of them.
LEMMA RewindKeeps ==
  ASSUME TInv, NEW x \in Procs, Rewind(x) PROVE TInv'
  <1>1. UNCHANGED <<todo, cur, producers, assigned, rebq, prod, coord, seen, bug>>
    BY DEF Rewind
  <1>2. tpc[x] = "rewind" /\ ProcInv(x)
    BY DEF Rewind, TInv
  <1> PICK p \in Partitions : p = cur[x]
    BY <1>2 DEF ProcInv, LoopInv, Committing, TInv, TTypeOK, ConsTypeOK
  <1>3. /\ p \in Partitions /\ p \in assigned[x] /\ p \notin todo[x] /\ todo[x] \subseteq assigned[x]
        /\ ~Fenced(x, p) => txn[x][p] = "ready"
    BY <1>2 DEF ProcInv, LoopInv, PhaseInv, Committing, TInv, TTypeOK, ConsTypeOK
  <1>4. CASE tpc' = [tpc EXCEPT ![x] = "dead"] /\ UNCHANGED <<position, intersectionStates>>
    <2>1. tpc'[x] = "dead" /\ \A y \in Procs \ {x} : tpc'[y] = tpc[y]
      BY <1>4 DEF TInv, TTypeOK, ProcTypeOK
    <2>2. TTypeOK'
      <3>1. tpc' \in [Procs -> {"loop", "create", "destroy"} \cup Committing \cup Stopped]
        BY <1>4, SMT DEF TInv, TTypeOK, ProcTypeOK, Stopped
      <3> QED BY <1>1, <1>4, <3>1 DEF TInv, TTypeOK, ProcTypeOK, ConsTypeOK, TxnTypeOK, SeenTypeOK, prod, coord, seen
    <2>3. ProcInv(x)'
      BY <1>1, <1>4, <2>1, DeadStep DEF cons, prod, coord, seen
    <2> QED BY <1>1, <1>4, <2>1, <2>2, <2>3, ProcStep DEF SameProc, prod, coord, seen
  <1>5. CASE /\ position' = [position EXCEPT ![x][p] = committed[p]] /\ tpc' = [tpc EXCEPT ![x] = "begin"]
             /\ intersectionStates' = [intersectionStates EXCEPT ![x] = Kept(x, p)]
    <2>1. /\ position[x][p] \in Nat /\ committed[p] \in Nat
          /\ \A n \in Intersections : intersectionStates[x][n] \in States \cup {Nil}
      BY <1>3 DEF TInv, TTypeOK, ConsTypeOK, SeenTypeOK, ProcTypeOK
    <2>2. /\ \A q \in Partitions : position'[x][q] = IF q = p THEN committed[p] ELSE position[x][q]
          /\ tpc'[x] = "begin"
          /\ \A n \in Intersections : intersectionStates'[x][n] =
               IF intersectionStates[x][n] = Nil \/ intersectionStates[x][n].partition # p THEN intersectionStates[x][n]
               ELSE [intersectionStates[x][n] EXCEPT !.kept = @ \/ position[x][p] # committed[p]]
      BY <1>3, <1>5, SMT DEF Kept, TInv, TTypeOK, ConsTypeOK, ProcTypeOK
    <2>3. \A y \in Procs \ {x} : tpc'[y] = tpc[y] /\ position'[y] = position[y] /\ intersectionStates'[y] = intersectionStates[y]
      BY <1>5 DEF TInv, TTypeOK, ConsTypeOK, ProcTypeOK
    <2>4. ASSUME NEW n \in Intersections
          PROVE  /\ intersectionStates'[x][n] \in States \cup {Nil}
                 /\ intersectionStates[x][n] = Nil => intersectionStates'[x][n] = Nil
                 /\ intersectionStates[x][n] # Nil => /\ intersectionStates'[x][n] # Nil
                                                      /\ intersectionStates'[x][n].partition = intersectionStates[x][n].partition
                                                      /\ \/ intersectionStates[x][n].partition # p
                                                         \/ position[x][p] = committed[p]
                                                         \/ intersectionStates'[x][n].kept
                                                      /\ \/ intersectionStates'[x][n] = intersectionStates[x][n]
                                                         \/ /\ intersectionStates[x][n].partition = p
                                                            /\ intersectionStates'[x][n].cars = intersectionStates[x][n].cars
                                                            /\ intersectionStates[x][n].kept => intersectionStates'[x][n].kept
      <3>1. CASE intersectionStates[x][n] = Nil \/ intersectionStates[x][n].partition # p
        <4>1. intersectionStates'[x][n] = intersectionStates[x][n]
          BY <2>2, <3>1
        <4> QED BY <2>1, <3>1, <4>1
      <3>2. CASE ~(intersectionStates[x][n] = Nil \/ intersectionStates[x][n].partition # p)
        <4> DEFINE s == intersectionStates[x][n]
                   k == s.kept \/ position[x][p] # committed[p]
        <4>1. s \in States
          BY <2>1, <3>2
        <4>2. k \in BOOLEAN /\ s.kept \in BOOLEAN
          BY <4>1, SMT DEF States
        <4>3. intersectionStates'[x][n] = [s EXCEPT !.kept = k]
          BY <2>2, <3>2
        <4>4. k = (s.kept \/ position[x][p] # committed[p])
          OBVIOUS
        <4> HIDE DEF k, s
        <4>5. /\ [s EXCEPT !.kept = k] \in States /\ [s EXCEPT !.kept = k] # Nil
              /\ [s EXCEPT !.kept = k].partition = s.partition /\ [s EXCEPT !.kept = k].cars = s.cars
              /\ [s EXCEPT !.kept = k].kept = k
          BY <4>1, <4>2, StateKept
        <4> QED BY <3>2, <4>3, <4>4, <4>5 DEF s
      <3> QED BY <3>1, <3>2
    <2>5. TTypeOK'
      <3>1. tpc' \in [Procs -> {"loop", "create", "destroy"} \cup Committing \cup Stopped]
        BY <1>5, SMT DEF TInv, TTypeOK, ProcTypeOK, Committing
      <3>2. position' \in [Procs -> [Partitions -> Nat]]
        BY <1>3, <1>5, <2>1, SMT DEF TInv, TTypeOK, ConsTypeOK
      <3>3. intersectionStates' \in [Procs -> [Intersections -> States \cup {Nil}]]
        <4>1. \A n \in Intersections : Kept(x, p)[n] = intersectionStates'[x][n]
          BY <2>2 DEF Kept
        <4>2. Kept(x, p) \in [Intersections -> States \cup {Nil}]
          BY <2>4, <4>1 DEF Kept
        <4> QED BY <1>5, <4>2, SMT DEF TInv, TTypeOK, ProcTypeOK
      <3> QED BY <1>1, <3>1, <3>2, <3>3 DEF TInv, TTypeOK, ProcTypeOK, ConsTypeOK, TxnTypeOK, SeenTypeOK, prod, coord, seen
    <2>6. RebalanceInv(x)'
      BY <1>1, <1>2, <2>2 DEF ProcInv, RebalanceInv
    <2>7. LoopInv(x)'
      BY <1>1, <1>2, <1>3, <2>2, <2>4 DEF ProcInv, LoopInv, Committing
    <2>8. PositionInv(x)'
      <3>1. ASSUME NEW q \in Partitions PROVE position'[x][q] <= Len(input[q])
        BY <1>2, <2>2 DEF ProcInv, PositionInv, TInv, PartInv, DoneInv
      <3> QED BY <1>1, <3>1 DEF PositionInv, coord
    <2>9. /\ \A q \in Partitions : Fenced(x, q)' = Fenced(x, q) /\ Open(x, q)' = Open(x, q)
          /\ ~Open(x, p)'
      <3>1. \A q \in Partitions : Fenced(x, q)' = Fenced(x, q) /\ Open(x, q)' = Open(x, q)
        BY <1>1, OpenSame DEF prod, coord
      <3> QED BY <1>3, <3>1 DEF Open
    <2>10. PhaseInv(x)'
      BY <1>1, <1>3, <2>2, <2>9 DEF PhaseInv, prod, seen
    <2>11. ASSUME NEW n \in Intersections PROVE StateInv(x, n)'
      <3>1. StateInv(x, n)
        BY <1>2 DEF ProcInv
      <3>2. CASE intersectionStates'[x][n] = intersectionStates[x][n] /\ intersectionStates[x][n] # Nil /\ intersectionStates[x][n].partition # p
        <4>1. intersectionStates[x][n].partition \in Partitions
          BY <2>1, <3>2, SMT DEF States
        <4> QED BY <1>1, <2>2, <3>1, <3>2, <4>1, StateSame DEF coord
      <3>3. CASE intersectionStates[x][n] # Nil /\ intersectionStates[x][n].partition = p
        <4>1. position[x][p] = committed[p] /\ ~intersectionStates[x][n].kept =>
                CountsUpTo(input, n, intersectionStates'[x][n], position'[x][p])
          <5>1. position'[x][p] = committed[p]
            BY <2>2
          <5>2. /\ intersectionStates'[x][n].cars = intersectionStates[x][n].cars
                /\ intersectionStates'[x][n].partition = intersectionStates[x][n].partition
            BY <2>4, <3>3
          <5>3. ~intersectionStates[x][n].kept => CountsUpTo(input, n, intersectionStates[x][n], position[x][p])
            BY <3>1, <3>3 DEF StateInv
          <5> QED BY <5>1, <5>2, <5>3, CountsCars
        <4>2. ~intersectionStates'[x][n].kept => position[x][p] = committed[p] /\ ~intersectionStates[x][n].kept
          BY <2>4, <3>3
        <4> QED BY <1>1, <2>4, <3>1, <3>3, <4>1, <4>2 DEF StateInv, coord
      <3>4. CASE intersectionStates[x][n] = Nil
        BY <2>4, <3>4 DEF StateInv
      <3> QED BY <2>4, <3>2, <3>3, <3>4
    <2>12. ASSUME NEW q \in Partitions PROVE ReadInv(x, q)' /\ CountedInv(x, q)' /\ OutInv(x, q)'
      <3>1. CASE q = p
        BY <2>9, <3>1 DEF ReadInv, CountedInv, OutInv
      <3>2. CASE q # p
        <4>1. ReadInv(x, q)'
          BY <1>1, <1>2, <2>2, <2>9, <3>2, ReadSame DEF ProcInv, prod, seen
        <4>2. CountedInv(x, q)'
          <5>1. input[q] \in Seq(Intersections \cup {Nil}) /\ position[x][q] \in Nat /\ committed[q] \in Nat /\ position[x][q] <= Len(input[q])
            BY <1>2 DEF ProcInv, PositionInv, TInv, TTypeOK, ConsTypeOK, SeenTypeOK
          <5>2. \A o \in committed[q] .. position[x][q] - 1 : input[q][o + 1] \in Intersections \cup {Nil}
            BY <5>1, SMT
          <5>3. UNCHANGED input /\ committed'[q] = committed[q] /\ position'[x][q] = position[x][q] /\ assigned'[x] = assigned[x]
            BY <1>1, <2>2, <3>2 DEF coord, seen
          <5> QED BY <1>2, <2>4, <2>9, <5>2, <5>3 DEF ProcInv, CountedInv
        <4>3. (q \in Pending(x))' = (q \in Pending(x)) /\ tpc[x] \notin Stopped
          BY <1>1, <1>2, <2>2 DEF Pending, Committing, Stopped
        <4>4. ASSUME NEW n \in Intersections
              PROVE  /\ (intersectionStates'[x][n] # Nil /\ intersectionStates'[x][n].partition = q)
                          = (intersectionStates[x][n] # Nil /\ intersectionStates[x][n].partition = q)
                     /\ intersectionStates[x][n] # Nil /\ intersectionStates[x][n].partition = q => intersectionStates'[x][n] = intersectionStates[x][n]
          BY <2>4, <3>2
        <4>5. OutInv(x, q)'
          BY <1>1, <1>2, <2>9, <4>3, <4>4, SMT DEF ProcInv, OutInv, prod
        <4> QED BY <4>1, <4>2, <4>5
      <3> QED BY <3>1, <3>2
    <2>13. ProcInv(x)'
      BY <2>6, <2>7, <2>8, <2>10, <2>11, <2>12 DEF ProcInv
    <2> QED BY <1>1, <2>3, <2>5, <2>13, ProcStep DEF SameProc, prod, coord, seen
  <1>6. \/ tpc' = [tpc EXCEPT ![x] = "dead"] /\ UNCHANGED <<position, intersectionStates>>
        \/ /\ position' = [position EXCEPT ![x][p] = committed[p]] /\ tpc' = [tpc EXCEPT ![x] = "begin"]
           /\ intersectionStates' = [intersectionStates EXCEPT ![x] = Kept(x, p)]
    BY DEF Rewind, TGoto
  <1> QED BY <1>4, <1>5, <1>6

\* What it takes for a state to count one message more, ...
LEMMA CountsFirst ==
  ASSUME NEW in, NEW n, NEW s, NEW o \in Nat, s.cars = Append(<<>>, o), in[s.partition][o + 1] = n
  PROVE  CountsUpTo(in, n, s, o + 1)
  BY SMT DEF CountsUpTo

LEMMA CountsMore ==
  ASSUME NEW in, NEW n, NEW s, NEW t, NEW o \in Nat, s.cars \in Seq(Nat), CountsUpTo(in, n, s, o),
         t.cars = Append(s.cars, o), t.partition = s.partition, in[s.partition][o + 1] = n
  PROVE  CountsUpTo(in, n, t, o + 1)
  <1> DEFINE c == s.cars
             l == Len(s.cars)
  <1>1. l \in Nat /\ l # 0 /\ c[1] \in Nat /\ \A i \in 1 .. l : c[i] \in Nat
    BY SMT DEF CountsUpTo
  <1>2. Len(t.cars) = l + 1 /\ t.cars[l + 1] = o /\ \A i \in 1 .. l : t.cars[i] = c[i]
    BY SMT
  <1>3. t.cars # <<>> /\ t.cars[1] = c[1]
    BY <1>1, <1>2, SMT
  <1>4. \A i \in 1 .. l : c[i] < o /\ in[s.partition][c[i] + 1] = n
    BY SMT DEF CountsUpTo
  <1>5. \A i, j \in 1 .. l : i < j => c[i] < c[j]
    BY DEF CountsUpTo
  <1>6. \A q \in c[1] .. o - 1 : in[s.partition][q + 1] = n => \E i \in 1 .. l : c[i] = q
    BY DEF CountsUpTo
  <1> HIDE DEF c, l
  <1>0. \A i \in 1 .. l + 1 : i \in 1 .. l \/ i = l + 1
    BY <1>1, SMT
  <1>7. ASSUME NEW i \in 1 .. l + 1, NEW j \in 1 .. l + 1, i < j PROVE t.cars[i] < t.cars[j]
    <2>1. i \in 1 .. l
      BY <1>1, <1>7, SMT
    <2>2. CASE j \in 1 .. l
      BY <1>2, <1>5, <1>7, <2>1, <2>2
    <2>3. CASE j = l + 1
      BY <1>2, <1>4, <2>1, <2>3
    <2> QED BY <1>0, <2>2, <2>3
  <1>8. ASSUME NEW i \in 1 .. l + 1 PROVE t.cars[i] < o + 1 /\ in[t.partition][t.cars[i] + 1] = n
    <2>1. CASE i \in 1 .. l
      <3>1. c[i] < o + 1
        BY <1>1, <1>4, <2>1, SMT
      <3> QED BY <1>2, <1>4, <2>1, <3>1
    <2>2. CASE i = l + 1
      <3>1. o < o + 1
        BY SMT
      <3> QED BY <1>2, <2>2, <3>1
    <2> QED BY <1>0, <2>1, <2>2
  <1>9. ASSUME NEW q \in c[1] .. o, in[t.partition][q + 1] = n PROVE \E i \in 1 .. l + 1 : t.cars[i] = q
    <2>1. CASE q = o
      BY <1>1, <1>2, <2>1, SMT
    <2>2. CASE q # o
      <3>1. PICK i \in 1 .. l : c[i] = q
        BY <1>1, <1>6, <1>9, <2>2, SMT
      <3>2. i \in 1 .. l + 1
        BY <1>1, SMT
      <3> QED BY <1>2, <3>1, <3>2
    <2> QED BY <2>1, <2>2
  <1>10. c[1] .. (o + 1) - 1 = c[1] .. o
    BY <1>1, SMT
  <1> QED BY <1>2, <1>3, <1>7, <1>8, <1>9, <1>10 DEF CountsUpTo

LEMMA CountsSkip ==
  ASSUME NEW in, NEW n, NEW s, NEW o \in Nat, NEW e \in Nat, o <= e, s.cars \in Seq(Nat),
         CountsUpTo(in, n, s, o), \A q \in o .. e - 1 : in[s.partition][q + 1] # n
  PROVE  CountsUpTo(in, n, s, e)
  <1>1. Len(s.cars) \in Nat /\ Len(s.cars) # 0 /\ \A i \in 1 .. Len(s.cars) : s.cars[i] \in Nat
    BY SMT DEF CountsUpTo
  <1>2. \A i \in 1 .. Len(s.cars) : s.cars[i] < e /\ in[s.partition][s.cars[i] + 1] = n
    BY <1>1, SMT DEF CountsUpTo
  <1>3. ASSUME NEW q \in s.cars[1] .. e - 1, in[s.partition][q + 1] = n PROVE \E i \in 1 .. Len(s.cars) : s.cars[i] = q
    <2>1. q \in s.cars[1] .. o - 1
      BY <1>1, <1>3, SMT
    <2> QED BY <1>3, <2>1 DEF CountsUpTo
  <1> QED BY <1>2, <1>3 DEF CountsUpTo

\* ... and that messages with its key are in its partition.
LEMMA KeyedState ==
  ASSUME TInv, NEW x \in Procs, NEW p \in Partitions
  PROVE  \A n \in Intersections : \A i \in 1 .. Len(input[p]) :
           intersectionStates[x][n] # Nil /\ input[p][i] = n => intersectionStates[x][n].partition = p
  <1> SUFFICES ASSUME NEW n \in Intersections, intersectionStates[x][n] # Nil,
                      NEW i \in 1 .. Len(input[p]), input[p][i] = n
               PROVE  intersectionStates[x][n].partition = p
    OBVIOUS
  <1>1. intersectionStates[x][n] \in States
    BY DEF TInv, TTypeOK, ProcTypeOK
  <1>2. intersectionStates[x][n].partition \in Partitions
    BY <1>1, SMT DEF States
  <1>3. PICK j \in 1 .. Len(input[intersectionStates[x][n].partition]) : input[intersectionStates[x][n].partition][j] = n
    BY DEF TInv, ProcInv, StateInv
  <1> QED BY <1>2, <1>3, NilFacts DEF TInv, Keyed

LEMMA StateCar ==
  ASSUME NEW s \in States, NEW o \in Nat
  PROVE  /\ [s EXCEPT !.cars = Append(s.cars, o)] \in States /\ [s EXCEPT !.cars = Append(s.cars, o)] # Nil
         /\ [s EXCEPT !.cars = Append(s.cars, o)].partition = s.partition
         /\ [s EXCEPT !.cars = Append(s.cars, o)].kept = s.kept
         /\ [s EXCEPT !.cars = Append(s.cars, o)].cars = Append(s.cars, o)
         /\ s.cars \in Seq(Nat) /\ s.partition \in Partitions
  <1>1. s.cars \in Seq(Nat) /\ s.partition \in Partitions /\ Append(s.cars, o) \in Seq(Nat)
    BY SMT DEF States
  <1>2. /\ [s EXCEPT !.cars = Append(s.cars, o)] \in States
        /\ [s EXCEPT !.cars = Append(s.cars, o)].partition = s.partition
        /\ [s EXCEPT !.cars = Append(s.cars, o)].kept = s.kept
        /\ [s EXCEPT !.cars = Append(s.cars, o)].cars = Append(s.cars, o)
    <2>1. \A P, Q, K : \A r \in [partition : P, cars : Q, kept : K], a \in Q :
            /\ [r EXCEPT !.cars = a] \in [partition : P, cars : Q, kept : K]
            /\ [r EXCEPT !.cars = a].partition = r.partition /\ [r EXCEPT !.cars = a].kept = r.kept
            /\ [r EXCEPT !.cars = a].cars = a
      BY SMT
    <2> QED BY <1>1, <2>1 DEF States
  <1> QED BY <1>1, <1>2, NilFacts

\* A message extends what the open transaction has read, and the state of its key.
LEMMA PollMessageKeeps ==
  ASSUME TInv, NEW x \in Procs, NEW p \in Partitions, PollMessage(x, p) PROVE TInv'
  <1>1. UNCHANGED <<tpc, todo, cur, producers, assigned, rebq, txn, coord, seen, bug>>
    BY DEF PollMessage, hist
  <1>2. /\ tpc[x] = "loop" /\ p \in assigned[x] /\ position[x][p] < Len(input[p])
        /\ position' = [position EXCEPT ![x][p] = @ + 1]
        /\ local' = [local EXCEPT ![x][p].read = Append(@, position[x][p])]
        /\ intersectionStates' = Counted(x, p, position[x][p])
    BY DEF PollMessage
  <1>3. ProcInv(x)
    BY DEF TInv
  <1> PICK o \in Nat : o = position[x][p]
    BY DEF TInv, TTypeOK, ConsTypeOK
  <1>4. input[p] \in Seq(Intersections \cup {Nil}) /\ o < Len(input[p])
    BY <1>2 DEF TInv, TTypeOK, SeenTypeOK
  <1>5. o + 1 \in 1 .. Len(input[p])
    BY <1>4, SMT
  <1> PICK n \in Intersections \cup {Nil} : n = input[p][o + 1]
    BY <1>4, <1>5, SMT
  <1>6. /\ \A q \in Partitions : position'[x][q] = IF q = p THEN o + 1 ELSE position[x][q]
        /\ \A y \in Procs \ {x} : position'[y] = position[y]
        /\ position' \in [Procs -> [Partitions -> Nat]]
    BY <1>2, SMT DEF TInv, TTypeOK, ConsTypeOK
  <1>7. /\ \A q \in Partitions : local'[x][q].out = local[x][q].out
        /\ \A q \in Partitions \ {p} : local'[x][q].read = local[x][q].read
        /\ local'[x][p].read = Append(local[x][p].read, o)
        /\ \A y \in Procs \ {x} : local'[y] = local[y]
        /\ local' \in [Procs -> [Partitions -> Batches]]
    <2> PICK b : b = [local[x][p] EXCEPT !.read = Append(local[x][p].read, o)]
      OBVIOUS
    <2>1. local \in [Procs -> [Partitions -> Batches]] /\ local[x][p] \in Batches
      BY DEF TInv, TTypeOK, TxnTypeOK
    <2>2. local' = [local EXCEPT ![x][p] = b]
      BY <1>2, <2>1
    <2>3. b \in Batches /\ b.read = Append(local[x][p].read, o) /\ b.out = local[x][p].out
      <3>1. \A R, S : \A c \in [read : R, out : S], l \in R :
              /\ [c EXCEPT !.read = l] \in [read : R, out : S]
              /\ [c EXCEPT !.read = l].read = l /\ [c EXCEPT !.read = l].out = c.out
        BY SMT
      <3>2. Append(local[x][p].read, o) \in Seq(Nat)
        BY <2>1, SMT DEF Batches
      <3> QED BY <2>1, <3>1, <3>2 DEF Batches
    <2>4. /\ \A q \in Partitions : local'[x][q] = IF q = p THEN b ELSE local[x][q]
          /\ \A y \in Procs \ {x} : local'[y] = local[y]
          /\ local' \in [Procs -> [Partitions -> Batches]]
      BY <2>1, <2>2, <2>3, SMT
    <2> QED BY <2>3, <2>4
  <1>8. /\ \A m \in Intersections \ {n} : intersectionStates'[x][m] = intersectionStates[x][m]
        /\ \A y \in Procs \ {x} : intersectionStates'[y] = intersectionStates[y]
        /\ intersectionStates' \in [Procs -> [Intersections -> States \cup {Nil}]]
        /\ n # Nil => /\ intersectionStates'[x][n] # Nil
                      /\ intersectionStates'[x][n].partition = p
                      /\ \/ /\ intersectionStates[x][n] = Nil
                            /\ intersectionStates'[x][n].cars = Append(<<>>, o)
                         \/ /\ intersectionStates[x][n] # Nil /\ intersectionStates[x][n].partition = p
                            /\ intersectionStates'[x][n].kept = intersectionStates[x][n].kept
                            /\ intersectionStates[x][n].cars \in Seq(Nat)
                            /\ intersectionStates'[x][n].cars = Append(intersectionStates[x][n].cars, o)
    <2>1. CASE n = Nil
      <3>1. intersectionStates' = intersectionStates
        BY <1>2, <2>1 DEF Counted
      <3> QED BY <2>1, <3>1 DEF TInv, TTypeOK, ProcTypeOK
    <2>2. CASE n # Nil
      <3>1. n \in Intersections /\ intersectionStates[x][n] \in States \cup {Nil}
        BY <2>2 DEF TInv, TTypeOK, ProcTypeOK
      <3>2. PICK old : old = (IF intersectionStates[x][n] # Nil THEN intersectionStates[x][n]
                              ELSE [partition |-> p, cars |-> <<>>, kept |-> FALSE])
        OBVIOUS
      <3>3. [partition |-> p, cars |-> <<>>, kept |-> FALSE] \in States
        BY SMT DEF States
      <3>4. old \in States
        BY <3>1, <3>2, <3>3
      <3>5. PICK new : new = [old EXCEPT !.cars = Append(old.cars, o)]
        OBVIOUS
      <3>6. /\ new \in States /\ new # Nil /\ new.partition = old.partition /\ new.kept = old.kept
            /\ new.cars = Append(old.cars, o) /\ old.cars \in Seq(Nat)
        BY <3>4, <3>5, StateCar
      <3>7. intersectionStates' = [intersectionStates EXCEPT ![x][n] = new]
        BY <1>2, <2>2, <3>2, <3>5 DEF Counted
      <3>8. /\ \A m \in Intersections \ {n} : intersectionStates'[x][m] = intersectionStates[x][m]
            /\ \A y \in Procs \ {x} : intersectionStates'[y] = intersectionStates[y]
            /\ intersectionStates' \in [Procs -> [Intersections -> States \cup {Nil}]]
            /\ intersectionStates'[x][n] = new
        <4>1. intersectionStates \in [Procs -> [Intersections -> States \cup {Nil}]]
          BY DEF TInv, TTypeOK, ProcTypeOK
        <4> QED BY <3>1, <3>6, <3>7, <4>1, SMT
      <3>9. CASE intersectionStates[x][n] = Nil
        <4>1. old.partition = p /\ old.cars = <<>>
          BY <3>2, <3>9
        <4> QED BY <3>6, <3>8, <3>9, <4>1
      <3>10. CASE intersectionStates[x][n] # Nil
        <4>1. intersectionStates[x][n].partition = p
          <5>1. \A i \in 1 .. Len(input[p]) : input[p][i] = n => intersectionStates[x][n].partition = p
            BY <3>1, <3>10, KeyedState
          <5> QED BY <1>5, <5>1
        <4> QED BY <3>2, <3>6, <3>8, <3>10, <4>1
      <3> QED BY <3>9, <3>10
    <2> QED BY <2>1, <2>2
  <1>9. TTypeOK'
    BY <1>1, <1>6, <1>7, <1>8 DEF TInv, TTypeOK, ProcTypeOK, ConsTypeOK, TxnTypeOK, SeenTypeOK, coord, seen
  <1>10. RebalanceInv(x)' /\ LoopInv(x)' /\ PhaseInv(x)'
    <2>1. LoopInv(x)'
      <3>1. ASSUME NEW m \in Intersections, intersectionStates'[x][m] # Nil
            PROVE  intersectionStates'[x][m].partition \in assigned[x]
        <4>1. CASE m = n
          BY <1>2, <1>8, <4>1, NilFacts
        <4>2. CASE m # n
          BY <1>3, <1>8, <3>1, <4>2 DEF ProcInv, LoopInv
        <4> QED BY <4>1, <4>2
      <3> QED BY <1>1, <1>2, <3>1 DEF LoopInv, Committing
    <2> QED BY <1>1, <1>2, <1>3, <2>1 DEF ProcInv, RebalanceInv, PhaseInv
  <1>11. PositionInv(x)'
    <2>1. o + 1 <= Len(input[p])
      BY <1>5, SMT
    <2> QED BY <1>1, <1>3, <1>6, <2>1 DEF ProcInv, PositionInv, coord
  <1>12. ASSUME NEW m \in Intersections PROVE StateInv(x, m)'
    <2>1. StateInv(x, m) /\ intersectionStates[x][m] \in States \cup {Nil}
      BY <1>3 DEF ProcInv, TInv, TTypeOK, ProcTypeOK
    <2>2. CASE m # n /\ intersectionStates[x][m] # Nil /\ intersectionStates[x][m].partition = p
      <3>1. intersectionStates[x][m].cars \in Seq(Nat)
        BY <2>1, <2>2, SMT DEF States
      <3>2. \A q \in o .. (o + 1) - 1 : input[p][q + 1] # m
        <4>1. \A q \in o .. (o + 1) - 1 : q = o
          BY SMT
        <4> QED BY <2>2, <4>1
      <3>3. o <= o + 1 /\ o + 1 \in Nat
        BY SMT
      <3>4. ~intersectionStates[x][m].kept => CountsUpTo(input, m, intersectionStates[x][m], o + 1)
        BY <2>1, <2>2, <3>1, <3>2, <3>3, CountsSkip DEF StateInv
      <3>5. intersectionStates'[x][m] = intersectionStates[x][m] /\ position'[x][p] = o + 1 /\ UNCHANGED input
        BY <1>1, <1>6, <1>8, <2>2 DEF coord
      <3> QED BY <2>1, <2>2, <3>4, <3>5 DEF StateInv
    <2>3. CASE m # n /\ intersectionStates[x][m] # Nil /\ intersectionStates[x][m].partition # p
      <3>1. intersectionStates[x][m].partition \in Partitions
        BY <2>1, <2>3, SMT DEF States
      <3> QED BY <1>1, <1>6, <1>8, <2>1, <2>3, <3>1, StateSame DEF coord
    <2>4. CASE m # n /\ intersectionStates[x][m] = Nil
      BY <1>8, <2>4 DEF StateInv
    <2>5. CASE m = n
      <3> DEFINE s == intersectionStates'[x][n]
      <3>1. n # Nil
        BY <2>5, NilFacts
      <3>2. s # Nil /\ s.partition = p
        BY <1>8, <3>1
      <3>3. ~s.kept => CountsUpTo(input, n, s, o + 1)
        <4>1. CASE s.cars = Append(<<>>, o)
          BY <3>2, <4>1, CountsFirst
        <4>2. CASE /\ intersectionStates[x][n] # Nil /\ intersectionStates[x][n].partition = p
                   /\ s.kept = intersectionStates[x][n].kept
                   /\ intersectionStates[x][n].cars \in Seq(Nat)
                   /\ s.cars = Append(intersectionStates[x][n].cars, o)
          <5>1. ~s.kept => CountsUpTo(input, n, intersectionStates[x][n], o)
            BY <2>1, <2>5, <4>2 DEF StateInv
          <5> HIDE DEF s
          <5> QED BY <3>2, <4>2, <5>1, CountsMore
        <4> QED BY <1>8, <3>1, <4>1, <4>2
      <3>4. \E i \in 1 .. Len(input[p]) : input[p][i] = n
        BY <1>5
      <3> QED BY <1>1, <1>6, <2>5, <3>2, <3>3, <3>4 DEF StateInv, coord
    <2> QED BY <2>2, <2>3, <2>4, <2>5
  <1>13. \A q \in Partitions : Open(x, q)' = Open(x, q)
    BY <1>1, OpenSame DEF coord
  <1>14. ASSUME NEW q \in Partitions PROVE ReadInv(x, q)' /\ CountedInv(x, q)' /\ OutInv(x, q)'
    <2>1. ReadInv(x, q)'
      <3>1. CASE q # p
        BY <1>1, <1>3, <1>6, <1>7, <1>13, <3>1, ReadSame DEF ProcInv, seen
      <3>2. CASE q = p
        <4>1. Open(x, p) => committed[p] <= o /\ local[x][p].read = Span(committed[p], o)
          BY <1>2, <1>3 DEF ProcInv, ReadInv
        <4>2. committed[p] \in Nat /\ (committed[p] <= o => committed[p] <= o + 1)
          BY SMT DEF TInv, TTypeOK, SeenTypeOK
        <4>3. committed[p] <= o => Append(Span(committed[p], o), o) = Span(committed[p], o + 1)
          BY <4>2, SpanAppend
        <4> QED BY <1>1, <1>2, <1>6, <1>7, <1>13, <3>2, <4>1, <4>2, <4>3 DEF ReadInv, seen
      <3> QED BY <3>1, <3>2
    <2>2. CountedInv(x, q)'
      <3> SUFFICES ASSUME Open(x, q)', q \in assigned'[x], NEW k \in committed'[q] .. position'[x][q] - 1, input'[q][k + 1] # Nil
                   PROVE  intersectionStates'[x][input'[q][k + 1]] # Nil
        BY DEF CountedInv
      <3>1. UNCHANGED input /\ committed'[q] = committed[q] /\ q \in assigned[x] /\ Open(x, q)
        BY <1>1, <1>13 DEF coord, seen
      <3>2. CASE q = p /\ k = o
        <4>1. input'[q][k + 1] = n
          BY <3>1, <3>2
        <4> QED BY <1>8, <3>2, <4>1
      <3>3. CASE q # p \/ k # o
        <4>1. committed[q] \in Nat /\ position[x][q] \in Nat /\ position[x][q] <= Len(input[q]) /\ input[q] \in Seq(Intersections \cup {Nil})
          BY <1>3 DEF ProcInv, PositionInv, TInv, TTypeOK, SeenTypeOK, ConsTypeOK
        <4>2. position'[x][q] = (IF q = p THEN o + 1 ELSE position[x][q])
          BY <1>6
        <4>3. k \in committed[q] .. position[x][q] - 1
          BY <3>1, <3>3, <4>1, <4>2, SMT
        <4>4. intersectionStates[x][input[q][k + 1]] # Nil
          BY <1>3, <3>1, <4>3 DEF ProcInv, CountedInv
        <4>5. input[q][k + 1] \in Intersections
          <5>1. input[q][k + 1] \in Intersections \cup {Nil}
            BY <4>1, <4>3, SMT
          <5> QED BY <3>1, <5>1
        <4> QED BY <1>8, <3>1, <4>4, <4>5
      <3> QED BY <3>2, <3>3
    <2>3. OutInv(x, q)'
      <3>1. q \notin Pending(x) /\ (q \notin Pending(x))' /\ tpc[x] \notin Stopped
        BY <1>1, <1>2 DEF Pending, Committing, Stopped
      <3>2. Open(x, q) => \A m \in Intersections : local[x][q].out[m] = Nil
        BY <1>3, <3>1 DEF ProcInv, OutInv
      <3> QED BY <1>7, <1>13, <3>1, <3>2 DEF OutInv
    <2> QED BY <2>1, <2>2, <2>3
  <1>15. ProcInv(x)'
    BY <1>10, <1>11, <1>12, <1>14 DEF ProcInv
  <1> QED BY <1>1, <1>6, <1>7, <1>8, <1>9, <1>15, ProcStep DEF SameProc, coord, seen

-----------------------------------------------------------------------------
(* The calls of x for the transaction of p.                                 *)

\* What a call leaves of x: what it has of other partitions, and of p if the
\* transaction stays open.
LEMMA CallStep ==
  ASSUME TInv, NEW x \in Procs, NEW p \in Partitions, tpc[x] \notin Stopped,
         RebalanceInv(x)', LoopInv(x)', PhaseInv(x)',
         UNCHANGED <<intersectionStates, producers, assigned, position, local, input, epoch>>,
         \A q \in Partitions \ {p} : /\ txn'[x][q] = txn[x][q] /\ committed'[q] = committed[q]
                                     /\ (q \in Pending(x))' = (q \in Pending(x)),
         \/ ~Open(x, p)'
         \/ txn'[x][p] = txn[x][p] /\ committed'[p] = committed[p] /\ (p \in Pending(x))' = (p \in Pending(x))
  PROVE  ProcInv(x)'
  <1>1. ProcInv(x)
    BY DEF TInv
  <1>2. PositionInv(x)'
    BY <1>1 DEF ProcInv, PositionInv
  <1>3. ASSUME NEW n \in Intersections PROVE StateInv(x, n)'
    BY <1>1, StateSame DEF ProcInv
  <1>4. ASSUME NEW q \in Partitions PROVE ReadInv(x, q)' /\ CountedInv(x, q)' /\ OutInv(x, q)'
    <2>1. CASE ~Open(x, q)'
      BY <2>1 DEF ReadInv, CountedInv, OutInv, Open, Fenced
    <2>2. CASE Open(x, q)'
      <3>1. /\ txn'[x][q] = txn[x][q] /\ committed'[q] = committed[q]
            /\ (q \in Pending(x))' = (q \in Pending(x))
        BY <2>2
      <3>2. Open(x, q)' = Open(x, q)
        BY <3>1, OpenSame
      <3>3. ReadInv(x, q)' /\ CountedInv(x, q)'
        BY <1>1, <3>1, <3>2, ReadSame, CountedSame DEF ProcInv
      <3>4. OutInv(x, q)'
        BY <1>1, <3>1, <3>2, OutSame DEF ProcInv
      <3> QED BY <3>3, <3>4
    <2> QED BY <2>1, <2>2
  <1> QED BY <1>2, <1>3, <1>4 DEF ProcInv

\* A transaction that is open is not being finished.
LEMMA OpenNotEnding ==
  ASSUME TInv, NEW x \in Procs, NEW p \in Partitions, ~Fenced(x, p), txn[x][p] # "committing"
  PROVE  ending[p] = Nil
  BY DEF TInv, PartInv, EndInv

\* Between the ticker and the commit it has a message for all that it has read.
LEMMA OpenHolds ==
  ASSUME TInv, NEW x \in Procs, NEW p \in Partitions, Open(x, p), p \in assigned[x], p \in Pending(x),
         tpc[x] \notin Stopped
  PROVE  Holds(p, local[x][p].out, position[x][p])
  <1>1. ProcInv(x)
    BY DEF TInv
  <1>2. \A n \in Intersections : local[x][p].out[n] =
          IF intersectionStates[x][n] # Nil /\ intersectionStates[x][n].partition = p THEN intersectionStates[x][n] ELSE Nil
    BY <1>1 DEF ProcInv, OutInv
  <1>3. ASSUME NEW n \in Intersections, local[x][p].out[n] # Nil
        PROVE  /\ local[x][p].out[n].partition = p
               /\ ~local[x][p].out[n].kept => CountsUpTo(input, n, local[x][p].out[n], position[x][p])
    <2>1. /\ local[x][p].out[n] = intersectionStates[x][n] /\ intersectionStates[x][n] # Nil
          /\ intersectionStates[x][n].partition = p
      BY <1>2, <1>3
    <2> QED BY <1>1, <2>1 DEF ProcInv, StateInv
  <1>4. ASSUME NEW o \in committed[p] .. position[x][p] - 1, input[p][o + 1] # Nil
        PROVE  local[x][p].out[input[p][o + 1]] # Nil
    <2>1. /\ committed[p] \in Nat /\ position[x][p] \in Nat /\ position[x][p] <= Len(input[p])
          /\ input[p] \in Seq(Intersections \cup {Nil})
      BY <1>1 DEF ProcInv, PositionInv, TInv, TTypeOK, SeenTypeOK, ConsTypeOK
    <2>2. o + 1 \in 1 .. Len(input[p])
      BY <2>1, SMT
    <2>3. PICK n \in Intersections : n = input[p][o + 1]
      <3>1. input[p][o + 1] \in Intersections \cup {Nil}
        BY <2>1, <2>2, SMT
      <3> QED BY <1>4, <3>1
    <2>4. intersectionStates[x][n] # Nil
      BY <1>1, <1>4, <2>3 DEF ProcInv, CountedInv
    <2>5. \A m \in Intersections : \A i \in 1 .. Len(input[p]) :
            intersectionStates[x][m] # Nil /\ input[p][i] = m => intersectionStates[x][m].partition = p
      BY KeyedState
    <2>6. intersectionStates[x][n].partition = p
      BY <2>2, <2>3, <2>4, <2>5
    <2> QED BY <1>2, <2>3, <2>4, <2>6
  <1> QED BY <1>3, <1>4 DEF Holds

\* A transaction that holds what it has read may become visible.
LEMMA VisibleKeeps ==
  ASSUME TInv, NEW p \in Partitions, NEW t \in Batches, NEW e \in Nat, Visible(p, t, e), UNCHANGED input,
         committed[p] <= e, e <= Len(input[p]), t.read = Span(committed[p], e), Holds(p, t.out, e)
  PROVE  /\ DoneInv(p)' /\ OutputInv'
         /\ committed' \in [Partitions -> Nat] /\ done' \in [Partitions -> Seq(Nat)]
         /\ output' \in [Intersections -> States \cup {Nil}]
         /\ \A q \in Partitions \ {p} : committed'[q] = committed[q] /\ done'[q] = done[q]
         /\ committed'[p] = e
  <1>1. committed \in [Partitions -> Nat] /\ done \in [Partitions -> Seq(Nat)] /\ output \in [Intersections -> States \cup {Nil}]
    BY DEF TInv, TTypeOK, SeenTypeOK
  <1>2. /\ committed' = [committed EXCEPT ![p] = e]
        /\ output' = [n \in Intersections |-> IF t.out[n] # Nil THEN t.out[n] ELSE output[n]]
        /\ done' = [done EXCEPT ![p] = done[p] \o t.read]
    BY NilFacts DEF Visible
  <1>3. t.out \in [Intersections -> States \cup {Nil}] /\ t.read \in Seq(Nat)
    BY SMT DEF Batches
  <1>4. committed' \in [Partitions -> Nat] /\ committed'[p] = e /\ \A q \in Partitions \ {p} : committed'[q] = committed[q]
    BY <1>1, <1>2, SMT
  <1>5. done[p] \o t.read \in Seq(Nat)
    BY <1>1, <1>3, SMT
  <1>6. done' \in [Partitions -> Seq(Nat)] /\ done'[p] = done[p] \o t.read /\ \A q \in Partitions \ {p} : done'[q] = done[q]
    BY <1>1, <1>2, <1>5, SMT
  <1>7. output' \in [Intersections -> States \cup {Nil}] /\ \A n \in Intersections : output'[n] = IF t.out[n] # Nil THEN t.out[n] ELSE output[n]
    BY <1>1, <1>2, <1>3, SMT
  <1>8. DoneInv(p)'
    <2>1. done[p] = [i \in 1 .. committed[p] |-> i - 1]
      BY DEF TInv, PartInv, DoneInv
    <2>2. done[p] \o t.read = [i \in 1 .. e |-> i - 1]
      <3>1. committed[p] \in Nat
        BY <1>1
      <3>2. [i \in 1 .. committed[p] |-> i - 1] \o Span(committed[p], e) = [i \in 1 .. e |-> i - 1]
        BY <3>1, SpanJoin
      <3> QED BY <2>1, <3>2
    <2> QED BY <1>4, <1>6, <2>2 DEF DoneInv
  <1>9. ASSUME NEW n \in Intersections, output'[n] # Nil, ~output'[n].kept
        PROVE  CountsUpTo(input, n, output'[n], committed'[output'[n].partition])
    <2>1. CASE t.out[n] # Nil
      BY <1>4, <1>7, <1>9, <2>1 DEF Holds
    <2>2. CASE t.out[n] = Nil
      <3>1. output'[n] = output[n] /\ output[n] \in States
        BY <1>1, <1>7, <1>9, <2>2
      <3>2. output[n].partition \in Partitions /\ output[n].cars \in Seq(Nat)
        BY <3>1, SMT DEF States
      <3>3. CountsUpTo(input, n, output[n], committed[output[n].partition])
        BY <1>9, <3>1 DEF TInv, OutputInv
      <3>4. CASE output[n].partition # p
        BY <1>4, <3>1, <3>2, <3>3, <3>4
      <3>5. CASE output[n].partition = p
        <4>1. \A o \in committed[p] .. e - 1 : input[p][o + 1] # n
          BY <2>2, NilFacts DEF Holds
        <4>2. committed[p] \in Nat
          BY <1>1
        <4>3. CountsUpTo(input, n, output[n], e)
          BY <3>2, <3>3, <3>5, <4>1, <4>2, CountsSkip
        <4> QED BY <1>4, <3>1, <3>5, <4>3
      <3> QED BY <3>4, <3>5
    <2> QED BY <2>1, <2>2
  <1> QED BY <1>4, <1>6, <1>7, <1>8, <1>9 DEF OutputInv

\* The coordinator finishes what a producer waits for, or one that is fenced.
LEMMA FinishKeeps ==
  ASSUME TInv, NEW p \in Partitions, Finish(p) PROVE TInv'
  <1>1. UNCHANGED <<proc, cons, prod, input, epoch, bug>>
    BY DEF Finish, hist
  <1>2. /\ ending[p] # Nil /\ Visible(p, ending[p], offsets[p])
        /\ ending' = [ending EXCEPT ![p] = Nil] /\ offsets' = [offsets EXCEPT ![p] = Nil]
    BY DEF Finish
  <1>3. ending[p] \in Batches
    BY <1>2 DEF TInv, TTypeOK, TxnTypeOK
  <1>4. /\ offsets[p] \in Nat /\ committed[p] <= offsets[p] /\ offsets[p] <= Len(input[p])
        /\ ending[p].read = Span(committed[p], offsets[p]) /\ Holds(p, ending[p].out, offsets[p])
        /\ \A x \in Procs : ~Fenced(x, p) => txn[x][p] = "committing"
    BY <1>2 DEF TInv, PartInv, EndInv, EndOutInv
  <1>5. /\ DoneInv(p)' /\ OutputInv'
        /\ committed' \in [Partitions -> Nat] /\ done' \in [Partitions -> Seq(Nat)]
        /\ output' \in [Intersections -> States \cup {Nil}]
        /\ \A q \in Partitions \ {p} : committed'[q] = committed[q] /\ done'[q] = done[q]
    BY <1>1, <1>2, <1>3, <1>4, VisibleKeeps
  <1>6. /\ ending' \in [Partitions -> Batches \cup {Nil}] /\ offsets' \in [Partitions -> Nat \cup {Nil}]
        /\ ending'[p] = Nil /\ \A q \in Partitions \ {p} : ending'[q] = ending[q] /\ offsets'[q] = offsets[q]
    BY <1>2, SMT DEF TInv, TTypeOK, TxnTypeOK
  <1>7. TTypeOK'
    BY <1>1, <1>5, <1>6 DEF TInv, TTypeOK, ProcTypeOK, ConsTypeOK, TxnTypeOK, SeenTypeOK, proc, cons, prod
  <1>8. \A x \in Procs, q \in Partitions : Fenced(x, q)' = Fenced(x, q)
    BY <1>1 DEF Fenced, proc
  <1>9. OneProducer' /\ NoBug' /\ Keyed(input)'
    BY <1>1, <1>8 DEF TInv, OneProducer, NoBug, Keyed
  <1>10. ASSUME NEW x \in Procs PROVE ProcInv(x)'
    <2>1. SameProc(x)
      BY <1>1 DEF SameProc, proc, cons, prod
    <2>2. ASSUME NEW q \in Partitions
          PROVE  \/ SamePart(q) \/ Fenced(x, q)'
                 \/ epoch'[q] = epoch[q] /\ txn[x][q] = "committing"
      <3>1. CASE q = p
        BY <1>1, <1>4, <1>8, <3>1
      <3>2. CASE q # p
        BY <1>1, <1>5, <1>6, <3>2 DEF SamePart
      <3> QED BY <3>1, <3>2
    <2> QED BY <1>1, <2>1, <2>2, OthersKeep
  <1>11. ASSUME NEW q \in Partitions PROVE PartInv(q)'
    <2>1. CASE q = p
      BY <1>5, <1>6, <2>1 DEF PartInv, EndInv, EndOutInv
    <2>2. CASE q # p
      BY <1>1, <1>5, <1>6, <1>8, <2>2, PartKeep DEF TInv, prod
    <2> QED BY <2>1, <2>2
  <1> QED BY <1>5, <1>7, <1>9, <1>10, <1>11 DEF TInv

\* createTransactionalProducer() fences all others, and has nothing to write yet.
LEMMA CreateKeeps ==
  ASSUME TInv, NEW x \in Procs, NEW p \in Partitions, createTransactionalProducer(x, p) PROVE TInv'
  <1>1. /\ tpc[x] = "create" /\ p \in todo[x]
        /\ UNCHANGED <<cur, intersectionStates, cons, seen, bug>>
    BY DEF createTransactionalProducer
  <1>2. ProcInv(x)
    BY DEF TInv
  <1>3. CASE tpc' = [tpc EXCEPT ![x] = "dead"] /\ UNCHANGED <<todo, producers, prod, coord>>
    <2>1. tpc'[x] = "dead" /\ \A y \in Procs \ {x} : tpc'[y] = tpc[y]
      BY <1>3 DEF TInv, TTypeOK, ProcTypeOK
    <2>2. TTypeOK'
      <3>1. tpc' \in [Procs -> {"loop", "create", "destroy"} \cup Committing \cup Stopped]
        BY <1>3, SMT DEF TInv, TTypeOK, ProcTypeOK, Stopped
      <3> QED BY <1>1, <1>3, <3>1 DEF TInv, TTypeOK, ProcTypeOK, ConsTypeOK, TxnTypeOK, SeenTypeOK, cons, prod, coord, seen
    <2>3. ProcInv(x)'
      BY <1>1, <1>3, <2>1, DeadStep DEF prod, coord, seen
    <2> QED BY <1>1, <1>3, <2>1, <2>2, <2>3, ProcStep DEF SameProc, cons, prod, coord, seen
  <1>4. CASE /\ ending[p] = Nil /\ epoch' = [epoch EXCEPT ![p] = @ + 1] /\ offsets' = [offsets EXCEPT ![p] = Nil]
             /\ producers' = [producers EXCEPT ![x][p] = epoch'[p]]
             /\ txn' = [txn EXCEPT ![x][p] = "open"] /\ local' = [local EXCEPT ![x][p] = Fresh]
             /\ todo' = [todo EXCEPT ![x] = @ \ {p}]
             /\ UNCHANGED <<tpc, input, ending>>
    <2>1. /\ epoch' \in [Partitions -> Nat] /\ epoch'[p] = epoch[p] + 1 /\ epoch'[p] \in Nat
          /\ \A q \in Partitions \ {p} : epoch'[q] = epoch[q]
          /\ \A q \in Partitions : epoch[q] \in Nat
      BY <1>4, SMT DEF TInv, TTypeOK, TxnTypeOK
    <2>2. /\ producers' \in [Procs -> [Partitions -> Nat \cup {Nil}]]
          /\ \A q \in Partitions : producers'[x][q] = IF q = p THEN epoch'[p] ELSE producers[x][q]
          /\ \A y \in Procs \ {x} : producers'[y] = producers[y]
      BY <1>4, <2>1, SMT DEF TInv, TTypeOK, TxnTypeOK
    <2>3. \A y \in Procs, q \in Partitions : producers[y][q] \in 1 .. epoch[q] \cup {Nil}
      BY DEF TInv, TTypeOK, TxnTypeOK
    <2>4. \A y \in Procs, q \in Partitions : producers'[y][q] \in 1 .. epoch'[q] \cup {Nil}
      <3> SUFFICES ASSUME NEW y \in Procs, NEW q \in Partitions PROVE producers'[y][q] \in 1 .. epoch'[q] \cup {Nil}
        OBVIOUS
      <3>1. CASE y = x /\ q = p
        BY <2>1, <2>2, <3>1, SMT
      <3>2. CASE ~(y = x /\ q = p)
        <4>1. producers'[y][q] = producers[y][q]
          BY <2>2, <3>2
        <4>2. epoch'[q] = epoch[q] \/ epoch'[q] = epoch[q] + 1
          BY <2>1
        <4> QED BY <2>1, <2>3, <4>1, <4>2, SMT
      <3> QED BY <3>1, <3>2
    <2>5. /\ txn' \in [Procs -> [Partitions -> {"none", "ready", "open", "abortable", "committing", "fatal"}]]
          /\ \A q \in Partitions : txn'[x][q] = IF q = p THEN "open" ELSE txn[x][q]
          /\ \A y \in Procs \ {x} : txn'[y] = txn[y]
      BY <1>4, SMT DEF TInv, TTypeOK, TxnTypeOK
    <2>6. /\ local' \in [Procs -> [Partitions -> Batches]]
          /\ \A q \in Partitions : local'[x][q] = IF q = p THEN Fresh ELSE local[x][q]
          /\ \A y \in Procs \ {x} : local'[y] = local[y]
      <3>1. Fresh \in Batches
        BY SMT DEF Fresh, Batches, NoStates
      <3>2. local \in [Procs -> [Partitions -> Batches]]
        BY DEF TInv, TTypeOK, TxnTypeOK
      <3> QED BY <1>4, <3>1, <3>2, SMT
    <2>7. /\ todo' \in [Procs -> SUBSET Partitions] /\ todo'[x] = todo[x] \ {p}
          /\ \A y \in Procs \ {x} : todo'[y] = todo[y]
      BY <1>4, SMT DEF TInv, TTypeOK, ProcTypeOK
    <2>8. /\ offsets' \in [Partitions -> Nat \cup {Nil}]
          /\ \A q \in Partitions \ {p} : offsets'[q] = offsets[q]
      BY <1>4, SMT DEF TInv, TTypeOK, TxnTypeOK
    <2>9. TTypeOK'
      BY <1>1, <1>4, <2>1, <2>2, <2>4, <2>5, <2>6, <2>7, <2>8 DEF TInv, TTypeOK, ProcTypeOK, ConsTypeOK, TxnTypeOK, SeenTypeOK, cons, seen
    <2>10. \A y \in Procs \ {x} : Fenced(y, p)'
      <3> SUFFICES ASSUME NEW y \in Procs \ {x} PROVE Fenced(y, p)'
        OBVIOUS
      <3>1. producers'[y][p] \in 1 .. epoch[p] \cup {Nil}
        BY <2>2, <2>3
      <3>2. epoch'[p] \notin 1 .. epoch[p]
        BY <2>1, SMT
      <3> QED BY <2>1, <3>1, <3>2, NilFacts DEF Fenced
    <2>11. /\ rebq[x] # Nil /\ rebq[x].type = "assign" /\ assigned[x] = {}
           /\ \A q \in rebq[x].parts \ todo[x] : producers[x][q] # Nil
      BY <1>1, <1>2 DEF ProcInv, RebalanceInv
    <2>12. \A n \in Intersections : intersectionStates[x][n] = Nil
      BY <1>2, <2>11 DEF ProcInv, LoopInv
    <2>13. RebalanceInv(x)'
      <3>1. \A q \in rebq[x].parts \ todo'[x] : producers'[x][q] # Nil
        <4>1. \A q \in rebq[x].parts \ todo'[x] : q = p \/ q \in rebq[x].parts \ todo[x]
          BY <2>7
        <4>2. rebq[x] \in RebalanceEvents
          BY <2>11 DEF TInv, TTypeOK, ConsTypeOK
        <4>3. rebq[x].parts \subseteq Partitions
          BY <4>2, SMT DEF RebalanceEvents
        <4> QED BY <2>1, <2>2, <2>11, <4>1, <4>3, NilFacts
      <3> QED BY <1>1, <2>11, <3>1 DEF RebalanceInv, cons
    <2>14. LoopInv(x)' /\ PositionInv(x)' /\ PhaseInv(x)'
      BY <1>1, <1>2, <1>4, <2>12 DEF LoopInv, ProcInv, PositionInv, PhaseInv, Committing, cons
    <2>15. ASSUME NEW n \in Intersections PROVE StateInv(x, n)'
      BY <1>1, <2>12 DEF StateInv
    <2>16. ASSUME NEW q \in Partitions PROVE ReadInv(x, q)' /\ CountedInv(x, q)' /\ OutInv(x, q)'
      <3>1. q \notin assigned'[x]
        BY <1>1, <2>11 DEF cons
      <3>2. CASE q = p
        <4>1. local'[x][q].read = <<>> /\ \A n \in Intersections : local'[x][q].out[n] = Nil
          BY <2>6, <3>2, SMT DEF Fresh, NoStates
        <4> QED BY <1>1, <2>12, <3>1, <4>1 DEF ReadInv, CountedInv, OutInv
      <3>3. CASE q # p
        <4>1. Open(x, q)' = Open(x, q)
          BY <2>1, <2>2, <2>5, <3>3, OpenSame
        <4>2. ReadInv(x, q)'
          BY <1>2, <1>1, <2>6, <2>11, <3>1, <3>3, <4>1 DEF ProcInv, ReadInv
        <4>3. OutInv(x, q)'
          <5>1. Open(x, q) => \A n \in Intersections : local[x][q].out[n] = Nil
            BY <1>1, <1>2, <2>12 DEF ProcInv, OutInv, Stopped
          <5> QED BY <1>1, <2>6, <2>12, <3>3, <4>1, <5>1 DEF OutInv
        <4> QED BY <3>1, <4>2, <4>3 DEF CountedInv
      <3> QED BY <3>2, <3>3
    <2>17. ProcInv(x)'
      BY <2>13, <2>14, <2>15, <2>16 DEF ProcInv
    <2>18. PartInv(p)'
      BY <1>1, <1>4 DEF TInv, PartInv, EndInv, EndOutInv, DoneInv, seen
    <2>19. OutputInv'
      BY <1>1, <1>4, OutputKeep DEF TInv, seen
    <2>20. \A y \in Procs \ {x} : SameProc(y)
      BY <1>1, <1>4, <2>2, <2>5, <2>6, <2>7 DEF SameProc, cons
    <2>21. \A q \in Partitions \ {p} : /\ SamePart(q) /\ ending'[q] = ending[q] /\ done'[q] = done[q]
                                       /\ producers'[x][q] = producers[x][q] /\ txn'[x][q] = txn[x][q]
      BY <1>1, <1>4, <2>1, <2>2, <2>5, <2>8, SMTT(30) DEF SamePart, seen
    <2> QED BY <1>1, <1>4, <2>9, <2>10, <2>17, <2>18, <2>19, <2>20, <2>21, PartStep
  <1> QED BY <1>3, <1>4 DEF createTransactionalProducer, InitTransactions, BeginTransaction, TGoto

\* How the transaction of x for p may change.
LEMMA TxnType ==
  ASSUME TInv, NEW x \in Procs, NEW p \in Partitions, NEW v \in {"ready", "abortable", "committing", "fatal"},
         txn' = [txn EXCEPT ![x][p] = v]
  PROVE  /\ txn' \in [Procs -> [Partitions -> {"none", "ready", "open", "abortable", "committing", "fatal"}]]
         /\ txn'[x][p] = v /\ \A q \in Partitions \ {p} : txn'[x][q] = txn[x][q]
         /\ \A y \in Procs \ {x} : txn'[y] = txn[y]
  BY SMT DEF TInv, TTypeOK, TxnTypeOK

LEMMA OffsetType ==
  ASSUME TInv, NEW p \in Partitions, NEW o \in Nat \cup {Nil}, offsets' = [offsets EXCEPT ![p] = o]
  PROVE  /\ offsets' \in [Partitions -> Nat \cup {Nil}]
         /\ offsets'[p] = o /\ \A q \in Partitions \ {p} : offsets'[q] = offsets[q]
  BY SMT DEF TInv, TTypeOK, TxnTypeOK

LEMMA PcType ==
  ASSUME TInv, NEW x \in Procs, NEW l \in {"end", "abort", "rewind", "begin", "dead"}, TGoto(x, l)
  PROVE  /\ tpc' \in [Procs -> {"loop", "create", "destroy"} \cup Committing \cup Stopped]
         /\ tpc'[x] = l /\ \A y \in Procs \ {x} : tpc'[y] = tpc[y]
  BY SMT DEF TGoto, TInv, TTypeOK, ProcTypeOK, Committing, Stopped

\* A process ends at an abort that fails.
LEMMA AbortFailsKeeps ==
  ASSUME TInv, NEW x \in Procs, NEW p \in Partitions, AbortFails(x, p), TGoto(x, "dead"),
         todo' \in [Procs -> SUBSET Partitions], \A y \in Procs \ {x} : todo'[y] = todo[y],
         UNCHANGED <<cur, intersectionStates, producers, cons, local, input, epoch, ending, seen, bug>>
  PROVE  TInv'
  <1>1. UNCHANGED <<offsets, txn>>
    BY DEF AbortFails
  <1>2. /\ tpc' \in [Procs -> {"loop", "create", "destroy"} \cup Committing \cup Stopped]
        /\ tpc'[x] = "dead" /\ \A y \in Procs \ {x} : tpc'[y] = tpc[y]
    BY PcType
  <1>3. TTypeOK'
    BY <1>1, <1>2 DEF TInv, TTypeOK, ProcTypeOK, ConsTypeOK, TxnTypeOK, SeenTypeOK, cons, seen
  <1>4. ProcInv(x)'
    BY <1>1, <1>2, DeadStep DEF seen
  <1> QED BY <1>1, <1>2, <1>3, <1>4, ProcStep DEF SameProc, cons, seen

\* An abort leaves x a transaction that is not open, with no offsets.
LEMMA AbortOkKeeps ==
  ASSUME TInv, NEW x \in Procs, NEW p \in Partitions, AbortOk(x, p),
         tpc' \in [Procs -> {"loop", "create", "destroy"} \cup Committing \cup Stopped],
         todo' \in [Procs -> SUBSET Partitions],
         \A y \in Procs \ {x} : todo'[y] = todo[y] /\ tpc'[y] = tpc[y],
         \/ tpc[x] = "destroy" /\ tpc'[x] = "destroy"
         \/ tpc[x] = "abort" /\ tpc'[x] = "rewind" /\ cur[x] = p /\ todo'[x] = todo[x],
         UNCHANGED <<cur, intersectionStates, producers, cons, local, input, epoch, ending, seen, bug>>
  PROVE  TInv'
  <1>1. ~Fenced(x, p) /\ txn[x][p] # "committing" /\ ending[p] = Nil
    BY OpenNotEnding DEF AbortOk
  <1>2. txn' = [txn EXCEPT ![x][p] = "ready"] /\ offsets' = [offsets EXCEPT ![p] = Nil]
    BY DEF AbortOk
  <1>3. /\ txn' \in [Procs -> [Partitions -> {"none", "ready", "open", "abortable", "committing", "fatal"}]]
        /\ txn'[x][p] = "ready" /\ \A q \in Partitions \ {p} : txn'[x][q] = txn[x][q]
        /\ \A y \in Procs \ {x} : txn'[y] = txn[y]
    BY <1>2, TxnType
  <1>4. /\ offsets' \in [Partitions -> Nat \cup {Nil}]
        /\ \A q \in Partitions \ {p} : offsets'[q] = offsets[q]
    BY <1>2, OffsetType
  <1>5. TTypeOK'
    BY <1>3, <1>4 DEF TInv, TTypeOK, ProcTypeOK, ConsTypeOK, TxnTypeOK, SeenTypeOK, cons, seen
  <1>6. \A q \in Partitions : (q \in Pending(x))' = (q \in Pending(x))
    BY DEF Pending, Committing
  <1>7. ProcInv(x) /\ tpc[x] \notin Stopped
    BY DEF TInv, Stopped
  <1>8. RebalanceInv(x)'
    BY <1>7 DEF ProcInv, RebalanceInv, cons
  <1>9. LoopInv(x)'
    BY <1>7 DEF ProcInv, LoopInv, cons, Committing
  <1>10. PhaseInv(x)'
    BY <1>3 DEF PhaseInv
  <1>11. ~Open(x, p)'
    BY <1>3 DEF Open
  <1>12. ProcInv(x)'
    BY <1>3, <1>6, <1>7, <1>8, <1>9, <1>10, <1>11, CallStep DEF cons, seen
  <1>13. PartInv(p)'
    BY <1>1 DEF TInv, PartInv, EndInv, EndOutInv, DoneInv, seen
  <1>14. OutputInv'
    BY OutputKeep DEF TInv, seen
  <1>15. \A y \in Procs \ {x} : SameProc(y) /\ Fenced(y, p)'
    BY <1>1, <1>3, OthersFenced DEF SameProc, cons
  <1>16. \A q \in Partitions \ {p} : /\ SamePart(q) /\ ending'[q] = ending[q] /\ done'[q] = done[q]
                                     /\ producers'[x][q] = producers[x][q] /\ txn'[x][q] = txn[x][q]
    BY <1>3, <1>4 DEF SamePart, seen
  <1> QED BY <1>5, <1>12, <1>13, <1>14, <1>15, <1>16, PartStep

LEMMA DestroyKeeps ==
  ASSUME TInv, NEW x \in Procs, NEW p \in Partitions, destroyTransactionalProducer(x, p) PROVE TInv'
  <1>1. /\ tpc[x] = "destroy"
        /\ UNCHANGED <<cur, intersectionStates, producers, cons, local, input, epoch, ending, seen, bug>>
    BY DEF destroyTransactionalProducer
  <1>2. todo' \in [Procs -> SUBSET Partitions] /\ \A y \in Procs \ {x} : todo'[y] = todo[y]
    BY SMT DEF destroyTransactionalProducer, TInv, TTypeOK, ProcTypeOK
  <1>3. CASE AbortOk(x, p) /\ UNCHANGED tpc
    <2>1. tpc' \in [Procs -> {"loop", "create", "destroy"} \cup Committing \cup Stopped]
      BY <1>3 DEF TInv, TTypeOK, ProcTypeOK
    <2> QED BY <1>1, <1>2, <1>3, <2>1, AbortOkKeeps
  <1>4. CASE AbortFails(x, p) /\ TGoto(x, "dead")
    BY <1>1, <1>2, <1>4, AbortFailsKeeps
  <1> QED BY <1>3, <1>4 DEF destroyTransactionalProducer

\* Where x is in commitTransactionForInputPartition(), it is for a partition of its own.
LEMMA CurFacts ==
  ASSUME TInv, NEW x \in Procs, tpc[x] \in Committing \ {"commit"}
  PROVE  cur[x] \in Partitions /\ cur[x] \in assigned[x] /\ cur[x] \notin todo[x] /\ todo[x] \subseteq assigned[x]
  BY DEF TInv, ProcInv, LoopInv, TTypeOK, ConsTypeOK

LEMMA AbortKeeps ==
  ASSUME TInv, NEW x \in Procs, Abort(x) PROVE TInv'
  <1>1. /\ tpc[x] = "abort"
        /\ UNCHANGED <<todo, cur, intersectionStates, producers, cons, local, input, epoch, ending, seen, bug>>
    BY DEF Abort
  <1>2. PICK p \in Partitions : p = cur[x]
    BY <1>1, CurFacts DEF Committing
  <1>3. todo' \in [Procs -> SUBSET Partitions] /\ \A y \in Procs \ {x} : todo'[y] = todo[y]
    BY <1>1 DEF TInv, TTypeOK, ProcTypeOK
  <1>4. CASE AbortOk(x, p) /\ TGoto(x, "rewind")
    <2>1. /\ tpc' \in [Procs -> {"loop", "create", "destroy"} \cup Committing \cup Stopped]
          /\ tpc'[x] = "rewind" /\ \A y \in Procs \ {x} : tpc'[y] = tpc[y]
      BY <1>4, PcType
    <2> QED BY <1>1, <1>2, <1>3, <1>4, <2>1, AbortOkKeeps
  <1>5. CASE AbortFails(x, p) /\ TGoto(x, "dead")
    BY <1>1, <1>2, <1>3, <1>5, AbortFailsKeeps
  <1> QED BY <1>2, <1>4, <1>5 DEF Abort

\* A call that fails leaves x a transaction that is not open, and the rest as it is.
LEMMA CallFailsKeeps ==
  ASSUME TInv, NEW x \in Procs, NEW p \in Partitions, CallFails(x, p), TGoto(x, "abort"),
         cur' \in [Procs -> Partitions \cup {Nil}], cur'[x] = p, p \in assigned[x],
         todo' \in [Procs -> SUBSET Partitions], todo'[x] = todo[x] \ {p}, todo[x] \subseteq assigned[x],
         \A y \in Procs \ {x} : cur'[y] = cur[y] /\ todo'[y] = todo[y],
         \/ tpc[x] = "commit"
         \/ tpc[x] = "end" /\ cur[x] = p,
         UNCHANGED <<intersectionStates, producers, cons, local, coord, seen, bug>>
  PROVE  TInv'
  <1>1. /\ tpc' \in [Procs -> {"loop", "create", "destroy"} \cup Committing \cup Stopped]
        /\ tpc'[x] = "abort" /\ \A y \in Procs \ {x} : tpc'[y] = tpc[y]
    BY PcType
  <1>2. /\ txn' \in [Procs -> [Partitions -> {"none", "ready", "open", "abortable", "committing", "fatal"}]]
        /\ ~Fenced(x, p) => txn'[x][p] = "abortable" /\ txn[x][p] \in {"open", "abortable"}
        /\ \A q \in Partitions \ {p} : txn'[x][q] = txn[x][q]
        /\ \A y \in Procs \ {x} : txn'[y] = txn[y]
    <2>1. CASE Fenced(x, p) /\ txn' = [txn EXCEPT ![x][p] = "fatal"]
      <3>1. /\ txn' \in [Procs -> [Partitions -> {"none", "ready", "open", "abortable", "committing", "fatal"}]]
            /\ \A q \in Partitions \ {p} : txn'[x][q] = txn[x][q]
            /\ \A y \in Procs \ {x} : txn'[y] = txn[y]
        BY <2>1, SMT DEF TInv, TTypeOK, TxnTypeOK
      <3> QED BY <2>1, <3>1
    <2>2. CASE ~Fenced(x, p) /\ txn[x][p] = "abortable" /\ UNCHANGED txn
      BY <2>2 DEF TInv, TTypeOK, TxnTypeOK
    <2>3. CASE ~Fenced(x, p) /\ txn[x][p] = "open" /\ txn' = [txn EXCEPT ![x][p] = "abortable"]
      <3>1. /\ txn' \in [Procs -> [Partitions -> {"none", "ready", "open", "abortable", "committing", "fatal"}]]
            /\ txn'[x][p] = "abortable" /\ \A q \in Partitions \ {p} : txn'[x][q] = txn[x][q]
            /\ \A y \in Procs \ {x} : txn'[y] = txn[y]
        BY <2>3, SMT DEF TInv, TTypeOK, TxnTypeOK
      <3> QED BY <2>3, <3>1
    <2> QED BY <2>1, <2>2, <2>3 DEF CallFails
  <1>3. TTypeOK'
    BY <1>1, <1>2 DEF TInv, TTypeOK, ProcTypeOK, ConsTypeOK, TxnTypeOK, SeenTypeOK, cons, coord, seen
  <1>4. \A q \in Partitions : Fenced(x, q)' = Fenced(x, q)
    BY DEF Fenced, coord
  <1>5. ~Open(x, p)'
    BY <1>2, <1>4 DEF Open
  <1>6. ProcInv(x) /\ tpc[x] \notin Stopped
    BY DEF TInv, Stopped
  <1>7. RebalanceInv(x)'
    BY <1>1, <1>6 DEF ProcInv, RebalanceInv, cons
  <1>8. LoopInv(x)'
    BY <1>1, <1>6 DEF ProcInv, LoopInv, cons, Committing
  <1>9. PhaseInv(x)'
    BY <1>1, <1>5 DEF PhaseInv
  <1>10. ASSUME NEW q \in Partitions \ {p} PROVE (q \in Pending(x))' = (q \in Pending(x))
    <2>1. (q \in Pending(x))' <=> q \in todo[x]
      BY <1>1 DEF Pending, Committing
    <2>2. q \in Pending(x) <=> q \in todo[x]
      BY DEF Pending, Committing
    <2> QED BY <2>1, <2>2, SMT
  <1>11. ProcInv(x)'
    BY <1>2, <1>5, <1>6, <1>7, <1>8, <1>9, <1>10, CallStep DEF cons, coord, seen
  <1>12. \A q \in Partitions : ending[q] # Nil /\ ~Fenced(x, q)' => txn'[x][q] = txn[x][q]
    <2>1. ~Fenced(x, p) => ending[p] = Nil
      BY <1>2, OpenNotEnding
    <2> QED BY <1>2, <1>4, <2>1
  <1> QED BY <1>1, <1>2, <1>3, <1>11, <1>12, ProcStep DEF SameProc, cons, coord, seen

LEMMA SendPositionKeeps ==
  ASSUME TInv, NEW x \in Procs, NEW p \in Partitions, SendPosition(x, p) PROVE TInv'
  <1>1. /\ tpc[x] = "commit" /\ p \in todo[x]
        /\ UNCHANGED <<intersectionStates, producers, cons, local, input, epoch, ending, seen, bug>>
    BY DEF SendPosition
  <1>2. /\ cur' \in [Procs -> Partitions \cup {Nil}] /\ cur'[x] = p
        /\ todo' \in [Procs -> SUBSET Partitions] /\ todo'[x] = todo[x] \ {p}
        /\ \A y \in Procs \ {x} : cur'[y] = cur[y] /\ todo'[y] = todo[y]
    BY SMT DEF SendPosition, TInv, TTypeOK, ProcTypeOK
  <1>3. ProcInv(x)
    BY DEF TInv
  <1>4. todo[x] \subseteq assigned[x] /\ p \in assigned[x]
    BY <1>1, <1>3 DEF ProcInv, LoopInv, Committing
  <1>5. CASE CallFails(x, p) /\ TGoto(x, "abort") /\ UNCHANGED offsets
    BY <1>1, <1>2, <1>4, <1>5, CallFailsKeeps DEF coord
  <1>6. CASE SendOffsetsOk(x, p, position[x][p]) /\ TGoto(x, "end")
    <2>1. /\ txn[x][p] = "open" /\ ~Fenced(x, p) /\ UNCHANGED txn
          /\ offsets' = [offsets EXCEPT ![p] = position[x][p]]
      BY <1>6 DEF SendOffsetsOk
    <2>2. ending[p] = Nil
      BY <2>1, OpenNotEnding
    <2>3. /\ offsets' \in [Partitions -> Nat \cup {Nil}]
          /\ offsets'[p] = position[x][p] /\ \A q \in Partitions \ {p} : offsets'[q] = offsets[q]
      <3>1. position[x][p] \in Nat \cup {Nil}
        BY DEF TInv, TTypeOK, ConsTypeOK
      <3> QED BY <2>1, <3>1, OffsetType
    <2>4. /\ tpc' \in [Procs -> {"loop", "create", "destroy"} \cup Committing \cup Stopped]
          /\ tpc'[x] = "end" /\ \A y \in Procs \ {x} : tpc'[y] = tpc[y]
      BY <1>6, PcType
    <2>5. TTypeOK'
      BY <1>1, <1>2, <2>1, <2>3, <2>4 DEF TInv, TTypeOK, ProcTypeOK, ConsTypeOK, TxnTypeOK, SeenTypeOK, cons, seen
    <2>6. \A q \in Partitions : (q \in Pending(x))' = (q \in Pending(x))
      <3> SUFFICES ASSUME NEW q \in Partitions PROVE (q \in Pending(x))' = (q \in Pending(x))
        OBVIOUS
      <3>1. q \in Pending(x) <=> q \in todo[x]
        BY <1>1 DEF Pending, Committing
      <3>2. (q \in Pending(x))' <=> q \in todo'[x] \/ q = p
        BY <1>2, <2>4 DEF Pending, Committing
      <3>3. q \in todo[x] <=> q \in todo'[x] \/ q = p
        BY <1>1, <1>2
      <3> QED BY <3>1, <3>2, <3>3, SMT
    <2>7. RebalanceInv(x)'
      BY <1>1, <1>3, <2>4 DEF ProcInv, RebalanceInv, cons
    <2>8. LoopInv(x)'
      BY <1>1, <1>2, <1>3, <1>4, <2>4 DEF ProcInv, LoopInv, cons, Committing
    <2>9. PhaseInv(x)'
      BY <1>1, <1>2, <2>3, <2>4 DEF PhaseInv, cons
    <2>10. tpc[x] \notin Stopped
      BY <1>1 DEF Stopped
    <2>11. ProcInv(x)'
      BY <1>1, <2>1, <2>6, <2>7, <2>8, <2>9, <2>10, CallStep DEF cons, seen
    <2>12. PartInv(p)'
      BY <1>1, <2>2 DEF TInv, PartInv, EndInv, EndOutInv, DoneInv, seen
    <2>13. OutputInv'
      BY <1>1, OutputKeep DEF TInv, seen
    <2>14. \A y \in Procs \ {x} : SameProc(y) /\ Fenced(y, p)'
      BY <1>1, <1>2, <2>1, <2>4, OthersFenced DEF SameProc, cons
    <2>15. \A q \in Partitions \ {p} : /\ SamePart(q) /\ ending'[q] = ending[q] /\ done'[q] = done[q]
                                       /\ producers'[x][q] = producers[x][q] /\ txn'[x][q] = txn[x][q]
      BY <1>1, <2>1, <2>3 DEF SamePart, seen
    <2> QED BY <1>1, <2>5, <2>11, <2>12, <2>13, <2>14, <2>15, PartStep
  <1> QED BY <1>5, <1>6 DEF SendPosition

LEMMA CommitKeeps ==
  ASSUME TInv, NEW x \in Procs, Commit(x) PROVE TInv'
  <1>1. /\ tpc[x] = "end"
        /\ UNCHANGED <<todo, cur, intersectionStates, producers, cons, local, input, epoch, bug>>
    BY DEF Commit
  <1>2. PICK p \in Partitions : p = cur[x]
    BY <1>1, CurFacts DEF Committing
  <1>3. p \in assigned[x] /\ p \notin todo[x] /\ todo[x] \subseteq assigned[x]
    BY <1>1, <1>2, CurFacts DEF Committing
  <1>4. ProcInv(x) /\ tpc[x] \notin Stopped
    BY <1>1 DEF TInv, Stopped
  <1>5. /\ cur' \in [Procs -> Partitions \cup {Nil}] /\ cur'[x] = p
        /\ todo' \in [Procs -> SUBSET Partitions] /\ todo'[x] = todo[x] \ {p}
        /\ \A y \in Procs \ {x} : cur'[y] = cur[y] /\ todo'[y] = todo[y]
    BY <1>1, <1>2, <1>3 DEF TInv, TTypeOK, ProcTypeOK
  <1>6. CASE CallFails(x, p) /\ TGoto(x, "abort") /\ UNCHANGED <<ending, offsets, seen>>
    BY <1>1, <1>2, <1>3, <1>5, <1>6, CallFailsKeeps DEF coord
  <1>7. ASSUME Open(x, p)
        PROVE  /\ ending[p] = Nil /\ offsets[p] = position[x][p] /\ position[x][p] \in Nat
               /\ committed[p] <= position[x][p] /\ position[x][p] <= Len(input[p])
               /\ local[x][p] \in Batches /\ local[x][p].read = Span(committed[p], position[x][p])
               /\ Holds(p, local[x][p].out, position[x][p])
    <2>1. ending[p] = Nil
      BY <1>7, OpenNotEnding DEF Open
    <2>2. offsets[p] = position[x][p]
      BY <1>1, <1>2, <1>4, <1>7 DEF ProcInv, PhaseInv
    <2>3. /\ committed[p] <= position[x][p] /\ local[x][p].read = Span(committed[p], position[x][p])
          /\ position[x][p] <= Len(input[p])
      BY <1>3, <1>4, <1>7 DEF ProcInv, ReadInv, PositionInv
    <2>4. p \in Pending(x)
      BY <1>1, <1>2 DEF Pending, Committing
    <2>5. Holds(p, local[x][p].out, position[x][p])
      BY <1>3, <1>4, <1>7, <2>4, OpenHolds
    <2> QED BY <2>1, <2>2, <2>3, <2>5 DEF TInv, TTypeOK, TxnTypeOK, ConsTypeOK
  <1>8. ASSUME NEW l \in {"begin", "abort"}, tpc'[x] = l
        PROVE  /\ RebalanceInv(x)' /\ LoopInv(x)'
               /\ \A q \in Partitions \ {p} : (q \in Pending(x))' = (q \in Pending(x))
    <2>1. RebalanceInv(x)'
      BY <1>1, <1>4, <1>8 DEF ProcInv, RebalanceInv, cons
    <2>2. LoopInv(x)'
      BY <1>1, <1>4, <1>8 DEF ProcInv, LoopInv, cons, Committing
    <2>3. ASSUME NEW q \in Partitions \ {p} PROVE (q \in Pending(x))' = (q \in Pending(x))
      <3>1. tpc'[x] \in Committing /\ tpc'[x] # "end"
        BY <1>8 DEF Committing
      <3>2. q \in Pending(x) <=> q \in todo[x]
        BY <1>1, <1>2 DEF Pending, Committing
      <3>3. (q \in Pending(x))' <=> q \in todo[x]
        BY <1>1, <3>1 DEF Pending
      <3> QED BY <3>2, <3>3, SMT
    <2> QED BY <2>1, <2>2, <2>3
  <1>9. CASE CommitOk(x, p) /\ TGoto(x, "begin")
    <2>1. /\ txn[x][p] = "open" /\ ~Fenced(x, p) /\ Visible(p, local[x][p], offsets[p])
          /\ offsets' = [offsets EXCEPT ![p] = Nil] /\ txn' = [txn EXCEPT ![x][p] = "ready"] /\ UNCHANGED ending
      BY <1>9 DEF CommitOk
    <2>2. Open(x, p)
      BY <2>1 DEF Open
    <2>3. /\ DoneInv(p)' /\ OutputInv'
          /\ committed' \in [Partitions -> Nat] /\ done' \in [Partitions -> Seq(Nat)]
          /\ output' \in [Intersections -> States \cup {Nil}]
          /\ \A q \in Partitions \ {p} : committed'[q] = committed[q] /\ done'[q] = done[q]
          /\ committed'[p] = position[x][p]
      BY <1>1, <1>7, <2>1, <2>2, VisibleKeeps
    <2>4. /\ txn' \in [Procs -> [Partitions -> {"none", "ready", "open", "abortable", "committing", "fatal"}]]
          /\ txn'[x][p] = "ready" /\ \A q \in Partitions \ {p} : txn'[x][q] = txn[x][q]
          /\ \A y \in Procs \ {x} : txn'[y] = txn[y]
      BY <2>1, TxnType
    <2>5. /\ offsets' \in [Partitions -> Nat \cup {Nil}]
          /\ \A q \in Partitions \ {p} : offsets'[q] = offsets[q]
      BY <2>1, OffsetType
    <2>6. /\ tpc' \in [Procs -> {"loop", "create", "destroy"} \cup Committing \cup Stopped]
          /\ tpc'[x] = "begin" /\ \A y \in Procs \ {x} : tpc'[y] = tpc[y]
      BY <1>9, PcType
    <2>7. TTypeOK'
      BY <1>1, <2>1, <2>3, <2>4, <2>5, <2>6 DEF TInv, TTypeOK, ProcTypeOK, ConsTypeOK, TxnTypeOK, SeenTypeOK, cons
    <2>8. PhaseInv(x)'
      BY <1>1, <1>5, <2>3, <2>4, <2>6 DEF PhaseInv, cons
    <2>9. ~Open(x, p)'
      BY <2>4 DEF Open
    <2>10. ProcInv(x)'
      BY <1>1, <1>4, <1>8, <2>3, <2>4, <2>6, <2>8, <2>9, CallStep DEF cons
    <2>11. PartInv(p)'
      BY <1>7, <2>1, <2>2, <2>3 DEF PartInv, EndInv, EndOutInv
    <2>12. \A y \in Procs \ {x} : SameProc(y) /\ Fenced(y, p)'
      BY <1>1, <2>1, <2>4, <2>6, OthersFenced DEF SameProc, cons
    <2>13. \A q \in Partitions \ {p} : /\ SamePart(q) /\ ending'[q] = ending[q] /\ done'[q] = done[q]
                                       /\ producers'[x][q] = producers[x][q] /\ txn'[x][q] = txn[x][q]
      BY <1>1, <2>1, <2>3, <2>4, <2>5 DEF SamePart
    <2> QED BY <1>1, <2>3, <2>7, <2>10, <2>11, <2>12, <2>13, PartStep
  <1>10. CASE CommitTimesOut(x, p) /\ TGoto(x, "abort")
    <2>1. /\ txn[x][p] = "open" /\ ~Fenced(x, p) /\ UNCHANGED <<offsets, seen>>
          /\ ending' = [ending EXCEPT ![p] = local[x][p]] /\ txn' = [txn EXCEPT ![x][p] = "committing"]
      BY <1>10 DEF CommitTimesOut
    <2>2. Open(x, p)
      BY <2>1 DEF Open
    <2>3. /\ txn' \in [Procs -> [Partitions -> {"none", "ready", "open", "abortable", "committing", "fatal"}]]
          /\ txn'[x][p] = "committing" /\ \A q \in Partitions \ {p} : txn'[x][q] = txn[x][q]
          /\ \A y \in Procs \ {x} : txn'[y] = txn[y]
      BY <2>1, TxnType
    <2>4. /\ ending' \in [Partitions -> Batches \cup {Nil}] /\ ending'[p] = local[x][p]
          /\ \A q \in Partitions \ {p} : ending'[q] = ending[q]
      <3>1. ending \in [Partitions -> Batches \cup {Nil}]
        BY DEF TInv, TTypeOK, TxnTypeOK
      <3> QED BY <1>7, <2>1, <2>2, <3>1, SMT
    <2>5. /\ tpc' \in [Procs -> {"loop", "create", "destroy"} \cup Committing \cup Stopped]
          /\ tpc'[x] = "abort" /\ \A y \in Procs \ {x} : tpc'[y] = tpc[y]
      BY <1>10, PcType
    <2>6. TTypeOK'
      BY <1>1, <2>1, <2>3, <2>4, <2>5 DEF TInv, TTypeOK, ProcTypeOK, ConsTypeOK, TxnTypeOK, SeenTypeOK, cons, seen
    <2>7. ~Open(x, p)'
      BY <2>3 DEF Open
    <2>8. PhaseInv(x)'
      BY <1>5, <2>5, <2>7 DEF PhaseInv
    <2>9. ProcInv(x)'
      BY <1>1, <1>4, <1>8, <2>1, <2>3, <2>5, <2>7, <2>8, CallStep DEF cons, seen
    <2>10. \A y \in Procs \ {x} : SameProc(y) /\ Fenced(y, p)'
      BY <1>1, <2>1, <2>3, <2>5, OthersFenced DEF SameProc, cons
    <2>11. PartInv(p)'
      <3>1. EndInv(p)'
        BY <1>1, <1>7, <2>1, <2>2, <2>3, <2>4, <2>10 DEF EndInv, seen
      <3>2. EndOutInv(p)'
        BY <1>1, <1>7, <2>1, <2>2, <2>4 DEF EndOutInv, Holds, seen
      <3>3. DoneInv(p)'
        BY <1>1, <2>1 DEF TInv, PartInv, DoneInv, seen
      <3> QED BY <3>1, <3>2, <3>3 DEF PartInv
    <2>12. OutputInv'
      BY <1>1, <2>1, OutputKeep DEF TInv, seen
    <2>13. \A q \in Partitions \ {p} : /\ SamePart(q) /\ ending'[q] = ending[q] /\ done'[q] = done[q]
                                       /\ producers'[x][q] = producers[x][q] /\ txn'[x][q] = txn[x][q]
      BY <1>1, <2>1, <2>3, <2>4 DEF SamePart, seen
    <2> QED BY <1>1, <2>6, <2>9, <2>10, <2>11, <2>12, <2>13, PartStep
  <1> QED BY <1>2, <1>6, <1>9, <1>10 DEF Commit

-----------------------------------------------------------------------------
LEMMA InitTInv == TInit => TInv
  <1> SUFFICES ASSUME TInit PROVE TInv
    OBVIOUS
  <1>1. PICK s \in Scenarios : /\ input = s.input
                               /\ tpc = [x \in Procs |-> IF x \in s.running THEN "loop" ELSE "done"]
    BY DEF TInit
  <1>2. input \in [Partitions -> Seq(Intersections \cup {Nil})] /\ Keyed(input)
    BY <1>1, TxnConstants
  <1>3. \A x \in Procs : tpc[x] \in {"loop", "done"}
    BY <1>1
  <1>4. TTypeOK
    <2>1. ProcTypeOK
      <3>1. tpc \in [Procs -> {"loop", "create", "destroy"} \cup Committing \cup Stopped]
        BY <1>1, SMT DEF Stopped
      <3> QED BY <3>1, SMT DEF ProcTypeOK, TInit, NoStates
    <2>2. ConsTypeOK
      BY SMT DEF ConsTypeOK, TInit
    <2>3. TxnTypeOK
      <3>1. Fresh \in Batches
        BY SMT DEF Fresh, Batches, NoStates
      <3>2. local \in [Procs -> [Partitions -> Batches]]
        BY <3>1 DEF TInit
      <3> QED BY <3>2, SMT DEF TxnTypeOK, TInit
    <2>4. SeenTypeOK
      <3>1. 0 \in Nat /\ <<>> \in Seq(Nat)
        BY SMT
      <3> QED BY <1>2, <3>1 DEF SeenTypeOK, TInit
    <2> QED BY <2>1, <2>2, <2>3, <2>4 DEF TTypeOK
  <1>5. \A x \in Procs, p \in Partitions : Fenced(x, p)
    <2>1. \A x \in Procs, p \in Partitions : producers[x][p] = Nil /\ epoch[p] = 0
      BY DEF TInit
    <2>2. Nil # 0
      <3>1. 0 \in Nat
        BY SMT
      <3> QED BY <3>1, NilFacts
    <2> QED BY <2>1, <2>2, SMT DEF Fenced
  <1>6. OneProducer /\ NoBug
    BY <1>5 DEF OneProducer, NoBug, TInit
  <1>7. ASSUME NEW x \in Procs PROVE ProcInv(x)
    <2>1. /\ \A n \in Intersections : intersectionStates[x][n] = Nil
          /\ assigned[x] = {} /\ rebq[x] = Nil
      BY DEF TInit, NoStates
    <2>2. RebalanceInv(x) /\ LoopInv(x) /\ PhaseInv(x)
      BY <1>3, <2>1 DEF RebalanceInv, LoopInv, PhaseInv, Committing
    <2>3. PositionInv(x)
      <3>1. \A p \in Partitions : position[x][p] = 0
        BY DEF TInit
      <3> QED BY <1>2, <3>1, SMT DEF PositionInv
    <2>4. \A n \in Intersections : StateInv(x, n)
      BY <2>1 DEF StateInv
    <2>5. \A p \in Partitions : ReadInv(x, p) /\ CountedInv(x, p) /\ OutInv(x, p)
      BY <1>5 DEF ReadInv, CountedInv, OutInv, Open
    <2> QED BY <2>2, <2>3, <2>4, <2>5 DEF ProcInv
  <1>8. ASSUME NEW p \in Partitions PROVE PartInv(p)
    <2>1. ending[p] = Nil /\ committed[p] = 0 /\ done[p] = <<>>
      BY DEF TInit
    <2>2. DoneInv(p)
      BY <1>2, <2>1, SMT DEF DoneInv
    <2> QED BY <2>1, <2>2 DEF PartInv, EndInv, EndOutInv
  <1>9. OutputInv
    BY DEF OutputInv, TInit
  <1> QED BY <1>2, <1>4, <1>6, <1>7, <1>8, <1>9 DEF TInv

LEMMA StutterTInv == ASSUME TInv, UNCHANGED tvars PROVE TInv'
  <1>1. UNCHANGED <<proc, cons, prod, coord, seen, bug>>
    BY DEF tvars, hist
  <1>2. TTypeOK' /\ NoBug' /\ Keyed(input)'
    BY <1>1 DEF TInv, TTypeOK, ProcTypeOK, ConsTypeOK, TxnTypeOK, SeenTypeOK, NoBug, Keyed, proc, cons, prod, coord, seen
  <1>3. OneProducer'
    BY <1>1 DEF TInv, OneProducer, Fenced, proc, coord
  <1>4. ASSUME NEW x \in Procs PROVE ProcInv(x)'
    BY <1>1, OthersKeep DEF SameProc, SamePart, proc, cons, prod, coord, seen
  <1>5. ASSUME NEW p \in Partitions PROVE PartInv(p)'
    <2>1. \A x \in Procs : Fenced(x, p)' = Fenced(x, p) /\ txn'[x][p] = txn[x][p]
      BY <1>1 DEF Fenced, proc, prod, coord
    <2> QED BY <1>1, <2>1, PartKeep DEF TInv, coord, seen
  <1>6. OutputInv'
    BY <1>1, OutputKeep DEF TInv, coord, seen
  <1> QED BY <1>2, <1>3, <1>4, <1>5, <1>6 DEF TInv

LEMMA NextTInv == ASSUME TInv, [TNext]_tvars PROVE TInv'
  <1>1. ASSUME NEW x \in Procs, Poll(x) \/ Tick(x) \/ TStep(x) PROVE TInv'
    BY <1>1, PollRebalanceKeeps, PollMessageKeeps, TickKeeps, CreateKeeps, DestroyKeeps, SendPositionKeeps,
       AssignKeeps, UnassignKeeps, CommitKeeps, AbortKeeps, RewindKeeps, BeginKeeps DEF Poll, TStep
  <1>2. ASSUME NEW x \in Procs, Terminate(x) \/ Group(x) \/ Revoke(x) PROVE TInv'
    BY <1>2, TerminateKeeps, GroupKeeps
  <1>3. ASSUME NEW x \in Procs, NEW p \in Partitions, DeliveryFails(x, p) PROVE TInv'
    BY <1>3, DeliveryFailsKeeps
  <1>4. ASSUME NEW p \in Partitions, Finish(p) PROVE TInv'
    BY <1>4, FinishKeeps
  <1> QED BY <1>1, <1>2, <1>3, <1>4, StutterTInv DEF TNext

-----------------------------------------------------------------------------
\* The invariant holds, for any processes, partitions, input and number of faults and
\* rebalances (examples/transactions_example).
THEOREM TxnInvariant == TSpec => []TInv
  BY InitTInv, NextTInv, PTL DEF TSpec

\* Committed transactions have read each message of a partition once, in order, up to
\* the group's offset (txnhelpers.go:178-225).
THEOREM TxnExactlyOnce == TSpec => []ExactlyOnce
  <1>1. TInv => ExactlyOnce
    BY DEF TInv, PartInv, DoneInv, ExactlyOnce
  <1> QED BY <1>1, TxnInvariant, PTL

\* What readers see of an intersection is what was read of its input up to the group's
\* offset, as long as nothing was aborted (processor.go:179-238).
THEOREM TxnOutputMatches == TSpec => []OutputMatchesOffsets
  <1>1. TInv => InBounds
    BY DEF TInv, ProcInv, RebalanceInv, PositionInv, PartInv, DoneInv, InBounds
  <1>2. TInv => OutputMatchesOffsets
    BY <1>1 DEF TInv, OutputInv, OutputMatchesOffsets
  <1> QED BY <1>2, TxnInvariant, PTL


=============================================================================
