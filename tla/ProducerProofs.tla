-------------------------- MODULE ProducerProofs ---------------------------
(***************************************************************************)
(* Type correctness of Producer; ReportRouting; that Producer implements   *)
(* DeliveryReports; that Close() is safe, that Flush() returns 0 only      *)
(* after the reports, that no report is lost and that the cgo map holds    *)
(* just what it should.  For any number of messages, goroutines, channels  *)
(* and calls of Flush().                                                   *)
(***************************************************************************)
EXTENDS ProducerInv, TLAPS

USE Zenon

-----------------------------------------------------------------------------
(* Types, one lemma for each group of actions.  TypeOK alone is not          *)
(* inductive: produce() needs to know that it has a message, and eventPoll() *)
(* that it has a report.                                                     *)

LEMMA TypeFrame ==
  /\ CgoTypeOK /\ UNCHANGED cgoVars => CgoTypeOK'
  /\ CallTypeOK /\ UNCHANGED callVars => CallTypeOK'
  /\ RkTypeOK /\ UNCHANGED rkVars => RkTypeOK'
  /\ ChanTypeOK /\ UNCHANGED chanVars => ChanTypeOK'
  /\ PollTypeOK /\ UNCHANGED pollVars => PollTypeOK'
  /\ FlushTypeOK /\ UNCHANGED flushVars => FlushTypeOK'
<1>1. CgoTypeOK /\ UNCHANGED cgoVars => CgoTypeOK'
  BY DEF CgoTypeOK, cgoVars
<1>2. CallTypeOK /\ UNCHANGED callVars => CallTypeOK'
  BY DEF CallTypeOK, callVars
<1>3. RkTypeOK /\ UNCHANGED rkVars => RkTypeOK'
  BY DEF RkTypeOK, rkVars
<1>4. ChanTypeOK /\ UNCHANGED chanVars => ChanTypeOK'
  BY DEF ChanTypeOK, chanVars
<1>5. PollTypeOK /\ UNCHANGED pollVars => PollTypeOK'
  BY DEF PollTypeOK, pollVars
<1>6. FlushTypeOK /\ UNCHANGED flushVars => FlushTypeOK'
  BY DEF FlushTypeOK, flushVars
<1> QED BY <1>1, <1>2, <1>3, <1>4, <1>5, <1>6

LEMMA ProduceType ==
  ASSUME IInv, NEW t \in Producers, ProduceStep(t) PROVE TypeOK'
<1> USE TypeFrame DEF closeVars, SetPc, SetStatus
<1>1. TypeOK /\ ArgInv
  BY DEF IInv
<1>2. CASE CgoPut(t)
  <2>1. cgoidNext + 1 \in Ids /\ CgoNext(cgoidNext) = cgoidNext + 1 /\ arg[t] \in Msgs
    BY <1>1, <1>2, IdModAssumption, SMT DEF CgoPut, NoWrap, TypeOK, CgoTypeOK, Ids, CgoNext, UintptrInc, ArgInv
  <2>2. CgoDr(arg[t]) \in CgoDrs
    BY <2>1, ProducerAssumption DEF CgoDr, CgoDrs
  <2>3. CASE NeedsCgo(arg[t])
    <3>1. /\ cgoidNext' = cgoidNext + 1
          /\ cgomap' = CgoStore(cgomap, cgoidNext + 1, CgoDr(arg[t]))
          /\ cgoid' = [cgoid EXCEPT ![t] = cgoidNext + 1]
      BY <1>2, <2>1, <2>3 DEF CgoPut
    <3>2. CgoTypeOK'
      BY <1>1, <2>1, <2>2, <3>1 DEF TypeOK, CgoTypeOK, CgoStore
    <3>3. CallTypeOK'
      BY <1>1, <1>2, <2>1, <3>1 DEF CgoPut, TypeOK, CallTypeOK
    <3> QED BY <1>1, <1>2, <3>2, <3>3 DEF CgoPut, TypeOK
  <2>4. CASE ~NeedsCgo(arg[t])
    <3>1. cgoid' = [cgoid EXCEPT ![t] = 0] /\ 0 \in Ids /\ UNCHANGED cgoVars
      BY <1>2, <2>4, IdModAssumption, SMT DEF CgoPut, Ids
    <3>2. CallTypeOK'
      BY <1>1, <1>2, <3>1 DEF CgoPut, TypeOK, CallTypeOK
    <3> QED BY <1>1, <1>2, <3>1, <3>2 DEF CgoPut, TypeOK
  <2> QED BY <2>3, <2>4
<1>3. CASE Enqueue(t)
  <2>1. arg[t] \in Msgs
    BY <1>1, <1>3 DEF Enqueue, ArgInv
  <2>2. CallTypeOK'
    BY <1>1, <1>3, <2>1 DEF Enqueue, TypeOK, CallTypeOK
  <2>3. RkTypeOK'
    BY <1>1, <1>3, <2>1 DEF Enqueue, TypeOK, CallTypeOK, RkTypeOK
  <2> QED BY <1>1, <1>3, <2>2, <2>3 DEF Enqueue, TypeOK
<1>4. CASE EnqueueFails(t)
  <2>1. CallTypeOK'
    BY <1>1, <1>4 DEF EnqueueFails, TypeOK, CallTypeOK
  <2> QED BY <1>1, <1>4, <2>1 DEF EnqueueFails, TypeOK
<1>5. CASE Undo(t)
  <2>1. CallTypeOK'
    BY <1>1, <1>5, SMT DEF Undo, TypeOK, CallTypeOK, ArgInv
  <2>2. CgoTypeOK'
    BY <1>1, <1>5 DEF Undo, UndoCgo, TypeOK, CgoTypeOK, CgoForget
  <2> QED BY <1>1, <1>5, <2>1, <2>2 DEF Undo, TypeOK
<1> QED BY <1>2, <1>3, <1>4, <1>5 DEF ProduceStep

LEMMA ChannelType ==
  ASSUME IInv, ChannelReceive \/ ChannelDone \/ ChannelReportError PROVE TypeOK'
<1> USE TypeFrame DEF closeVars, SetPc, SetStatus
<1>1. TypeOK /\ ArgInv /\ ChannelProducer \in Producers
  BY DEF IInv, Producers
<1>2. CASE ChannelReceive
  <2>1. Head(produceChannel) \in ViaChannel /\ Tail(produceChannel) \in Seq(ViaChannel)
    BY <1>1, <1>2, SMT DEF ChannelReceive, TypeOK, CallTypeOK
  <2>2. CallTypeOK'
    BY <1>1, <1>2, <2>1, ProducerAssumption, Zenon DEF ChannelReceive, TypeOK, CallTypeOK
  <2> QED BY <1>1, <1>2, <2>2 DEF ChannelReceive, TypeOK
<1>3. CASE ChannelDone
  <2>1. CallTypeOK'
    BY <1>1, <1>3 DEF ChannelDone, TypeOK, CallTypeOK
  <2> QED BY <1>1, <1>3, <2>1 DEF ChannelDone, TypeOK
<1>4. CASE ChannelReportError
  <2> DEFINE m == arg[ChannelProducer]
             r == [on |-> Events, opaque |-> Opaque[m]]
  <2>1. m \in Msgs /\ r \in Report
    BY <1>1, <1>4, ProducerAssumption DEF ChannelReportError, ArgInv, Report, AllChans
  <2>2. ChanTypeOK'
    <3> HIDE DEF r
    <3>1. sent' = [sent EXCEPT ![m] = Append(@, r)] /\ fill' = [fill EXCEPT ![Events] = @ + 1]
      BY <1>4 DEF ChannelReportError, r
    <3>2. Append(sent[m], r) \in Seq(Report)
      BY <1>1, <2>1, SMT DEF TypeOK, ChanTypeOK
    <3> QED BY <1>1, <2>1, <3>1, <3>2, SMT DEF TypeOK, ChanTypeOK, AllChans
  <2>3. CallTypeOK'
    BY <1>1, <1>4 DEF ChannelReportError, TypeOK, CallTypeOK
  <2> QED BY <1>1, <1>4, <2>2, <2>3 DEF ChannelReportError, TypeOK
<1> QED BY <1>2, <1>3, <1>4

LEMMA EventPollType ==
  ASSUME IInv, NEW e \in Pollers, EventPollStep(e) PROVE TypeOK'
<1> USE TypeFrame DEF closeVars, SetEpc
<1>1. TypeOK /\ PendInv
  BY DEF IInv
<1>2. CASE QueuePoll(e)
  <2>1. RkTypeOK'
    BY <1>1, <1>2, SMT DEF QueuePoll, EventPolled, TypeOK, RkTypeOK
  <2>2. PollTypeOK'
    BY <1>1, <1>2, SMT DEF QueuePoll, LeaveEventPoll, TypeOK, RkTypeOK, PollTypeOK
  <2> QED BY <1>1, <1>2, <2>1, <2>2 DEF QueuePoll, TypeOK
<1>3. CASE PollLimit(e) \/ Terminate(e)
  <2>1. PollTypeOK'
    BY <1>1, <1>3 DEF PollLimit, Terminate, LeaveEventPoll, TypeOK, PollTypeOK
  <2> QED BY <1>1, <1>3, <2>1 DEF PollLimit, Terminate, TypeOK
<1>4. ASSUME NEW m \in Msgs, DispatchReport(e, m) PROVE TypeOK'
  <2>1. CgoTypeOK'
    BY <1>1, <1>4 DEF DispatchReport, TypeOK, CgoTypeOK, CgoForget
  <2>2. CgoDrOf(m) \in CgoDrs
    BY <1>1 DEF CgoDrOf, CgoFound, CgoDrs, TypeOK, CgoTypeOK
  <2>3. CASE Target(m) = Nil
    <3>1. PollTypeOK'
      BY <1>1, <1>4, <2>3 DEF DispatchReport, LeaveEventPoll, TypeOK, PollTypeOK
    <3> QED BY <1>1, <1>4, <2>1, <3>1 DEF DispatchReport, TypeOK
  <2>4. CASE Target(m) # Nil
    <3> DEFINE p == [msg |-> m, on |-> Target(m), opaque |-> CgoDrOf(m).opaque]
    <3>1. p \in Pending
      BY <2>2, <2>4 DEF Target, Pending, AllChans, CgoDrs
    <3>2. /\ pend' = [pend EXCEPT ![e] = p] /\ batch' = [batch EXCEPT ![e] = @ \ {m}]
          /\ epc' = [epc EXCEPT ![e] = "send"] /\ UNCHANGED <<held, evcnt>>
      BY <1>4, <2>4 DEF DispatchReport
    <3> HIDE DEF p
    <3>3. PollTypeOK'
      BY <1>1, <3>1, <3>2 DEF TypeOK, PollTypeOK
    <3> QED BY <1>1, <1>4, <2>1, <3>3 DEF DispatchReport, TypeOK
  <2> QED BY <2>3, <2>4
<1>5. CASE SendReport(e)
  <2> DEFINE m == pend[e].msg
             r == [on |-> pend[e].on, opaque |-> pend[e].opaque]
  <2>1. pend[e] \in Pending
    BY <1>1, <1>5, SMT DEF SendReport, PendInv, TypeOK, PollTypeOK
  <2>2. r \in Report /\ m \in Msgs /\ pend[e].on \in AllChans
    BY <2>1 DEF Pending, Report
  <2>3. ChanTypeOK'
    <3> HIDE DEF r
    <3>1. sent' = [sent EXCEPT ![m] = Append(@, r)] /\ fill' = [fill EXCEPT ![pend[e].on] = @ + 1]
      BY <1>5 DEF SendReport, r
    <3>2. Append(sent[m], r) \in Seq(Report)
      BY <1>1, <2>2, SMT DEF TypeOK, ChanTypeOK
    <3> QED BY <1>1, <2>2, <3>1, <3>2, SMT DEF TypeOK, ChanTypeOK
  <2>4. PollTypeOK'
    BY <1>1, <1>5 DEF SendReport, TypeOK, PollTypeOK
  <2> QED BY <1>1, <1>5, <2>3, <2>4 DEF SendReport, TypeOK
<1>6. CASE ReportsDone(e)
  <2>1. PollTypeOK'
    BY <1>1, <1>6, SMT DEF ReportsDone, TypeOK, PollTypeOK
  <2> QED BY <1>1, <1>6, <2>1 DEF ReportsDone, TypeOK
<1>7. CASE SendEvent(e)
  <2>1. PollTypeOK'
    BY <1>1, <1>7, SMT DEF SendEvent, TypeOK, PollTypeOK
  <2>2. ChanTypeOK'
    BY <1>1, <1>7, SMT DEF SendEvent, TypeOK, ChanTypeOK, AllChans
  <2> QED BY <1>1, <1>7, <2>1, <2>2 DEF SendEvent, TypeOK
<1> QED BY <1>2, <1>3, <1>4, <1>5, <1>6, <1>7 DEF EventPollStep

LEMMA FlushType ==
  ASSUME TypeOK, NEW f \in Flushers, Flush(f) \/ FlushStep(f) \/ FlushExpire(f) \/ HelperStep(f)
  PROVE  TypeOK'
<1> USE TypeFrame DEF closeVars, SetFpc, SetEpc, StartLen
<1>1. CASE Flush(f)
  <2>1. FlushTypeOK'
    BY <1>1 DEF Flush, TypeOK, FlushTypeOK
  <2> QED BY <1>1, <2>1 DEF Flush, TypeOK
<1>2. ASSUME NEW part \in LenParts, LenReads(f, part) PROVE TypeOK'
  <2>1. nonzero' \in [Flushers -> BOOLEAN]
    BY <1>2, Zenon DEF LenReads, TypeOK, FlushTypeOK
  <2>2. FlushTypeOK'
    BY <1>2, <2>1 DEF LenReads, TypeOK, FlushTypeOK
  <2> QED BY <1>2, <2>2 DEF LenReads, TypeOK
<1>3. CASE LenDone(f)
  <2>1. FlushTypeOK'
    BY <1>3 DEF LenDone, TypeOK, FlushTypeOK
  <2> QED BY <1>3, <2>1 DEF LenDone, TypeOK
<1>4. CASE FlushTime(f)
  <2>1. ASSUME expired[f] PROVE FlushTypeOK'
    <3>1. /\ final' = [final EXCEPT ![f] = TRUE] /\ StartLen(f)
          /\ UNCHANGED <<expired, before, helper>>
      BY <1>4, <2>1, Zenon DEF FlushTime
    <3> QED BY <3>1 DEF TypeOK, FlushTypeOK
  <2>2. ASSUME ~expired[f] PROVE FlushTypeOK'
    BY <1>4, <2>2 DEF FlushTime, TypeOK, FlushTypeOK
  <2> QED BY <1>4, <2>1, <2>2 DEF FlushTime, TypeOK
<1>5. CASE FlushPolled(f)
  <2>1. FlushTypeOK'
    BY <1>5 DEF FlushPolled, TypeOK, FlushTypeOK
  <2> QED BY <1>5, <2>1 DEF FlushPolled, TypeOK
<1>6. CASE FlushHand(f)
  <2>1. FlushTypeOK' /\ PollTypeOK'
    BY <1>6, Zenon DEF FlushHand, TypeOK, FlushTypeOK, PollTypeOK
  <2> QED BY <1>6, <2>1 DEF FlushHand, TypeOK
<1>7. CASE FlushExpire(f) \/ HelperStep(f)
  <2>1. FlushTypeOK'
    BY <1>7, Zenon DEF FlushExpire, HelperStep, HelperFlushed, HelperNext, HelperExit, TypeOK, FlushTypeOK
  <2> QED BY <1>7, <2>1 DEF FlushExpire, HelperStep, HelperFlushed, HelperExit, TypeOK
<1> QED BY <1>1, <1>2, <1>3, <1>4, <1>5, <1>6, <1>7 DEF FlushStep

\* The steps that touch neither produce()'s nor eventPoll()'s progress.
QuietStep ==
  \/ OtherEvent \/ CloseSwap
  \/ ClosePollerTermChan \/ CloseProduceChannel \/ CloseEvents
  \/ \E c \in AllChans : Receive(c)

LEMMA OtherType ==
  ASSUME TypeOK,
         \/ QuietStep \/ PollerLoop \/ Destroy
         \/ \E S \in SUBSET inflight : ReportBatch(S)
         \/ \E m \in Msgs : WriteProduceChannel(m)
         \/ \E t \in Callers, m \in Msgs : Produce(t, m)
  PROVE  TypeOK'
<1> USE TypeFrame DEF closeVars, SetPc, SetEpc, SetStatus
<1>1. CASE OtherEvent
  <2>1. RkTypeOK'
    BY <1>1, SMT DEF OtherEvent, TypeOK, RkTypeOK
  <2> QED BY <1>1, <2>1 DEF OtherEvent, TypeOK
<1>2. CASE PollerLoop
  <2>1. PollTypeOK'
    BY <1>2, SMT DEF PollerLoop, TermSeen, TypeOK, PollTypeOK
  <2> QED BY <1>2, <2>1 DEF PollerLoop, TypeOK
<1>3. CASE CloseSwap \/ ClosePollerTermChan \/ CloseProduceChannel \/ CloseEvents
  <2>1. closed' \subseteq Shuttable
    BY <1>3, Zenon DEF CloseSwap, ClosePollerTermChan, CloseProduceChannel, CloseEvents, Shut, Shuttable, TypeOK
  <2> QED BY <1>3, <2>1 DEF CloseSwap, ClosePollerTermChan, CloseProduceChannel, CloseEvents, TypeOK
<1>4. CASE Destroy
  <2>1. closed' \subseteq Shuttable /\ RkTypeOK'
    BY <1>4 DEF Destroy, Shut, Shuttable, TypeOK, RkTypeOK
  <2> QED BY <1>4, <2>1 DEF Destroy, TypeOK
<1>5. ASSUME NEW c \in AllChans, Receive(c) PROVE TypeOK'
  <2>1. ChanTypeOK'
    BY <1>5, SMT DEF Receive, TypeOK, ChanTypeOK
  <2> QED BY <1>5, <2>1 DEF Receive, TypeOK
<1>6. ASSUME NEW S \in SUBSET inflight, ReportBatch(S) PROVE TypeOK'
  <2>0. RkTypeOK /\ S \subseteq Msgs
    BY <1>6, Zenon DEF TypeOK, RkTypeOK
  <2>1. RkTypeOK'
    <3>1. inflight' \subseteq Msgs /\ drq' \subseteq SUBSET Msgs /\ priv' = priv
      BY <1>6, <2>0, SMT DEF ReportBatch, RkTypeOK
    <3> QED BY <1>6, <2>0, <3>1, SMT DEF ReportBatch, RkTypeOK
  <2> QED BY <1>6, <2>1 DEF ReportBatch, TypeOK
<1>7. ASSUME NEW m \in Msgs, WriteProduceChannel(m) PROVE TypeOK'
  <2>1. produceChannel' \in Seq(ViaChannel)
    BY <1>7, SMT DEF WriteProduceChannel, TypeOK, CallTypeOK
  <2>2. CallTypeOK'
    BY <1>7, <2>1 DEF WriteProduceChannel, TypeOK, CallTypeOK
  <2> QED BY <1>7, <2>2 DEF WriteProduceChannel, TypeOK
<1>8. ASSUME NEW t \in Callers, NEW m \in Msgs, Produce(t, m) PROVE TypeOK'
  <2>1. CallTypeOK'
    BY <1>8, SMT DEF Produce, TypeOK, CallTypeOK
  <2> QED BY <1>8, <2>1 DEF Produce, TypeOK
<1> QED BY <1>1, <1>2, <1>3, <1>4, <1>5, <1>6, <1>7, <1>8 DEF QuietStep

-----------------------------------------------------------------------------
(* Each part of the invariant depends on a few variables only.             *)

LEMMA ArgFrame == ASSUME ArgInv, UNCHANGED <<pc, arg, status>> PROVE ArgInv'
BY DEF ArgInv

LEMMA ChannelFrame == ASSUME ChannelInv, UNCHANGED <<produceChannel, arg, status>> PROVE ChannelInv'
BY DEF ChannelInv

LEMMA DisjointFrame == ASSUME DisjointInv, UNCHANGED <<inflight, drq, batch, pend>> PROVE DisjointInv'
BY DEF DisjointInv, Hand

LEMMA LiveFrame ==
  ASSUME LiveInv, UNCHANGED <<inflight, drq, batch, pend, status, sent>> PROVE LiveInv'
BY DEF LiveInv, Live, Hand, Open

LEMMA SentFrame == ASSUME SentInv, UNCHANGED <<sent, status, pc, arg>> PROVE SentInv'
BY DEF SentInv, ReportRouting, OneReport, Dest

LEMMA CgoFrame ==
  ASSUME CgoInv, UNCHANGED <<cgoidNext, cgomap, pc, arg, cgoid, priv, inflight, drq, batch>>
  PROVE  CgoInv'
BY DEF CgoInv, CgoLeads, CgoUnique, Owners, OwnerThreads, Leads

LEMMA PendFrame == ASSUME PendInv, UNCHANGED <<epc, pend>> PROVE PendInv'
BY DEF PendInv, Dest

-----------------------------------------------------------------------------
(* How each part of the invariant outlives a step, from what the step does *)
(* to the state it speaks of.                                              *)

Parts == ArgInv /\ ChannelInv /\ DisjointInv /\ LiveInv /\ SentInv /\ CgoInv /\ PendInv

LEMMA Names ==
  /\ Nil \notin Msgs /\ Nil \notin ViaChannel /\ ViaChannel \subseteq Msgs
  /\ ChannelProducer \notin Callers /\ ChannelProducer \in Producers /\ Callers \subseteq Producers
BY ProducerAssumption DEF Producers

LEMMA Queued ==
  ASSUME CallTypeOK, NEW i \in 1 .. Len(produceChannel)
  PROVE  produceChannel[i] \in Msgs /\ produceChannel[i] \in ViaChannel /\ produceChannel[i] # Nil
<1>1. produceChannel \in Seq(ViaChannel)
  BY DEF CallTypeOK
<1>2. produceChannel[i] \in ViaChannel
  BY <1>1, SMT
<1> QED BY <1>2, Names

\* The goroutine t works on m, which no other goroutine has.
LEMMA ArgStep ==
  ASSUME ArgInv, NEW t \in Producers, NEW m,
         \A u \in Producers : u # t => pc'[u] = pc[u] /\ arg'[u] = arg[u] /\ arg[u] # m,
         \A n \in Msgs : n # m => status'[n] = status[n],
         pc'[t] \in {"put", "enqueue", "undo"} => m \in Msgs /\ arg'[t] = m /\ status'[m] = "calling",
         pc'[t] = "report" => t = ChannelProducer /\ arg'[t] = m /\ status'[m] = "rejected",
         pc'[t] \in {"idle", "done"} => arg'[t] = Nil,
         arg'[t] \in {m, Nil},
         t \in Callers => m \notin ViaChannel,
         t = ChannelProducer => m \in ViaChannel
  PROVE  ArgInv'
<1>1. ASSUME NEW u \in Producers
      PROVE  /\ pc'[u] \in {"put", "enqueue", "undo"} => arg'[u] \in Msgs /\ status'[arg'[u]] = "calling"
             /\ pc'[u] = "report" => u = ChannelProducer /\ arg'[u] \in ViaChannel /\ status'[arg'[u]] = "rejected"
             /\ pc'[u] \in {"idle", "done"} => arg'[u] = Nil
             /\ u \in Callers => arg'[u] \notin ViaChannel
             /\ u = ChannelProducer => arg'[u] \in ViaChannel \cup {Nil}
  <2>1. CASE u = t
    BY <2>1, Names
  <2>2. CASE u # t
    BY <2>2, Names, SMT DEF ArgInv
  <2> QED BY <2>1, <2>2
<1>2. \A u, v \in Producers : u # v /\ arg'[u] # Nil => arg'[u] # arg'[v]
  BY SMT DEF ArgInv
<1> QED BY <1>1, <1>2 DEF ArgInv

\* A message no goroutine has changes its status.
LEMMA ArgStatus ==
  ASSUME ArgInv, UNCHANGED <<pc, arg>>, NEW m, \A u \in Producers : arg[u] # m,
         \A n \in Msgs : n # m => status'[n] = status[n]
  PROVE  ArgInv'
<1>1. \A u \in Producers : arg[u] \in Msgs => status'[arg[u]] = status[arg[u]]
  OBVIOUS
<1> QED BY <1>1, Names DEF ArgInv

LEMMA NewIsNoArg ==
  ASSUME ArgInv, CallTypeOK, NEW m \in Msgs, status[m] = "new", NEW u \in Producers PROVE arg[u] # m
<1>1. pc[u] \in {"idle", "put", "enqueue", "undo", "report", "done"}
  BY DEF CallTypeOK
<1>2. arg[u] = Nil \/ status[arg[u]] \in {"calling", "rejected"}
  BY <1>1 DEF ArgInv
<1> QED BY <1>2, Names

\* channelProducer() may be done with its message.
LEMMA ChannelStep ==
  ASSUME ChannelInv, CallTypeOK, produceChannel' = produceChannel,
         arg'[ChannelProducer] \in {arg[ChannelProducer], Nil},
         \A i \in 1 .. Len(produceChannel) : status'[produceChannel[i]] = status[produceChannel[i]]
  PROVE  ChannelInv'
<1>1. \A i \in 1 .. Len(produceChannel) : produceChannel[i] # Nil
  BY Queued
<1> HIDE DEF ChannelProducer
<1> QED BY <1>1 DEF ChannelInv

LEMMA DisjointShrink ==
  ASSUME DisjointInv, inflight' \subseteq inflight, drq' \subseteq drq,
         \A e \in Pollers : Hand(e)' \subseteq Hand(e) /\ pend'[e].msg \notin batch'[e]
  PROVE  DisjointInv'
<1>1. \A S \in drq' : S \cap inflight' = {}
  BY DEF DisjointInv
<1>2. \A S, T \in drq' : S # T => S \cap T = {}
  BY DEF DisjointInv
<1>3. \A e \in Pollers : Hand(e)' \cap inflight' = {} /\ \A S \in drq' : Hand(e)' \cap S = {}
  BY DEF DisjointInv
<1>4. \A e, f \in Pollers : e # f => Hand(e)' \cap Hand(f)' = {}
  BY DEF DisjointInv
<1> QED BY <1>1, <1>2, <1>3, <1>4 DEF DisjointInv

LEMMA LiveStep ==
  ASSUME LiveInv, Live' \subseteq Live, \A n \in Live' : Open(n) => Open(n)' PROVE LiveInv'
BY DEF LiveInv

\* A message without a report may change its status.
LEMMA SentStep ==
  ASSUME SentInv, sent' = sent, NEW m, sent[m] = <<>>,
         \A n \in Msgs : n # m => status'[n] = status[n],
         pc'[ChannelProducer] = "report" => sent[arg'[ChannelProducer]] = <<>>
  PROVE  SentInv'
<1>1. \A n \in Msgs : n # m => OneReport(n)' = OneReport(n)
  BY DEF OneReport, Dest
<1>2. ReportRouting'
  BY <1>1 DEF SentInv, ReportRouting
<1>3. \A n \in Msgs : status'[n] \in {"new", "calling"} => sent[n] = <<>>
  BY DEF SentInv
<1> QED BY <1>2, <1>3 DEF SentInv

\* Owners may give up their entries.
LEMMA CgoStep ==
  ASSUME CgoInv, Owners' \subseteq Owners, OwnerThreads' \subseteq OwnerThreads,
         \A n \in Owners' : priv'[n] = priv[n] /\ Leads(cgoidNext', cgomap', priv[n], n),
         \A u \in OwnerThreads' : cgoid'[u] = cgoid[u] /\ Leads(cgoidNext', cgomap', cgoid[u], arg'[u])
  PROVE  CgoInv'
<1>1. CgoLeads'
  BY DEF CgoLeads
<1>2. CgoUnique'
  BY SMT DEF CgoInv, CgoUnique
<1> QED BY <1>1, <1>2 DEF CgoInv

LEMMA CgoKeep ==
  ASSUME CgoInv, UNCHANGED <<cgoidNext, cgomap, priv, cgoid>>,
         Owners' \subseteq Owners, OwnerThreads' \subseteq OwnerThreads,
         \A u \in OwnerThreads' : arg'[u] = arg[u]
  PROVE  CgoInv'
<1>1. \A n \in Owners' : priv'[n] = priv[n] /\ Leads(cgoidNext', cgomap', priv[n], n)
  BY DEF CgoInv, CgoLeads
<1>2. \A u \in OwnerThreads' : cgoid'[u] = cgoid[u] /\ Leads(cgoidNext', cgomap', cgoid[u], arg'[u])
  BY DEF CgoInv, CgoLeads
<1> QED BY <1>1, <1>2, CgoStep

LEMMA OwnersFrame == ASSUME UNCHANGED <<inflight, drq, batch>> PROVE Owners' = Owners
BY DEF Owners

LEMMA LiveSetFrame == ASSUME UNCHANGED <<inflight, drq, batch, pend>> PROVE Live' = Live
BY DEF Live, Hand

\* A store under the next id, and forgetting an id, leave other pointers alone.
LEMMA LeadsStore ==
  ASSUME NEW next \in Nat, NEW map, NEW x, NEW p, NEW m, Leads(next, map, p, m)
  PROVE  Leads(next + 1, CgoStore(map, next + 1, x), p, m) /\ p # next + 1
BY SMT DEF Leads, CgoStore

LEMMA LeadsForget ==
  ASSUME NEW next, NEW map, NEW id, NEW p, NEW m, Leads(next, map, p, m), p # 0 => p # id
  PROVE  Leads(next, CgoForget(map, id), p, m)
BY DEF Leads, CgoForget

\* eventPoll() e changes what it has in hand, and no other does.
LEMMA PendStep ==
  ASSUME PendInv, NEW e \in Pollers,
         \A f \in Pollers : f # e => pend'[f] = pend[f] /\ epc'[f] = epc[f],
         epc'[e] = "send" => pend'[e] # NoPend,
         pend'[e] # NoPend => pend'[e].on = Dest(pend'[e].msg) /\ pend'[e].opaque = Opaque[pend'[e].msg]
  PROVE  PendInv'
BY DEF PendInv

\* What the lemmas below start from.
LEMMA Facts ==
  ASSUME IInv
  PROVE  /\ TypeOK /\ CgoTypeOK /\ CallTypeOK /\ RkTypeOK /\ ChanTypeOK /\ PollTypeOK
         /\ ArgInv /\ ChannelInv /\ DisjointInv /\ LiveInv /\ SentInv /\ CgoInv /\ PendInv
BY DEF IInv, TypeOK

LEMMA QuietParts ==
  ASSUME IInv,
         UNCHANGED <<callVars, cgoVars, priv, inflight, drq, sent, batch, pend>>,
         \A e \in Pollers : epc'[e] = "send" => epc[e] = "send"
  PROVE  Parts'
<1> USE DEF callVars, cgoVars
<1>1. ArgInv' /\ ChannelInv' /\ DisjointInv' /\ LiveInv' /\ SentInv' /\ CgoInv'
  BY Facts, ArgFrame, ChannelFrame, DisjointFrame, LiveFrame, SentFrame, CgoFrame
<1>2. PendInv'
  BY Facts DEF PendInv, Dest
<1> QED BY <1>1, <1>2 DEF Parts

-----------------------------------------------------------------------------
(* The steps of produce() and channelProducer().                           *)

LEMMA ProduceCallParts ==
  ASSUME IInv, NEW t \in Callers, NEW m \in Msgs, Produce(t, m) PROVE Parts'
<1> USE DEF cgoVars, rkVars, chanVars, pollVars, SetPc, SetStatus
<1>0. /\ CallTypeOK /\ ArgInv /\ ChannelInv /\ DisjointInv /\ LiveInv /\ SentInv /\ CgoInv /\ PendInv
      /\ t \in Producers /\ t # ChannelProducer
  BY Facts, Names
<1>1. /\ status[m] = "new" /\ m \notin ViaChannel /\ \A n \in Msgs : n # m => status'[n] = status[n]
      /\ UNCHANGED <<cgoidNext, cgomap, produceChannel, cgoid, priv, inflight, drq, sent, batch, pend, epc>>
  BY <1>0 DEF Produce, CallTypeOK
<1>2. /\ \A u \in Producers : u # t => pc'[u] = pc[u] /\ arg'[u] = arg[u]
      /\ \/ UNCHANGED <<pc, arg>>
         \/ status'[m] = "calling" /\ pc[t] = "idle" /\ pc'[t] = "put" /\ arg'[t] = m
  BY <1>0 DEF Produce, CallTypeOK
<1>3. \A u \in Producers : arg[u] # m
  BY <1>0, <1>1, NewIsNoArg
<1>4. ArgInv'
  <2>1. CASE UNCHANGED <<pc, arg>>
    BY <1>0, <1>1, <1>3, <2>1, ArgStatus
  <2>2. CASE status'[m] = "calling" /\ pc'[t] = "put" /\ arg'[t] = m
    BY <1>0, <1>1, <1>2, <1>3, <2>2, ArgStep, SMT
  <2> QED BY <1>2, <2>1, <2>2
<1>5. ChannelInv'
  <2>1. \A i \in 1 .. Len(produceChannel) : status'[produceChannel[i]] = status[produceChannel[i]]
    BY <1>0, <1>1, Queued
  <2> QED BY <1>0, <1>1, <1>2, <2>1, ChannelStep, Names
<1>6. DisjointInv' /\ PendInv'
  BY <1>0, <1>1, DisjointFrame, PendFrame
<1>7. LiveInv'
  <2>1. Live' = Live /\ Live \subseteq Msgs
    BY <1>1, LiveSetFrame DEF Live
  <2> QED BY <1>0, <1>1, <2>1, LiveStep DEF Open
<1>8. SentInv'
  <2>1. sent[m] = <<>> /\ (pc'[ChannelProducer] = "report" => sent[arg'[ChannelProducer]] = <<>>)
    BY <1>0, <1>1, <1>2, Names DEF SentInv
  <2> QED BY <1>0, <1>1, <2>1, SentStep
<1>9. CgoInv'
  <2>1. OwnerThreads' = OwnerThreads /\ \A u \in OwnerThreads' : arg'[u] = arg[u]
    BY <1>2 DEF OwnerThreads
  <2> QED BY <1>0, <1>1, <2>1, OwnersFrame, CgoKeep
<1> QED BY <1>4, <1>5, <1>6, <1>7, <1>8, <1>9 DEF Parts

LEMMA WriteParts ==
  ASSUME IInv, NEW m \in Msgs, WriteProduceChannel(m) PROVE Parts'
<1> USE DEF cgoVars, rkVars, chanVars, pollVars, SetStatus
<1>0. CallTypeOK /\ ArgInv /\ ChannelInv /\ DisjointInv /\ LiveInv /\ SentInv /\ CgoInv /\ PendInv
  BY Facts
<1>1. /\ status[m] = "new" /\ status'[m] = "calling" /\ \A n \in Msgs : n # m => status'[n] = status[n]
      /\ UNCHANGED <<cgoidNext, cgomap, pc, arg, cgoid, priv, inflight, drq, sent, batch, pend, epc>>
  BY <1>0 DEF WriteProduceChannel, CallTypeOK
<1>2. \A u \in Producers : arg[u] # m
  BY <1>0, <1>1, NewIsNoArg
<1>3. ArgInv'
  <2>1. UNCHANGED <<pc, arg>> /\ \A n \in Msgs : n # m => status'[n] = status[n]
    BY <1>1
  <2> QED BY <1>0, <1>2, <2>1, ArgStatus
<1>4. ChannelInv'
  <2>1. produceChannel \in Seq(ViaChannel) /\ m \in ViaChannel /\ produceChannel' = Append(produceChannel, m)
    BY <1>0 DEF WriteProduceChannel, CallTypeOK
  <2>2. /\ Len(produceChannel') = Len(produceChannel) + 1 /\ Len(produceChannel) \in Nat
        /\ produceChannel'[Len(produceChannel) + 1] = m
        /\ \A i \in 1 .. Len(produceChannel) : produceChannel'[i] = produceChannel[i]
    BY <2>1, SMT
  <2>3. \A i \in 1 .. Len(produceChannel) :
          /\ produceChannel[i] \in Msgs /\ produceChannel[i] # m
          /\ status'[produceChannel[i]] = "calling" /\ produceChannel[i] # arg'[ChannelProducer]
    BY <1>0, <1>1, Queued DEF ChannelInv
  <2>4. \A i \in 1 .. Len(produceChannel') :
          /\ status'[produceChannel'[i]] = "calling"
          /\ produceChannel'[i] # arg'[ChannelProducer]
    BY <1>1, <1>2, <2>2, <2>3, Names, SMT
  <2>5. \A i, j \in 1 .. Len(produceChannel') : i # j => produceChannel'[i] # produceChannel'[j]
    BY <1>0, <2>2, <2>3, SMT DEF ChannelInv
  <2> QED BY <2>4, <2>5 DEF ChannelInv
<1>5. DisjointInv' /\ PendInv' /\ CgoInv'
  BY <1>0, <1>1, DisjointFrame, PendFrame, CgoFrame
<1>6. LiveInv'
  <2>1. Live' = Live /\ Live \subseteq Msgs
    BY <1>1, LiveSetFrame DEF Live
  <2> QED BY <1>0, <1>1, <2>1, LiveStep DEF Open
<1>7. SentInv'
  <2>1. sent[m] = <<>> /\ (pc'[ChannelProducer] = "report" => sent[arg'[ChannelProducer]] = <<>>)
    BY <1>0, <1>1 DEF SentInv
  <2> QED BY <1>0, <1>1, <2>1, SentStep
<1> QED BY <1>3, <1>4, <1>5, <1>6, <1>7 DEF Parts

\* The message channelProducer() takes is the first one, and waits nowhere else.
LEMMA Received ==
  ASSUME IInv, ChannelReceive
  PROVE  /\ Head(produceChannel) \in Msgs /\ Head(produceChannel) \in ViaChannel
         /\ Head(produceChannel) = produceChannel[1]
         /\ status[Head(produceChannel)] = "calling"
         /\ Len(produceChannel') = Len(produceChannel) - 1 /\ Len(produceChannel) \in Nat \ {0}
         /\ \A i \in 1 .. Len(produceChannel') : produceChannel'[i] = produceChannel[i + 1]
<1>1. produceChannel \in Seq(ViaChannel) /\ produceChannel # <<>> /\ produceChannel' = Tail(produceChannel)
  BY Facts DEF ChannelReceive, CallTypeOK
<1>2. Len(produceChannel) \in Nat \ {0} /\ Head(produceChannel) = produceChannel[1]
  BY <1>1, SMT
<1>3. /\ Len(produceChannel') = Len(produceChannel) - 1
      /\ \A i \in 1 .. Len(produceChannel') : produceChannel'[i] = produceChannel[i + 1]
  BY <1>1, SMT
<1>4. 1 \in 1 .. Len(produceChannel)
  BY <1>2, SMT
<1>5. produceChannel[1] \in Msgs /\ produceChannel[1] \in ViaChannel
  BY <1>4, Facts, Queued
<1>6. status[produceChannel[1]] = "calling"
  BY <1>4, Facts DEF ChannelInv
<1> QED BY <1>2, <1>3, <1>5, <1>6

LEMMA ChannelReceiveParts ==
  ASSUME IInv, ChannelReceive PROVE Parts'
<1> USE DEF cgoVars, rkVars, chanVars, pollVars, SetPc, SetStatus
<1> PICK m : m = Head(produceChannel)
  OBVIOUS
<1>0. CallTypeOK /\ ArgInv /\ ChannelInv /\ DisjointInv /\ LiveInv /\ SentInv /\ CgoInv /\ PendInv
  BY Facts
<1>1. /\ m \in Msgs /\ m \in ViaChannel /\ m = produceChannel[1] /\ status[m] = "calling"
      /\ Len(produceChannel') = Len(produceChannel) - 1 /\ Len(produceChannel) \in Nat \ {0}
      /\ \A i \in 1 .. Len(produceChannel') : produceChannel'[i] = produceChannel[i + 1]
  BY Received
<1>2. /\ \A n \in Msgs : n # m => status'[n] = status[n]
      /\ UNCHANGED <<cgoidNext, cgomap, cgoid, priv, inflight, drq, sent, batch, pend, epc>>
      /\ pc[ChannelProducer] = "idle" /\ arg'[ChannelProducer] = m
      /\ \/ pc'[ChannelProducer] = "put" /\ status'[m] = "calling"
         \/ pc'[ChannelProducer] = "report" /\ status'[m] = "rejected"
  BY <1>0, <1>1, Names DEF ChannelReceive, CallTypeOK
<1>3. \A u \in Producers : u # ChannelProducer => pc'[u] = pc[u] /\ arg'[u] = arg[u]
  BY <1>0 DEF ChannelReceive, CallTypeOK
<1>4. \A u \in Producers : u # ChannelProducer => arg[u] # m
  BY <1>0, <1>1 DEF ArgInv, Producers
<1>5. ArgInv'
  BY <1>0, <1>1, <1>2, <1>3, <1>4, Names, ArgStep, SMT
<1>6. ChannelInv'
  <2>1. ASSUME NEW i \in 1 .. Len(produceChannel')
        PROVE  /\ i + 1 \in 1 .. Len(produceChannel) /\ produceChannel'[i] = produceChannel[i + 1]
               /\ produceChannel[i + 1] # m
    BY <1>0, <1>1, SMT DEF ChannelInv
  <2>2. \A i \in 1 .. Len(produceChannel') :
          status'[produceChannel'[i]] = "calling" /\ produceChannel'[i] # arg'[ChannelProducer]
    BY <1>0, <1>2, <2>1, Queued, SMT DEF ChannelInv
  <2>3. \A i, j \in 1 .. Len(produceChannel') : i # j => produceChannel'[i] # produceChannel'[j]
    BY <1>0, <2>1, SMT DEF ChannelInv
  <2> QED BY <2>2, <2>3 DEF ChannelInv
<1>7. DisjointInv' /\ PendInv'
  BY <1>0, <1>2, DisjointFrame, PendFrame
<1>8. LiveInv'
  <2>1. Live' = Live /\ Live \subseteq Msgs
    BY <1>2, LiveSetFrame DEF Live
  <2> QED BY <1>0, <1>1, <1>2, <2>1, LiveStep DEF Open
<1>9. SentInv'
  <2>1. sent[m] = <<>>
    BY <1>0, <1>1 DEF SentInv
  <2> QED BY <1>0, <1>2, <2>1, SentStep
<1>10. CgoInv'
  <2>1. OwnerThreads' = OwnerThreads /\ \A u \in OwnerThreads' : arg'[u] = arg[u]
    BY <1>2, <1>3 DEF OwnerThreads
  <2> QED BY <1>0, <1>2, <2>1, OwnersFrame, CgoKeep
<1> QED BY <1>5, <1>6, <1>7, <1>8, <1>9, <1>10 DEF Parts

\* The steps that only move a goroutine along.
LEMMA MoveParts ==
  ASSUME IInv, NEW t \in Producers, NEW l \in {"enqueue", "undo", "done"}, SetPc(t, l),
         UNCHANGED <<status, produceChannel, arg, priv, inflight, drq, sent, batch, pend, epc>>,
         \/ l = "done" /\ pc[t] = "idle"
         \/ l \in {"enqueue", "undo"} /\ pc[t] \in {"put", "enqueue"},
         CgoInv'
  PROVE  Parts'
<1>0. CallTypeOK /\ ArgInv /\ ChannelInv /\ DisjointInv /\ LiveInv /\ SentInv /\ PendInv
  BY Facts
<1>1. pc'[t] = l /\ \A u \in Producers : u # t => pc'[u] = pc[u]
  BY <1>0 DEF SetPc, CallTypeOK
<1>2. ArgInv'
  BY <1>0, <1>1 DEF ArgInv
<1>3. SentInv'
  <2>1. \A n \in Msgs : OneReport(n)' = OneReport(n)
    BY DEF OneReport, Dest
  <2>2. pc'[ChannelProducer] = "report" => pc[ChannelProducer] = "report"
    BY <1>1, Names
  <2> QED BY <1>0, <2>1, <2>2 DEF SentInv, ReportRouting
<1>4. ChannelInv' /\ DisjointInv' /\ LiveInv' /\ PendInv'
  BY <1>0, ChannelFrame, DisjointFrame, LiveFrame, PendFrame
<1> QED BY <1>2, <1>3, <1>4 DEF Parts

LEMMA ChannelDoneParts ==
  ASSUME IInv, ChannelDone PROVE Parts'
<1>1. /\ pc[ChannelProducer] = "idle" /\ SetPc(ChannelProducer, "done")
      /\ UNCHANGED <<cgoidNext, cgomap, status, produceChannel, arg, cgoid, priv, inflight, drq, sent, batch, pend, epc>>
  BY DEF ChannelDone, cgoVars, rkVars, chanVars, pollVars
<1>2. OwnerThreads' = OwnerThreads
  BY <1>1, Facts DEF OwnerThreads, SetPc, CallTypeOK
<1>3. CgoInv'
  BY <1>1, <1>2, Facts, OwnersFrame, CgoKeep
<1> QED BY <1>1, <1>3, Names, MoveParts

LEMMA EnqueueFailsParts ==
  ASSUME IInv, NEW t \in Producers, EnqueueFails(t) PROVE Parts'
<1>1. /\ pc[t] = "enqueue" /\ SetPc(t, "undo")
      /\ UNCHANGED <<cgoidNext, cgomap, status, produceChannel, arg, cgoid, priv, inflight, drq, sent, batch, pend, epc>>
  BY DEF EnqueueFails, cgoVars, rkVars, chanVars, pollVars
<1>2. OwnerThreads' = OwnerThreads
  BY <1>1, Facts DEF OwnerThreads, SetPc, CallTypeOK
<1>3. CgoInv'
  BY <1>1, <1>2, Facts, OwnersFrame, CgoKeep
<1> QED BY <1>1, <1>3, MoveParts

LEMMA CgoPutParts ==
  ASSUME IInv, NEW t \in Producers, CgoPut(t) PROVE Parts'
<1> PICK id : id = cgoidNext + 1
  OBVIOUS
<1> PICK m : m = arg[t]
  OBVIOUS
<1>0. CgoTypeOK /\ CallTypeOK /\ ArgInv /\ CgoInv
  BY Facts
<1>1. /\ pc[t] = "put" /\ SetPc(t, "enqueue")
      /\ UNCHANGED <<status, produceChannel, arg, priv, inflight, drq, sent, batch, pend, epc>>
  BY DEF CgoPut, rkVars, chanVars, pollVars
<1>2. cgoidNext \in Nat /\ CgoNext(cgoidNext) = id
  BY <1>0, IdModAssumption, SMT DEF CgoPut, NoWrap, CgoTypeOK, Ids, CgoNext, UintptrInc
<1>3. /\ OwnerThreads' = OwnerThreads \cup {t} /\ t \notin OwnerThreads /\ Owners' = Owners
      /\ OwnerThreads \subseteq Producers
  <2>1. pc' = [pc EXCEPT ![t] = "enqueue"] /\ pc \in [Producers -> {"idle", "put", "enqueue", "undo", "report", "done"}]
    BY <1>0, <1>1 DEF SetPc, CallTypeOK
  <2> QED BY <1>1, <2>1, OwnersFrame DEF OwnerThreads
<1>4. CgoLeads /\ CgoUnique /\ cgoid \in [Producers -> Ids]
  BY <1>0 DEF CgoInv, CallTypeOK
<1>5. CgoInv'
  <2>1. CASE NeedsCgo(m)
    <3>1. /\ cgoidNext' = id /\ cgomap' = CgoStore(cgomap, id, CgoDr(m))
          /\ cgoid' = [cgoid EXCEPT ![t] = id]
      BY <1>2, <2>1 DEF CgoPut
    <3>2. cgoid'[t] = id /\ \A u \in OwnerThreads : cgoid'[u] = cgoid[u]
      BY <1>3, <1>4, <3>1
    <3>3. \A p, n : Leads(cgoidNext, cgomap, p, n) => Leads(cgoidNext', cgomap', p, n) /\ p # id
      BY <1>2, <3>1, LeadsStore, SMT
    <3>4. \A n \in Owners : Leads(cgoidNext', cgomap', priv[n], n) /\ priv[n] # id
      BY <1>4, <3>3 DEF CgoLeads
    <3>5. \A u \in OwnerThreads : Leads(cgoidNext', cgomap', cgoid[u], arg[u]) /\ cgoid[u] # id
      BY <1>4, <3>3 DEF CgoLeads
    <3>6. Leads(cgoidNext', cgomap', id, m)
      BY <1>2, <2>1, <3>1, SMT DEF Leads, CgoStore
    <3>7. CgoLeads'
      BY <1>1, <1>3, <3>2, <3>4, <3>5, <3>6 DEF CgoLeads
    <3>8. CgoUnique'
      <4>1. \A a, b \in Owners' : a # b /\ priv'[a] # 0 => priv'[a] # priv'[b]
        BY <1>1, <1>3, <1>4, Zenon DEF CgoUnique
      <4>2. ASSUME NEW a \in OwnerThreads', NEW b \in OwnerThreads', a # b, cgoid'[a] # 0 PROVE cgoid'[a] # cgoid'[b]
        <5>1. CASE a = t
          BY <1>3, <3>2, <3>5, <4>2, <5>1, Zenon
        <5>2. CASE b = t
          BY <1>3, <3>2, <3>5, <4>2, <5>2, Zenon
        <5>3. CASE a # t /\ b # t
          BY <1>3, <1>4, <3>2, <4>2, <5>3, Zenon DEF CgoUnique
        <5> QED BY <5>1, <5>2, <5>3
      <4>3. ASSUME NEW n \in Owners', NEW u \in OwnerThreads', priv'[n] # 0 PROVE priv'[n] # cgoid'[u]
        <5>1. CASE u = t
          BY <1>1, <1>3, <3>2, <3>4, <5>1, Zenon
        <5>2. CASE u # t
          BY <1>1, <1>3, <1>4, <3>2, <4>3, <5>2, Zenon DEF CgoUnique
        <5> QED BY <5>1, <5>2
      <4> QED BY <4>1, <4>2, <4>3, Zenon DEF CgoUnique
    <3> QED BY <3>7, <3>8 DEF CgoInv
  <2>2. CASE ~NeedsCgo(m)
    <3>1. UNCHANGED <<cgoidNext, cgomap>> /\ cgoid' = [cgoid EXCEPT ![t] = 0]
      BY <2>2 DEF CgoPut, cgoVars
    <3>2. cgoid'[t] = 0 /\ \A u \in OwnerThreads : cgoid'[u] = cgoid[u]
      BY <1>3, <1>4, <3>1
    <3>3. Leads(cgoidNext', cgomap', 0, m)
      BY <2>2 DEF Leads
    <3>4. CgoLeads'
      BY <1>1, <1>3, <1>4, <3>1, <3>2, <3>3 DEF CgoLeads
    <3>5. CgoUnique'
      <4>1. \A a, b \in Owners' : a # b /\ priv'[a] # 0 => priv'[a] # priv'[b]
        BY <1>1, <1>3, <1>4, Zenon DEF CgoUnique
      <4>2. ASSUME NEW a \in OwnerThreads', NEW b \in OwnerThreads', a # b, cgoid'[a] # 0 PROVE cgoid'[a] # cgoid'[b]
        <5>1. a # t
          BY <3>2, <4>2, Zenon
        <5>2. CASE b = t
          BY <3>2, <4>2, <5>2, Zenon
        <5>3. CASE b # t
          BY <1>3, <1>4, <3>2, <4>2, <5>1, <5>3, Zenon DEF CgoUnique
        <5> QED BY <5>2, <5>3
      <4>3. ASSUME NEW n \in Owners', NEW u \in OwnerThreads', priv'[n] # 0 PROVE priv'[n] # cgoid'[u]
        <5>1. CASE u = t
          BY <3>2, <4>3, <5>1, Zenon
        <5>2. CASE u # t
          BY <1>1, <1>3, <1>4, <3>2, <4>3, <5>2, Zenon DEF CgoUnique
        <5> QED BY <5>1, <5>2
      <4> QED BY <4>1, <4>2, <4>3, Zenon DEF CgoUnique
    <3> QED BY <3>4, <3>5 DEF CgoInv
  <2> QED BY <2>1, <2>2
<1> QED BY <1>1, <1>5, MoveParts

\* The message of a goroutine inside produce() is nowhere in librdkafka.
LEMMA ArgFacts ==
  ASSUME IInv, NEW t \in Producers, pc[t] \in {"enqueue", "undo"}, NEW m, m = arg[t]
  PROVE  /\ m \in Msgs /\ status[m] = "calling" /\ sent[m] = <<>>
         /\ m \notin Live /\ m \notin Owners
         /\ \A u \in Producers : u # t => arg[u] # m
         /\ t \in Callers => m \notin ViaChannel
         /\ t = ChannelProducer => m \in ViaChannel
         /\ \A i \in 1 .. Len(produceChannel) : produceChannel[i] # m
<1>1. /\ m \in Msgs /\ status[m] = "calling" /\ \A u \in Producers : u # t => arg[u] # m
      /\ t \in Callers => m \notin ViaChannel
      /\ t = ChannelProducer => m \in ViaChannel
  BY Facts, Names DEF ArgInv
<1>2. sent[m] = <<>>
  BY <1>1, Facts DEF SentInv
<1>3. m \notin Live /\ m \notin Owners
  <2>1. Owners \subseteq Live
    BY DEF Owners, Live, Hand
  <2> QED BY <1>1, <2>1, Facts DEF LiveInv, Open
<1>4. \A i \in 1 .. Len(produceChannel) : produceChannel[i] # m
  BY <1>1, Facts, Queued DEF ChannelInv, Producers
<1> QED BY <1>1, <1>2, <1>3, <1>4

LEMMA EnqueueParts ==
  ASSUME IInv, NEW t \in Producers, Enqueue(t) PROVE Parts'
<1> USE DEF cgoVars, chanVars, pollVars, SetPc, SetStatus
<1> PICK m : m = arg[t]
  OBVIOUS
<1>0. CallTypeOK /\ RkTypeOK /\ ArgInv /\ ChannelInv /\ DisjointInv /\ LiveInv /\ SentInv /\ CgoInv /\ PendInv
  BY Facts
<1>1. /\ m \in Msgs /\ status[m] = "calling" /\ sent[m] = <<>> /\ m \notin Live /\ m \notin Owners
      /\ \A u \in Producers : u # t => arg[u] # m
      /\ (t \in Callers => m \notin ViaChannel) /\ (t = ChannelProducer => m \in ViaChannel)
      /\ \A i \in 1 .. Len(produceChannel) : produceChannel[i] # m
  BY ArgFacts DEF Enqueue
<1>2. /\ UNCHANGED <<cgoidNext, cgomap, produceChannel, cgoid, drq, sent, batch, pend, epc>>
      /\ inflight' = inflight \cup {m}
      /\ status'[m] = "accepted" /\ \A n \in Msgs : n # m => status'[n] = status[n]
  BY <1>0, <1>1 DEF Enqueue, CallTypeOK
<1>3. /\ pc[t] = "enqueue" /\ pc'[t] = "idle" /\ arg'[t] = Nil
      /\ \A u \in Producers : u # t => pc'[u] = pc[u] /\ arg'[u] = arg[u]
  BY <1>0 DEF Enqueue, CallTypeOK
<1>4. priv'[m] = cgoid[t] /\ \A n \in Msgs : n # m => priv'[n] = priv[n]
  BY <1>0, <1>1 DEF Enqueue, RkTypeOK
<1>5. ArgInv'
  <2>1. \A u \in Producers : u # t => pc'[u] = pc[u] /\ arg'[u] = arg[u] /\ arg[u] # m
    BY <1>1, <1>3, Zenon
  <2>2. pc'[t] \in {"put", "enqueue", "undo"} => m \in Msgs /\ arg'[t] = m /\ status'[m] = "calling"
    BY <1>3, Zenon
  <2>3. pc'[t] = "report" => t = ChannelProducer /\ arg'[t] = m /\ status'[m] = "rejected"
    BY <1>3, Zenon
  <2>4. (pc'[t] \in {"idle", "done"} => arg'[t] = Nil) /\ arg'[t] \in {m, Nil}
    BY <1>3, Zenon
  <2>5. ArgInv /\ (\A n \in Msgs : n # m => status'[n] = status[n])
    BY <1>0, <1>2, Zenon
  <2>6. (t \in Callers => m \notin ViaChannel) /\ (t = ChannelProducer => m \in ViaChannel)
    BY <1>1, Zenon
  <2>7. t \in Producers
    OBVIOUS
  <2> QED BY ONLY <2>1, <2>2, <2>3, <2>4, <2>5, <2>6, <2>7, ArgStep, SMT
<1>6. ChannelInv'
  <2>1. \A i \in 1 .. Len(produceChannel) : status'[produceChannel[i]] = status[produceChannel[i]]
    BY <1>0, <1>1, <1>2, Queued
  <2>2. arg'[ChannelProducer] \in {arg[ChannelProducer], Nil}
    BY <1>3, Names
  <2> QED BY <1>0, <1>2, <2>1, <2>2, ChannelStep
<1>7. \A e \in Pollers : Hand(e)' = Hand(e)
  BY <1>2 DEF Hand
<1>8. DisjointInv'
  <2>1. (\A S \in drq : m \notin S) /\ \A e \in Pollers : m \notin Hand(e)
    BY <1>1 DEF Live
  <2>2. \A S \in drq' : S \cap inflight' = {}
    <3>1. drq' = drq /\ inflight' = inflight \cup {m} /\ \A S \in drq : S \cap inflight = {}
      BY <1>0, <1>2 DEF DisjointInv
    <3> QED BY <2>1, <3>1
  <2>3. \A e \in Pollers : Hand(e)' \cap inflight' = {}
    <3>1. inflight' = inflight \cup {m} /\ \A e \in Pollers : Hand(e) \cap inflight = {}
      BY <1>0, <1>2 DEF DisjointInv
    <3> QED BY <1>7, <2>1, <3>1
  <2> QED BY <1>0, <1>2, <1>7, <2>2, <2>3 DEF DisjointInv
<1>9. LiveInv'
  <2>1. Live' = Live \cup {m} /\ Live \subseteq Msgs
    BY <1>1, <1>2, <1>7 DEF Live
  <2>2. \A n \in Live : Open(n)'
    BY <1>0, <1>1, <1>2, <2>1 DEF LiveInv, Open
  <2>3. Open(m)'
    BY <1>1, <1>2 DEF Open
  <2> QED BY <2>1, <2>2, <2>3 DEF LiveInv
<1>10. SentInv'
  <2>1. pc'[ChannelProducer] = "report" => sent[arg'[ChannelProducer]] = <<>>
    BY <1>0, <1>3, Names DEF SentInv
  <2> QED BY <1>0, <1>1, <1>2, <2>1, SentStep
<1>11. CgoInv'
  <2>1. CgoLeads /\ CgoUnique
    BY <1>0 DEF CgoInv
  <2>2. Owners' = Owners \cup {m} /\ \A n \in Owners : priv'[n] = priv[n]
    BY <1>1, <1>2, <1>4 DEF Owners
  <2>3. /\ OwnerThreads' = OwnerThreads \ {t} /\ t \in OwnerThreads
        /\ \A u \in OwnerThreads' : arg'[u] = arg[u]
    BY <1>3 DEF OwnerThreads
  <2>4. CgoLeads'
    BY <1>2, <1>4, <2>1, <2>2, <2>3 DEF CgoLeads
  <2>5. CgoUnique'
    <3>1. ASSUME NEW a \in Owners', NEW b \in Owners', a # b, priv'[a] # 0 PROVE priv'[a] # priv'[b]
      <4>1. CASE a = m
        <5>1. b \in Owners /\ priv'[b] = priv[b] /\ priv'[a] = cgoid[t]
          BY <1>4, <2>2, <3>1, <4>1, Zenon
        <5>2. priv[b] # 0 => priv[b] # cgoid[t]
          BY <2>1, <2>3, <5>1, Zenon DEF CgoUnique
        <5> QED BY <3>1, <5>1, <5>2, Zenon
      <4>2. CASE b = m
        <5>1. a \in Owners /\ priv'[a] = priv[a] /\ priv'[b] = cgoid[t]
          BY <1>4, <2>2, <3>1, <4>2, Zenon
        <5>2. priv[a] # 0 => priv[a] # cgoid[t]
          BY <2>1, <2>3, <5>1, Zenon DEF CgoUnique
        <5> QED BY <3>1, <5>1, <5>2, Zenon
      <4>3. CASE a # m /\ b # m
        BY <2>1, <2>2, <3>1, <4>3, Zenon DEF CgoUnique
      <4> QED BY <4>1, <4>2, <4>3
    <3>2. \A a, b \in OwnerThreads' : a # b /\ cgoid'[a] # 0 => cgoid'[a] # cgoid'[b]
      BY <1>2, <2>1, <2>3, Zenon DEF CgoUnique
    <3>3. ASSUME NEW n \in Owners', NEW u \in OwnerThreads', priv'[n] # 0 PROVE priv'[n] # cgoid'[u]
      <4>1. u \in OwnerThreads /\ u # t /\ cgoid'[u] = cgoid[u]
        BY <1>2, <2>3, Zenon
      <4>2. CASE n = m
        <5>1. priv'[n] = cgoid[t] /\ cgoid[t] # 0
          BY <1>4, <3>3, <4>2, Zenon
        <5>2. cgoid[t] # 0 => cgoid[t] # cgoid[u]
          BY <2>1, <2>3, <4>1, Zenon DEF CgoUnique
        <5> QED BY <4>1, <5>1, <5>2, Zenon
      <4>3. CASE n # m
        BY <2>1, <2>2, <3>3, <4>1, <4>3, Zenon DEF CgoUnique
      <4> QED BY <4>2, <4>3
    <3> QED BY <3>1, <3>2, <3>3, Zenon DEF CgoUnique
  <2> QED BY <2>4, <2>5 DEF CgoInv
<1>12. PendInv'
  BY <1>0, <1>2, PendFrame
<1> QED BY <1>5, <1>6, <1>8, <1>9, <1>10, <1>11, <1>12 DEF Parts

LEMMA UndoParts ==
  ASSUME IInv, NEW t \in Producers, Undo(t) PROVE Parts'
<1> USE DEF rkVars, chanVars, pollVars, SetPc, SetStatus
<1> PICK m : m = arg[t]
  OBVIOUS
<1> PICK id : id = cgoid[t]
  OBVIOUS
<1>0. CallTypeOK /\ ArgInv /\ ChannelInv /\ DisjointInv /\ LiveInv /\ SentInv /\ CgoInv /\ PendInv
  BY Facts
<1>1. /\ m \in Msgs /\ status[m] = "calling" /\ sent[m] = <<>> /\ m \notin Live /\ m \notin Owners
      /\ \A u \in Producers : u # t => arg[u] # m
      /\ (t \in Callers => m \notin ViaChannel) /\ (t = ChannelProducer => m \in ViaChannel)
      /\ \A i \in 1 .. Len(produceChannel) : produceChannel[i] # m
  BY ArgFacts DEF Undo
<1>2. /\ UNCHANGED <<cgoidNext, produceChannel, cgoid, priv, inflight, drq, sent, batch, pend, epc>>
      /\ cgomap' = CgoForget(cgomap, id)
      /\ status'[m] = "rejected" /\ \A n \in Msgs : n # m => status'[n] = status[n]
  BY <1>0, <1>1 DEF Undo, UndoCgo, CallTypeOK
<1>3. /\ pc[t] = "undo" /\ \A u \in Producers : u # t => pc'[u] = pc[u] /\ arg'[u] = arg[u]
      /\ \/ t = ChannelProducer /\ pc'[t] = "report" /\ arg'[t] = m
         \/ t # ChannelProducer /\ pc'[t] = "idle" /\ arg'[t] = Nil
  BY <1>0 DEF Undo, CallTypeOK
<1>4. ArgInv'
  <2>1. \A u \in Producers : u # t => pc'[u] = pc[u] /\ arg'[u] = arg[u] /\ arg[u] # m
    BY <1>1, <1>3, Zenon
  <2>2. pc'[t] \in {"put", "enqueue", "undo"} => m \in Msgs /\ arg'[t] = m /\ status'[m] = "calling"
    BY <1>3, Zenon
  <2>3. pc'[t] = "report" => t = ChannelProducer /\ arg'[t] = m /\ status'[m] = "rejected"
    BY <1>2, <1>3, Zenon
  <2>4. (pc'[t] \in {"idle", "done"} => arg'[t] = Nil) /\ arg'[t] \in {m, Nil}
    BY <1>3, Zenon
  <2>5. ArgInv /\ (\A n \in Msgs : n # m => status'[n] = status[n])
    BY <1>0, <1>2, Zenon
  <2>6. (t \in Callers => m \notin ViaChannel) /\ (t = ChannelProducer => m \in ViaChannel)
    BY <1>1, Zenon
  <2>7. t \in Producers
    OBVIOUS
  <2> QED BY ONLY <2>1, <2>2, <2>3, <2>4, <2>5, <2>6, <2>7, ArgStep, SMT
<1>5. ChannelInv'
  <2>1. \A i \in 1 .. Len(produceChannel) : status'[produceChannel[i]] = status[produceChannel[i]]
    BY <1>0, <1>1, <1>2, Queued
  <2>2. arg'[ChannelProducer] \in {arg[ChannelProducer], Nil}
    BY <1>3, Names
  <2> QED BY <1>0, <1>2, <2>1, <2>2, ChannelStep
<1>6. DisjointInv' /\ PendInv'
  BY <1>0, <1>2, DisjointFrame, PendFrame
<1>7. LiveInv'
  <2>1. Live' = Live /\ Live \subseteq Msgs
    BY <1>2, LiveSetFrame DEF Live
  <2> QED BY <1>0, <1>1, <1>2, <2>1, LiveStep DEF Open
<1>8. SentInv'
  <2>1. pc'[ChannelProducer] = "report" => sent[arg'[ChannelProducer]] = <<>>
    BY <1>0, <1>1, <1>3, Names DEF SentInv
  <2> QED BY <1>0, <1>1, <1>2, <2>1, SentStep
<1>9. CgoInv'
  <2>1. CgoLeads /\ CgoUnique
    BY <1>0 DEF CgoInv
  <2>2. Owners' = Owners
    BY <1>2, OwnersFrame
  <2>3. /\ OwnerThreads' = OwnerThreads \ {t} /\ t \in OwnerThreads
        /\ \A u \in OwnerThreads' : arg'[u] = arg[u]
    BY <1>3 DEF OwnerThreads
  <2>4. \A n \in Owners : Leads(cgoidNext, cgomap, priv[n], n) /\ (priv[n] # 0 => priv[n] # id)
    BY <2>1, <2>3 DEF CgoLeads, CgoUnique
  <2>5. \A u \in OwnerThreads' : Leads(cgoidNext, cgomap, cgoid[u], arg[u]) /\ (cgoid[u] # 0 => cgoid[u] # id)
    BY <2>1, <2>3 DEF CgoLeads, CgoUnique
  <2>6. \A n \in Owners' : priv'[n] = priv[n] /\ Leads(cgoidNext', cgomap', priv[n], n)
    BY <1>2, <2>2, <2>4, LeadsForget
  <2>7. \A u \in OwnerThreads' : cgoid'[u] = cgoid[u] /\ Leads(cgoidNext', cgomap', cgoid[u], arg'[u])
    BY <1>2, <2>3, <2>5, LeadsForget
  <2> QED BY <1>0, <2>2, <2>3, <2>6, <2>7, CgoStep
<1> QED BY <1>4, <1>5, <1>6, <1>7, <1>8, <1>9 DEF Parts

LEMMA ReportErrorParts ==
  ASSUME IInv, ChannelReportError PROVE Parts'
<1> USE DEF cgoVars, rkVars, pollVars, SetPc
<1> PICK m : m = arg[ChannelProducer]
  OBVIOUS
<1>0. CallTypeOK /\ ChanTypeOK /\ ArgInv /\ ChannelInv /\ DisjointInv /\ LiveInv /\ SentInv /\ CgoInv /\ PendInv
  BY Facts
<1>1. /\ pc[ChannelProducer] = "report" /\ m \in Msgs /\ m \in ViaChannel
      /\ status[m] = "rejected" /\ sent[m] = <<>>
  BY <1>0, Names DEF ChannelReportError, ArgInv, SentInv
<1>2. /\ UNCHANGED <<cgoidNext, cgomap, status, produceChannel, cgoid, priv, inflight, drq, batch, pend, epc>>
      /\ sent' = [sent EXCEPT ![m] = Append(@, [on |-> Events, opaque |-> Opaque[m]])]
  BY DEF ChannelReportError
<1>3. sent'[m] = <<OneReport(m)>> /\ \A n \in Msgs : n # m => sent'[n] = sent[n]
  <2>1. Append(<<>>, OneReport(m)) = <<OneReport(m)>>
    BY SMT
  <2>2. OneReport(m) = [on |-> Events, opaque |-> Opaque[m]]
    BY <1>1 DEF OneReport
  <2> QED BY <1>0, <1>1, <1>2, <2>1, <2>2 DEF ChanTypeOK
<1>4. /\ pc'[ChannelProducer] = "idle" /\ arg'[ChannelProducer] = Nil
      /\ \A u \in Producers : u # ChannelProducer => pc'[u] = pc[u] /\ arg'[u] = arg[u]
  BY <1>0, Names DEF ChannelReportError, CallTypeOK
<1>5. ArgInv'
  <2>1. \A u \in Producers : u # ChannelProducer => arg[u] # m
    BY <1>0, <1>1, Names DEF ArgInv
  <2> QED BY <1>0, <1>1, <1>2, <1>4, <2>1, Names, ArgStep
<1>6. ChannelInv'
  BY <1>0, <1>2, <1>4, ChannelStep
<1>7. DisjointInv' /\ PendInv'
  BY <1>0, <1>2, DisjointFrame, PendFrame
<1>8. LiveInv'
  <2>1. Live' = Live /\ m \notin Live /\ Live \subseteq Msgs
    BY <1>0, <1>1, <1>2, LiveSetFrame DEF Live, LiveInv, Open
  <2> QED BY <1>0, <1>2, <1>3, <2>1, LiveStep DEF Open
<1>9. SentInv'
  <2>1. \A n \in Msgs : OneReport(n)' = OneReport(n)
    BY <1>2 DEF OneReport, Dest
  <2>2. ReportRouting'
    <3>1. \A n \in Msgs : n # m => sent'[n] \in {<<>>, <<OneReport(n)>>}
      BY <1>0, <1>3 DEF SentInv, ReportRouting
    <3> QED BY <1>3, <2>1, <3>1, Zenon DEF ReportRouting
  <2> QED BY <1>0, <1>1, <1>2, <1>3, <1>4, <2>2 DEF SentInv
<1>10. CgoInv'
  <2>1. OwnerThreads' = OwnerThreads /\ \A u \in OwnerThreads' : arg'[u] = arg[u]
    BY <1>1, <1>4 DEF OwnerThreads
  <2> QED BY <1>0, <1>2, <2>1, OwnersFrame, CgoKeep
<1> QED BY <1>5, <1>6, <1>7, <1>8, <1>9, <1>10 DEF Parts

-----------------------------------------------------------------------------
(* librdkafka, and the steps of eventPoll().                               *)

\* The parts that only the calls disturb.
LEMMA CallPartsFrame ==
  ASSUME IInv, UNCHANGED <<status, produceChannel, pc, arg, cgoid, sent>>
  PROVE  ArgInv' /\ ChannelInv' /\ SentInv' /\ OwnerThreads' = OwnerThreads
BY Facts, ArgFrame, ChannelFrame, SentFrame DEF OwnerThreads

LEMMA ReportBatchParts ==
  ASSUME IInv, NEW S \in SUBSET inflight, ReportBatch(S) PROVE Parts'
<1>0. RkTypeOK /\ DisjointInv /\ LiveInv /\ CgoInv /\ PendInv
  BY Facts
<1>1. /\ UNCHANGED <<cgoidNext, cgomap, status, produceChannel, pc, arg, cgoid, priv, sent, batch, pend, epc>>
      /\ inflight' = inflight \ S /\ drq' = drq \cup {S}
  BY DEF ReportBatch, cgoVars, callVars, chanVars, pollVars
<1>2. ArgInv' /\ ChannelInv' /\ SentInv' /\ OwnerThreads' = OwnerThreads
  BY <1>1, CallPartsFrame
<1>3. \A e \in Pollers : Hand(e)' = Hand(e)
  BY <1>1 DEF Hand
<1>4. DisjointInv'
  <2>1. \A T \in drq : T \cap S = {}
    BY <1>0, SMT DEF DisjointInv
  <2>2. \A T \in drq' : T \cap inflight' = {}
    BY <1>0, <1>1, SMT DEF DisjointInv
  <2>3. \A T, U \in drq' : T # U => T \cap U = {}
    BY <1>0, <1>1, <2>1, SMT DEF DisjointInv
  <2>4. \A e \in Pollers : Hand(e)' \cap inflight' = {} /\ \A T \in drq' : Hand(e)' \cap T = {}
    BY <1>0, <1>1, <1>3, SMT DEF DisjointInv
  <2> QED BY <1>0, <1>1, <1>3, <2>2, <2>3, <2>4 DEF DisjointInv
<1>5. LiveInv' /\ Owners' = Owners
  <2>1. Live' = Live /\ Owners' = Owners
    BY <1>0, <1>1, <1>3, SMT DEF Live, Owners, RkTypeOK
  <2> QED BY <1>0, <1>1, <2>1, LiveStep DEF Open
<1>6. CgoInv' /\ PendInv'
  BY <1>0, <1>1, <1>2, <1>5, CgoKeep, PendFrame
<1> QED BY <1>2, <1>4, <1>5, <1>6 DEF Parts

\* What librdkafka and eventPoll() hold gets less: the reports of the rest are
\* not sent, and their entries stay in the map.
LEMMA DropParts ==
  ASSUME IInv, UNCHANGED <<cgoidNext, cgomap, status, produceChannel, pc, arg, cgoid, priv, sent>>,
         inflight' \subseteq inflight, drq' \subseteq drq,
         \A e \in Pollers : batch'[e] \subseteq batch[e] /\ pend'[e] \in {pend[e], NoPend},
         \A e \in Pollers : epc'[e] = "send" => epc[e] = "send" /\ pend'[e] = pend[e]
  PROVE  Parts'
<1>0. DisjointInv /\ LiveInv /\ CgoInv /\ PendInv
  BY Facts
<1>1. ArgInv' /\ ChannelInv' /\ SentInv' /\ OwnerThreads' = OwnerThreads
  BY CallPartsFrame
<1>2. NoPend.msg = Nil
  BY DEF NoPend
<1>3. \A e \in Pollers : pend'[e].msg \in {pend[e].msg, Nil}
  BY <1>2
<1>4. \A e \in Pollers : Hand(e)' \subseteq Hand(e)
  BY <1>3, Names DEF Hand
<1>5. \A e \in Pollers : pend'[e].msg \notin batch'[e]
  <2>1. \A e \in Pollers : batch[e] \subseteq Msgs
    BY Facts DEF PollTypeOK
  <2> QED BY <1>0, <1>3, <2>1, Names, SMT DEF DisjointInv
<1>6. DisjointInv'
  BY <1>0, <1>4, <1>5, DisjointShrink
<1>7. Live' \subseteq Live /\ Owners' \subseteq Owners
  BY <1>4 DEF Live, Owners
<1>8. LiveInv'
  BY <1>0, <1>7, LiveStep DEF Open
<1>9. CgoInv'
  BY <1>0, <1>1, <1>7, CgoKeep
<1>10. PendInv'
  BY <1>0 DEF PendInv
<1> QED BY <1>1, <1>6, <1>8, <1>9, <1>10 DEF Parts

LEMMA DestroyParts ==
  ASSUME IInv, Destroy PROVE Parts'
<1>1. /\ UNCHANGED <<cgoidNext, cgomap, status, produceChannel, pc, arg, cgoid, priv, sent, batch, pend, epc>>
      /\ inflight' = {} /\ drq' = {}
  BY DEF Destroy, cgoVars, callVars, chanVars, pollVars
<1> QED BY <1>1, DropParts

\* eventPoll() gives up what it has in hand.
LEMMA LeaveParts ==
  ASSUME IInv, NEW e \in Pollers, NEW l \in {"ret", "term"}, LeaveEventPoll(e, l),
         UNCHANGED <<cgoidNext, cgomap, status, produceChannel, pc, arg, cgoid, priv, sent, inflight, drq>>
  PROVE  Parts'
<1>1. PollTypeOK
  BY Facts
<1>2. \A f \in Pollers : /\ batch'[f] \subseteq batch[f] /\ pend'[f] \in {pend[f], NoPend}
                         /\ epc'[f] = "send" => epc[f] = "send" /\ pend'[f] = pend[f]
  BY <1>1 DEF LeaveEventPoll, SetEpc, PollTypeOK
<1> QED BY <1>2, DropParts

LEMMA QueuePollParts ==
  ASSUME IInv, NEW e \in Pollers, QueuePoll(e) PROVE Parts'
<1>0. RkTypeOK /\ PollTypeOK /\ DisjointInv /\ LiveInv /\ CgoInv /\ PendInv
  BY Facts
<1>1. UNCHANGED <<cgoidNext, cgomap, status, produceChannel, pc, arg, cgoid, priv, sent, inflight>>
  BY DEF QueuePoll, cgoVars, callVars, chanVars
<1>2. CASE UNCHANGED <<drq, batch, pend>> /\ SetEpc(e, "event")
  <2>1. \A f \in Pollers : epc'[f] = "send" => epc[f] = "send"
    BY <1>0, <1>2 DEF SetEpc, PollTypeOK
  <2> QED BY <1>1, <1>2, <2>1, QuietParts DEF callVars, cgoVars
<1>3. CASE UNCHANGED drq /\ LeaveEventPoll(e, "ret")
  BY <1>1, <1>3, LeaveParts
<1>4. ASSUME NEW S \in drq, drq' = drq \ {S}, batch' = [batch EXCEPT ![e] = S],
             SetEpc(e, "dr"), UNCHANGED pend
      PROVE  Parts'
  <2>1. ArgInv' /\ ChannelInv' /\ SentInv' /\ OwnerThreads' = OwnerThreads
    BY <1>1, CallPartsFrame
  <2>2. batch'[e] = S /\ \A f \in Pollers : f # e => batch'[f] = batch[f]
    BY <1>0, <1>4 DEF PollTypeOK
  <2>3. Hand(e)' \subseteq Hand(e) \cup S /\ \A f \in Pollers : f # e => Hand(f)' = Hand(f)
    BY <1>4, <2>2 DEF Hand
  <2>4. \A T \in drq' : T \in drq /\ T \cap S = {}
    BY <1>0, <1>4 DEF DisjointInv
  <2>5. /\ S \cap inflight = {} /\ \A f \in Pollers : Hand(f) \cap S = {} /\ Hand(f) \cap inflight = {}
        /\ \A f \in Pollers, T \in drq : Hand(f) \cap T = {}
        /\ \A f, g \in Pollers : f # g => Hand(f) \cap Hand(g) = {}
        /\ \A f \in Pollers : pend[f].msg \notin batch[f]
        /\ \A T, U \in drq : T # U => T \cap U = {}
        /\ \A T \in drq : T \cap inflight = {}
    BY <1>0 DEF DisjointInv
  <2>6. DisjointInv'
    <3>1. \A f \in Pollers : Hand(f)' \cap inflight' = {}
      BY <1>1, <2>3, <2>5
    <3>2. \A f \in Pollers, T \in drq' : Hand(f)' \cap T = {}
      BY <2>3, <2>4, <2>5
    <3>3. pend[e].msg \notin S
      <4>1. S \subseteq Msgs /\ (pend[e].msg \in Msgs => pend[e].msg \in Hand(e))
        BY <1>0 DEF RkTypeOK, Hand
      <4> QED BY <2>5, <4>1
    <3>4. \A f \in Pollers : pend'[f].msg \notin batch'[f]
      BY <1>4, <2>2, <2>5, <3>3
    <3>5. \A f, g \in Pollers : f # g => Hand(f)' \cap Hand(g)' = {}
      BY <2>3, <2>5, SMT
    <3> QED BY <1>1, <2>4, <2>5, <3>1, <3>2, <3>4, <3>5 DEF DisjointInv
  <2>7. Live' \subseteq Live /\ Owners' \subseteq Owners
    BY <1>1, <1>4, <2>2, <2>3 DEF Live, Owners
  <2>8. LiveInv'
    BY <1>0, <1>1, <2>7, LiveStep DEF Open
  <2>9. CgoInv'
    BY <1>0, <1>1, <2>1, <2>7, CgoKeep
  <2>10. PendInv'
    BY <1>0, <1>4 DEF PendInv, PollTypeOK, SetEpc
  <2> QED BY <2>1, <2>6, <2>8, <2>9, <2>10 DEF Parts
<1> QED BY <1>2, <1>3, <1>4 DEF QueuePoll

LEMMA PollLimitParts ==
  ASSUME IInv, NEW e \in Pollers, PollLimit(e) \/ Terminate(e) PROVE Parts'
<1>1. UNCHANGED <<cgoidNext, cgomap, status, produceChannel, pc, arg, cgoid, priv, sent, inflight, drq>>
  BY DEF PollLimit, Terminate, cgoVars, callVars, rkVars, chanVars
<1>2. LeaveEventPoll(e, "ret") \/ LeaveEventPoll(e, "term")
  BY DEF PollLimit, Terminate
<1> QED BY <1>1, <1>2, LeaveParts

\* What eventPoll() finds for a message of its event is what produce() stored.
LEMMA TargetIsDest ==
  ASSUME IInv, NEW m \in Owners
  PROVE  Target(m) = Dest(m) /\ CgoDrOf(m).opaque = Opaque[m]
<1>1. Leads(cgoidNext, cgomap, priv[m], m)
  BY Facts DEF CgoInv, CgoLeads
<1>2. CgoDrOf(m) = CgoDr(m)
  <2>1. CASE NeedsCgo(m)
    BY <1>1, <2>1, SMT DEF Leads, CgoDrOf, CgoFound
  <2>2. CASE ~NeedsCgo(m)
    BY <1>1, <2>2 DEF Leads, NeedsCgo, CgoDrOf, CgoDr, CgoFound
  <2> QED BY <2>1, <2>2
<1>3. CgoDrOf(m).deliveryChan = DeliveryChan[m] /\ CgoDrOf(m).opaque = Opaque[m]
  BY <1>2, SMT DEF CgoDr
<1> QED BY <1>3 DEF Target, Dest

LEMMA DispatchParts ==
  ASSUME IInv, NEW e \in Pollers, NEW m \in Msgs, DispatchReport(e, m) PROVE Parts'
<1> PICK id : id = priv[m]
  OBVIOUS
<1> DEFINE p == [msg |-> m, on |-> Target(m), opaque |-> CgoDrOf(m).opaque]
<1>0. PollTypeOK /\ DisjointInv /\ LiveInv /\ CgoInv /\ PendInv
  BY Facts
<1>1. UNCHANGED <<cgoidNext, status, produceChannel, pc, arg, cgoid, priv, sent, inflight, drq>>
  BY DEF DispatchReport, callVars, rkVars, chanVars
<1>2. cgomap' = CgoForget(cgomap, id) /\ m \in batch[e] /\ m \in Hand(e) /\ m \in Owners
  BY DEF DispatchReport, Hand, Owners
<1>3. \/ LeaveEventPoll(e, "ret")
      \/ /\ pend' = [pend EXCEPT ![e] = p] /\ batch' = [batch EXCEPT ![e] = @ \ {m}] /\ SetEpc(e, "send")
  BY DEF DispatchReport
<1>4. /\ \A f \in Pollers : f # e => batch'[f] = batch[f] /\ pend'[f] = pend[f] /\ epc'[f] = epc[f]
      /\ batch'[e] \subseteq batch[e] \ {m}
      /\ \/ pend'[e] = NoPend /\ epc'[e] = "ret"
         \/ pend'[e] = p /\ epc'[e] = "send"
  <2> HIDE DEF p
  <2>1. /\ pend \in [Pollers -> Pending \cup {NoPend}] /\ batch \in [Pollers -> SUBSET Msgs]
        /\ epc \in [Pollers -> {"ret", "poll", "dr", "send", "event", "term"}]
    BY <1>0 DEF PollTypeOK
  <2>2. CASE LeaveEventPoll(e, "ret")
    BY <2>1, <2>2 DEF LeaveEventPoll, SetEpc
  <2>3. CASE pend' = [pend EXCEPT ![e] = p] /\ batch' = [batch EXCEPT ![e] = @ \ {m}] /\ SetEpc(e, "send")
    BY <2>1, <2>3 DEF SetEpc
  <2> QED BY <1>3, <2>2, <2>3
<1>5. p.msg = m /\ p.on = Target(m) /\ p.opaque = CgoDrOf(m).opaque /\ NoPend.msg = Nil
  BY DEF NoPend
<1> HIDE DEF p
<1>6. ArgInv' /\ ChannelInv' /\ SentInv' /\ OwnerThreads' = OwnerThreads
  BY <1>1, CallPartsFrame
<1>7. \A f \in Pollers : Hand(f)' \subseteq Hand(f)
  <2>1. Hand(e)' \subseteq Hand(e)
    BY <1>2, <1>4, <1>5, Names DEF Hand
  <2>2. \A f \in Pollers : f # e => Hand(f)' = Hand(f)
    BY <1>4 DEF Hand
  <2> QED BY <2>1, <2>2
<1>8. DisjointInv'
  <2>1. batch[e] \subseteq Msgs
    BY <1>0 DEF PollTypeOK
  <2>2. pend'[e].msg \notin batch'[e]
    BY <1>4, <1>5, <2>1, Names
  <2>3. \A f \in Pollers : f # e => pend'[f].msg \notin batch'[f]
    BY <1>0, <1>4 DEF DisjointInv
  <2> QED BY <1>0, <1>1, <1>7, <2>2, <2>3, DisjointShrink
<1>9. LiveInv'
  <2>1. Live' \subseteq Live
    BY <1>1, <1>7 DEF Live
  <2> QED BY <1>0, <1>1, <2>1, LiveStep DEF Open
<1>10. CgoInv'
  <2>0. CgoLeads /\ CgoUnique
    BY <1>0 DEF CgoInv
  <2>1. m \notin inflight /\ (\A S \in drq : m \notin S) /\ \A f \in Pollers : f # e => m \notin batch[f]
    BY <1>0, <1>2 DEF DisjointInv, Hand
  <2>2. Owners' \subseteq Owners /\ m \notin Owners'
    BY <1>1, <1>4, <2>1 DEF Owners
  <2>3. \A n \in Owners' : Leads(cgoidNext, cgomap, priv[n], n) /\ (priv[n] # 0 => priv[n] # id)
    BY <1>2, <2>0, <2>2 DEF CgoLeads, CgoUnique
  <2>4. \A u \in OwnerThreads : Leads(cgoidNext, cgomap, cgoid[u], arg[u]) /\ (cgoid[u] # 0 => cgoid[u] # id)
    BY <1>2, <2>0 DEF CgoLeads, CgoUnique
  <2>5. \A n \in Owners' : priv'[n] = priv[n] /\ Leads(cgoidNext', cgomap', priv[n], n)
    BY <1>1, <1>2, <2>3, LeadsForget
  <2>6. \A u \in OwnerThreads' : cgoid'[u] = cgoid[u] /\ Leads(cgoidNext', cgomap', cgoid[u], arg'[u])
    BY <1>1, <1>2, <1>6, <2>4, LeadsForget
  <2> QED BY <1>0, <1>6, <2>2, <2>5, <2>6, CgoStep
<1>11. PendInv'
  <2>1. Target(m) = Dest(m) /\ CgoDrOf(m).opaque = Opaque[m]
    BY <1>2, TargetIsDest
  <2>2. p # NoPend
    BY <1>5, Names
  <2>3. epc'[e] = "send" => pend'[e] # NoPend
    BY <1>4, <2>2
  <2>4. pend'[e] # NoPend => pend'[e].on = Dest(pend'[e].msg) /\ pend'[e].opaque = Opaque[pend'[e].msg]
    BY <1>4, <1>5, <2>1
  <2> QED BY <1>0, <1>4, <2>3, <2>4, PendStep
<1> QED BY <1>6, <1>8, <1>9, <1>10, <1>11 DEF Parts

\* The step that sends a report: the first one of its message, and its own.
LEMMA SendsOwnReport ==
  ASSUME IInv, NEW e \in Pollers, SendReport(e)
  PROVE  \E m \in Msgs : /\ m = pend[e].msg /\ Open(m) /\ Dest(m) # Nil
                         /\ sent' = [sent EXCEPT ![m] = <<OneReport(m)>>]
                         /\ OneReport(m) = [on |-> Dest(m), opaque |-> Opaque[m]]
<1>1. pend[e] \in Pending /\ pend[e] # NoPend
  <2>1. PendInv /\ pend[e] \in Pending \cup {NoPend}
    BY Facts DEF PollTypeOK
  <2>2. epc[e] = "send"
    BY DEF SendReport
  <2> QED BY <2>1, <2>2 DEF PendInv
<1> PICK m : m = pend[e].msg
  OBVIOUS
<1>2. m \in Msgs /\ pend[e].on = Dest(m) /\ pend[e].opaque = Opaque[m] /\ pend[e].on \in AllChans
  BY <1>1, Facts DEF Pending, PendInv
<1>3. Open(m)
  <2>1. m \in Live
    BY <1>2 DEF Live, Hand
  <2> QED BY <2>1, Facts DEF LiveInv
<1>4. OneReport(m) = [on |-> Dest(m), opaque |-> Opaque[m]]
  BY <1>3 DEF OneReport, Open
<1>5. Append(<<>>, OneReport(m)) = <<OneReport(m)>>
  BY SMT
<1>6. sent' = [sent EXCEPT ![m] = Append(sent[m], OneReport(m))]
  BY <1>2, <1>4 DEF SendReport
<1>7. Dest(m) # Nil
  BY <1>2, ProducerAssumption
<1>8. sent' = [sent EXCEPT ![m] = <<OneReport(m)>>]
  BY <1>3, <1>5, <1>6 DEF Open
<1> QED BY <1>2, <1>3, <1>4, <1>7, <1>8, Zenon

LEMMA SendParts ==
  ASSUME IInv, NEW e \in Pollers, SendReport(e) PROVE Parts'
<1> PICK m \in Msgs : /\ m = pend[e].msg /\ Open(m)
                      /\ sent' = [sent EXCEPT ![m] = <<OneReport(m)>>]
  BY SendsOwnReport
<1>0. ChanTypeOK /\ PollTypeOK /\ ArgInv /\ ChannelInv /\ DisjointInv /\ LiveInv /\ SentInv /\ CgoInv /\ PendInv
  BY Facts
<1>1. UNCHANGED <<cgoidNext, cgomap, status, produceChannel, pc, arg, cgoid, priv, inflight, drq, batch>>
  BY DEF SendReport, cgoVars, callVars, rkVars
<1>2. sent'[m] = <<OneReport(m)>> /\ \A n \in Msgs : n # m => sent'[n] = sent[n]
  BY <1>0 DEF ChanTypeOK
<1>3. /\ \A f \in Pollers : f # e => pend'[f] = pend[f] /\ epc'[f] = epc[f]
      /\ pend'[e] = NoPend /\ epc'[e] = "dr" /\ NoPend.msg = Nil
  BY <1>0 DEF SendReport, SetEpc, PollTypeOK, NoPend
<1>4. ArgInv' /\ ChannelInv' /\ CgoInv'
  BY <1>0, <1>1, ArgFrame, ChannelFrame, CgoFrame
<1>5. Hand(e)' = Hand(e) \ {m} /\ \A f \in Pollers : f # e => Hand(f)' = Hand(f)
  <2>1. m \notin batch[e]
    BY <1>0 DEF DisjointInv
  <2>2. pend'[e].msg \notin Msgs
    BY <1>3, Names
  <2> QED BY <1>1, <1>3, <2>1, <2>2 DEF Hand
<1>6. DisjointInv'
  <2>1. batch[e] \subseteq Msgs
    BY <1>0 DEF PollTypeOK
  <2>2. pend'[e].msg \notin batch'[e]
    BY <1>1, <1>3, <2>1, Names
  <2>3. \A f \in Pollers : f # e => pend'[f].msg \notin batch'[f]
    BY <1>0, <1>1, <1>3 DEF DisjointInv
  <2>4. \A f \in Pollers : Hand(f)' \subseteq Hand(f)
    BY <1>5
  <2> QED BY <1>0, <1>1, <2>2, <2>3, <2>4, DisjointShrink
<1>7. LiveInv'
  <2>1. m \in Hand(e)
    BY DEF Hand
  <2>2. m \notin inflight /\ (\A S \in drq : m \notin S) /\ \A f \in Pollers : m \notin Hand(f)'
    BY <1>0, <1>5, <2>1, SMT DEF DisjointInv
  <2>3. Live' \subseteq Live \ {m} /\ Live \subseteq Msgs
    BY <1>1, <1>5, <2>2 DEF Live
  <2> QED BY <1>0, <1>1, <1>2, <2>3, LiveStep DEF Open
<1>8. SentInv'
  <2>1. \A n \in Msgs : OneReport(n)' = OneReport(n)
    BY <1>1 DEF OneReport, Dest
  <2>2. \A n \in Msgs : n # m => sent'[n] \in {<<>>, <<OneReport(n)>>}
    BY <1>0, <1>2 DEF SentInv, ReportRouting
  <2>3. ReportRouting'
    BY <1>2, <2>1, <2>2 DEF ReportRouting
  <2>4. status[m] = "accepted"
    BY DEF Open
  <2>5. pc[ChannelProducer] = "report" => arg[ChannelProducer] \in Msgs /\ arg[ChannelProducer] # m
    BY <1>0, <2>4, Names DEF ArgInv
  <2> QED BY <1>0, <1>1, <1>2, <2>3, <2>4, <2>5 DEF SentInv
<1>9. PendInv'
  BY <1>0, <1>3, PendStep
<1> QED BY <1>4, <1>6, <1>7, <1>8, <1>9 DEF Parts

-----------------------------------------------------------------------------
(* All steps together.                                                     *)

LEMMA InitIInv == Init => IInv
<1> SUFFICES ASSUME Init PROVE IInv
  OBVIOUS
<1>1. TypeOK
  <2>1. closed \subseteq Shuttable
    BY DEF Init
  <2>2. CgoTypeOK /\ RkTypeOK
    BY ProducerAssumption, IdModAssumption, SMT DEF Init, CgoTypeOK, RkTypeOK, Ids
  <2>3. CallTypeOK
    BY IdModAssumption, SMT DEF Init, CallTypeOK, Ids
  <2>4. ChanTypeOK
    BY SMT DEF Init, ChanTypeOK
  <2>5. PollTypeOK
    BY SMT DEF Init, PollTypeOK
  <2>6. FlushTypeOK
    BY SMT DEF Init, FlushTypeOK
  <2> QED BY <2>1, <2>2, <2>3, <2>4, <2>5, <2>6 DEF TypeOK
<1>2. ArgInv /\ ChannelInv
  <2>1. \A t \in Producers : pc[t] = "idle" /\ arg[t] = Nil
    BY DEF Init
  <2>2. produceChannel = <<>> /\ Nil \notin ViaChannel
    BY ProducerAssumption, SMT DEF Init
  <2>3. 1 .. Len(produceChannel) = {}
    BY <2>2, SMT
  <2>4. ChannelInv
    BY <2>3 DEF ChannelInv
  <2>5. ArgInv
    BY <2>1, <2>2 DEF ArgInv
  <2> QED BY <2>4, <2>5
<1>3. DisjointInv /\ LiveInv /\ PendInv
  <2>1. inflight = {} /\ drq = {} /\ \A e \in Pollers : batch[e] = {} /\ pend[e] = NoPend /\ epc[e] = "ret"
    BY DEF Init
  <2>2. NoPend.msg \notin Msgs
    BY ProducerAssumption, SMT DEF NoPend
  <2>3. \A e \in Pollers : Hand(e) = {}
    BY <2>1, <2>2 DEF Hand
  <2>4. Live = {}
    BY <2>1, <2>3 DEF Live
  <2>5. DisjointInv
    BY <2>1, <2>3 DEF DisjointInv
  <2> QED BY <2>1, <2>4, <2>5 DEF LiveInv, PendInv
<1>4. SentInv
  BY DEF Init, SentInv, ReportRouting, Producers
<1>5. CgoInv
  BY DEF Init, CgoInv, CgoLeads, CgoUnique, Owners, OwnerThreads
<1> QED BY <1>1, <1>2, <1>3, <1>4, <1>5 DEF IInv

-----------------------------------------------------------------------------
(* The invariant and what follows from it.                                 *)

LEMMA QuietStepParts ==
  ASSUME IInv,
         \/ QuietStep \/ PollerLoop
         \/ \E e \in Pollers : ReportsDone(e) \/ SendEvent(e)
         \/ \E f \in Flushers : Flush(f) \/ FlushStep(f) \/ FlushExpire(f) \/ HelperStep(f)
  PROVE  Parts'
<1> USE DEF closeVars, callVars, cgoVars, rkVars, chanVars, pollVars, flushVars, SetEpc
<1>1. UNCHANGED <<callVars, cgoVars, priv, inflight, drq, sent, batch, pend>>
  <2>1. CASE QuietStep
    BY <2>1 DEF QuietStep, OtherEvent, CloseSwap, ClosePollerTermChan, CloseProduceChannel, CloseEvents, Receive
  <2>2. CASE PollerLoop
    BY <2>2 DEF PollerLoop
  <2>3. CASE \E e \in Pollers : ReportsDone(e) \/ SendEvent(e)
    BY <2>3 DEF ReportsDone, SendEvent
  <2>4. ASSUME NEW f \in Flushers, Flush(f) \/ FlushStep(f) \/ FlushExpire(f) \/ HelperStep(f)
        PROVE  UNCHANGED <<callVars, cgoVars, priv, inflight, drq, sent, batch, pend>>
    BY <2>4 DEF Flush, FlushStep, LenReads, LenDone, FlushTime, FlushHand, FlushPolled,
                FlushExpire, HelperStep, HelperFlushed, HelperExit
  <2> QED BY <2>1, <2>2, <2>3, <2>4
<1>2. \A e \in Pollers : epc'[e] = "send" => epc[e] = "send"
  <2> SUFFICES ASSUME NEW e \in Pollers, epc'[e] = "send" PROVE epc[e] = "send"
    OBVIOUS
  <2> USE Facts DEF PollTypeOK
  <2>1. CASE QuietStep
    BY <2>1 DEF QuietStep, OtherEvent, CloseSwap, ClosePollerTermChan, CloseProduceChannel, CloseEvents, Receive
  <2>2. CASE PollerLoop
    BY <2>2 DEF PollerLoop
  <2>3. CASE \E f \in Pollers : ReportsDone(f) \/ SendEvent(f)
    BY <2>3 DEF ReportsDone, SendEvent
  <2>4. ASSUME NEW f \in Flushers, Flush(f) \/ FlushStep(f) \/ FlushExpire(f) \/ HelperStep(f)
        PROVE  epc[e] = "send"
    <3>1. CASE FlushHand(f)
      BY <3>1 DEF FlushHand
    <3>2. CASE UNCHANGED epc
      BY <3>2
    <3> QED BY <2>4, <3>1, <3>2 DEF Flush, FlushStep, LenReads, LenDone, FlushTime, FlushPolled,
                FlushExpire, HelperStep, HelperFlushed, HelperExit
  <2> QED BY <2>1, <2>2, <2>3, <2>4
<1> QED BY <1>1, <1>2, QuietParts

LEMMA NextIInv == ASSUME IInv, [Next]_vars PROVE IInv'
<1>0. TypeOK
  BY DEF IInv
<1>1. ASSUME NEW t \in Callers, NEW m \in Msgs, Produce(t, m) PROVE TypeOK' /\ Parts'
  BY <1>0, <1>1, OtherType, ProduceCallParts
<1>2. ASSUME NEW t \in Producers, ProduceStep(t) PROVE TypeOK' /\ Parts'
  BY <1>2, ProduceType, CgoPutParts, EnqueueParts, EnqueueFailsParts, UndoParts DEF ProduceStep
<1>3. ASSUME NEW m \in Msgs, WriteProduceChannel(m) PROVE TypeOK' /\ Parts'
  BY <1>0, <1>3, OtherType, WriteParts
<1>4. ASSUME ChannelReceive \/ ChannelDone \/ ChannelReportError PROVE TypeOK' /\ Parts'
  BY <1>4, ChannelType, ChannelReceiveParts, ChannelDoneParts, ReportErrorParts
<1>5. ASSUME NEW S \in SUBSET inflight, ReportBatch(S) PROVE TypeOK' /\ Parts'
  BY <1>0, <1>5, OtherType, ReportBatchParts
<1>6. ASSUME NEW e \in Pollers, EventPollStep(e) PROVE TypeOK' /\ Parts'
  <2>1. TypeOK'
    BY <1>6, EventPollType
  <2>2. CASE ReportsDone(e) \/ SendEvent(e)
    BY <2>1, <2>2, QuietStepParts
  <2>3. CASE ~(ReportsDone(e) \/ SendEvent(e))
    BY <1>6, <2>1, <2>3, QueuePollParts, PollLimitParts, DispatchParts, SendParts DEF EventPollStep
  <2> QED BY <2>2, <2>3
<1>7. ASSUME QuietStep \/ PollerLoop PROVE TypeOK' /\ Parts'
  BY <1>0, <1>7, OtherType, QuietStepParts
<1>8. ASSUME NEW f \in Flushers, Flush(f) \/ FlushStep(f) \/ FlushExpire(f) \/ HelperStep(f)
      PROVE  TypeOK' /\ Parts'
  BY <1>0, <1>8, FlushType, QuietStepParts
<1>9. ASSUME Destroy PROVE TypeOK' /\ Parts'
  BY <1>0, <1>9, OtherType, DestroyParts
<1>10. ASSUME UNCHANGED vars PROVE TypeOK' /\ Parts'
  <2> USE <1>10 DEF vars, closeVars, pollVars, rkVars, chanVars
  <2>1. TypeOK'
    BY <1>0, TypeFrame DEF TypeOK
  <2> QED BY <2>1, QuietParts
<1>11. TypeOK' /\ Parts'
  BY <1>1, <1>2, <1>3, <1>4, <1>5, <1>6, <1>7, <1>8, <1>9, <1>10
  DEF Next, ChannelProducerStep, CloseStep, QuietStep, Producers
<1> QED BY <1>11 DEF IInv, Parts

\* Every message the producer has in hand is in one place, with its own entry
\* of the cgo map, whatever the interleaving.
THEOREM ProducerInvariant == Spec => []IInv
BY InitIInv, NextIInv, PTL DEF Spec

\* What Close() has shut, and the state of every goroutine, call and queue, are
\* what their declarations say.
THEOREM TypesAreKept == Spec => []TypeOK
<1>1. IInv => TypeOK
  BY DEF IInv
<1> QED BY <1>1, ProducerInvariant, PTL

\* No message gets two reports, or one on another's channel or with another's
\* opaque, for any number of messages, goroutines and calls of Flush().
THEOREM ReportsAreRouted == Spec => []ReportRouting
<1>1. IInv => ReportRouting
  BY DEF IInv, SentInv
<1> QED BY <1>1, ProducerInvariant, PTL

-----------------------------------------------------------------------------
(* Producer implements DeliveryReports.                                    *)

LEMMA InitImplements == Init => DR!DRInit
BY SMT DEF Init, DR!DRInit, Outcome

\* A message is decided once.
LEMMA Decides ==
  ASSUME TypeOK, NEW m \in Msgs, status[m] \in {"new", "calling"},
         NEW s \in {"accepted", "rejected"},
         status' = [status EXCEPT ![m] = s], UNCHANGED sent
  PROVE  DR!DRNext
<1>1. Outcome[m] = "none" /\ Outcome' = [Outcome EXCEPT ![m] = s]
  BY DEF Outcome, TypeOK, CallTypeOK
<1>2. DR!Decide(m)
  BY <1>1 DEF DR!Decide
<1> QED BY <1>2 DEF DR!DRNext

\* The steps before that are invisible.
LEMMA Undecided ==
  ASSUME TypeOK, NEW m \in Msgs, status[m] \in {"new", "calling"},
         status' = [status EXCEPT ![m] = "calling"], UNCHANGED sent
  PROVE  UNCHANGED <<Outcome, sent>>
<1>1. Outcome' = Outcome
  BY DEF Outcome, TypeOK, CallTypeOK
<1> QED BY <1>1

LEMMA NextImplements ==
  ASSUME IInv, [Next]_vars PROVE [DR!DRNext]_<<Outcome, sent>>
<1> USE Facts DEF callVars, chanVars, SetPc, SetStatus
<1>0. UNCHANGED <<status, sent>> => UNCHANGED <<Outcome, sent>>
  BY DEF Outcome
<1>1. ASSUME NEW t \in Callers, NEW m \in Msgs, Produce(t, m) PROVE [DR!DRNext]_<<Outcome, sent>>
  BY <1>1, Decides, Undecided DEF Produce
<1>2. ASSUME NEW t \in Producers, ProduceStep(t) PROVE [DR!DRNext]_<<Outcome, sent>>
  <2>1. CASE CgoPut(t) \/ EnqueueFails(t)
    BY <1>0, <2>1 DEF CgoPut, EnqueueFails
  <2>2. CASE Enqueue(t)
    BY <2>2, Decides DEF Enqueue, ArgInv
  <2>3. CASE Undo(t)
    BY <2>3, Decides DEF Undo, ArgInv
  <2> QED BY <1>2, <2>1, <2>2, <2>3 DEF ProduceStep
<1>3. ASSUME NEW m \in Msgs, WriteProduceChannel(m) PROVE [DR!DRNext]_<<Outcome, sent>>
  BY <1>3, Undecided DEF WriteProduceChannel
<1>4. ASSUME ChannelReceive PROVE [DR!DRNext]_<<Outcome, sent>>
  <2>1. Head(produceChannel) \in Msgs /\ status[Head(produceChannel)] = "calling"
    BY <1>4, Received
  <2> QED BY <1>0, <1>4, <2>1, Decides DEF ChannelReceive
<1>5. ASSUME ChannelReportError PROVE DR!DRNext
  <2> PICK m : m = arg[ChannelProducer]
    OBVIOUS
  <2>1. m \in Msgs /\ m \in ViaChannel /\ status[m] = "rejected" /\ sent[m] = <<>>
    <3>1. pc[ChannelProducer] = "report"
      BY <1>5 DEF ChannelReportError
    <3>2. m \in ViaChannel /\ status[m] = "rejected"
      BY <3>1, Names DEF ArgInv
    <3>3. sent[m] = <<>>
      BY <3>1 DEF SentInv
    <3> QED BY <3>2, <3>3, Names
  <2>2. Append(<<>>, [on |-> Events, opaque |-> Opaque[m]]) = <<[on |-> Events, opaque |-> Opaque[m]]>>
    BY SMT
  <2>3. /\ Outcome' = Outcome /\ Outcome[m] = "rejected"
        /\ sent' = [sent EXCEPT ![m] = <<[on |-> Events, opaque |-> Opaque[m]]>>]
    BY <1>5, <2>1, <2>2 DEF ChannelReportError, Outcome
  <2>4. DR!ReturnMessage(m)
    BY <2>1, <2>3 DEF DR!ReturnMessage
  <2> QED BY <2>1, <2>4 DEF DR!DRNext
<1>6. ASSUME NEW e \in Pollers, SendReport(e) PROVE DR!DRNext
  <2> PICK m \in Msgs : /\ Open(m) /\ Dest(m) # Nil
                        /\ sent' = [sent EXCEPT ![m] = <<OneReport(m)>>]
                        /\ OneReport(m) = [on |-> Dest(m), opaque |-> Opaque[m]]
    BY <1>6, SendsOwnReport
  <2>1. Outcome' = Outcome /\ Outcome[m] = "accepted"
    BY <1>6 DEF SendReport, Outcome, Open
  <2>2. DR!Deliver(m)
    BY <2>1 DEF DR!Deliver, Open
  <2> QED BY <2>2 DEF DR!DRNext
<1>7. ASSUME NEW e \in Pollers, EventPollStep(e), ~SendReport(e) PROVE UNCHANGED <<status, sent>>
  BY <1>7 DEF EventPollStep, QueuePoll, PollLimit, DispatchReport, ReportsDone, SendEvent, Terminate
<1>8. ASSUME NEW f \in Flushers, Flush(f) \/ FlushStep(f) \/ FlushExpire(f) \/ HelperStep(f)
      PROVE  UNCHANGED <<status, sent>>
  BY <1>8 DEF Flush, FlushStep, LenReads, LenDone, FlushTime, FlushHand, FlushPolled,
              FlushExpire, HelperStep, HelperFlushed, HelperExit
<1>9. ASSUME \/ ChannelDone \/ OtherEvent \/ PollerLoop \/ CloseSwap \/ CloseStep
             \/ \E S \in SUBSET inflight : ReportBatch(S)
             \/ \E c \in AllChans : Receive(c)
             \/ UNCHANGED vars
      PROVE  UNCHANGED <<status, sent>>
  BY <1>9 DEF ChannelDone, OtherEvent, PollerLoop, CloseSwap, CloseStep, ClosePollerTermChan,
              CloseProduceChannel, CloseEvents, Destroy, ReportBatch, Receive, vars
<1> QED BY <1>0, <1>1, <1>2, <1>3, <1>4, <1>5, <1>6, <1>7, <1>8, <1>9
        DEF Next, ChannelProducerStep, Producers

\* What the goroutines do together is what DeliveryReports promises.
THEOREM ProducerImplements == Spec => ImplementsDeliveryReports
<1>1. Init => DR!DRInit
  BY InitImplements
<1>2. IInv /\ [Next]_vars => [DR!DRNext]_<<Outcome, sent>>
  BY NextImplements
<1> QED BY <1>1, <1>2, ProducerInvariant, PTL DEF Spec, ImplementsDeliveryReports, DR!DRSpec

-----------------------------------------------------------------------------
(* How each part of the invariants outlives a step.                        *)

LEMMA CloseOrderStep ==
  ASSUME CloseOrder, closed' = closed,
         epc[Poller] = "term" => epc'[Poller] = "term",
         pc[ChannelProducer] = "done" => pc'[ChannelProducer] = "done"
  PROVE  CloseOrder'
BY DEF CloseOrder, IsClosed, WaitGroupDone, Alive

LEMMA QuietStays ==
  ASSUME Quiet, closed' = closed,
         \A t \in Callers : IsClosed /\ pc[t] = "idle" => pc'[t] = "idle",
         \A f \in Flushers : IsClosed /\ fpc[f] \in {"idle", "ret0", "retN"} => fpc'[f] = fpc[f]
  PROVE  Quiet'
BY DEF Quiet, IsClosed, FlushReturned

LEMMA InHandFrame ==
  ASSUME NEW e \in Pollers, InHand(e),
         epc'[e] = epc[e], batch'[e] = batch[e], pend'[e] = pend[e], held'[e] = held[e]
  PROVE  InHand(e)'
BY DEF InHand, Hand

\* A message that was there before Flush() does not come back.
LEMMA FlushedStep ==
  ASSUME FlushTypeOK, NEW f \in Flushers, Flushed(f), before'[f] = before[f], FoundEmpty(f)' => FoundEmpty(f),
         \A m \in Msgs : status[m] = "accepted" => status'[m] = "accepted",
         \A m \in Live' : m \in Live \/ status[m] # "accepted"
  PROVE  Flushed(f)'
<1>1. before[f] \subseteq Msgs
  BY DEF FlushTypeOK
<1>2. \A m \in before'[f] : status'[m] = "accepted"
  BY <1>1 DEF Flushed
<1>3. FoundEmpty(f)' => before'[f] \cap Live' = {}
  BY DEF Flushed
<1> QED BY <1>2, <1>3 DEF Flushed

LEMMA ReachesStep ==
  ASSUME Reaches, \A m \in Msgs : status'[m] = "accepted" => status[m] = "accepted" \/ m \in Live',
         \A m \in Live : m \in Live' \/ sent'[m] # <<>>,
         \A m \in Msgs : sent[m] # <<>> => sent'[m] # <<>>
  PROVE  Reaches'
BY DEF Reaches

LEMMA OwnedStep ==
  ASSUME Owned, UNCHANGED <<cgomap, cgoid, priv>>, Owners \subseteq Owners', OwnerThreads \subseteq OwnerThreads'
  PROVE  Owned'
BY DEF Owned

LEMMA PollerFacts == Poller \in Pollers /\ Flushers \subseteq Pollers /\ Poller \notin Flushers
BY ProducerAssumption DEF Pollers

\* Neither Close() nor Flush() nor eventPoll() has done anything.
LEMMA CallRun ==
  ASSUME IInv, RunInv, UNCHANGED <<closed, pollVars, flushVars>>,
         \A t \in Callers : IsClosed /\ pc[t] = "idle" => pc'[t] = "idle",
         pc[ChannelProducer] = "done" => pc'[ChannelProducer] = "done",
         \A m \in Msgs : status[m] = "accepted" => status'[m] = "accepted",
         \A m \in Live' : m \in Live \/ status[m] # "accepted"
  PROVE  RunInv'
<1> USE DEF pollVars, flushVars
<1>1. CloseOrder' /\ Quiet'
  BY CloseOrderStep, QuietStays DEF RunInv
<1>2. \A e \in Pollers : InHand(e)'
  BY InHandFrame DEF RunInv
<1>3. \A f \in Flushers : Polls(f)'
  BY DEF RunInv, Polls
<1>4. FlushTypeOK
  BY DEF IInv, TypeOK
<1>5. \A f \in Flushers : Flushed(f)'
  BY <1>4, FlushedStep DEF RunInv, FoundEmpty
<1> QED BY <1>1, <1>2, <1>3, <1>5 DEF RunInv

-----------------------------------------------------------------------------
(* produce() and channelProducer().                                        *)

LEMMA ProduceCallRun ==
  ASSUME IInv, RunInv, NEW t \in Callers, NEW m \in Msgs, Produce(t, m)
  PROVE  RunInv' /\ (KeptInv => KeptInv')
<1> USE DEF cgoVars, rkVars, chanVars, closeVars
<1>0. CallTypeOK
  BY Facts
<1>1. /\ UNCHANGED <<closed, pollVars, flushVars, cgomap, cgoid, priv, sent, inflight, drq, batch, pend>>
      /\ status[m] = "new"
  BY DEF Produce, pollVars
<1>2. status'[m] # "accepted" /\ \A n \in Msgs : n # m => status'[n] = status[n]
  BY <1>0 DEF Produce, SetStatus, CallTypeOK
<1>3. Live' = Live /\ Owners' = Owners
  BY <1>1, LiveSetFrame, OwnersFrame
<1>4. /\ \A u \in Producers : u # t => pc'[u] = pc[u]
      /\ pc'[t] = "idle" \/ (~IsClosed /\ pc'[t] = "put")
      /\ pc[t] = "idle"
  BY <1>0, Names DEF Produce, SetPc, CallTypeOK
<1>5. RunInv'
  <2>1. \A n \in Msgs : status[n] = "accepted" => status'[n] = "accepted"
    BY <1>1, <1>2
  <2>2. \A u \in Callers : IsClosed /\ pc[u] = "idle" => pc'[u] = "idle"
    BY <1>4, Names
  <2>3. pc'[ChannelProducer] = pc[ChannelProducer]
    BY <1>4, Names
  <2> QED BY <1>1, <1>3, <2>1, <2>2, <2>3, CallRun
<1>6. OwnerThreads' = OwnerThreads
  BY <1>4 DEF OwnerThreads
<1>7. Reaches => Reaches'
  BY <1>1, <1>2, <1>3, ReachesStep
<1>8. Owned => Owned'
  BY <1>1, <1>3, <1>6, OwnedStep
<1> QED BY <1>1, <1>5, <1>7, <1>8 DEF KeptInv

LEMMA WriteRun ==
  ASSUME IInv, RunInv, NEW m \in Msgs, WriteProduceChannel(m)
  PROVE  RunInv' /\ (KeptInv => KeptInv')
<1>0. CallTypeOK
  BY Facts
<1>1. /\ UNCHANGED <<closed, pollVars, flushVars, pc, cgomap, cgoid, priv, sent, inflight, drq, batch, pend>>
      /\ status[m] = "new"
  BY DEF WriteProduceChannel, pollVars, cgoVars, rkVars, chanVars, closeVars
<1>2. status'[m] # "accepted" /\ \A n \in Msgs : n # m => status'[n] = status[n]
  BY <1>0 DEF WriteProduceChannel, SetStatus, CallTypeOK
<1>3. Live' = Live /\ Owners' = Owners /\ OwnerThreads' = OwnerThreads
  BY <1>1, LiveSetFrame, OwnersFrame DEF OwnerThreads
<1>4. \A n \in Msgs : status[n] = "accepted" => status'[n] = "accepted"
  BY <1>1, <1>2
<1>5. RunInv'
  BY <1>1, <1>3, <1>4, CallRun
<1>6. Reaches => Reaches'
  BY <1>1, <1>2, <1>3, ReachesStep
<1>7. Owned => Owned'
  BY <1>1, <1>3, OwnedStep
<1> QED BY <1>1, <1>5, <1>6, <1>7 DEF KeptInv

LEMMA ChannelRun ==
  ASSUME IInv, RunInv, ChannelReceive \/ ChannelDone \/ ChannelReportError
  PROVE  RunInv' /\ (KeptInv => KeptInv')
<1>0. CallTypeOK /\ ChanTypeOK /\ ArgInv
  BY Facts
<1>1. UNCHANGED <<closed, pollVars, flushVars, cgomap, cgoid, priv, inflight, drq, batch, pend>>
  BY DEF ChannelReceive, ChannelDone, ChannelReportError, pollVars, cgoVars, rkVars, closeVars
<1>2. /\ \A u \in Producers : u # ChannelProducer => pc'[u] = pc[u]
      /\ pc[ChannelProducer] \in {"idle", "report"} /\ pc'[ChannelProducer] \in {"put", "report", "idle", "done"}
  BY <1>0, Names DEF ChannelReceive, ChannelDone, ChannelReportError, SetPc, CallTypeOK
<1>3. Live' = Live /\ Owners' = Owners /\ OwnerThreads' = OwnerThreads
  BY <1>1, <1>2, Names, LiveSetFrame, OwnersFrame DEF OwnerThreads
<1>4. \A n \in Msgs : (status[n] = "accepted") = (status'[n] = "accepted")
  <2>1. CASE ChannelReceive
    <3>1. Head(produceChannel) \in Msgs /\ status[Head(produceChannel)] = "calling"
      BY <2>1, Received
    <3> QED BY <1>0, <2>1, <3>1, SMT DEF ChannelReceive, SetStatus, CallTypeOK
  <2>2. CASE ChannelDone \/ ChannelReportError
    BY <2>2 DEF ChannelDone, ChannelReportError
  <2> QED BY <2>1, <2>2
<1>5. \A n \in Msgs : sent[n] # <<>> => sent'[n] # <<>>
  <2>1. CASE ChannelReportError
    <3>1. arg[ChannelProducer] \in Msgs
      BY <1>0, <2>1, Names DEF ArgInv, ChannelReportError
    <3> PICK m \in Msgs : m = arg[ChannelProducer]
      BY <3>1
    <3>2. sent' = [sent EXCEPT ![m] = Append(sent[m], [on |-> Events, opaque |-> Opaque[m]])]
      BY <2>1 DEF ChannelReportError
    <3>3. \A n \in Msgs : n # m => sent'[n] = sent[n]
      BY <1>0, <3>2 DEF ChanTypeOK
    <3>4. sent[m] \in Seq(Report) /\ sent'[m] = Append(sent[m], [on |-> Events, opaque |-> Opaque[m]])
      BY <1>0, <3>2 DEF ChanTypeOK
    <3>5. sent'[m] # <<>>
      BY <3>4, SMT
    <3> QED BY <3>3, <3>5
  <2>2. CASE ChannelReceive \/ ChannelDone
    BY <2>2 DEF ChannelReceive, ChannelDone, chanVars
  <2> QED BY <2>1, <2>2
<1>6. RunInv'
  <2>1. \A u \in Callers : pc'[u] = pc[u]
    BY <1>2, Names
  <2> QED BY <1>1, <1>2, <1>3, <1>4, <2>1, CallRun
<1>7. Reaches => Reaches'
  BY <1>3, <1>4, <1>5, ReachesStep
<1>8. Owned => Owned'
  BY <1>1, <1>3, OwnedStep
<1> QED BY <1>1, <1>6, <1>7, <1>8 DEF KeptInv

LEMMA CgoPutRun ==
  ASSUME IInv, RunInv, NEW t \in Producers, CgoPut(t) PROVE RunInv' /\ (KeptInv => KeptInv')
<1> PICK id : id = CgoNext(cgoidNext)
  OBVIOUS
<1>0. CallTypeOK /\ CgoTypeOK
  BY Facts
<1>1. /\ UNCHANGED <<closed, pollVars, flushVars, status, priv, sent, inflight, drq, batch, pend>>
      /\ pc[t] = "put"
  BY DEF CgoPut, pollVars, rkVars, chanVars, closeVars
<1>2. pc'[t] = "enqueue" /\ \A u \in Producers : u # t => pc'[u] = pc[u] /\ cgoid'[u] = cgoid[u]
  BY <1>0 DEF CgoPut, SetPc, CallTypeOK
<1>3. Live' = Live /\ Owners' = Owners /\ OwnerThreads' = OwnerThreads \cup {t} /\ t \notin OwnerThreads
  BY <1>1, <1>2, LiveSetFrame, OwnersFrame DEF OwnerThreads
<1>4. RunInv'
  BY <1>1, <1>2, <1>3, Names, CallRun
<1>5. Reaches => Reaches'
  BY <1>1, <1>3, ReachesStep
<1>6. /\ \A i \in DOMAIN cgomap' : i \in DOMAIN cgomap \/ (i = id /\ cgoid'[t] = id)
      /\ id # 0
  <2>1. id = cgoidNext + 1 /\ id # 0
    <3>1. cgoidNext \in Nat /\ cgoidNext + 1 < IdMod /\ IdMod \in Nat
      BY <1>0, IdModAssumption, SMT DEF CgoPut, NoWrap, CgoTypeOK, Ids
    <3> QED BY <3>1, SMT DEF CgoNext, UintptrInc
  <2>2. CASE cgomap' = CgoStore(cgomap, id, CgoDr(arg[t])) /\ cgoid' = [cgoid EXCEPT ![t] = id]
    BY <1>0, <2>1, <2>2 DEF CgoStore, CallTypeOK
  <2>3. CASE UNCHANGED cgoVars
    BY <2>1, <2>3 DEF cgoVars
  <2> QED BY <2>2, <2>3 DEF CgoPut
<1>7. Owned => Owned'
  <2> SUFFICES ASSUME Owned, NEW i \in DOMAIN cgomap'
               PROVE  i # 0 /\ (\/ \E u \in OwnerThreads' : cgoid'[u] = i
                                \/ \E m \in Owners' : priv'[m] = i)
    BY DEF Owned
  <2>1. CASE i \in DOMAIN cgomap
    <3>1. \A u \in OwnerThreads : u \in OwnerThreads' /\ cgoid'[u] = cgoid[u]
      BY <1>2, <1>3 DEF OwnerThreads
    <3> QED BY <1>1, <1>3, <2>1, <3>1 DEF Owned
  <2>2. CASE i = id /\ cgoid'[t] = id
    BY <1>3, <1>6, <2>2
  <2> QED BY <1>6, <2>1, <2>2
<1> QED BY <1>1, <1>4, <1>5, <1>7 DEF KeptInv

LEMMA EnqueueRun ==
  ASSUME IInv, RunInv, NEW t \in Producers, Enqueue(t) PROVE RunInv' /\ (KeptInv => KeptInv')
<1>0. CallTypeOK /\ RkTypeOK /\ pc[t] = "enqueue"
  BY Facts DEF Enqueue
<1> PICK m : m = arg[t]
  OBVIOUS
<1>1. m \in Msgs /\ status[m] = "calling" /\ m \notin Owners
  BY <1>0, ArgFacts
<1>2. /\ UNCHANGED <<closed, pollVars, flushVars, cgomap, cgoid, sent, drq, batch, pend>>
      /\ inflight' = inflight \cup {m}
  BY DEF Enqueue, pollVars, cgoVars, chanVars, closeVars
<1>3. /\ \A u \in Producers : u # t => pc'[u] = pc[u]
      /\ status'[m] = "accepted" /\ \A n \in Msgs : n # m => status'[n] = status[n]
      /\ priv'[m] = cgoid[t] /\ \A n \in Msgs : n # m => priv'[n] = priv[n]
  BY <1>0, <1>1 DEF Enqueue, SetPc, SetStatus, CallTypeOK, RkTypeOK
<1>4. Live' = Live \cup {m} /\ Owners' = Owners \cup {m} /\ Owners \subseteq Msgs
  BY <1>1, <1>2 DEF Live, Owners, Hand
<1>5. OwnerThreads \subseteq OwnerThreads' \cup {t}
  BY <1>3 DEF OwnerThreads
<1>6. RunInv'
  <2>1. \A u \in Callers : pc[u] = "idle" => pc'[u] = "idle"
    BY <1>0, <1>3, Names
  <2>2. pc[ChannelProducer] = "done" => pc'[ChannelProducer] = "done"
    BY <1>0, <1>3, Names
  <2>3. \A n \in Msgs : status[n] = "accepted" => status'[n] = "accepted"
    BY <1>3
  <2>4. \A n \in Live' : n \in Live \/ status[n] # "accepted"
    BY <1>1, <1>4
  <2> QED BY <1>2, <2>1, <2>2, <2>3, <2>4, CallRun
<1>7. Reaches => Reaches'
  BY <1>2, <1>3, <1>4, ReachesStep
<1>8. Owned => Owned'
  <2> SUFFICES ASSUME Owned, NEW i \in DOMAIN cgomap'
               PROVE  i # 0 /\ (\/ \E u \in OwnerThreads' : cgoid'[u] = i
                                \/ \E n \in Owners' : priv'[n] = i)
    BY DEF Owned
  <2>1. i \in DOMAIN cgomap
    BY <1>2
  <2>2. \A u \in OwnerThreads : cgoid[u] = i => u \in OwnerThreads' \/ priv'[m] = i
    BY <1>3, <1>5
  <2>3. \A n \in Owners : n \in Owners' /\ priv'[n] = priv[n]
    BY <1>1, <1>3, <1>4
  <2> QED BY <1>2, <1>4, <2>1, <2>2, <2>3 DEF Owned
<1> QED BY <1>2, <1>6, <1>7, <1>8 DEF KeptInv

LEMMA EnqueueFailsRun ==
  ASSUME IInv, RunInv, NEW t \in Producers, EnqueueFails(t) PROVE RunInv' /\ (KeptInv => KeptInv')
<1>0. CallTypeOK
  BY Facts
<1>1. /\ UNCHANGED <<closed, pollVars, flushVars, cgomap, cgoid, priv, status, sent, inflight, drq, batch, pend>>
      /\ pc[t] = "enqueue"
  BY DEF EnqueueFails, pollVars, cgoVars, rkVars, chanVars, closeVars
<1>2. pc'[t] = "undo" /\ \A u \in Producers : u # t => pc'[u] = pc[u]
  BY <1>0 DEF EnqueueFails, SetPc, CallTypeOK
<1>3. Live' = Live /\ Owners' = Owners /\ OwnerThreads' = OwnerThreads
  BY <1>1, <1>2, LiveSetFrame, OwnersFrame DEF OwnerThreads
<1>4. RunInv'
  BY <1>1, <1>2, <1>3, Names, CallRun
<1>5. (Reaches => Reaches') /\ (Owned => Owned')
  BY <1>1, <1>3, ReachesStep, OwnedStep
<1> QED BY <1>1, <1>4, <1>5 DEF KeptInv

LEMMA UndoRun ==
  ASSUME IInv, RunInv, NEW t \in Producers, Undo(t) PROVE RunInv' /\ (KeptInv => KeptInv')
<1>0. CallTypeOK /\ pc[t] = "undo"
  BY Facts DEF Undo
<1> PICK m : m = arg[t]
  OBVIOUS
<1>1. m \in Msgs /\ status[m] = "calling"
  BY <1>0, ArgFacts
<1>2. UNCHANGED <<closed, pollVars, flushVars, cgoid, priv, sent, inflight, drq, batch, pend>>
  BY DEF Undo, pollVars, rkVars, chanVars, closeVars
<1>3. /\ \A u \in Producers : u # t => pc'[u] = pc[u]
      /\ status'[m] = "rejected" /\ \A n \in Msgs : n # m => status'[n] = status[n]
  BY <1>0, <1>1 DEF Undo, SetPc, SetStatus, CallTypeOK
<1>4. Live' = Live /\ Owners' = Owners /\ OwnerThreads \subseteq OwnerThreads' \cup {t}
  BY <1>2, <1>3, LiveSetFrame, OwnersFrame DEF OwnerThreads
<1>5. RunInv'
  <2>1. \A u \in Callers : pc[u] = "idle" => pc'[u] = "idle"
    BY <1>0, <1>3, Names
  <2>2. pc[ChannelProducer] = "done" => pc'[ChannelProducer] = "done"
    BY <1>0, <1>3, Names
  <2>3. \A n \in Msgs : status[n] = "accepted" => status'[n] = "accepted"
    BY <1>1, <1>3
  <2> QED BY <1>2, <1>4, <2>1, <2>2, <2>3, CallRun
<1>6. Reaches => Reaches'
  BY <1>2, <1>3, <1>4, ReachesStep
<1>7. \A i \in DOMAIN cgomap' : i \in DOMAIN cgomap /\ (i # cgoid[t] \/ i = 0)
  <2>1. cgomap' = CgoForget(cgomap, cgoid[t])
    BY DEF Undo, UndoCgo
  <2> QED BY <2>1 DEF CgoForget
<1>8. Owned => Owned'
  <2> SUFFICES ASSUME Owned, NEW i \in DOMAIN cgomap'
               PROVE  i # 0 /\ (\/ \E u \in OwnerThreads' : cgoid'[u] = i
                                \/ \E n \in Owners' : priv'[n] = i)
    BY DEF Owned
  <2>1. i \in DOMAIN cgomap /\ i # cgoid[t]
    BY <1>7 DEF Owned
  <2>2. \A u \in OwnerThreads : cgoid[u] = i => u \in OwnerThreads'
    BY <1>4, <2>1
  <2> QED BY <1>2, <1>4, <2>1, <2>2 DEF Owned
<1> QED BY <1>2, <1>5, <1>6, <1>8 DEF KeptInv

-----------------------------------------------------------------------------
(* librdkafka and eventPoll().                                             *)

LEMMA ReportBatchRun ==
  ASSUME IInv, RunInv, NEW S \in SUBSET inflight, ReportBatch(S) PROVE RunInv' /\ (KeptInv => KeptInv')
<1>1. /\ UNCHANGED <<closed, pollVars, flushVars, cgomap, cgoid, pc, priv, status, sent, batch, pend>>
      /\ inflight' = inflight \ S /\ drq' = drq \cup {S}
  BY DEF ReportBatch, pollVars, cgoVars, callVars, chanVars, closeVars
<1>2. Live' = Live /\ Owners' = Owners /\ OwnerThreads' = OwnerThreads
  <2>1. \A m : m \in inflight \/ (\E T \in drq : m \in T) <=> m \in inflight' \/ (\E T \in drq' : m \in T)
    BY <1>1, SMT
  <2> QED BY <1>1, <2>1 DEF Live, Owners, OwnerThreads, Hand
<1>3. RunInv'
  BY <1>1, <1>2, CallRun
<1>4. (Reaches => Reaches') /\ (Owned => Owned')
  BY <1>1, <1>2, ReachesStep, OwnedStep
<1> QED BY <1>1, <1>3, <1>4 DEF KeptInv

LEMMA EventRun ==
  ASSUME IInv, RunInv, OtherEvent \/ (\E c \in AllChans : Receive(c)) PROVE RunInv' /\ (KeptInv => KeptInv')
<1>1. UNCHANGED <<closed, pollVars, flushVars, cgomap, cgoid, pc, priv, status, sent, inflight, drq, batch, pend>>
  BY DEF OtherEvent, Receive, pollVars, cgoVars, callVars, rkVars, chanVars, closeVars
<1>2. Live' = Live /\ Owners' = Owners /\ OwnerThreads' = OwnerThreads
  BY <1>1, LiveSetFrame, OwnersFrame DEF OwnerThreads
<1>3. RunInv'
  BY <1>1, <1>2, CallRun
<1>4. (Reaches => Reaches') /\ (Owned => Owned')
  BY <1>1, <1>2, ReachesStep, OwnedStep
<1> QED BY <1>1, <1>3, <1>4 DEF KeptInv

\* Only the locals of eventPoll() in e have changed.
LEMMA PollRun ==
  ASSUME IInv, RunInv, NEW e \in Pollers, UNCHANGED <<closed, pc, status, flushVars>>,
         \A f \in Pollers : f # e => epc'[f] = epc[f] /\ batch'[f] = batch[f] /\ pend'[f] = pend[f] /\ held'[f] = held[f],
         epc[e] \in {"poll", "dr", "send", "event"}, InHand(e)', Live' \subseteq Live
  PROVE  RunInv'
<1> USE DEF flushVars
<1>1. CloseOrder' /\ Quiet'
  BY PollerFacts, CloseOrderStep, QuietStays DEF RunInv
<1>2. \A f \in Pollers : InHand(f)'
  BY InHandFrame DEF RunInv
<1>3. \A f \in Flushers : Polls(f)'
  BY PollerFacts DEF RunInv, Polls
<1>4. FlushTypeOK
  BY DEF IInv, TypeOK
<1>5. \A f \in Flushers : Flushed(f)'
  BY <1>4, FlushedStep DEF RunInv, FoundEmpty
<1> QED BY <1>1, <1>2, <1>3, <1>5 DEF RunInv

\* eventPoll() returns: with nothing in hand, or because it was told to stop.
LEMMA LeaveRun ==
  ASSUME IInv, RunInv, NEW e \in Pollers, NEW l \in {"ret", "term"}, LeaveEventPoll(e, l),
         epc[e] = "poll" \/ (epc[e] \in {"send", "event"} /\ "pollerTermChan" \in closed),
         UNCHANGED <<closed, cgomap, cgoid, pc, priv, status, sent, flushVars, inflight, drq>>
  PROVE  RunInv' /\ (KeptInv => KeptInv')
<1>0. PollTypeOK /\ InHand(e)
  BY Facts DEF RunInv
<1>1. /\ \A f \in Pollers : f # e => epc'[f] = epc[f] /\ batch'[f] = batch[f] /\ pend'[f] = pend[f] /\ held'[f] = held[f]
      /\ epc'[e] = l /\ batch'[e] = {} /\ pend'[e] = NoPend /\ held'[e] = {}
  BY <1>0 DEF LeaveEventPoll, SetEpc, PollTypeOK
<1>2. NoPend.msg = Nil /\ NoPend.msg \notin Msgs
  BY Names DEF NoPend
<1>3. Hand(e)' = {}
  BY <1>1, <1>2 DEF Hand
<1>4. InHand(e)'
  BY <1>1, <1>3 DEF InHand
<1>5. \A f \in Pollers : f # e => Hand(f)' = Hand(f)
  BY <1>1 DEF Hand
<1>6. Live' \subseteq Live
  BY <1>3, <1>5 DEF Live
<1>7. RunInv'
  BY <1>0, <1>1, <1>4, <1>6, PollRun
<1>8. CASE epc[e] = "poll"
  <2>1. batch[e] = {} /\ pend[e] = NoPend
    BY <1>0, <1>8 DEF InHand
  <2>2. Hand(e) = {}
    BY <1>2, <2>1 DEF Hand
  <2>3. \A f \in Pollers : Hand(f)' = Hand(f) /\ batch'[f] = batch[f]
    BY <1>1, <1>3, <1>5, <2>1, <2>2
  <2>4. Live' = Live /\ Owners' = Owners /\ OwnerThreads' = OwnerThreads
    BY <2>3 DEF Live, Owners, OwnerThreads
  <2>5. (Reaches => Reaches') /\ (Owned => Owned')
    BY <2>4, ReachesStep, OwnedStep
  <2> QED BY <1>7, <2>5 DEF KeptInv
<1>9. CASE "pollerTermChan" \in closed
  BY <1>7, <1>9 DEF KeptInv
<1> QED BY <1>8, <1>9

LEMMA QueuePollRun ==
  ASSUME IInv, RunInv, NEW e \in Pollers, QueuePoll(e) PROVE RunInv' /\ (KeptInv => KeptInv')
<1>0. PollTypeOK /\ RkTypeOK /\ InHand(e) /\ epc[e] = "poll"
  BY Facts DEF RunInv, QueuePoll
<1>1. UNCHANGED <<closed, cgomap, cgoid, pc, priv, status, sent, flushVars, inflight>>
  BY DEF QueuePoll, cgoVars, callVars, chanVars, closeVars
<1>2. batch[e] = {} /\ pend[e] = NoPend /\ NoPend.msg \notin Msgs
  BY <1>0, Names DEF InHand, NoPend
<1>3. CASE UNCHANGED drq /\ LeaveEventPoll(e, "ret")
  BY <1>0, <1>1, <1>3, LeaveRun
<1>4. CASE UNCHANGED <<drq, batch, pend>> /\ SetEpc(e, "event") /\ held' = [held EXCEPT ![e] = {}]
  <2>1. /\ \A f \in Pollers : f # e => epc'[f] = epc[f] /\ held'[f] = held[f]
        /\ epc'[e] = "event" /\ held'[e] = {}
    BY <1>0, <1>4 DEF SetEpc, PollTypeOK
  <2>2. Hand(e)' = {}
    BY <1>2, <1>4 DEF Hand
  <2>3. InHand(e)'
    BY <1>2, <1>4, <2>1, <2>2 DEF InHand
  <2>4. Live' = Live /\ Owners' = Owners /\ OwnerThreads' = OwnerThreads
    BY <1>1, <1>4, LiveSetFrame, OwnersFrame DEF OwnerThreads
  <2>5. RunInv'
    BY <1>0, <1>1, <1>4, <2>1, <2>3, <2>4, PollRun
  <2>6. (Reaches => Reaches') /\ (Owned => Owned')
    BY <1>1, <1>4, <2>4, ReachesStep, OwnedStep
  <2> QED BY <1>1, <2>5, <2>6 DEF KeptInv
<1>5. ASSUME NEW S \in drq, drq' = drq \ {S}, held' = [held EXCEPT ![e] = S], batch' = [batch EXCEPT ![e] = S],
             SetEpc(e, "dr"), UNCHANGED pend
      PROVE  RunInv' /\ (KeptInv => KeptInv')
  <2>1. /\ \A f \in Pollers : f # e => epc'[f] = epc[f] /\ batch'[f] = batch[f] /\ held'[f] = held[f]
        /\ epc'[e] = "dr" /\ held'[e] = S /\ batch'[e] = S
    BY <1>0, <1>5 DEF SetEpc, PollTypeOK
  <2>2. Hand(e)' = S /\ Hand(e) = {} /\ \A f \in Pollers : f # e => Hand(f)' = Hand(f)
    <3>1. S \subseteq Msgs
      BY <1>0, <1>5 DEF RkTypeOK
    <3> QED BY <1>2, <1>5, <2>1, <3>1 DEF Hand
  <2>3. InHand(e)'
    BY <1>2, <1>5, <2>1, <2>2 DEF InHand
  <2>4. Live' = Live /\ Owners' = Owners /\ OwnerThreads' = OwnerThreads
    <3>1. \A m : (\E T \in drq : m \in T) <=> m \in S \/ (\E T \in drq' : m \in T)
      BY <1>5
    <3>2. \A m : (\E f \in Pollers : m \in Hand(f)') <=> m \in S \/ (\E f \in Pollers : m \in Hand(f))
      BY <2>2
    <3>3. \A m : (\E f \in Pollers : m \in batch'[f]) <=> m \in S \/ (\E f \in Pollers : m \in batch[f])
      BY <1>2, <2>1
    <3>4. Live' = Live
      BY <1>1, <3>1, <3>2 DEF Live
    <3>5. Owners' = Owners
      BY <1>1, <3>1, <3>3 DEF Owners
    <3> QED BY <1>1, <3>4, <3>5 DEF OwnerThreads
  <2>5. RunInv'
    BY <1>0, <1>1, <1>5, <2>1, <2>3, <2>4, PollRun
  <2>6. (Reaches => Reaches') /\ (Owned => Owned')
    BY <1>1, <2>4, ReachesStep, OwnedStep
  <2> QED BY <1>1, <2>5, <2>6 DEF KeptInv
<1> QED BY <1>3, <1>4, <1>5 DEF QueuePoll

LEMMA PollLimitRun ==
  ASSUME IInv, RunInv, NEW e \in Pollers, PollLimit(e) \/ Terminate(e) PROVE RunInv' /\ (KeptInv => KeptInv')
<1>1. UNCHANGED <<closed, cgomap, cgoid, pc, priv, status, sent, flushVars, inflight, drq>>
  BY DEF PollLimit, Terminate, cgoVars, callVars, rkVars, chanVars, closeVars
<1>2. /\ LeaveEventPoll(e, "ret") \/ LeaveEventPoll(e, "term")
      /\ epc[e] = "poll" \/ (epc[e] \in {"send", "event"} /\ "pollerTermChan" \in closed)
  BY DEF PollLimit, Terminate
<1> QED BY <1>1, <1>2, LeaveRun

\* A report that has a channel is taken from the event and its entry from the map.
LEMMA DispatchRun ==
  ASSUME IInv, RunInv, NEW e \in Pollers, NEW m \in Msgs, DispatchReport(e, m)
  PROVE  RunInv' /\ (AllReported /\ KeptInv => KeptInv')
<1> PICK id : id = priv[m]
  OBVIOUS
<1> DEFINE p == [msg |-> m, on |-> Target(m), opaque |-> CgoDrOf(m).opaque]
<1>0. PollTypeOK /\ DisjointInv /\ InHand(e)
  BY Facts DEF RunInv
<1>1. /\ UNCHANGED <<closed, status, pc, cgoid, priv, sent, inflight, drq, flushVars>>
      /\ cgomap' = CgoForget(cgomap, id) /\ epc[e] = "dr" /\ m \in batch[e]
  BY DEF DispatchReport, callVars, rkVars, chanVars, closeVars
<1>2. pend[e] = NoPend /\ NoPend.msg \notin Msgs /\ m \in Hand(e) /\ m \in Owners
  BY <1>0, <1>1, Names DEF InHand, NoPend, Hand, Owners
<1>3. p.msg = m
  OBVIOUS
<1> HIDE DEF p
<1>4. CASE LeaveEventPoll(e, "ret") /\ Target(m) = Nil
  <2>1. /\ \A f \in Pollers : f # e => epc'[f] = epc[f] /\ batch'[f] = batch[f] /\ pend'[f] = pend[f] /\ held'[f] = held[f]
        /\ epc'[e] = "ret" /\ batch'[e] = {} /\ pend'[e] = NoPend /\ held'[e] = {}
    BY <1>0, <1>4 DEF LeaveEventPoll, SetEpc, PollTypeOK
  <2>2. Hand(e)' = {} /\ \A f \in Pollers : f # e => Hand(f)' = Hand(f)
    BY <1>2, <2>1 DEF Hand
  <2>3. InHand(e)'
    BY <2>1, <2>2 DEF InHand
  <2>4. Live' \subseteq Live
    BY <1>1, <2>2 DEF Live
  <2>5. RunInv'
    BY <1>1, <2>1, <2>3, <2>4, PollRun
  <2>6. Dest(m) = Nil
    BY <1>2, <1>4, TargetIsDest
  <2> QED BY <2>5, <2>6 DEF AllReported
<1>5. CASE /\ pend' = [pend EXCEPT ![e] = p] /\ batch' = [batch EXCEPT ![e] = @ \ {m}]
           /\ SetEpc(e, "send") /\ UNCHANGED held
  <2>1. /\ \A f \in Pollers : f # e => epc'[f] = epc[f] /\ batch'[f] = batch[f] /\ pend'[f] = pend[f]
        /\ epc'[e] = "send" /\ batch'[e] = batch[e] \ {m} /\ pend'[e] = p
    BY <1>0, <1>5 DEF SetEpc, PollTypeOK
  <2>2. Hand(e)' = Hand(e) /\ \A f \in Pollers : f # e => Hand(f)' = Hand(f)
    <3>1. pend'[e].msg = m
      BY <1>3, <2>1
    <3>2. Hand(e) = batch[e] \cap Msgs
      BY <1>2 DEF Hand
    <3>3. Hand(e)' = ((batch[e] \ {m}) \cup {m}) \cap Msgs
      BY <2>1, <3>1 DEF Hand
    <3> QED BY <1>1, <2>1, <3>2, <3>3 DEF Hand
  <2>3. InHand(e)'
    BY <1>0, <1>5, <2>1, <2>2 DEF InHand
  <2>4. Live' = Live
    BY <1>1, <2>2 DEF Live
  <2>5. RunInv'
    BY <1>1, <1>5, <2>1, <2>3, <2>4, PollRun
  <2>6. Owners \subseteq Owners' \cup {m} /\ OwnerThreads' = OwnerThreads
    <3>1. \A n \in Msgs : n # m => \A f \in Pollers : n \in batch[f] => n \in batch'[f]
      BY <2>1
    <3> QED BY <1>1, <3>1 DEF Owners, OwnerThreads
  <2>7. Reaches => Reaches'
    BY <1>1, <2>4, ReachesStep
  <2>8. Owned => Owned'
    <3> SUFFICES ASSUME Owned, NEW i \in DOMAIN cgomap'
                 PROVE  i # 0 /\ (\/ \E u \in OwnerThreads' : cgoid'[u] = i
                                  \/ \E n \in Owners' : priv'[n] = i)
      BY DEF Owned
    <3>1. i \in DOMAIN cgomap /\ (i # id \/ i = 0)
      BY <1>1 DEF CgoForget
    <3>2. i # 0
      BY <3>1 DEF Owned
    <3>3. \A n \in Owners : priv[n] = i => n \in Owners'
      BY <2>6, <3>1, <3>2
    <3> QED BY <1>1, <2>6, <3>1, <3>2, <3>3 DEF Owned
  <2> QED BY <1>1, <2>5, <2>7, <2>8 DEF KeptInv
<1> QED BY <1>4, <1>5 DEF DispatchReport, p

LEMMA SendRun ==
  ASSUME IInv, RunInv, NEW e \in Pollers, SendReport(e) PROVE RunInv' /\ (KeptInv => KeptInv')
<1> PICK m \in Msgs : /\ m = pend[e].msg
                      /\ sent' = [sent EXCEPT ![m] = <<OneReport(m)>>]
  BY SendsOwnReport
<1>0. PollTypeOK /\ ChanTypeOK /\ InHand(e) /\ NoPend.msg \notin Msgs
  BY Facts, Names DEF RunInv, NoPend
<1>1. UNCHANGED <<closed, status, pc, cgomap, cgoid, priv, inflight, drq, batch, held, flushVars>> /\ epc[e] = "send"
  BY DEF SendReport, cgoVars, callVars, rkVars, closeVars
<1>2. /\ \A f \in Pollers : f # e => epc'[f] = epc[f] /\ pend'[f] = pend[f]
      /\ epc'[e] = "dr" /\ pend'[e] = NoPend
  BY <1>0 DEF SendReport, SetEpc, PollTypeOK
<1>3. sent'[m] = <<OneReport(m)>> /\ \A n \in Msgs : n # m => sent'[n] = sent[n]
  BY <1>0 DEF ChanTypeOK
<1>4. sent'[m] # <<>>
  BY <1>3, SMT
<1>5. Hand(e)' \subseteq Hand(e) /\ Hand(e) \subseteq Hand(e)' \cup {m} /\ \A f \in Pollers : f # e => Hand(f)' = Hand(f)
  BY <1>0, <1>1, <1>2 DEF Hand
<1>6. InHand(e)'
  BY <1>0, <1>1, <1>2, <1>5 DEF InHand
<1>7. Live' \subseteq Live /\ Live \subseteq Live' \cup {m}
  BY <1>1, <1>5 DEF Live
<1>8. RunInv'
  BY <1>1, <1>2, <1>6, <1>7, PollRun
<1>9. Owners' = Owners /\ OwnerThreads' = OwnerThreads
  BY <1>1, OwnersFrame DEF OwnerThreads
<1>10. Reaches => Reaches'
  BY <1>1, <1>3, <1>4, <1>7, ReachesStep
<1>11. Owned => Owned'
  BY <1>1, <1>9, OwnedStep
<1> QED BY <1>1, <1>8, <1>10, <1>11 DEF KeptInv

LEMMA NextEventRun ==
  ASSUME IInv, RunInv, NEW e \in Pollers, ReportsDone(e) \/ SendEvent(e) PROVE RunInv' /\ (KeptInv => KeptInv')
<1>0. PollTypeOK /\ InHand(e)
  BY Facts DEF RunInv
<1>1. UNCHANGED <<closed, status, pc, cgomap, cgoid, priv, sent, inflight, drq, batch, held, pend, flushVars>>
  BY DEF ReportsDone, SendEvent, cgoVars, callVars, rkVars, chanVars, closeVars
<1>2. /\ \A f \in Pollers : f # e => epc'[f] = epc[f]
      /\ epc'[e] = "poll" /\ epc[e] \in {"dr", "event"} /\ (epc[e] = "dr" => batch[e] = {})
  BY <1>0 DEF ReportsDone, SendEvent, SetEpc, RangeEnds, PollTypeOK
<1>3. InHand(e)'
  BY <1>0, <1>1, <1>2 DEF InHand, Hand
<1>4. Live' = Live /\ Owners' = Owners /\ OwnerThreads' = OwnerThreads
  BY <1>1, LiveSetFrame, OwnersFrame DEF OwnerThreads
<1>5. RunInv'
  BY <1>1, <1>2, <1>3, <1>4, PollRun
<1>6. (Reaches => Reaches') /\ (Owned => Owned')
  BY <1>1, <1>4, ReachesStep, OwnedStep
<1> QED BY <1>1, <1>5, <1>6 DEF KeptInv

-----------------------------------------------------------------------------
(* poller(), Flush() and Close().                                          *)

\* Nothing that KeptInv is about has changed.
LEMMA KeptFrame ==
  ASSUME KeptInv, "pollerTermChan" \in closed => "pollerTermChan" \in closed',
         UNCHANGED <<status, pc, cgomap, cgoid, priv, sent, inflight, drq, batch, pend>>
  PROVE  KeptInv'
<1>1. Live' = Live /\ Owners' = Owners /\ OwnerThreads' = OwnerThreads
  BY LiveSetFrame, OwnersFrame DEF OwnerThreads
<1>2. (Reaches => Reaches') /\ (Owned => Owned')
  BY <1>1, ReachesStep, OwnedStep
<1> QED BY <1>2 DEF KeptInv

LEMMA PollerLoopRun ==
  ASSUME IInv, RunInv, PollerLoop PROVE RunInv' /\ (KeptInv => KeptInv')
<1>0. PollTypeOK /\ InHand(Poller) /\ FlushTypeOK
  BY PollerFacts DEF RunInv, IInv, TypeOK
<1>1. UNCHANGED <<closed, status, pc, cgomap, cgoid, priv, sent, inflight, drq, batch, held, pend, flushVars>>
  BY DEF PollerLoop, cgoVars, callVars, rkVars, chanVars, closeVars
<1>2. /\ \A f \in Pollers : f # Poller => epc'[f] = epc[f]
      /\ epc'[Poller] \in {"poll", "term"} /\ epc[Poller] = "ret"
  BY <1>0, PollerFacts DEF PollerLoop, SetEpc, PollTypeOK
<1>3. InHand(Poller)'
  BY <1>0, <1>1, <1>2 DEF InHand, Hand
<1>4. \A e \in Pollers : InHand(e)'
  BY <1>1, <1>2, <1>3, InHandFrame DEF RunInv
<1>5. CloseOrder' /\ Quiet'
  BY <1>1, <1>2, CloseOrderStep, QuietStays DEF RunInv, flushVars
<1>6. Live' = Live
  BY <1>1, LiveSetFrame
<1>7. \A f \in Flushers : Polls(f)' /\ Flushed(f)'
  BY <1>0, <1>1, <1>2, <1>6, PollerFacts, FlushedStep DEF RunInv, Polls, FoundEmpty, flushVars
<1>8. KeptInv => KeptInv'
  BY <1>1, KeptFrame
<1> QED BY <1>4, <1>5, <1>7, <1>8 DEF RunInv

\* An operand of Len() is read.  When it is rd_kafka_outq_len(), and it is zero,
\* there is no message that has not been reported.
LEMMA EmptyQueue ==
  ASSUME IInv, RunInv, InQueue = {} PROVE Live = {}
<1>1. inflight = {} /\ (\A S \in drq : S = {}) /\ \A e \in Pollers : held[e] = {}
  <2>1. \A m : m \notin InQueue
    OBVIOUS
  <2>2. \A m : m \notin inflight /\ (\A S \in drq : m \notin S) /\ \A e \in Pollers : m \notin held[e]
    BY <2>1 DEF InQueue
  <2> QED BY <2>2
<1>2. \A e \in Pollers : Hand(e) = {}
  BY <1>1 DEF RunInv, InHand
<1> QED BY <1>1, <1>2 DEF Live

LEMMA FlushRun ==
  ASSUME IInv, RunInv, NEW f \in Flushers, Flush(f) \/ FlushStep(f) \/ FlushExpire(f) \/ HelperStep(f)
  PROVE  RunInv' /\ (KeptInv => KeptInv')
<1> USE DEF closeVars, cgoVars, callVars, rkVars, chanVars
<1>0. PollTypeOK /\ FlushTypeOK /\ f \in Pollers /\ f # Poller /\ InHand(f) /\ Polls(f) /\ Flushed(f)
  BY PollerFacts DEF RunInv, IInv, TypeOK
<1>1. UNCHANGED <<closed, status, pc, cgomap, cgoid, priv, sent, inflight, drq, batch, held, pend>>
  BY DEF Flush, FlushStep, LenReads, LenDone, FlushTime, FlushHand, FlushPolled,
         FlushExpire, HelperStep, HelperFlushed, HelperExit, pollVars
<1>2. (KeptInv => KeptInv') /\ Live' = Live
  BY <1>1, KeptFrame, LiveSetFrame
<1>3. /\ \A e \in Pollers : e # f => epc'[e] = epc[e]
      /\ epc'[f] = epc[f] \/ (epc'[f] = "poll" /\ fpc'[f] = "poll" /\ fpc[f] = "hand")
  <2>1. CASE FlushHand(f)
    BY <1>0, <2>1 DEF FlushHand, SetEpc, SetFpc, PollTypeOK, FlushTypeOK
  <2>2. CASE ~FlushHand(f)
    BY <2>2 DEF Flush, FlushStep, LenReads, LenDone, FlushTime, FlushPolled,
         FlushExpire, HelperStep, HelperFlushed, HelperExit, pollVars
  <2> QED BY <2>1, <2>2
<1>4. \A g \in Flushers : g # f =>
        /\ fpc'[g] = fpc[g] /\ todo'[g] = todo[g] /\ nonzero'[g] = nonzero[g] /\ before'[g] = before[g]
  BY <1>0 DEF Flush, FlushStep, LenReads, LenDone, FlushTime, FlushHand, FlushPolled,
         FlushExpire, HelperStep, HelperFlushed, HelperExit, StartLen, SetFpc, FlushTypeOK
<1>5. \/ fpc'[f] = fpc[f]
      \/ fpc'[f] # "poll" /\ epc[f] = "ret" /\ epc'[f] = epc[f] /\ ~(IsClosed /\ fpc[f] \in {"idle", "ret0", "retN"})
      \/ fpc'[f] = "poll" /\ fpc[f] = "hand"
  <2>1. CASE Flush(f)
    BY <1>0, <2>1 DEF Flush, StartLen, SetFpc, FlushTypeOK, pollVars, Polls
  <2>2. CASE LenDone(f)
    BY <1>0, <2>2 DEF LenDone, SetFpc, FlushTypeOK, pollVars, Polls
  <2>3. CASE FlushTime(f)
    BY <1>0, <2>3 DEF FlushTime, StartLen, SetFpc, FlushTypeOK, pollVars, Polls
  <2>4. CASE FlushHand(f)
    BY <1>0, <2>4 DEF FlushHand, SetFpc, FlushTypeOK
  <2>5. CASE FlushPolled(f)
    BY <1>0, <2>5 DEF FlushPolled, StartLen, SetFpc, FlushTypeOK, pollVars
  <2>6. CASE (\E part \in LenParts : LenReads(f, part)) \/ FlushExpire(f) \/ HelperStep(f)
    BY <2>6 DEF LenReads, FlushExpire, HelperStep, HelperFlushed, HelperExit
  <2> QED BY <2>1, <2>2, <2>3, <2>4, <2>5, <2>6 DEF FlushStep
<1>6. CloseOrder' /\ Quiet'
  <2>1. \A g \in Flushers : IsClosed /\ fpc[g] \in {"idle", "ret0", "retN"} => fpc'[g] = fpc[g]
    BY <1>4, <1>5
  <2> QED BY <1>0, <1>1, <1>3, <2>1, PollerFacts, CloseOrderStep, QuietStays DEF RunInv
<1>7. \A e \in Pollers : InHand(e)'
  <2>1. InHand(f)'
    BY <1>0, <1>1, <1>3 DEF InHand, Hand, Polls
  <2> QED BY <1>1, <1>3, <2>1, InHandFrame DEF RunInv
<1>8. \A g \in Flushers : Polls(g)'
  <2>1. Polls(f)'
    BY <1>0, <1>3, <1>5 DEF Polls
  <2> QED BY <1>3, <1>4, <2>1, PollerFacts DEF RunInv, Polls
<1>9. Flushed(f)'
  <2>1. CASE Flush(f)
    <3>1. before'[f] = {m \in Msgs : status[m] = "accepted"} /\ fpc'[f] = "len" /\ todo'[f] = LenParts
      BY <1>0, <2>1 DEF Flush, StartLen, SetFpc, FlushTypeOK
    <3>2. ~FoundEmpty(f)'
      BY <3>1 DEF FoundEmpty, LenParts
    <3> QED BY <1>1, <3>1, <3>2 DEF Flushed
  <2>2. ASSUME NEW part \in LenParts, LenReads(f, part) PROVE Flushed(f)'
    <3>1. /\ before'[f] = before[f] /\ fpc'[f] = "len" /\ fpc[f] = "len"
          /\ todo'[f] = todo[f] \ {part}
          /\ nonzero'[f] = (nonzero[f] \/ CASE part = "produceChannel" -> produceChannel # <<>>
                                            [] part = "events" -> fill[Events] > 0
                                            [] part = "outq" -> InQueue # {} \/ others > 0)
      BY <1>0, <2>2 DEF LenReads, FlushTypeOK
    <3>2. CASE part # "outq"
      <4>1. FoundEmpty(f)' => FoundEmpty(f)
        BY <3>1, <3>2 DEF FoundEmpty
      <4> QED BY <1>0, <1>1, <1>2, <3>1, <4>1, FlushedStep
    <3>3. CASE part = "outq" /\ InQueue = {}
      <4>1. Live' = {}
        BY <1>2, <3>3, EmptyQueue
      <4> QED BY <1>0, <1>1, <3>1, <4>1 DEF Flushed
    <3>4. CASE part = "outq" /\ InQueue # {}
      <4>1. nonzero'[f]
        BY <3>1, <3>4
      <4>2. ~FoundEmpty(f)'
        BY <3>1, <4>1 DEF FoundEmpty
      <4> QED BY <1>0, <1>1, <3>1, <4>2 DEF Flushed
    <3> QED BY <3>2, <3>3, <3>4
  <2>3. CASE LenDone(f)
    <3>1. /\ before'[f] = before[f] /\ fpc[f] = "len" /\ todo[f] = {}
          /\ fpc'[f] # "len" /\ (fpc'[f] = "ret0" => ~nonzero[f])
      BY <1>0, <2>3 DEF LenDone, SetFpc, FlushTypeOK
    <3>2. FoundEmpty(f)' => FoundEmpty(f)
      BY <3>1 DEF FoundEmpty
    <3> QED BY <1>0, <1>1, <1>2, <3>1, <3>2, FlushedStep
  <2>4. CASE FlushTime(f) \/ FlushHand(f) \/ FlushPolled(f)
    <3>1. /\ before'[f] = before[f] /\ fpc'[f] # "ret0"
          /\ fpc'[f] = "len" => todo'[f] = LenParts
      BY <1>0, <2>4 DEF FlushTime, FlushHand, FlushPolled, StartLen, SetFpc, FlushTypeOK
    <3>2. ~FoundEmpty(f)'
      BY <3>1 DEF FoundEmpty, LenParts
    <3> QED BY <1>0, <1>1, <3>1, <3>2 DEF Flushed
  <2>5. CASE FlushExpire(f) \/ HelperStep(f)
    <3>1. UNCHANGED <<fpc, todo, nonzero, before>>
      BY <2>5 DEF FlushExpire, HelperStep, HelperFlushed, HelperExit
    <3> QED BY <1>0, <1>1, <1>2, <3>1, FlushedStep DEF FoundEmpty
  <2> QED BY <2>1, <2>2, <2>3, <2>4, <2>5 DEF FlushStep
<1>10. \A g \in Flushers : Flushed(g)'
  <2>1. \A g \in Flushers : g # f => Flushed(g)'
    BY <1>0, <1>1, <1>2, <1>4, FlushedStep DEF RunInv, FoundEmpty
  <2> QED BY <1>9, <2>1
<1> QED BY <1>2, <1>6, <1>7, <1>8, <1>10 DEF RunInv

\* Close() has shut one more thing.
LEMMA CloseRun ==
  ASSUME IInv, RunInv, CloseSwap \/ CloseStep PROVE RunInv' /\ (KeptInv => KeptInv')
<1>0. FlushTypeOK
  BY DEF IInv, TypeOK
<1>1. UNCHANGED <<pollVars, flushVars, cgomap, cgoid, pc, priv, status, sent, batch, pend>>
  BY DEF CloseSwap, CloseStep, ClosePollerTermChan, CloseProduceChannel, CloseEvents, Destroy,
         pollVars, cgoVars, callVars, rkVars, chanVars
<1>2. inflight' \subseteq inflight /\ drq' \subseteq drq
  BY DEF CloseSwap, CloseStep, ClosePollerTermChan, CloseProduceChannel, CloseEvents, Destroy, rkVars
<1>3. \A e \in Pollers : InHand(e)'
  BY <1>1, InHandFrame DEF RunInv, pollVars
<1>4. Live' \subseteq Live
  BY <1>1, <1>2 DEF Live, Hand
<1>5. \A f \in Flushers : Polls(f)' /\ Flushed(f)'
  BY <1>0, <1>1, <1>4, FlushedStep DEF RunInv, Polls, FoundEmpty, pollVars, flushVars
<1>6. closed \subseteq closed'
  BY DEF CloseSwap, CloseStep, ClosePollerTermChan, CloseProduceChannel, CloseEvents, Destroy, Shut
<1>7. CloseOrder'
  <2>1. CloseOrder /\ WaitGroupDone' = WaitGroupDone
    BY <1>1 DEF RunInv, WaitGroupDone, pollVars
  <2> QED BY <2>1 DEF CloseOrder, CloseSwap, CloseStep, ClosePollerTermChan, CloseProduceChannel, CloseEvents,
                      Destroy, Shut, IsClosed, Alive
<1>8. Quiet'
  <2>1. CASE IsClosed
    BY <1>1, <2>1 DEF RunInv, Quiet, FlushReturned, flushVars
  <2>2. CASE ~IsClosed
    <3>1. CloseSwap
      BY <2>2 DEF CloseStep, ClosePollerTermChan, CloseProduceChannel, CloseEvents, Destroy, RunInv, CloseOrder, Alive
    <3> QED BY <1>1, <3>1 DEF CloseSwap, Quiet, FlushReturned, flushVars
  <2> QED BY <2>1, <2>2
<1>9. KeptInv => KeptInv'
  <2>1. CASE CloseSwap \/ ClosePollerTermChan \/ CloseProduceChannel \/ CloseEvents
    <3>1. UNCHANGED <<inflight, drq>>
      BY <2>1 DEF CloseSwap, ClosePollerTermChan, CloseProduceChannel, CloseEvents, rkVars
    <3> QED BY <1>1, <1>6, <3>1, KeptFrame
  <2>2. CASE Destroy
    BY <1>6, <2>2 DEF Destroy, RunInv, CloseOrder, KeptInv
  <2> QED BY <2>1, <2>2 DEF CloseStep
<1> QED BY <1>3, <1>5, <1>7, <1>8, <1>9 DEF RunInv

-----------------------------------------------------------------------------
(* The invariants and what follows from them.                              *)

LEMMA InitRun == Init => RunInv /\ KeptInv
<1> SUFFICES ASSUME Init PROVE RunInv /\ KeptInv
  OBVIOUS
<1>1. CloseOrder /\ Quiet
  BY DEF Init, CloseOrder, Quiet, IsClosed, Alive
<1>2. \A e \in Pollers : InHand(e)
  BY Names DEF Init, InHand, Hand, NoPend
<1>3. \A f \in Flushers : Polls(f) /\ Flushed(f)
  BY PollerFacts DEF Init, Polls, Flushed, FoundEmpty
<1>4. KeptInv
  BY DEF Init, KeptInv, Reaches, Owned
<1> QED BY <1>1, <1>2, <1>3, <1>4 DEF RunInv

\* KeptInv needs a channel for every message, RunInv does not.
LEMMA NextRun ==
  ASSUME IInv, RunInv, [Next]_vars
  PROVE  RunInv' /\ (AllReported /\ KeptInv => KeptInv')
<1>1. ASSUME NEW t \in Producers, ProduceStep(t) PROVE RunInv' /\ (KeptInv => KeptInv')
  BY <1>1, CgoPutRun, EnqueueRun, EnqueueFailsRun, UndoRun DEF ProduceStep
<1>2. ASSUME NEW e \in Pollers, EventPollStep(e) PROVE RunInv' /\ (AllReported /\ KeptInv => KeptInv')
  BY <1>2, QueuePollRun, PollLimitRun, DispatchRun, SendRun, NextEventRun DEF EventPollStep
<1>3. ASSUME UNCHANGED vars PROVE RunInv' /\ (KeptInv => KeptInv')
  <2>1. UNCHANGED <<closed, pollVars, flushVars, cgomap, cgoid, pc, priv, status, sent, inflight, drq, batch, pend>>
    BY <1>3 DEF vars, closeVars, cgoVars, callVars, rkVars, chanVars, pollVars
  <2>2. Live' = Live
    BY <2>1, LiveSetFrame
  <2> QED BY <2>1, <2>2, CallRun, KeptFrame
<1> QED BY <1>1, <1>2, <1>3, ProduceCallRun, WriteRun, ChannelRun, ReportBatchRun, EventRun, PollerLoopRun, FlushRun, CloseRun
        DEF Next, ChannelProducerStep, Producers

\* What has not been dispatched is what is live.
LEMMA UndispatchedIsLive == ASSUME IInv PROVE Undispatched = Live
<1>1. /\ inflight \subseteq Msgs /\ (\A S \in drq : S \subseteq Msgs)
      /\ \A e \in Pollers : batch[e] \subseteq Msgs /\ pend[e] \in Pending \cup {NoPend}
  BY Facts DEF RkTypeOK, PollTypeOK
<1>2. NoPend.msg = Nil /\ \A p \in Pending : p.msg \in Msgs
  BY DEF NoPend, Pending
<1>3. \A e \in Pollers : pend[e] # NoPend <=> pend[e].msg \in Msgs
  BY <1>1, <1>2, Names
<1>4. \A m : m \in Undispatched <=> \/ m \in inflight \/ \E S \in drq : m \in S
                                    \/ \E e \in Pollers : m \in batch[e]
                                    \/ \E e \in Pollers : pend[e] # NoPend /\ m = pend[e].msg
  BY DEF Undispatched
<1>5. \A m : m \in Live <=> \/ m \in inflight \/ \E S \in drq : m \in S
                            \/ \E e \in Pollers : m \in batch[e]
                            \/ \E e \in Pollers : pend[e] # NoPend /\ m = pend[e].msg
  BY <1>1, <1>3 DEF Live, Hand
<1> QED BY <1>4, <1>5

LEMMA OwnersAreUndispatched ==
  ASSUME IInv PROVE Undispatched \ {pend[e].msg : e \in Pollers} = Owners
<1>1. DisjointInv /\ PollTypeOK
  BY Facts
<1>2. Undispatched = Live
  BY UndispatchedIsLive
<1>3. \A m \in Msgs : m \in Live /\ (\A e \in Pollers : m # pend[e].msg) => m \in Owners
  BY DEF Live, Owners, Hand
<1>4. ASSUME NEW m \in Owners, NEW e \in Pollers PROVE m # pend[e].msg
  <2>1. m \in Msgs
    BY DEF Owners
  <2>2. m = pend[e].msg => m \in Hand(e)
    BY <2>1 DEF Hand
  <2>3. \A f \in Pollers : m \in batch[f] => m \in Hand(f)
    BY <2>1 DEF Hand
  <2>4. \A f \in Pollers : m \in batch[f] => m # pend[e].msg
    <3>1. \A f \in Pollers : f # e => Hand(f) \cap Hand(e) = {}
      BY <1>1 DEF DisjointInv
    <3>2. pend[e].msg \notin batch[e]
      BY <1>1 DEF DisjointInv
    <3> QED BY <2>2, <2>3, <3>1, <3>2
  <2> QED BY <1>1, <2>2, <2>4 DEF Owners, DisjointInv
<1>5. Owners \subseteq Live /\ Live \subseteq Msgs
  BY DEF Owners, Live, Hand
<1>6. ASSUME NEW m \in Owners PROVE m \in Undispatched \ {pend[e].msg : e \in Pollers}
  BY <1>2, <1>4, <1>5
<1>7. ASSUME NEW m \in Undispatched \ {pend[e].msg : e \in Pollers} PROVE m \in Owners
  <2>1. m \in Live /\ m \in Msgs
    BY <1>2, <1>5
  <2>2. \A e \in Pollers : m # pend[e].msg
    OBVIOUS
  <2> QED BY <1>3, <2>1, <2>2
<1> QED BY <1>6, <1>7

LEMMA RunInvariant == Spec => []RunInv
<1>1. Init => RunInv
  BY InitRun
<1>2. IInv /\ RunInv /\ [Next]_vars => RunInv'
  BY NextRun
<1> QED BY <1>1, <1>2, ProducerInvariant, PTL DEF Spec

\* Flush() returns 0 only when the report of every message accepted before the call
\* has left librdkafka, whatever produces, polls or closes beside it, for any number of
\* messages, goroutines and calls of Flush().
THEOREM FlushIsDelivered == Spec => []FlushDelivered
<1>1. IInv /\ RunInv => FlushDelivered
  <2> SUFFICES ASSUME IInv, RunInv, NEW f \in Flushers, fpc[f] = "ret0"
               PROVE  before[f] \cap Undispatched = {}
    BY DEF FlushDelivered
  <2>1. before[f] \subseteq Msgs /\ before[f] \cap Live = {}
    BY DEF IInv, TypeOK, FlushTypeOK, RunInv, Flushed, FoundEmpty
  <2> QED BY <2>1, UndispatchedIsLive
<1> QED BY <1>1, RunInvariant, ProducerInvariant, PTL

LEMMA NoPendNowhere == NoPend.on # Events
<1>1. Nil # Events
  BY ProducerAssumption DEF AllChans
<1> QED BY <1>1 DEF NoPend

\* Close() destroys the C instance and closes events only after every goroutine that
\* uses them has ended, when the application makes no other call beside Close() and has
\* not called Flush().
THEOREM CloseIsSafe ==
  ASSUME Quiesce, Flushers = {} PROVE Spec => []CloseSafe
<1>1. IInv /\ RunInv => CloseSafe
  <2> SUFFICES ASSUME IInv, RunInv PROVE CloseSafe
    OBVIOUS
  <2>1. CloseOrder /\ Quiet /\ Pollers = {Poller}
    BY DEF RunInv, Pollers
  <2>2. NoUseAfterDestroy
    <3> SUFFICES ASSUME ~Alive PROVE ~UsesHandle
      BY DEF NoUseAfterDestroy
    <3>1. WaitGroupDone /\ IsClosed
      BY <2>1 DEF CloseOrder
    <3>2. \A t \in Producers : pc[t] \in {"idle", "done"}
      BY <2>1, <3>1 DEF Producers, WaitGroupDone, Quiet
    <3> QED BY <2>1, <3>1, <3>2 DEF UsesHandle, WaitGroupDone
  <2>3. NoSendOnClosed
    <3> SUFFICES ASSUME "events" \in closed
                 PROVE  pc[ChannelProducer] # "report" /\ epc[Poller] # "event" /\ pend[Poller].on # Events
      BY <2>1 DEF NoSendOnClosed
    <3>1. WaitGroupDone /\ InHand(Poller)
      BY <2>1 DEF CloseOrder, RunInv
    <3>2. pend[Poller] = NoPend
      BY <3>1 DEF WaitGroupDone, InHand
    <3> QED BY <3>1, <3>2, NoPendNowhere DEF WaitGroupDone
  <2> QED BY <2>2, <2>3 DEF CloseSafe
<1> QED BY <1>1, RunInvariant, ProducerInvariant, PTL

\* A use of the destroyed instance is one by the goroutine that a returned Flush()
\* has left behind (producer.go:375-379).
UsedByHelpers == ~Alive /\ UsesHandle => \E f \in Flushers : helper[f] = "flush"

\* With calls of Flush() as well, nothing is sent on the closed events channel, and
\* only those goroutines may still use the instance that Close() has destroyed.
THEOREM CloseIsSafeButForHelpers ==
  ASSUME Quiesce PROVE Spec => [](NoSendOnClosed /\ UsedByHelpers)
<1>1. IInv /\ RunInv => NoSendOnClosed /\ UsedByHelpers
  <2> SUFFICES ASSUME IInv, RunInv PROVE NoSendOnClosed /\ UsedByHelpers
    OBVIOUS
  <2>1. CloseOrder /\ Quiet
    BY DEF RunInv
  <2>2. UsedByHelpers
    <3> SUFFICES ASSUME ~Alive, \A f \in Flushers : helper[f] # "flush" PROVE ~UsesHandle
      BY DEF UsedByHelpers
    <3>1. WaitGroupDone /\ IsClosed
      BY <2>1 DEF CloseOrder
    <3>2. \A f \in Flushers : fpc[f] \in {"idle", "ret0", "retN"}
      BY <2>1, <3>1 DEF Quiet, FlushReturned
    <3>3. \A t \in Producers : pc[t] \in {"idle", "done"}
      BY <2>1, <3>1 DEF Producers, WaitGroupDone, Quiet
    <3>4. \A e \in Flushers : epc[e] = "ret"
      BY <3>2 DEF RunInv, Polls
    <3>5. ~\E e \in Pollers : epc[e] \in {"poll", "dr", "send", "event"} \/ (e = Poller /\ epc[e] = "ret")
      BY <3>1, <3>4, PollerFacts DEF WaitGroupDone, Pollers
    <3> QED BY <3>2, <3>3, <3>5 DEF UsesHandle
  <2>3. ASSUME "events" \in closed PROVE pc[ChannelProducer] # "report" /\ \A e \in Pollers : epc[e] # "event" /\ pend[e].on # Events
    <3>1. WaitGroupDone /\ IsClosed
      BY <2>1, <2>3 DEF CloseOrder
    <3>2. \A f \in Flushers : epc[f] = "ret"
      BY <2>1, <3>1 DEF Quiet, FlushReturned, RunInv, Polls
    <3>3. \A e \in Pollers : epc[e] \in {"ret", "term"}
      BY <3>1, <3>2 DEF WaitGroupDone, Pollers
    <3>4. \A e \in Pollers : pend[e] = NoPend
      BY <3>3 DEF RunInv, InHand
    <3> QED BY <3>1, <3>3, <3>4, NoPendNowhere DEF WaitGroupDone
  <2> QED BY <2>2, <2>3 DEF NoSendOnClosed
<1> QED BY <1>1, RunInvariant, ProducerInvariant, PTL

LEMMA KeptInvariant == ASSUME AllReported PROVE Spec => []KeptInv
<1>1. Init => KeptInv
  BY InitRun
<1>2. IInv /\ RunInv /\ KeptInv /\ [Next]_vars => KeptInv'
  BY NextRun
<1> QED BY <1>1, <1>2, RunInvariant, ProducerInvariant, PTL DEF Spec

\* The report of an accepted message is on its way or was sent, until Close() stops the
\* poller, if every message has a channel to be reported on.
THEOREM ReportsAreNotLost == ASSUME AllReported PROVE Spec => []NoReportLost
<1>1. IInv /\ KeptInv => NoReportLost
  BY UndispatchedIsLive DEF KeptInv, Reaches, NoReportLost
<1> QED BY <1>1, KeptInvariant, ProducerInvariant, PTL

\* Under the same condition the cgo map has an entry for each message that needs one and
\* is between cgoPut() and its cgoGet(), and no other entry.
THEOREM CgoMapIsExact == ASSUME AllReported PROVE Spec => []CgoMapExact
<1>1. IInv /\ RunInv /\ KeptInv => CgoMapExact
  <2> SUFFICES ASSUME IInv, RunInv, Reaches, Owned
               PROVE  DOMAIN cgomap = ({cgoid[t] : t \in OwnerThreads}
                                       \cup {priv[m] : m \in Undispatched \ {pend[e].msg : e \in Pollers}}) \ {0}
    BY DEF KeptInv, CgoMapExact, OwnerThreads
  <2>1. Undispatched \ {pend[e].msg : e \in Pollers} = Owners
    BY OwnersAreUndispatched
  <2>2. \A t \in OwnerThreads : cgoid[t] # 0 => cgoid[t] \in DOMAIN cgomap
    BY Facts DEF CgoInv, CgoLeads, Leads
  <2>3. \A m \in Owners : priv[m] # 0 => priv[m] \in DOMAIN cgomap
    BY Facts DEF CgoInv, CgoLeads, Leads
  <2>4. \A i : i \in DOMAIN cgomap <=> /\ i # 0
                                       /\ \/ i \in {cgoid[t] : t \in OwnerThreads}
                                          \/ i \in {priv[m] : m \in Owners}
    BY <2>2, <2>3 DEF Owned
  <2> QED BY <2>1, <2>4
<1> QED BY <1>1, KeptInvariant, RunInvariant, ProducerInvariant, PTL
=============================================================================
