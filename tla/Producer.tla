------------------------------ MODULE Producer ------------------------------
(***************************************************************************)
(* The Go producer (kafka/producer.go, kafka/event.go, kafka/handle.go):   *)
(* the goroutines it starts, the calls the application makes on it, and    *)
(* the path of a message from Produce() or ProduceChannel() through        *)
(* librdkafka and back as a delivery report.                               *)
(*                                                                         *)
(*   Callers          application goroutines inside Produce()              *)
(*   ChannelProducer  the goroutine channelProducer()                      *)
(*   Poller           the goroutine poller(), looping over eventPoll()     *)
(*   Flushers         calls of Flush(), which run eventPoll() as well, each*)
(*                    with the helper goroutine it starts                  *)
(*   Close()          at most one: the CAS on isClosed turns others away   *)
(*                                                                         *)
(* librdkafka is external: it accepts a message or refuses it, later puts  *)
(* it into a delivery report event together with others, and counts it as  *)
(* in-queue until that event is destroyed (rdkafka.h:4784).                *)
(*                                                                         *)
(* A Go channel is modelled by how many events it buffers; what was sent   *)
(* on it, for which message, is recorded in sent.                          *)
(***************************************************************************)
EXTENDS CgoIds, Sequences, FiniteSets

CONSTANTS
  Msgs,          \* messages the application produces, each once
  ViaChannel,    \* those it writes to ProduceChannel() instead of Produce()
  Refused,       \* those librdkafka does not take (too large, unknown topic, ...)
  Chans,         \* delivery channels of the application
  DeliveryChan,  \* DeliveryChan[m]: the deliveryChan m is produced with, or Nil
  Opaques, Opaque, \* Opaque[m]: msg.Opaque, or Nil
  Callers, Flushers,
  Nil,
  FwdDr,         \* go.delivery.reports
  EventsSize,    \* go.events.channel.size
  DeliveryChanSize,    \* buffer of the application's delivery channels
  ProduceChannelSize,  \* go.produce.channel.size
  QueueMax,      \* queue.buffering.max.messages
  MaxEvents,     \* the 1000 of the calls of eventPoll
  MaxOther,      \* bound: statistics, error and token events of librdkafka
  Quiesce        \* the application calls Close() only between its other calls

ChannelProducer == "channelProducer"
Poller == "poller"
Events == "events"

Producers == Callers \cup {ChannelProducer}
Pollers == Flushers \cup {Poller}
AllChans == Chans \cup {Events}
Size(c) == IF c = Events THEN EventsSize ELSE DeliveryChanSize

ASSUME ProducerAssumption ==
  /\ ViaChannel \subseteq Msgs /\ Refused \subseteq Msgs
  /\ DeliveryChan \in [Msgs -> Chans \cup {Nil}]
  /\ Opaque \in [Msgs -> Opaques \cup {Nil}]
  /\ \A m \in ViaChannel : DeliveryChan[m] = Nil    \* channelProducer passes nil
  /\ Nil \notin Msgs \cup AllChans \cup Opaques
  /\ Events \notin Chans
  /\ ChannelProducer \notin Callers
  /\ Poller \notin Flushers
  /\ FwdDr \in BOOLEAN /\ Quiesce \in BOOLEAN
  /\ {EventsSize, DeliveryChanSize, ProduceChannelSize, QueueMax, MaxEvents, MaxOther} \subseteq Nat

VARIABLES
  closed,          \* what Close() has shut so far
  cgoidNext, cgomap,
  status,          \* status[m]: new, calling, accepted or rejected
  produceChannel,  \* messages waiting on ProduceChannel()
  pc, arg, cgoid,  \* the locals of produce() in each producing goroutine
  priv,            \* priv[m]: the _private pointer of m inside librdkafka
  inflight,        \* accepted messages not yet in a delivery report event
  drq,             \* delivery report events waiting on rkq: sets of messages
  others, otherLeft,  \* other events waiting on rkq, and still to come
  fill,            \* fill[c]: events buffered in Go channel c
  sent,            \* sent[m]: the reports sent for m, on which channel
  epc, held, batch, pend, evcnt,  \* the locals of eventPoll()
  fpc, todo, nonzero, final, expired, before,  \* the locals of Flush()
  helper           \* the goroutine Flush() starts

closeVars == closed
cgoVars == <<cgoidNext, cgomap>>
callVars == <<status, produceChannel, pc, arg, cgoid>>
rkVars == <<priv, inflight, drq, others, otherLeft>>
chanVars == <<fill, sent>>
pollVars == <<epc, held, batch, pend, evcnt>>
flushVars == <<fpc, todo, nonzero, final, expired, before, helper>>
vars == <<closeVars, cgoVars, callVars, rkVars, chanVars, pollVars, flushVars>>

\* The cgoDr object of a message: its delivery channel and its opaque.
CgoDr(m) == [deliveryChan |-> DeliveryChan[m], opaque |-> Opaque[m]]
CgoDrs == [deliveryChan : Chans \cup {Nil}, opaque : Opaques \cup {Nil}]

Report == [on : AllChans, opaque : Opaques \cup {Nil}]
Pending == [msg : Msgs, on : AllChans, opaque : Opaques \cup {Nil}]
NoPend == [msg |-> Nil, on |-> Nil, opaque |-> Nil]

Shuttable == {"isClosed", "pollerTermChan", "produceChannel", "events", "rk"}

\* Mutation: Len() counts only what the Go channels hold.
LenPartsNoOutq == {"produceChannel", "events"}

\* The operands of Len().
LenParts == {"produceChannel", "events", "outq"}

CgoTypeOK ==
  /\ cgoidNext \in Ids
  /\ DOMAIN cgomap \subseteq Ids
  /\ \A i \in DOMAIN cgomap : cgomap[i] \in CgoDrs

CallTypeOK ==
  /\ status \in [Msgs -> {"new", "calling", "accepted", "rejected"}]
  /\ produceChannel \in Seq(ViaChannel)
  /\ pc \in [Producers -> {"idle", "put", "enqueue", "undo", "report", "done"}]
  /\ arg \in [Producers -> Msgs \cup {Nil}]
  /\ cgoid \in [Producers -> Ids]

RkTypeOK ==
  /\ priv \in [Msgs -> Ids]
  /\ inflight \subseteq Msgs
  /\ drq \subseteq SUBSET Msgs
  /\ others \in Nat /\ otherLeft \in Nat

ChanTypeOK ==
  /\ fill \in [AllChans -> Nat]
  /\ sent \in [Msgs -> Seq(Report)]

PollTypeOK ==
  /\ epc \in [Pollers -> {"ret", "poll", "dr", "send", "event", "term"}]
  /\ held \in [Pollers -> SUBSET Msgs] /\ batch \in [Pollers -> SUBSET Msgs]
  /\ pend \in [Pollers -> Pending \cup {NoPend}]
  /\ evcnt \in [Pollers -> Nat]

FlushTypeOK ==
  /\ fpc \in [Flushers -> {"idle", "len", "time", "hand", "poll", "ret0", "retN"}]
  /\ todo \in [Flushers -> SUBSET LenParts]
  /\ nonzero \in [Flushers -> BOOLEAN] /\ final \in [Flushers -> BOOLEAN]
  /\ expired \in [Flushers -> BOOLEAN] /\ before \in [Flushers -> SUBSET Msgs]
  /\ helper \in [Flushers -> {"none", "wait", "flush", "exited"}]

\* What Close() has shut, and the state of every goroutine, call and queue.
TypeOK == /\ closed \subseteq Shuttable
          /\ CgoTypeOK
          /\ CallTypeOK
          /\ RkTypeOK
          /\ ChanTypeOK
          /\ PollTypeOK
          /\ FlushTypeOK

Init ==
  /\ closed = {}
  /\ cgoidNext = 0 /\ cgomap = [i \in {} |-> i]
  /\ status = [m \in Msgs |-> "new"]
  /\ produceChannel = <<>>
  /\ pc = [t \in Producers |-> "idle"]
  /\ arg = [t \in Producers |-> Nil]
  /\ cgoid = [t \in Producers |-> 0]
  /\ priv = [m \in Msgs |-> 0]
  /\ inflight = {} /\ drq = {}
  /\ others = 0 /\ otherLeft = MaxOther
  /\ fill = [c \in AllChans |-> 0]
  /\ sent = [m \in Msgs |-> <<>>]
  /\ epc = [e \in Pollers |-> "ret"]
  /\ held = [e \in Pollers |-> {}] /\ batch = [e \in Pollers |-> {}]
  /\ pend = [e \in Pollers |-> NoPend]
  /\ evcnt = [e \in Pollers |-> 0]
  /\ fpc = [f \in Flushers |-> "idle"] /\ todo = [f \in Flushers |-> {}]
  /\ nonzero = [f \in Flushers |-> FALSE] /\ final = [f \in Flushers |-> FALSE]
  /\ expired = [f \in Flushers |-> FALSE] /\ before = [f \in Flushers |-> {}]
  /\ helper = [f \in Flushers |-> "none"]

-----------------------------------------------------------------------------
\* The C handle and its queue can be used.
Alive == "rk" \notin closed

IsClosed == "isClosed" \in closed

\* Messages rd_kafka_outq_len() counts: until their report event is destroyed.
InQueue == inflight \cup (UNION drq) \cup (UNION {held[e] : e \in Pollers})

\* Where the report of m belongs, if anywhere.
Dest(m) == IF DeliveryChan[m] # Nil THEN DeliveryChan[m]
           ELSE IF FwdDr THEN Events ELSE Nil

HasRoom(c) == fill[c] < Size(c)

SetPc(t, l) == pc' = [pc EXCEPT ![t] = l]
SetStatus(m, s) == status' = [status EXCEPT ![m] = s]

-----------------------------------------------------------------------------
(* produce(), in a goroutine of the application or in channelProducer.     *)

\* Produce(): verifyClient(), then produce()'s check of its arguments.
Produce(t, m) ==
  /\ pc[t] = "idle" /\ status[m] = "new" /\ m \notin ViaChannel
  /\ \/ SetStatus(m, "rejected") /\ UNCHANGED <<pc, arg>>   \* closed, or ErrInvalidArg
     \/ /\ ~IsClosed
        /\ SetStatus(m, "calling")
        /\ SetPc(t, "put") /\ arg' = [arg EXCEPT ![t] = m]
  /\ UNCHANGED <<closeVars, cgoVars, produceChannel, cgoid, rkVars, chanVars, pollVars, flushVars>>

\* The application writes to ProduceChannel().
WriteProduceChannel(m) ==
  /\ status[m] = "new" /\ m \in ViaChannel
  /\ "produceChannel" \notin closed /\ (Quiesce => ~IsClosed)
  /\ Len(produceChannel) < ProduceChannelSize
  /\ produceChannel' = Append(produceChannel, m)
  /\ SetStatus(m, "calling")
  /\ UNCHANGED <<closeVars, cgoVars, pc, arg, cgoid, rkVars, chanVars, pollVars, flushVars>>

\* channelProducer(): for m := range p.produceChannel.
ChannelReceive ==
  /\ pc[ChannelProducer] = "idle" /\ produceChannel # <<>>
  /\ produceChannel' = Tail(produceChannel)
  /\ arg' = [arg EXCEPT ![ChannelProducer] = Head(produceChannel)]
  /\ \/ SetPc(ChannelProducer, "put") /\ UNCHANGED status
     \/ SetPc(ChannelProducer, "report") /\ SetStatus(Head(produceChannel), "rejected") \* ErrInvalidArg
  /\ UNCHANGED <<closeVars, cgoVars, cgoid, rkVars, chanVars, pollVars, flushVars>>

ChannelDone ==
  /\ pc[ChannelProducer] = "idle" /\ produceChannel = <<>> /\ "produceChannel" \in closed
  /\ SetPc(ChannelProducer, "done")
  /\ UNCHANGED <<closeVars, cgoVars, status, produceChannel, arg, cgoid, rkVars, chanVars, pollVars, flushVars>>

\* Mutation: the opaque alone does not make an entry.
NeedsCgoOnlyChan(m) == DeliveryChan[m] # Nil

NeedsCgo(m) == DeliveryChan[m] # Nil \/ Opaque[m] # Nil

\* The bound of this module: the counter stops short of its wrap, which
\* CgoMap is about.
NoWrap == cgoidNext + 1 < IdMod

\* if deliveryChan != nil || msg.Opaque != nil { cgoid = p.handle.cgoPut(...) }
CgoPut(t) ==
  /\ pc[t] = "put" /\ Alive /\ NoWrap
  /\ LET m == arg[t]
         id == CgoNext(cgoidNext)
     IN  \/ /\ NeedsCgo(m)
            /\ cgoidNext' = id
            /\ cgomap' = CgoStore(cgomap, id, CgoDr(m))
            /\ cgoid' = [cgoid EXCEPT ![t] = id]
         \/ /\ ~NeedsCgo(m)
            /\ cgoid' = [cgoid EXCEPT ![t] = 0]
            /\ UNCHANGED cgoVars
  /\ SetPc(t, "enqueue")
  /\ UNCHANGED <<closeVars, status, produceChannel, arg, rkVars, chanVars, pollVars, flushVars>>

QueueFull == Cardinality(InQueue) >= QueueMax

\* do_produce() accepts the message.  With RD_KAFKA_MSG_F_BLOCK, which only
\* channelProducer passes, it waits while the queue is full.
Enqueue(t) ==
  /\ pc[t] = "enqueue" /\ Alive
  /\ ~QueueFull /\ arg[t] \notin Refused
  /\ inflight' = inflight \cup {arg[t]}
  /\ priv' = [priv EXCEPT ![arg[t]] = cgoid[t]]
  /\ SetStatus(arg[t], "accepted")
  /\ SetPc(t, "idle") /\ arg' = [arg EXCEPT ![t] = Nil]
  /\ UNCHANGED <<closeVars, cgoVars, produceChannel, cgoid, drq, others, otherLeft, chanVars, pollVars, flushVars>>

\* do_produce() fails: the message is refused, or the queue is full and the
\* caller does not block.
EnqueueFails(t) ==
  /\ pc[t] = "enqueue" /\ Alive
  /\ arg[t] \in Refused \/ (t \in Callers /\ QueueFull)
  /\ SetPc(t, "undo")
  /\ UNCHANGED <<closeVars, cgoVars, status, produceChannel, arg, cgoid, rkVars, chanVars, pollVars, flushVars>>

\* Mutation: the entry of a message that was not taken stays in the map.
UndoCgoNot(t) == cgomap' = cgomap

\* if cgoid != 0 { p.handle.cgoGet(cgoid) }
UndoCgo(t) == cgomap' = CgoForget(cgomap, cgoid[t])

\* return newError(cErr)
Undo(t) ==
  /\ pc[t] = "undo"
  /\ UndoCgo(t)
  /\ SetStatus(arg[t], "rejected")
  /\ IF t = ChannelProducer
     THEN SetPc(t, "report") /\ UNCHANGED arg
     ELSE SetPc(t, "idle") /\ arg' = [arg EXCEPT ![t] = Nil]
  /\ UNCHANGED <<closeVars, cgoidNext, produceChannel, cgoid, rkVars, chanVars, pollVars, flushVars>>

\* channelProducer() on an error: p.events <- m, with no way out.
ChannelReportError ==
  /\ pc[ChannelProducer] = "report" /\ HasRoom(Events)
  /\ LET m == arg[ChannelProducer]
     IN  sent' = [sent EXCEPT ![m] = Append(@, [on |-> Events, opaque |-> Opaque[m]])]
  /\ fill' = [fill EXCEPT ![Events] = @ + 1]
  /\ SetPc(ChannelProducer, "idle") /\ arg' = [arg EXCEPT ![ChannelProducer] = Nil]
  /\ UNCHANGED <<closeVars, cgoVars, status, produceChannel, cgoid, rkVars, pollVars, flushVars>>

-----------------------------------------------------------------------------
(* librdkafka, as the Go code sees it.                                     *)

\* Delivered, failed, timed out or purged: a batch gets its report event.
ReportBatch(S) ==
  /\ Alive /\ S # {} /\ S \subseteq inflight
  /\ inflight' = inflight \ S
  /\ drq' = drq \cup {S}
  /\ UNCHANGED <<closeVars, cgoVars, callVars, priv, others, otherLeft, chanVars, pollVars, flushVars>>

\* An error, statistics or token refresh event.
OtherEvent ==
  /\ Alive /\ otherLeft > 0
  /\ others' = others + 1 /\ otherLeft' = otherLeft - 1
  /\ UNCHANGED <<closeVars, cgoVars, callVars, priv, inflight, drq, chanVars, pollVars, flushVars>>

\* The application receives from one of the channels.
Receive(c) ==
  /\ fill[c] > 0
  /\ fill' = [fill EXCEPT ![c] = @ - 1]
  /\ UNCHANGED <<closeVars, cgoVars, callVars, rkVars, sent, pollVars, flushVars>>

-----------------------------------------------------------------------------
(* eventPoll(), run by the poller and by every Flush().                    *)

SetEpc(e, l) == epc' = [epc EXCEPT ![e] = l]

\* "break out": the event in hand is destroyed and eventPoll returns.
LeaveEventPoll(e, l) ==
  /\ SetEpc(e, l)
  /\ held' = [held EXCEPT ![e] = {}]
  /\ batch' = [batch EXCEPT ![e] = {}]
  /\ pend' = [pend EXCEPT ![e] = NoPend]
  /\ UNCHANGED evcnt

\* The poll returns an event that is no delivery report.
EventPolled == others > 0

\* _rk_queue_poll(): destroy the previous event and wait for the next one.
QueuePoll(e) ==
  /\ epc[e] = "poll" /\ evcnt[e] < MaxEvents /\ Alive
  /\ \/ \E S \in drq :
          /\ drq' = drq \ {S}
          /\ held' = [held EXCEPT ![e] = S] /\ batch' = [batch EXCEPT ![e] = S]
          /\ SetEpc(e, "dr")
          /\ UNCHANGED <<others, pend, evcnt>>
     \/ /\ EventPolled /\ others' = others - 1
        /\ held' = [held EXCEPT ![e] = {}]
        /\ SetEpc(e, "event")
        /\ UNCHANGED <<drq, batch, pend, evcnt>>
     \/ /\ drq = {} /\ others = 0            \* RD_KAFKA_EVENT_NONE: timed out
        /\ LeaveEventPoll(e, "ret")
        /\ UNCHANGED <<drq, others>>
  /\ UNCHANGED <<closeVars, cgoVars, callVars, priv, inflight, otherLeft, chanVars, flushVars>>

\* Mutation: the poller's goroutine ends with its first full round.
PollLimitEnds(e) ==
  /\ epc[e] = "poll" /\ evcnt[e] >= MaxEvents
  /\ LeaveEventPoll(e, "term")
  /\ UNCHANGED <<closeVars, cgoVars, callVars, rkVars, chanVars, flushVars>>

\* for evcnt := 0; evcnt < maxEvents; evcnt++
PollLimit(e) ==
  /\ epc[e] = "poll" /\ evcnt[e] >= MaxEvents
  /\ LeaveEventPoll(e, "ret")
  /\ UNCHANGED <<closeVars, cgoVars, callVars, rkVars, chanVars, flushVars>>

\* What eventPoll takes from the cgo map for m; the empty object if it holds none.
CgoDrOf(m) == IF CgoFound(cgomap, priv[m]) THEN cgomap[priv[m]]
              ELSE [deliveryChan |-> Nil, opaque |-> Nil]

\* The channel the report of m goes to.
Target(m) == IF CgoDrOf(m).deliveryChan # Nil THEN CgoDrOf(m).deliveryChan
             ELSE IF FwdDr THEN Events ELSE Nil

\* One message of a delivery report event: find its channel.  Without one,
\* the report becomes retval and eventPoll returns, whatever is left of the
\* event.
DispatchReport(e, m) ==
  /\ epc[e] = "dr" /\ m \in batch[e]
  /\ cgomap' = CgoForget(cgomap, priv[m])
  /\ \/ /\ Target(m) = Nil
        /\ LeaveEventPoll(e, "ret")
     \/ /\ Target(m) # Nil
        /\ pend' = [pend EXCEPT ![e] =
                      [msg |-> m, on |-> Target(m), opaque |-> CgoDrOf(m).opaque]]
        /\ batch' = [batch EXCEPT ![e] = @ \ {m}]
        /\ SetEpc(e, "send")
        /\ UNCHANGED <<held, evcnt>>
  /\ UNCHANGED <<closeVars, cgoidNext, callVars, rkVars, chanVars, flushVars>>

\* The channel is not closed under the sender's hands (Go panics if it is).
ChanOpen(c) == c = Events => "events" \notin closed

\* case *ch <- msg
SendReport(e) ==
  /\ epc[e] = "send"
  /\ HasRoom(pend[e].on) /\ ChanOpen(pend[e].on)
  /\ fill' = [fill EXCEPT ![pend[e].on] = @ + 1]
  /\ sent' = [sent EXCEPT ![pend[e].msg] =
                Append(@, [on |-> pend[e].on, opaque |-> pend[e].opaque])]
  /\ pend' = [pend EXCEPT ![e] = NoPend]
  /\ SetEpc(e, "dr")
  /\ UNCHANGED <<closeVars, cgoVars, callVars, rkVars, held, batch, evcnt, flushVars>>

\* Mutation: the last message of the event is passed over.
RangeEndsEarly(e) == Cardinality(batch[e]) <= 1

\* for _, rkmessage := range rkmessages[:cnt]
RangeEnds(e) == batch[e] = {}

\* All messages of the event are dispatched: on to the next event.
ReportsDone(e) ==
  /\ epc[e] = "dr" /\ RangeEnds(e)
  /\ SetEpc(e, "poll") /\ evcnt' = [evcnt EXCEPT ![e] = @ + 1]
  /\ UNCHANGED <<closeVars, cgoVars, callVars, rkVars, chanVars, held, batch, pend, flushVars>>

\* Any other event: case channel <- retval
SendEvent(e) ==
  /\ epc[e] = "event"
  /\ HasRoom(Events) /\ ChanOpen(Events)
  /\ fill' = [fill EXCEPT ![Events] = @ + 1]
  /\ SetEpc(e, "poll") /\ evcnt' = [evcnt EXCEPT ![e] = @ + 1]
  /\ UNCHANGED <<closeVars, cgoVars, callVars, rkVars, sent, held, batch, pend, flushVars>>

\* case <-termChan, in either select: only the poller's is ever closed.
Terminate(e) ==
  /\ epc[e] \in {"send", "event"}
  /\ e = Poller /\ "pollerTermChan" \in closed
  /\ LeaveEventPoll(e, "term")
  /\ UNCHANGED <<closeVars, cgoVars, callVars, rkVars, chanVars, flushVars>>

\* case _ = <-termChan
TermSeen == "pollerTermChan" \in closed

\* poller(): the loop around eventPoll.
PollerLoop ==
  /\ epc[Poller] = "ret"
  /\ IF TermSeen
     THEN SetEpc(Poller, "term") /\ UNCHANGED evcnt
     ELSE SetEpc(Poller, "poll") /\ evcnt' = [evcnt EXCEPT ![Poller] = 0]
  /\ UNCHANGED <<closeVars, cgoVars, callVars, rkVars, chanVars, held, batch, pend, flushVars>>

-----------------------------------------------------------------------------
(* Flush(): Len(), hand the helper a timeout, eventPoll(), and again.      *)

SetFpc(f, l) == fpc' = [fpc EXCEPT ![f] = l]

\* The call of Len() that decides whether the loop goes on, or the last one.
StartLen(f) ==
  /\ SetFpc(f, "len")
  /\ todo' = [todo EXCEPT ![f] = LenParts]
  /\ nonzero' = [nonzero EXCEPT ![f] = FALSE]

Flush(f) ==
  /\ fpc[f] = "idle" /\ ~IsClosed
  /\ StartLen(f)
  /\ before' = [before EXCEPT ![f] = {m \in Msgs : status[m] = "accepted"}]
  /\ helper' = [helper EXCEPT ![f] = "wait"]
  /\ UNCHANGED <<closeVars, cgoVars, callVars, rkVars, chanVars, pollVars, final, expired>>

\* One operand of Len(); Go does not say in which order they are read.
LenReads(f, part) ==
  /\ fpc[f] = "len" /\ part \in todo[f]
  /\ part = "outq" => Alive
  /\ todo' = [todo EXCEPT ![f] = @ \ {part}]
  /\ nonzero' = [nonzero EXCEPT ![f] = @ \/ CASE part = "produceChannel" -> produceChannel # <<>>
                                              [] part = "events" -> fill[Events] > 0
                                              [] part = "outq" -> InQueue # {} \/ others > 0]
  /\ UNCHANGED <<closeVars, cgoVars, callVars, rkVars, chanVars, pollVars, fpc, final, expired, before, helper>>

\* for p.Len() > 0, and return p.Len() after the timeout
LenDone(f) ==
  /\ fpc[f] = "len" /\ todo[f] = {}
  /\ SetFpc(f, IF ~nonzero[f] THEN "ret0" ELSE IF final[f] THEN "retN" ELSE "time")
  /\ UNCHANGED <<closeVars, cgoVars, callVars, rkVars, chanVars, pollVars, todo, nonzero, final, expired, before, helper>>

\* remain <= 0
FlushTime(f) ==
  /\ fpc[f] = "time"
  /\ \/ expired[f] /\ final' = [final EXCEPT ![f] = TRUE] /\ StartLen(f)
     \/ ~expired[f] /\ SetFpc(f, "hand") /\ UNCHANGED <<todo, nonzero, final>>
  /\ UNCHANGED <<closeVars, cgoVars, callVars, rkVars, chanVars, pollVars, expired, before, helper>>

\* flushIntervalChan <- tWait, a rendezvous with the helper; then eventPoll().
FlushHand(f) ==
  /\ fpc[f] = "hand" /\ helper[f] = "wait"
  /\ helper' = [helper EXCEPT ![f] = "flush"]
  /\ SetFpc(f, "poll")
  /\ SetEpc(f, "poll") /\ evcnt' = [evcnt EXCEPT ![f] = 0]
  /\ UNCHANGED <<closeVars, cgoVars, callVars, rkVars, chanVars, held, batch, pend, todo, nonzero, final, expired, before>>

FlushPolled(f) ==
  /\ fpc[f] = "poll" /\ epc[f] = "ret"
  /\ StartLen(f)
  /\ UNCHANGED <<closeVars, cgoVars, callVars, rkVars, chanVars, pollVars, final, expired, before, helper>>

\* timeoutMs has passed.
FlushExpire(f) ==
  /\ fpc[f] # "idle" /\ ~expired[f]
  /\ expired' = [expired EXCEPT ![f] = TRUE]
  /\ UNCHANGED <<closeVars, cgoVars, callVars, rkVars, chanVars, pollVars, fpc, todo, nonzero, final, before, helper>>

FlushReturned(f) == fpc[f] \in {"ret0", "retN"}

\* Mutation: the helper receives one interval only.
HelperNextExits == "exited"

\* for flushInterval := range flushIntervalChan
HelperNext == "wait"

\* The helper: rd_kafka_flush() returns ...
HelperFlushed(f) ==
  /\ helper[f] = "flush" /\ Alive
  /\ helper' = [helper EXCEPT ![f] = HelperNext]
  /\ UNCHANGED <<closeVars, cgoVars, callVars, rkVars, chanVars, pollVars, fpc, todo, nonzero, final, expired, before>>

\* ... and the loop ends when Flush() has closed flushIntervalChan.
HelperExit(f) ==
  /\ helper[f] = "wait" /\ FlushReturned(f)
  /\ helper' = [helper EXCEPT ![f] = "exited"]
  /\ UNCHANGED <<closeVars, cgoVars, callVars, rkVars, chanVars, pollVars, fpc, todo, nonzero, final, expired, before>>

-----------------------------------------------------------------------------
(* Close(), one action for each of its statements.                         *)

Shut(part) == closed' = closed \cup {part}

\* CompareAndSwap on isClosed.
CloseSwap ==
  /\ ~IsClosed
  /\ Quiesce => /\ \A t \in Callers : pc[t] = "idle"
                /\ \A f \in Flushers : fpc[f] = "idle" \/ FlushReturned(f)
  /\ Shut("isClosed")
  /\ UNCHANGED <<cgoVars, callVars, rkVars, chanVars, pollVars, flushVars>>

\* close(p.pollerTermChan)
ClosePollerTermChan ==
  /\ IsClosed /\ "pollerTermChan" \notin closed
  /\ Shut("pollerTermChan")
  /\ UNCHANGED <<cgoVars, callVars, rkVars, chanVars, pollVars, flushVars>>

\* close(p.produceChannel)
CloseProduceChannel ==
  /\ "pollerTermChan" \in closed /\ "produceChannel" \notin closed
  /\ Shut("produceChannel")
  /\ UNCHANGED <<cgoVars, callVars, rkVars, chanVars, pollVars, flushVars>>

\* Mutations: one of the two goroutines is not waited for.
WaitGroupNoPoller == pc[ChannelProducer] = "done"
\* p.handle.waitGroup.Wait(): the goroutines NewProducer() has started.
WaitGroupDone == epc[Poller] = "term" /\ pc[ChannelProducer] = "done"

\* close(p.events)
CloseEvents ==
  /\ "produceChannel" \in closed /\ "events" \notin closed /\ WaitGroupDone
  /\ Shut("events")
  /\ UNCHANGED <<cgoVars, callVars, rkVars, chanVars, pollVars, flushVars>>

\* p.handle.cleanup() destroys the queue, rd_kafka_destroy() the instance and
\* all that is in it.
Destroy ==
  /\ "events" \in closed /\ Alive
  /\ Shut("rk")
  /\ inflight' = {} /\ drq' = {} /\ others' = 0
  /\ UNCHANGED <<cgoVars, callVars, priv, otherLeft, chanVars, pollVars, flushVars>>

-----------------------------------------------------------------------------
\* The steps of a goroutine inside eventPoll().
EventPollStep(e) ==
  \/ QueuePoll(e) \/ PollLimit(e)
  \/ \E m \in Msgs : DispatchReport(e, m)
  \/ SendReport(e) \/ ReportsDone(e) \/ SendEvent(e) \/ Terminate(e)

\* The steps of a goroutine inside produce().
ProduceStep(t) == CgoPut(t) \/ Enqueue(t) \/ EnqueueFails(t) \/ Undo(t)

ChannelProducerStep ==
  ChannelReceive \/ ChannelDone \/ ChannelReportError \/ ProduceStep(ChannelProducer)

FlushStep(f) ==
  \/ \E part \in LenParts : LenReads(f, part)
  \/ LenDone(f) \/ FlushTime(f) \/ FlushHand(f) \/ FlushPolled(f)

HelperStep(f) == HelperFlushed(f) \/ HelperExit(f)

CloseStep == ClosePollerTermChan \/ CloseProduceChannel \/ CloseEvents \/ Destroy

Next ==
  \/ \E t \in Callers, m \in Msgs : Produce(t, m)
  \/ \E t \in Callers : ProduceStep(t)
  \/ \E m \in Msgs : WriteProduceChannel(m)
  \/ ChannelProducerStep
  \/ \E S \in SUBSET inflight : ReportBatch(S)
  \/ OtherEvent
  \/ \E c \in AllChans : Receive(c)
  \/ \E e \in Pollers : EventPollStep(e)
  \/ PollerLoop
  \/ \E f \in Flushers : Flush(f) \/ FlushStep(f) \/ FlushExpire(f) \/ HelperStep(f)
  \/ CloseSwap
  \/ CloseStep

Spec == Init /\ [][Next]_vars

\* Goroutines run; librdkafka reports every message it accepted within
\* message.timeout.ms; a timeout passes.  No call of the application but those
\* under way has to happen.
Fairness ==
  /\ \A t \in Callers : WF_vars(ProduceStep(t))
  /\ WF_vars(ChannelProducerStep)
  /\ \A e \in Pollers : WF_vars(EventPollStep(e))
  /\ WF_vars(PollerLoop)
  /\ \A f \in Flushers : WF_vars(FlushStep(f)) /\ WF_vars(FlushExpire(f)) /\ WF_vars(HelperStep(f))
  /\ WF_vars(CloseStep)
  /\ WF_vars(\E S \in SUBSET inflight : ReportBatch(S))

FairSpec == Spec /\ Fairness

\* The application keeps reading its channels.
ReadingSpec == FairSpec /\ \A c \in AllChans : WF_vars(Receive(c))

-----------------------------------------------------------------------------
(* Properties.                                                             *)

\* Messages accepted whose report has not been dispatched yet.
Undispatched == inflight \cup (UNION drq) \cup (UNION {batch[e] : e \in Pollers})
                \cup {pend[e].msg : e \in {x \in Pollers : pend[x] # NoPend}}

\* The reports a message may have: one, on the channel it was produced with or
\* else on Events(), with its own opaque.  A message of ProduceChannel() that
\* was refused comes back on Events() with its error.
OneReport(m) ==
  [on |-> IF status[m] = "rejected" THEN Events ELSE Dest(m), opaque |-> Opaque[m]]

\* Produce(): "The delivery report will be sent on the provided deliveryChan if
\* specified, or on the Producer object's Events() channel if not".  Whatever
\* the order of cgoPut, do_produce and the reports in the goroutines, no message
\* gets two reports, one on another's channel or with another's opaque.
ReportRouting == \A m \in Msgs : sent[m] \in {<<>>, <<OneReport(m)>>}

\* The cgo map has exactly one entry for each message that needs one and is
\* between cgoPut() and its cgoGet(): neither a failed produce() nor a delivery
\* report leaves one behind, until Close() drops reports.
CgoMapExact ==
  "pollerTermChan" \in closed
  \/ DOMAIN cgomap = ({cgoid[t] : t \in {x \in Producers : pc[x] \in {"enqueue", "undo"}}}
                      \cup {priv[m] : m \in Undispatched \ {pend[e].msg : e \in Pollers}}) \ {0}

\* An accepted message that has a channel to be reported on is on its way or
\* was reported, unless Close() has told the poller to stop.
NoReportLost ==
  \A m \in Msgs : status[m] = "accepted" /\ Dest(m) # Nil
                  => m \in Undispatched \/ sent[m] # <<>> \/ "pollerTermChan" \in closed

\* Flush() returning 0 means that the report of every message accepted before
\* the call has left librdkafka, whichever order Len() reads its three counts.
FlushDelivered ==
  \A f \in Flushers : fpc[f] = "ret0" => before[f] \cap Undispatched = {}

\* A goroutine about to use the C instance or its queue, or inside such a call.
UsesHandle ==
  \/ \E t \in Producers : pc[t] \in {"put", "enqueue"}
  \/ \E e \in Pollers : epc[e] \in {"poll", "dr", "send", "event"} \/ (e = Poller /\ epc[e] = "ret")
  \/ \E f \in Flushers : fpc[f] \in {"len", "time", "hand", "poll"} \/ helper[f] = "flush"

\* Close() destroys the C instance only when no goroutine uses it any more.
NoUseAfterDestroy == Alive \/ ~UsesHandle

\* No goroutine sends on Events() after Close() has closed the channel.
NoSendOnClosed ==
  "events" \in closed =>
    /\ pc[ChannelProducer] # "report"
    /\ \A e \in Pollers : epc[e] # "event" /\ pend[e].on # Events

\* Close() ends the goroutines before it takes away what they use: the C instance
\* and the events channel (producer.go:407-423).
CloseSafe == NoUseAfterDestroy /\ NoSendOnClosed

\* Every accepted message that has a channel is reported, unless Close() stops
\* the poller before.
Reported ==
  \A m \in Msgs : (status[m] = "accepted" /\ Dest(m) # Nil)
                  ~> (sent[m] # <<>> \/ "pollerTermChan" \in closed)

\* Flush(): "Runs until value reaches zero or on timeoutMs."
FlushReturns == \A f \in Flushers : (fpc[f] # "idle") ~> FlushReturned(f)

\* Close() waits for its goroutines and destroys the instance.
CloseReturns == IsClosed ~> ~Alive

\* Flush() and Close() return, whatever the pollers and callers do meanwhile.
CallsReturn == FlushReturns /\ CloseReturns

-----------------------------------------------------------------------------
\* The message is undecided while produce() is still at work on it.
Outcome == [m \in Msgs |-> IF status[m] \in {"new", "calling"} THEN "none" ELSE status[m]]

DR == INSTANCE DeliveryReports
        WITH outcome <- Outcome, reports <- sent, Destination <- [m \in Msgs |-> Dest(m)]

\* The goroutines together do what DeliveryReports promises: at most one
\* report for a message, after its outcome, on its own channel.
ImplementsDeliveryReports == DR!DRSpec
=============================================================================
