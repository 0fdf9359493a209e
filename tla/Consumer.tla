------------------------------ MODULE Consumer ------------------------------
(***************************************************************************)
(* The consumer of kafka/consumer.go: who polls librdkafka's queue, how a   *)
(* rebalance event is acknowledged, and how Close() winds everything down. *)
(*                                                                         *)
(* Goroutines: the application's (Callers), and consumerReader (Reader)    *)
(* when go.events.channel.enable is set.  librdkafka is external: it puts  *)
(* events on the consumer queue rkq and, after a rebalance event, waits    *)
(* for one of the *assign() calls before it goes on (wait).                *)
(***************************************************************************)
EXTENDS Naturals, Sequences, FiniteSets

CONSTANTS
  Partitions,
  Callers,             \* the application's goroutines
  Reader,              \* the consumerReader goroutine
  Nil,
  Modes,               \* configurations of the consumer, its group and its application
  Callbacks,           \* what the application passes to Subscribe(): a callback or not
  Quiesce,             \* the application stops its other calls before Close()
  ChanSize,            \* go.events.channel.size
  MaxEvents,           \* events per eventPoll() of the reader (1000 in the code)
  MaxQueue             \* bound: events on rkq besides a rebalance event

ASSUME ConsumerConstants ==
  /\ Reader \notin Callers
  /\ Modes \subseteq [chan : BOOLEAN, app : BOOLEAN, coop : BOOLEAN, fatal : BOOLEAN, faithful : BOOLEAN,
                     kinds : SUBSET {"msg", "error", "other"}, parts : SUBSET Partitions]
  /\ Quiesce \in BOOLEAN /\ Callbacks \subseteq BOOLEAN
  /\ {ChanSize, MaxEvents, MaxQueue} \subseteq Nat \ {0}

VARIABLES
  mode,   \* the configuration, a member of Modes that never changes
  \* struct Consumer
  isClosed, isClosing, readerTerm, events, eventsClosed, rebalanceCb, appReassigned,
  \* goroutines: program counter, who called Poll(), the event in hand
  pc, caller, ev, evcnt, expired,
  \* the application: the event it took from Events() and has to answer, the
  \* callback it asked for, and whether its callback was given the event in hand
  todo, wanted, told,
  \* librdkafka
  rkq, assigned, wait, subscribed, terminating, closed, destroyed, fatal,
  \* an *assign() call has failed
  failed

conf == <<mode, isClosed, isClosing, readerTerm>>
chan == <<events, eventsClosed>>
cbs == <<rebalanceCb, appReassigned, wanted, told>>
go == <<pc, caller, ev, evcnt, expired>>
app == <<todo>>
group == <<assigned, wait, failed>>
rk == <<rkq, subscribed, terminating, closed, destroyed, fatal>>
vars == <<conf, chan, cbs, go, app, group, rk>>

Threads == Callers \cup {Reader}

EventsChanEnable == mode.chan     \* go.events.channel.enable
AppRebalanceEnable == mode.app    \* go.application.rebalance.enable
Cooperative == mode.coop          \* the group's rebalance protocol
Fatal == mode.fatal               \* may librdkafka raise a fatal error?
Faithful == mode.faithful         \* the application answers an event with its own call, or not at all
Topics == mode.parts              \* the partitions of the topics it subscribes to
Kinds == mode.kinds               \* the kinds of events other than rebalances that librdkafka sends

\* Events: a rebalance event carries its partitions; "msg", "error" and "other"
\* (PartitionEOF, Stats, OffsetsCommitted) stand for themselves.
Rebalance(type, ps) == [type |-> type, parts |-> ps]
Plain(type) == [type |-> type, parts |-> {}]
IsRebalance(e) == e # Nil /\ e.type \in {"assign", "revoke"}
Event == [type : {"assign", "revoke", "msg", "error", "other"},
          parts : SUBSET Partitions]

ASSUME NilIsNoEvent == Nil \notin Event

-----------------------------------------------------------------------------
(* librdkafka's side of the *assign() calls: the assignment each of them    *)
(* asks for, and which of them the rebalance protocol allows.               *)
Calls == {"assign", "unassign", "incrementalAssign", "incrementalUnassign"}

Requested(call, ps) == CASE call = "assign" -> ps
                         [] call = "unassign" -> {}
                         [] call = "incrementalAssign" -> assigned \cup ps
                         [] call = "incrementalUnassign" -> assigned \ ps

Allowed(call) == /\ ~fatal
                 /\ call = "assign" => ~Cooperative
                 /\ call \in {"incrementalAssign", "incrementalUnassign"} => Cooperative

\* The call succeeds and acknowledges the outstanding rebalance ...
CallOk(call, ps) ==
  /\ Allowed(call)
  /\ assigned' = Requested(call, ps)
  /\ wait' = Nil
  /\ UNCHANGED failed

\* ... or fails: the assignment is left alone, or dropped altogether.
CallFails(call) ==
  /\ ~Allowed(call)
  /\ failed' = TRUE
  /\ \/ UNCHANGED <<assigned, wait>>
     \/ fatal /\ assigned' = {} /\ wait' = Nil

\* The call that answers a rebalance event.
\* (AnswerEager: a revocation gives up everything, whatever the protocol.)
AnswerEager(e) == CASE e.type = "assign" /\ Cooperative -> "incrementalAssign"
                    [] e.type = "assign" /\ ~Cooperative -> "assign"
                    [] e.type = "revoke" -> "unassign"
Answer(e) == CASE e.type = "assign" /\ Cooperative -> "incrementalAssign"
               [] e.type = "assign" /\ ~Cooperative -> "assign"
               [] e.type = "revoke" /\ Cooperative -> "incrementalUnassign"
               [] e.type = "revoke" /\ ~Cooperative -> "unassign"

-----------------------------------------------------------------------------
Init ==
  /\ mode \in Modes
  /\ isClosed = FALSE /\ isClosing = FALSE /\ readerTerm = FALSE
  /\ events = <<>> /\ eventsClosed = FALSE
  /\ rebalanceCb = FALSE /\ appReassigned = FALSE /\ wanted = FALSE
  /\ told = [t \in Threads |-> FALSE]
  /\ pc = [t \in Threads |-> IF t # Reader THEN "idle"
                             ELSE IF EventsChanEnable THEN "loop" ELSE "done"]
  /\ caller = [t \in Threads |-> Nil]
  /\ ev = [t \in Threads |-> Nil]
  /\ evcnt = 0
  /\ expired = [t \in Threads |-> FALSE]
  /\ todo = Nil
  /\ rkq = <<>> /\ subscribed = FALSE
  /\ terminating = FALSE /\ closed = FALSE /\ destroyed = FALSE /\ fatal = FALSE
  /\ assigned = {} /\ wait = Nil /\ failed = FALSE

\* The application starts a call: verifyClient() passes.  With Quiesce it does
\* not once Close() has begun.
MayCall(t) == /\ t \in Callers
              /\ pc[t] = "idle"
              /\ ~isClosed
              /\ Quiesce => ~isClosing

Goto(t, l) == pc' = [pc EXCEPT ![t] = l]

-----------------------------------------------------------------------------
(* Subscribe, Unsubscribe, and the calls that only query or update offsets. *)

\* SubscribeTopics() subscribes first ...
SubscribeTopics(t, cb) ==
  /\ MayCall(t)
  /\ \A u \in Callers : pc[u] # "setCb"
  /\ subscribed' = TRUE
  /\ wanted' = cb
  /\ Goto(t, "setCb")
  /\ UNCHANGED <<conf, chan, rebalanceCb, appReassigned, told, caller, ev, evcnt, expired, app, group,
                 rkq, terminating, closed, destroyed, fatal>>

\* ... and sets the callback afterwards.
SetRebalanceCb(t) ==
  /\ pc[t] = "setCb"
  /\ rebalanceCb' = wanted
  /\ Goto(t, "idle")
  /\ UNCHANGED <<conf, chan, appReassigned, wanted, told, caller, ev, evcnt, expired, app, group, rk>>

Unsubscribe(t) ==
  /\ MayCall(t)
  /\ subscribed' = FALSE
  /\ UNCHANGED <<conf, chan, cbs, go, app, group,
                 rkq, terminating, closed, destroyed, fatal>>

\* Commit(), StoreOffsets(), Seek(), Pause(), Assignment(), ...: a call into
\* librdkafka between verifyClient() and the return.
Call(t) ==
  /\ MayCall(t)
  /\ Goto(t, "call")
  /\ UNCHANGED <<conf, chan, cbs, caller, ev, evcnt, expired, app, group, rk>>

CallReturns(t) ==
  /\ pc[t] = "call"
  /\ Goto(t, "idle")
  /\ UNCHANGED <<conf, chan, cbs, caller, ev, evcnt, expired, app, group, rk>>

-----------------------------------------------------------------------------
(* Assign(), Unassign(), IncrementalAssign() and IncrementalUnassign().      *)
AssignCall(call, ps) ==
  /\ appReassigned' = TRUE
  /\ CallOk(call, ps) \/ CallFails(call)

\* What the application may ask for when it has e in its hands.
Choices(e) == IF Faithful THEN {<<Answer(e), e.parts>>} ELSE Calls \X {{}, e.parts, Topics}

\* On its own, without an event.
Assign(t, call, ps) ==
  /\ MayCall(t)
  /\ ~Faithful
  /\ AssignCall(call, ps)
  /\ UNCHANGED <<conf, chan, rebalanceCb, wanted, told, go, app, rk>>

\* The application reads Events(), and answers a rebalance event it got there.
TakeEvent(t) ==
  /\ t \in Callers /\ pc[t] = "idle"
  /\ events # <<>>
  /\ todo = Nil
  /\ events' = Tail(events)
  /\ todo' = IF IsRebalance(Head(events)) THEN Head(events) ELSE Nil
  /\ UNCHANGED <<conf, eventsClosed, cbs, go, group, rk>>

AnswerEvent(t) ==
  /\ t \in Callers /\ pc[t] = "idle"
  /\ todo # Nil
  /\ IF isClosed THEN UNCHANGED <<appReassigned, group>>
     ELSE \E c \in Choices(todo) : AssignCall(c[1], c[2])
  /\ todo' = Nil
  /\ UNCHANGED <<conf, chan, rebalanceCb, wanted, told, go, rk>>

-----------------------------------------------------------------------------
(* Poll(), ReadMessage() and eventPoll().                                    *)

\* Poll() and ReadMessage() as the application calls them.
BeginPoll(t, by) ==
  /\ MayCall(t)
  /\ ~EventsChanEnable
  /\ Goto(t, "poll")
  /\ caller' = [caller EXCEPT ![t] = by]
  /\ expired' = [expired EXCEPT ![t] = FALSE]
  /\ UNCHANGED <<conf, chan, cbs, ev, evcnt, app, group, rk>>

\* The deadline of a ReadMessage() passes.
Expire(t) ==
  /\ caller[t] = "read" /\ ~expired[t]
  /\ expired' = [expired EXCEPT ![t] = TRUE]
  /\ UNCHANGED <<conf, chan, cbs, pc, caller, ev, evcnt, app, group, rk>>

\* ReadMessage() returns a message, an error, or, past its deadline, no event;
\* it polls again after any other event.
ReadAgain(t, e) == IF e = Nil THEN ~expired[t] ELSE e.type \notin {"msg", "error"}

\* Where eventPoll() returns to when it returns e: the reader polls on, up to
\* MaxEvents times, before it looks at readerTermChan again.
After(t, e) == CASE t = Reader -> IF evcnt + 1 < MaxEvents THEN "poll" ELSE "loop"
                 [] t # Reader /\ caller[t] = "close" -> "closing"
                 [] t # Reader /\ caller[t] = "poll" -> "idle"
                 [] t # Reader /\ caller[t] = "read" -> IF ReadAgain(t, e) THEN "poll" ELSE "idle"

Return(t, e) ==
  /\ Goto(t, After(t, e))
  /\ ev' = [ev EXCEPT ![t] = Nil]
  /\ caller' = [caller EXCEPT ![t] = IF After(t, e) = "idle" THEN Nil ELSE @]
  /\ expired' = [expired EXCEPT ![t] = IF After(t, e) = "idle" THEN FALSE ELSE @]
  /\ evcnt' = IF t # Reader THEN evcnt ELSE IF After(t, e) = "poll" THEN evcnt + 1 ELSE 0

\* An event is taken off the queue: a rebalance event is handled, another one is
\* sent by the reader or returned by Poll().
PollEvent(t) ==
  /\ pc[t] = "poll"
  /\ rkq # <<>>
  /\ rkq' = Tail(rkq)
  /\ told' = [told EXCEPT ![t] = FALSE]
  /\ IF IsRebalance(Head(rkq)) \/ t = Reader
     THEN /\ ev' = [ev EXCEPT ![t] = Head(rkq)]
          /\ Goto(t, IF IsRebalance(Head(rkq)) THEN "rebalance" ELSE "send")
          /\ UNCHANGED <<caller, evcnt, expired>>
     ELSE Return(t, Head(rkq))
  /\ UNCHANGED <<conf, chan, rebalanceCb, appReassigned, wanted, app, group, subscribed, terminating, closed, destroyed, fatal>>

\* The poll times out.
PollNone(t) ==
  /\ pc[t] = "poll"
  /\ rkq = <<>>
  /\ IF t = Reader THEN /\ Goto(t, "loop")
                        /\ evcnt' = 0
                        /\ UNCHANGED <<caller, ev, expired>>
                   ELSE Return(t, Nil)
  /\ UNCHANGED <<conf, chan, cbs, app, group, rk>>

\* The reader sends what it holds on the events channel ...
Send(t) ==
  /\ pc[t] = "send"
  /\ Len(events) < ChanSize
  /\ events' = Append(events, ev[t])
  /\ Return(t, ev[t])
  /\ UNCHANGED <<conf, eventsClosed, cbs, app, group, rk>>

\* ... unless readerTermChan is closed: select may take that branch, and drops it.
SendTerminated(t) ==
  /\ pc[t] = "send"
  /\ readerTerm
  /\ Goto(t, "done")
  /\ ev' = [ev EXCEPT ![t] = Nil]
  /\ UNCHANGED <<conf, chan, cbs, caller, evcnt, expired, app, group, rk>>

\* consumerReader() looks at readerTermChan between two calls of eventPoll().
ReaderLoop(t) ==
  /\ pc[t] = "loop"
  /\ Goto(t, IF readerTerm THEN "done" ELSE "poll")
  /\ UNCHANGED <<conf, chan, cbs, caller, ev, evcnt, expired, app, group, rk>>

-----------------------------------------------------------------------------
(* handleRebalanceEvent().                                                   *)

\* The event goes to the application over the channel, or to the callback, or
\* is answered here.
HandleRebalance(t) ==
  /\ pc[t] = "rebalance"
  /\ \/ /\ t = Reader /\ AppRebalanceEnable /\ ~rebalanceCb
        /\ Goto(t, "send")
        /\ UNCHANGED <<appReassigned, told>>
     \/ /\ rebalanceCb
        /\ appReassigned' = FALSE
        /\ told' = [told EXCEPT ![t] = TRUE]
        /\ Goto(t, "callback")
     \/ /\ ~(t = Reader /\ AppRebalanceEnable) /\ ~rebalanceCb
        /\ Goto(t, "assign")
        /\ UNCHANGED <<appReassigned, told>>
  /\ UNCHANGED <<conf, chan, rebalanceCb, wanted, caller, ev, evcnt, expired, app, group, rk>>

\* The callback may call Assign() and the like (once) ...
CallbackAssigns(t) ==
  /\ pc[t] = "callback"
  /\ ~appReassigned
  /\ \E c \in Choices(ev[t]) : AssignCall(c[1], c[2])
  /\ UNCHANGED <<conf, chan, rebalanceCb, wanted, told, go, app, rk>>

\* (CallbackSuffices: the event counts as handled once the callback returns.)
CallbackSuffices(t) ==
  /\ pc[t] = "callback"
  /\ Return(t, Nil)
  /\ UNCHANGED <<conf, chan, cbs, app, group, rk>>

\* ... and returns: the event is handled if it did.
CallbackReturns(t) ==
  /\ pc[t] = "callback"
  /\ IF appReassigned THEN Return(t, Nil)
     ELSE Goto(t, "assign") /\ UNCHANGED <<caller, ev, evcnt, expired>>
  /\ UNCHANGED <<conf, chan, cbs, app, group, rk>>

\* No callback, or it made no call: answer the event with the call the protocol
\* asks for.
DefaultAssign(t) ==
  /\ pc[t] = "assign"
  /\ \/ CallOk(Answer(ev[t]), ev[t].parts) /\ Return(t, Nil)
     \/ /\ CallFails(Answer(ev[t]))
        /\ Goto(t, "forward")
        /\ UNCHANGED <<caller, ev, evcnt, expired>>
  /\ UNCHANGED <<conf, chan, cbs, app, rk>>

\* The error of a failed call is sent on c.events: a nil channel, without
\* EventsChanEnable, blocks for ever; a closed one panics.
ForwardError(t) ==
  /\ pc[t] = "forward"
  /\ EventsChanEnable
  /\ IF eventsClosed
     THEN /\ Goto(t, "panic")
          /\ UNCHANGED <<events, caller, ev, evcnt, expired>>
     ELSE /\ Len(events) < ChanSize
          /\ events' = Append(events, Plain("error"))
          /\ Return(t, Nil)
  /\ UNCHANGED <<conf, eventsClosed, cbs, app, group, rk>>

-----------------------------------------------------------------------------
(* Close(), statement by statement.                                          *)

\* verifyClient(), the compare-and-swap of isClosing, close(readerTermChan).
\* With Quiesce the application has no other call going on and owes no answer.
CloseBegin(t) ==
  /\ MayCall(t)
  /\ ~isClosing
  /\ Quiesce => todo = Nil /\ \A u \in Callers \ {t} : pc[u] = "idle"
  /\ isClosing' = TRUE
  /\ readerTerm' = TRUE
  /\ Goto(t, "join")
  /\ UNCHANGED <<mode, isClosed, chan, cbs, caller, ev, evcnt, expired, app, group, rk>>

\* (CloseForgetsReader: neither waits for the reader nor closes its channel.)
CloseForgetsReader(t) ==
  /\ pc[t] = "join"
  /\ terminating' = TRUE
  /\ Goto(t, "closing")
  /\ UNCHANGED <<conf, chan, cbs, caller, ev, evcnt, expired, app, group,
                 rkq, subscribed, closed, destroyed, fatal>>

\* waitGroup.Wait(), close(c.events), rd_kafka_consumer_close_queue().
CloseJoin(t) ==
  /\ pc[t] = "join"
  /\ pc[Reader] = "done"
  /\ eventsClosed' = EventsChanEnable
  /\ terminating' = TRUE
  /\ Goto(t, "closing")
  /\ UNCHANGED <<conf, events, cbs, caller, ev, evcnt, expired, app, group,
                 rkq, subscribed, closed, destroyed, fatal>>

\* (CloseWaits: the loop waits and serves no events.)
CloseWaits(t) ==
  /\ pc[t] = "closing"
  /\ closed
  /\ isClosed' = TRUE
  /\ Goto(t, "destroy")
  /\ UNCHANGED <<mode, isClosing, readerTerm, chan, cbs, caller, ev, evcnt, expired, app, group, rk>>

\* The loop polls until librdkafka has closed the consumer.
CloseLoop(t) ==
  /\ pc[t] = "closing"
  /\ IF closed
     THEN /\ isClosed' = TRUE
          /\ Goto(t, "destroy")
          /\ UNCHANGED caller
     ELSE /\ Goto(t, "poll")
          /\ caller' = [caller EXCEPT ![t] = "close"]
          /\ UNCHANGED isClosed
  /\ UNCHANGED <<mode, isClosing, readerTerm, chan, cbs, ev, evcnt, expired, app, group, rk>>

CloseDestroy(t) ==
  /\ pc[t] = "destroy"
  /\ destroyed' = TRUE
  /\ Goto(t, "done")
  /\ UNCHANGED <<conf, chan, cbs, caller, ev, evcnt, expired, app, group,
                 rkq, subscribed, terminating, closed, fatal>>

-----------------------------------------------------------------------------
(* librdkafka.                                                               *)

\* The group assigns partitions; an eager group assigns all at once.
RkAssign(ps) ==
  /\ subscribed /\ ~terminating
  /\ wait = Nil
  /\ Len(rkq) <= MaxQueue
  /\ ps # {} /\ ps \cap assigned = {}
  /\ ~Cooperative => assigned = {}
  /\ wait' = Rebalance("assign", ps)
  /\ rkq' = Append(rkq, wait')
  /\ UNCHANGED <<conf, chan, cbs, go, app, assigned, failed, subscribed, terminating, closed, destroyed, fatal>>

\* It revokes them: all of them, or some in a cooperative group.  A consumer
\* that closes revokes all it has.
RkRevoke(ps) ==
  /\ wait = Nil
  /\ Len(rkq) <= MaxQueue
  /\ ps # {} /\ ps \subseteq assigned
  /\ ~Cooperative \/ terminating => ps = assigned
  /\ wait' = Rebalance("revoke", ps)
  /\ rkq' = Append(rkq, wait')
  /\ UNCHANGED <<conf, chan, cbs, go, app, assigned, failed, subscribed, terminating, closed, destroyed, fatal>>

\* A message of an assigned partition, an error, or any other event.
RkEvent(type) ==
  /\ type = "msg" => assigned # {}
  /\ ~closed
  /\ Len(rkq) < MaxQueue
  /\ rkq' = Append(rkq, Plain(type))
  /\ UNCHANGED <<conf, chan, cbs, go, app, group, subscribed, terminating, closed, destroyed, fatal>>

RkFatal ==
  /\ Fatal /\ ~fatal /\ ~closed
  /\ fatal' = TRUE
  /\ UNCHANGED <<conf, chan, cbs, go, app, group, rkq, subscribed, terminating, closed, destroyed>>

\* Every rebalance is answered and every partition given back.
RkClosed ==
  /\ terminating /\ ~closed
  /\ wait = Nil /\ assigned = {}
  /\ closed' = TRUE
  /\ UNCHANGED <<conf, chan, cbs, go, app, group, rkq, subscribed, terminating, destroyed, fatal>>

\* librdkafka's part in Close().
RkTerminates == RkClosed \/ (terminating /\ RkRevoke(assigned))

-----------------------------------------------------------------------------
\* What a goroutine does once it has begun.
Step(t) ==
  \/ SetRebalanceCb(t) \/ CallReturns(t)
  \/ PollEvent(t) \/ PollNone(t) \/ Send(t) \/ SendTerminated(t) \/ ReaderLoop(t)
  \/ HandleRebalance(t) \/ CallbackReturns(t) \/ DefaultAssign(t) \/ ForwardError(t)
  \/ CloseJoin(t) \/ CloseLoop(t) \/ CloseDestroy(t)

\* What the application may do.
Application(t) ==
  \/ \E cb \in Callbacks : SubscribeTopics(t, cb)
  \/ Unsubscribe(t)
  \/ Call(t)
  \/ \E call \in Calls, ps \in {{}, Topics} : Assign(t, call, ps)
  \/ TakeEvent(t) \/ AnswerEvent(t)
  \/ \E by \in {"poll", "read"} : BeginPoll(t, by)
  \/ CallbackAssigns(t)
  \/ CloseBegin(t)

Librdkafka ==
  \/ \E ps \in SUBSET Topics : RkAssign(ps) \/ RkRevoke(ps)
  \/ \E type \in Kinds : RkEvent(type)
  \/ RkFatal
  \/ RkClosed

Next ==
  \/ \E t \in Threads : Step(t) \/ Application(t) \/ Expire(t)
  \/ Librdkafka

Spec == Init /\ [][Next]_vars

\* Goroutines that have begun go on, callbacks return, librdkafka finishes a
\* close, and the application serves the events channel.
FairSpec ==
  /\ Spec
  /\ \A t \in Threads : WF_vars(Step(t)) /\ WF_vars(Expire(t))
  /\ WF_vars(RkTerminates)
  /\ \A t \in Callers : WF_vars(TakeEvent(t)) /\ WF_vars(AnswerEvent(t))

-----------------------------------------------------------------------------
\* Types; the events channel keeps to its capacity and eventPoll() to its limit
\* (consumer.go:666, event.go:164).
TypeOK ==
  /\ {isClosed, isClosing, readerTerm, eventsClosed} \subseteq BOOLEAN
  /\ {rebalanceCb, appReassigned, wanted, subscribed, terminating, closed, destroyed, fatal, failed} \subseteq BOOLEAN
  /\ events \in Seq(Event) /\ Len(events) <= ChanSize
  /\ rkq \in Seq(Event) /\ Len(rkq) <= MaxQueue + 1
  /\ told \in [Threads -> BOOLEAN]
  /\ pc \in [Threads -> {"idle", "setCb", "call", "poll", "send", "loop", "rebalance", "callback", "assign",
                         "forward", "panic", "join", "closing", "destroy", "done"}]
  /\ caller \in [Threads -> {Nil, "poll", "read", "close"}]
  /\ ev \in [Threads -> Event \cup {Nil}]
  /\ evcnt \in 0 .. MaxEvents - 1
  /\ expired \in [Threads -> BOOLEAN]
  /\ todo \in Event \cup {Nil} /\ wait \in Event \cup {Nil}
  /\ assigned \subseteq Partitions

\* Where a rebalance event may be until it is answered.
InHand(t, e) == ev[t] = e /\ pc[t] \in {"rebalance", "callback", "assign", "send"}
Pending(e) == \/ \E i \in 1 .. Len(rkq) : rkq[i] = e
              \/ \E t \in Threads : InHand(t, e)
              \/ \E i \in 1 .. Len(events) : events[i] = e
              \/ todo = e

\* A rebalance event that librdkafka waits for is on its way to whoever answers
\* it: no poll, callback or channel loses it, unless an *assign() call failed.
RebalanceNotLost == wait # Nil => failed \/ Pending(wait)

\* The same as the code keeps it: where the application answers over the events
\* channel, only as long as Close() has not begun (event.go:300-303).
RebalanceAnswerable == (AppRebalanceEnable /\ isClosing) \/ RebalanceNotLost

\* A polling consumer answers an event itself only after the callback the
\* application asked for in Subscribe() was given it (consumer.go:1040-1050).  The
\* reader goroutine may poll between the subscription and the line that sets the
\* callback (109), and answer the first event over its head.
CallbackFirst == \A t \in Threads : pc[t] = "assign" /\ wanted => told[t] \/ EventsChanEnable

\* No rebalance is lost or answered over the callback's head.
RebalanceHandled == RebalanceAnswerable /\ CallbackFirst

\* Once librdkafka's instance is destroyed no goroutine is in a call that uses it.
NoUseAfterDestroy ==
  destroyed => \A t \in Threads : pc[t] \in {"idle", "done", "panic"}

\* Close() closes the events channel only when no goroutine is about to send on
\* it (consumer.go:545-548), as long as no *assign() call fails: the error of one
\* that fails during Close() is sent there all the same (1083).
NoSendOnClosed ==
  eventsClosed /\ ~failed => \A t \in Threads : pc[t] \notin {"send", "forward", "panic"}

\* Close() takes the instance and the channel away only when nobody uses them,
\* and the channel and librdkafka's queue keep their limits until then.
CloseSafe == TypeOK /\ NoUseAfterDestroy /\ NoSendOnClosed

\* Close() returns, full channel and unread events or not, where the answers to
\* rebalances do not travel over that channel and none of them fails
\* (consumer.go:531-568).
CloseReturns == \A t \in Callers : pc[t] = "join" /\ ~AppRebalanceEnable ~> pc[t] = "done" \/ failed

\* A Poll() the application makes returns (consumer.go:450).
PollReturns == \A t \in Callers : caller[t] = "poll" ~> pc[t] = "idle"

\* ReadMessage() returns by its deadline.
ReadMessageReturns == \A t \in Callers : caller[t] = "read" ~> pc[t] = "idle"

\* The calls of the application return.
CallsReturn == CloseReturns /\ PollReturns /\ ReadMessageReturns

GM == INSTANCE GroupMember WITH cooperative <- Cooperative

\* Every rebalance is answered once, with the change it asks for, whether by the
\* callback or by handleRebalanceEvent() itself (consumer.go:1040-1078), as long
\* as the application makes no *assign() calls of its own and none of them fails.
ImplementsGroupMember == GM!GMInit /\ [][Faithful => GM!GMNext \/ failed']_GM!gmvars
=============================================================================
