----------------------------- MODULE AdminClient -----------------------------
(***************************************************************************)
(* The admin client of kafka/adminapi.go: the life of a call from its      *)
(* arguments to its result, with the goroutine of waitResult(), the C      *)
(* objects it makes and destroys, the log poller of kafka/log.go, and      *)
(* Close() of this client and of the client it is derived from.            *)
(*                                                                         *)
(* librdkafka is external: it answers a request with an event on the       *)
(* call's own queue, or the answer of a blocking call.                     *)
(***************************************************************************)
EXTENDS AdminRequests, AdminResults

CONSTANTS
  Callers,        \* the application's goroutines
  Uses,           \* what an instance is used for: [derived, logs, closes]
  Ops(_, _),      \* the operations a caller makes in it
  Inputs(_),      \* the arguments of each operation
  Responses(_),   \* librdkafka's answers to it
  Contexts(_),    \* the contexts given to it: "deadline", "background" (never done) or "nil"
  OptionLists(_), \* the options given to it
  LogSize         \* capacity of the log channel

\* The operations that send a request, those that ask librdkafka from a
\* goroutine of their own, and those that make one call into it.
Requests == {"CreateTopics", "DeleteTopics", "CreatePartitions", "AlterConfigs", "IncrementalAlterConfigs",
             "DescribeConfigs", "CreateACLs", "DescribeACLs", "DeleteACLs", "ListConsumerGroups",
             "DescribeConsumerGroups", "DescribeTopics", "DescribeCluster", "DeleteConsumerGroups",
             "ListConsumerGroupOffsets", "AlterConsumerGroupOffsets", "DescribeUserScramCredentials",
             "AlterUserScramCredentials", "ListOffsets", "DeleteRecords", "ElectLeaders"}
Queries == {"ClusterID", "ControllerID"}
Directs == {"GetMetadata", "SetOAuthBearerToken", "SetOAuthBearerTokenFailure", "SetSaslCredentials"}

ASSUME AdminConstants ==
  /\ \A u \in Uses, t \in Callers : Ops(u, t) \subseteq Requests \cup Queries \cup Directs
  /\ \A o \in Requests \cup Queries \cup Directs : Contexts(o) \subseteq {"deadline", "background", "nil"}
  /\ \A o \in Requests : \A options \in OptionLists(o) :
       /\ DOMAIN options \subseteq Nat
       /\ \A i \in DOMAIN options : \E v \in OptionValues : options[i] \in AdminOptions(o, v)
  /\ LogSize \in Nat \ {0}

VARIABLES
  use, isClosed, handle,  \* struct AdminClient: its use, and a.handle ("set" or "empty")
  rk, parentClosed,       \* the librdkafka instance, and whether the parent's Close() ran
  calls,                  \* the calls: one of each caller
  closer, log             \* Close(), and the log channel

client == <<use, isClosed, handle, rk, parentClosed>>
vars == <<client, calls, closer, log>>

Prepare(o, in) ==
  CASE o = "CreateTopics" -> CreateTopics(in)
    [] o = "DeleteTopics" -> DeleteTopics(in)
    [] o = "CreatePartitions" -> CreatePartitions(in)
    [] o = "AlterConfigs" -> AlterConfigs(in)
    [] o = "IncrementalAlterConfigs" -> IncrementalAlterConfigs(in)
    [] o = "DescribeConfigs" -> DescribeConfigs(in)
    [] o = "CreateACLs" -> CreateACLs(in)
    [] o = "DescribeACLs" -> DescribeACLs(in)
    [] o = "DeleteACLs" -> DeleteACLs(in)
    [] o = "ListConsumerGroups" -> ListConsumerGroups(in)
    [] o = "DescribeConsumerGroups" -> DescribeConsumerGroups(in)
    [] o = "DescribeTopics" -> DescribeTopics(in)
    [] o = "DescribeCluster" -> DescribeCluster(in)
    [] o = "DeleteConsumerGroups" -> DeleteConsumerGroups(in)
    [] o = "ListConsumerGroupOffsets" -> ListConsumerGroupOffsets(in)
    [] o = "AlterConsumerGroupOffsets" -> AlterConsumerGroupOffsets(in)
    [] o = "DescribeUserScramCredentials" -> DescribeUserScramCredentials(in)
    [] o = "AlterUserScramCredentials" -> AlterUserScramCredentials(in)
    [] o = "ListOffsets" -> ListOffsets(in)
    [] o = "DeleteRecords" -> DeleteRecords(in)
    [] o = "ElectLeaders" -> ElectLeaders(in)
    [] o = "SetOAuthBearerToken" -> setOAuthBearerToken(in)
    [] o = "SetOAuthBearerTokenFailure" -> setOAuthBearerTokenFailure(in)
    [] o = "SetSaslCredentials" -> setSaslCredentials(in)
    [] o \in Queries \cup {"GetMetadata"} -> Request(Nothing)

Convert(o, r) ==
  CASE o \in {"CreateTopics", "DeleteTopics", "CreatePartitions"} -> cToTopicResults(r)
    [] o \in {"AlterConfigs", "IncrementalAlterConfigs", "DescribeConfigs"} -> cConfigResourceToResult(r)
    [] o = "CreateACLs" -> cToCreateACLResults(r)
    [] o = "DescribeACLs" -> <<cToDescribeACLsResult(r[1])>>
    [] o = "DeleteACLs" -> cToDeleteACLsResults(r)
    [] o = "ListConsumerGroups" ->
         cToConsumerGroupListings(SelectSeq(r, LAMBDA e : e.error = NoError))
           \o cToErrorList(SelectSeq(r, LAMBDA e : e.error # NoError))
    [] o = "DescribeConsumerGroups" -> cToConsumerGroupDescriptions(r)
    [] o = "DescribeTopics" -> cToTopicDescriptions(r)
    [] o = "DescribeCluster" -> <<cToDescribeClusterResult(r[1])>>
    [] o = "DeleteConsumerGroups" -> cToConsumerGroupResults(r)
    [] o \in {"ListConsumerGroupOffsets", "AlterConsumerGroupOffsets"} -> cToConsumerGroupTopicPartitions(r)
    [] o = "DescribeUserScramCredentials" -> cToDescribeUserScramCredentialsResult(r)
    [] o = "AlterUserScramCredentials" -> AlterUserScramErrors(r)
    [] o = "ListOffsets" -> cToListOffsetsResult(r)
    [] o = "DeleteRecords" -> cToDeletedRecordResult(r)
    [] o = "ElectLeaders" -> newTopicPartitionsFromCTopicPartitionResult(r)

-----------------------------------------------------------------------------
NoEvent == [kind |-> "none", resp |-> <<>>]
Events(o) == {[kind |-> k, resp |-> <<>>] : k \in {"error", "otherType"}}
               \cup {[kind |-> "ok", resp |-> r] : r \in Responses(o)}

\* A call before it begins.  made: the C objects it has now; deferred: those its
\* return will destroy; reply: the event on its queue, hand: off it; bad: it has
\* used a handle that is nil or destroyed; raced: it overlaps a Close().
NoCall == [pc |-> "idle", op |-> "none", plan |-> Request(Nothing), ctx |-> "nil",
           made |-> {}, deferred |-> {}, twice |-> FALSE, pending |-> FALSE, reply |-> NoEvent, hand |-> NoEvent,
           closeChan |-> FALSE, waiter |-> "none", bad |-> FALSE, raced |-> FALSE,
           ret |-> "none", result |-> <<>>]

Object(kind) == <<kind, 0>>

Init ==
  /\ use \in Uses
  /\ isClosed = FALSE /\ handle = "set"
  /\ rk = "live" /\ parentClosed = FALSE
  /\ calls = [t \in Callers |-> NoCall]
  /\ closer = "none"
  /\ log = [term |-> FALSE, poller |-> IF use.logs = "none" THEN "done" ELSE "loop", sent |-> 0,
            closed |-> FALSE, queue |-> IF use.logs = "none" THEN "none" ELSE "live", held |-> FALSE]

\* A call goes on with the record r.
Now(t, r) == /\ calls' = [calls EXCEPT ![t] = r]
             /\ UNCHANGED <<client, closer, log>>

Destroy(r, objs) == [r EXCEPT !.made = @ \ objs, !.twice = @ \/ ~(objs \subseteq r.made)]

\* The call returns (or panics): its deferred calls run.  A queue is destroyed
\* with the event that is still on it.
Return(r, how) ==
  LET q == IF Object("queue") \in r.deferred /\ r.reply # NoEvent THEN {Object("event")} ELSE {}
  IN [Destroy(r, r.deferred \cup q) EXCEPT !.pc = "done", !.ret = how, !.deferred = {}, !.reply = NoEvent]

\* Every read of a.handle.rk.
Using(r) == [r EXCEPT !.bad = @ \/ handle = "empty" \/ rk = "destroyed"]

-----------------------------------------------------------------------------
(* A call up to the asynchronous request.                                   *)

\* verifyClient().
verifyClient(p) == p.verified => ~isClosed

\* verifyClient() and the conversion of the arguments.
Begin(t, o, in, c) ==
  /\ calls[t].pc = "idle"
  /\ LET p == Prepare(o, in)
         r == [NoCall EXCEPT !.op = o, !.plan = [p EXCEPT !.conv = Nothing], !.ctx = c, !.made = p.conv.made,
                             !.deferred = p.conv.made \ p.conv.leaked]
     IN Now(t, IF ~verifyClient(p) THEN [NoCall EXCEPT !.op = o, !.plan = r.plan, !.pc = "done", !.ret = "closed"]
               ELSE IF p.conv.end # "ok" THEN Return(r, p.conv.end)
               ELSE [r EXCEPT !.pc = CASE o \in Requests -> "options" [] o \in Queries -> "ask" [] o \in Directs -> "direct",
                              !.waiter = IF o \in Queries THEN "ask" ELSE "none"])

adminOptionsSetup(r, options) ==
  LET o == [r EXCEPT !.made = @ \cup {Object("options")}]
      applied == Applied(options)
  IN CASE applied = "ok" -> [o EXCEPT !.pc = "queue",
                                      !.deferred = @ \cup IF o.plan.freesOptions THEN {Object("options")} ELSE {}]
       [] applied = "refused" -> Return(Destroy(o, {Object("options")}), "invalid")
       [] applied = "panic" -> Return(o, "panic")

Options(t, options) ==
  /\ calls[t].pc = "options"
  /\ Now(t, adminOptionsSetup(Using(calls[t]), options))

NewQueue(t) ==
  /\ calls[t].pc = "queue"
  /\ Now(t, [Using(calls[t]) EXCEPT !.made = @ \cup {Object("queue")}, !.deferred = @ \cup {Object("queue")},
                                   !.pc = "request"])

\* The request is sent and waitResult() starts its goroutine.
SendRequest(t) ==
  /\ calls[t].pc = "request"
  /\ Now(t, IF calls[t].plan.indexes THEN Return(calls[t], "panic")
             ELSE [Using(calls[t]) EXCEPT !.pending = TRUE, !.pc = "wait", !.waiter = "loop"])

-----------------------------------------------------------------------------
(* waitResult().                                                            *)

\* The goroutine looks at closeChan, ...
WaiterLoop(t) ==
  /\ calls[t].waiter = "loop"
  /\ Now(t, [calls[t] EXCEPT !.waiter = IF calls[t].closeChan THEN "exit" ELSE "poll"])

\* ... polls the queue for 50 ms, and holds an event out on resultChan.
WaiterPoll(t) ==
  /\ calls[t].waiter = "poll"
  /\ Now(t, IF calls[t].reply = NoEvent THEN [calls[t] EXCEPT !.waiter = "loop"]
             ELSE [calls[t] EXCEPT !.hand = calls[t].reply, !.reply = NoEvent, !.waiter = "send"])

\* (ResultKept: an error event is not destroyed.)
ResultKept(r) == IF r.hand.kind # "ok" THEN Return(r, "error")
                 ELSE [r EXCEPT !.closeChan = TRUE, !.deferred = @ \cup {Object("event")}, !.pc = "convert"]
\* The event is not of the type expected, or carries an error: it is destroyed.
Result(r) == IF r.hand.kind # "ok" THEN Return(Destroy(r, {Object("event")}), "error")
             ELSE [r EXCEPT !.closeChan = TRUE, !.deferred = @ \cup {Object("event")}, !.pc = "convert"]

WaitResult(t) ==
  /\ calls[t].pc = "wait" /\ calls[t].ctx # "nil"
  /\ calls[t].waiter = "send"
  /\ Now(t, Result([calls[t] EXCEPT !.waiter = "exit"]))

\* (CancelNow: the goroutine is not waited for.)
CancelNow(t) ==
  /\ calls[t].pc = "wait" /\ calls[t].ctx = "done"
  /\ Now(t, Return([calls[t] EXCEPT !.closeChan = TRUE], "ctx"))

\* The context is done: closeChan is closed, and the goroutine waited for.
WaitCancelled(t) ==
  /\ calls[t].pc = "wait" /\ calls[t].ctx = "done"
  /\ Now(t, [calls[t] EXCEPT !.closeChan = TRUE, !.pc = "drain"])

\* (DrainResult: only a result is waited for.)
DrainResult(t) ==
  /\ calls[t].pc = "drain" /\ calls[t].waiter = "send"
  /\ Now(t, Return(Destroy([calls[t] EXCEPT !.waiter = "exit"], {Object("event")}), "ctx"))

Drain(t) ==
  /\ calls[t].pc = "drain"
  /\ \/ /\ calls[t].waiter = "send"
        /\ Now(t, Return(Destroy([calls[t] EXCEPT !.waiter = "exit"], {Object("event")}), "ctx"))
     \/ /\ calls[t].waiter = "exit"
        /\ Now(t, Return(calls[t], "ctx"))

\* ctx.Done() of a nil context.
WaitNil(t) ==
  /\ calls[t].pc \in {"wait", "ask"} /\ calls[t].ctx = "nil"
  /\ Now(t, Return(calls[t], "panic"))

\* (ConvertShort: the last entry is left out.)
ConvertShort(t) ==
  /\ calls[t].pc = "convert"
  /\ Now(t, [Return(calls[t], "ok") EXCEPT !.result = Convert(calls[t].op, SubSeq(calls[t].hand.resp, 1, 1))])

ConvertResult(t) ==
  /\ calls[t].pc = "convert"
  /\ Now(t, [Return(calls[t], "ok") EXCEPT !.result = Convert(calls[t].op, calls[t].hand.resp)])

-----------------------------------------------------------------------------
(* ClusterID() and ControllerID(): a goroutine makes the blocking call.      *)

\* librdkafka's answer: an id, which for ClusterID() is memory of its own, or
\* none in time.
QueryAnswer(t, found) ==
  /\ calls[t].waiter = "ask"
  /\ Now(t, [Using(calls[t]) EXCEPT !.waiter = IF found THEN "found" ELSE "timeout",
                !.made = @ \cup IF found /\ calls[t].op = "ClusterID" THEN {Object("response")} ELSE {}])

\* The response is freed.
Answered(r, how) == Return([IF r.made = {} THEN r ELSE Using(r) EXCEPT !.deferred = r.made, !.waiter = "exit"], how)

\* No id: the call waits for its context.
QueryReturn(t) ==
  /\ calls[t].pc = "ask" /\ calls[t].ctx # "nil"
  /\ \/ calls[t].waiter = "found" /\ Now(t, Answered(calls[t], "ok"))
     \/ calls[t].waiter = "timeout" /\ Now(t, [calls[t] EXCEPT !.pc = "askTimeout"])

QueryTimeout(t) ==
  /\ calls[t].pc = "askTimeout" /\ calls[t].ctx = "done"
  /\ Now(t, Answered(calls[t], "ctx"))

QueryCancelled(t) ==
  /\ calls[t].pc = "ask" /\ calls[t].ctx = "done"
  /\ Now(t, [calls[t] EXCEPT !.pc = "askDrain"])

QueryDrain(t) ==
  /\ calls[t].pc = "askDrain" /\ calls[t].waiter \in {"found", "timeout"}
  /\ Now(t, Answered(calls[t], "ctx"))

\* GetMetadata(), SetOAuthBearerToken(), SetOAuthBearerTokenFailure() and
\* SetSaslCredentials(): one call, which librdkafka may refuse.
Direct(t) ==
  /\ calls[t].pc = "direct"
  /\ \/ Now(t, Return(Using(calls[t]), "error"))
     \/ calls[t].op # "GetMetadata" /\ Now(t, Return(Using(calls[t]), "ok"))
     \/ /\ calls[t].op = "GetMetadata"
        /\ \E r \in Responses("GetMetadata") :
             Now(t, [Return(Using(calls[t]), "ok") EXCEPT !.hand = [kind |-> "ok", resp |-> r], !.result = getMetadata(r)])

\* A deadline passes, or the application cancels.
ContextDone(t) ==
  /\ calls[t].ctx = "deadline" /\ calls[t].pc \notin {"idle", "done"}
  /\ Now(t, [calls[t] EXCEPT !.ctx = "done"])

\* librdkafka answers a request on the call's queue, if there still is one.
Reply(t) ==
  /\ calls[t].pending
  /\ IF Object("queue") \in calls[t].made
     THEN \E e \in Events(calls[t].op) :
            Now(t, [calls[t] EXCEPT !.pending = FALSE, !.reply = e, !.made = @ \cup {Object("event")}])
     ELSE Now(t, [calls[t] EXCEPT !.pending = FALSE])

-----------------------------------------------------------------------------
(* Close(), and the goroutine of setupLogQueue().                            *)
Running(t) == calls[t].pc \notin {"idle", "done"}
\* A call overlaps Close() while it, or a goroutine that a panic left behind, runs.
Overlaps ==
  calls' = [t \in Callers |->
              [calls[t] EXCEPT !.raced = @ \/ Running(t) \/ calls[t].waiter \notin {"none", "exit"}]]

\* The compare-and-swap lets one call through.  A derived client only drops
\* its handle; another one tells the log poller to stop.
CloseBegin ==
  /\ ~isClosed /\ use.closes
  /\ isClosed' = TRUE
  /\ Overlaps
  /\ IF use.derived
     THEN /\ handle' = "empty"
          /\ closer' = "done"
          /\ UNCHANGED log
     ELSE /\ closer' = "join"
          /\ log' = [log EXCEPT !.term = use.logs # "none"]
          /\ UNCHANGED handle
  /\ UNCHANGED <<use, rk, parentClosed>>

\* waitGroup.Wait() and handle.cleanup(): a log channel of the application is
\* not closed.
CloseJoin ==
  /\ closer = "join" /\ log.poller = "done"
  /\ closer' = "destroy"
  /\ log' = [log EXCEPT !.queue = "none", !.closed = use.logs = "own"]
  /\ UNCHANGED <<client, calls>>

CloseDestroy ==
  /\ closer = "destroy"
  /\ closer' = "done"
  /\ rk' = "destroyed"
  /\ Overlaps
  /\ UNCHANGED <<use, isClosed, handle, parentClosed, log>>

\* The producer or consumer a client is derived from is closed.
ParentClose ==
  /\ use.derived /\ ~parentClosed
  /\ parentClosed' = TRUE /\ rk' = "destroyed"
  /\ UNCHANGED <<use, isClosed, handle, calls, closer, log>>

Log(r) == log' = r /\ UNCHANGED <<client, calls, closer>>

\* pollLogEvents(): the done channel is looked at, the queue polled (an event of
\* another type is thrown away), and a log event sent unless done is closed.
LogLoop == /\ log.poller = "loop"
           /\ Log([log EXCEPT !.poller = IF log.term THEN "done" ELSE "poll"])
LogPoll == /\ log.poller = "poll"
           /\ \E got \in BOOLEAN : Log([log EXCEPT !.poller = IF got THEN "send" ELSE "loop"])
LogSend == /\ log.poller = "send" /\ log.sent < LogSize
           /\ Log([log EXCEPT !.sent = @ + 1, !.poller = "loop"])
LogTerminated == /\ log.poller = "send" /\ log.term
                 /\ Log([log EXCEPT !.poller = "done"])
\* The application reads Logs().
LogRead == log.sent > 0 /\ Log([log EXCEPT !.sent = @ - 1])

-----------------------------------------------------------------------------
Goes(t) ==
  \/ \E options \in OptionLists(calls[t].op) : Options(t, options)
  \/ NewQueue(t) \/ SendRequest(t)
  \/ WaitResult(t) \/ WaitCancelled(t) \/ Drain(t) \/ WaitNil(t) \/ ConvertResult(t)
  \/ QueryReturn(t) \/ QueryTimeout(t) \/ QueryCancelled(t) \/ QueryDrain(t) \/ Direct(t)
Waits(t) == WaiterLoop(t) \/ WaiterPoll(t)
Closes == CloseJoin \/ CloseDestroy
Polls == LogLoop \/ LogPoll \/ LogTerminated

Next ==
  \/ \E t \in Callers :
       \/ \E o \in Ops(use, t) : \E in \in Inputs(o), c \in Contexts(o) : Begin(t, o, in, c)
       \/ Goes(t) \/ Waits(t) \/ ContextDone(t) \/ Reply(t)
       \/ \E found \in BOOLEAN : QueryAnswer(t, found)
  \/ CloseBegin \/ Closes \/ ParentClose
  \/ Polls \/ LogSend \/ LogRead

Spec == Init /\ [][Next]_vars

\* Goroutines go on, a deadline passes, and a blocking query with one ends by it;
\* librdkafka need not answer a request, nor the application read its logs.
FairSpec ==
  /\ Spec
  /\ \A t \in Callers : /\ WF_vars(Goes(t)) /\ WF_vars(Waits(t)) /\ WF_vars(ContextDone(t))
                        /\ WF_vars(calls[t].ctx # "background" /\ \E found \in BOOLEAN : QueryAnswer(t, found))
  /\ WF_vars(Closes) /\ WF_vars(Polls)

-----------------------------------------------------------------------------
(* Timeouts (kafka/time.go, context.go), with Width-bit signed C integers    *)
(* and PerMs ticks of time.Duration to a millisecond.                        *)
Width == 4
PerMs == 4
Narrow(n) == ((n + 2^(Width - 1)) % 2^Width) - 2^(Width - 1)
cTimeoutInfinite == -1
cTimeoutNoWait == 0

\* Ticks left until the deadline, or Nil.
timeout(deadline, now) == IF deadline = Nil THEN Nil ELSE deadline - now
cTimeoutFromContext(left) ==
  IF left = Nil THEN cTimeoutInfinite
  ELSE IF left <= 0 THEN cTimeoutNoWait
  ELSE IF Narrow(left \div PerMs) < left \div PerMs THEN cTimeoutInfinite
  ELSE left \div PerMs

-----------------------------------------------------------------------------
(* What is claimed.                                                         *)

\* Types; the log channel keeps to its size.
TypeOK ==
  /\ handle \in {"set", "empty"} /\ rk \in {"live", "destroyed"}
  /\ {isClosed, parentClosed} \subseteq BOOLEAN
  /\ closer \in {"none", "join", "destroy", "done"}
  /\ log.sent \in 0 .. LogSize
  /\ log.poller \in {"loop", "poll", "send", "done"}
  /\ \A t \in Callers :
       /\ calls[t].pc \in {"idle", "options", "queue", "request", "wait", "drain", "convert",
                           "ask", "askTimeout", "askDrain", "direct", "done"}
       /\ calls[t].waiter \in {"none", "loop", "poll", "send", "ask", "found", "timeout", "exit"}
       /\ calls[t].ret \in {"none", "closed", "invalid", "panic", "ok", "error", "ctx"}
       /\ calls[t].deferred \subseteq calls[t].made

\* The goroutine of waitResult() never polls a queue that the call's deferred
\* rd_kafka_queue_destroy() has destroyed, whenever the context is cancelled;
\* unless the call has panicked, which does not wait for it.
QueueOutlivesWaiter ==
  \A t \in Callers : calls[t].waiter = "poll" => Object("queue") \in calls[t].made \/ calls[t].ret = "panic"

\* The objects an operation leaves behind.
KnownLeaks(c) ==
  CASE c.op \in {"CreateTopics", "DeleteTopics", "CreatePartitions", "AlterConfigs", "DescribeConfigs"} -> {"string"}
    [] c.op \in {"CreateACLs", "DeleteACLs"} -> {"options"}
    [] c.op = "DescribeACLs" -> {"options", "filter"}
    [] c.op = "AlterConsumerGroupOffsets" -> {"list"}
    [] c.op = "ListConsumerGroups" /\ c.ret = "panic" -> {"options"}
    [] OTHER -> {}
\* ... and, of one that panics on a nil context, the answer its goroutine gets.
Leaks(c) ==
  IF c.ctx = "nil" /\ c.ret = "panic" /\ c.waiter # "none" THEN KnownLeaks(c) \cup {"event", "response"} ELSE KnownLeaks(c)
\* However a call ends, at whatever step and with librdkafka's answer before or
\* after its context's end, it has destroyed all it made but those leaks; in
\* particular its queue and every event that was on it.
Released == \A t \in Callers : calls[t].pc = "done" => \A o \in calls[t].made : o[1] \in Leaks(calls[t])

\* Nothing is destroyed twice: not the options by adminOptionsSetup() and the
\* caller, nor an event by waitResult() and the queue it was polled from.
NoDoubleDestroy == \A t \in Callers : ~calls[t].twice

\* What a call makes in C it destroys, and destroys once.
ReleasedOnce == Released /\ NoDoubleDestroy

\* A call uses a handle that is gone only if Close() overlaps it, the parent of
\* a derived client was closed, or it is ListOffsets(), which does not ask
\* verifyClient(): a call that begins after Close() never does.
UsesLiveHandle ==
  \A t \in Callers : calls[t].bad => calls[t].raced \/ parentClosed \/ ~calls[t].plan.verified

GroupOffsets == {"ListConsumerGroupOffsets", "AlterConsumerGroupOffsets"}
Maps == {"DescribeUserScramCredentials", "AlterUserScramCredentials", "ListOffsets", "GetMetadata"}

\* A call that succeeds returns one entry for each of librdkafka's, with its name
\* and its error (the group's own error of the two group offset operations is
\* lost), and no others.
ResultsKept ==
  \A t \in Callers : (calls[t].ret = "ok" /\ calls[t].op \in Requests \cup {"GetMetadata"}) =>
    LET c == calls[t]
        got == {<<e.name, e.error>> : e \in IF c.op \in Maps THEN c.result ELSE {c.result[i] : i \in DOMAIN c.result}}
    IN got = {<<e.name, IF c.op \in GroupOffsets THEN NoError ELSE e.error>> : e \in {c.hand.resp[i] : i \in DOMAIN c.hand.resp}}

\* The log poller neither polls a log queue that is destroyed nor sends on a
\* channel that cleanup() has closed.
LogsSafe ==
  /\ log.poller = "poll" => log.queue = "live"
  /\ log.poller = "send" => ~log.closed

\* No goroutine of the client uses what another has destroyed or closed: a call's
\* queue, the handle, the log queue and channel.
NoUseAfterDestroy == TypeOK /\ QueueOutlivesWaiter /\ UsesLiveHandle /\ LogsSafe

\* A context's deadline never becomes a C timeout that is longer than what is
\* left or, for a deadline too far for an int32, one that is shorter.
TimeoutsFit ==
  (\A t \in Callers : calls[t].pc = "idle") =>
    \A deadline \in {Nil} \cup 0 .. 3 * PerMs * 2^Width :
      LET left == timeout(deadline, PerMs)
          ms   == cTimeoutFromContext(left)
      IN IF ms = cTimeoutInfinite THEN left = Nil \/ left \div PerMs >= 2^(Width - 1)
         ELSE ms = IF left <= 0 THEN 0 ELSE left \div PerMs

\* Answers and deadlines come out of their conversion as they went in.
ConversionsFaithful == ResultsKept /\ TimeoutsFit

\* A call whose context has a deadline returns, whether librdkafka answers it or
\* not and whatever Close() does meanwhile.
CallReturns ==
  \A t \in Callers : (Running(t) /\ calls[t].ctx \in {"deadline", "done"}) ~> calls[t].pc = "done"

\* Close() returns, even if nobody reads a log channel that is full.
CloseReturns == closer = "join" ~> closer = "done"

\* Calls with a deadline and Close() return.
CallsReturn == CallReturns /\ CloseReturns

\* "context with the maximum amount of time to block, or nil for indefinite":
\* a call with a nil context is not ended by it.  It does not hold of waitResult().
NilContextWaits == \A t \in Callers : calls[t].ctx = "nil" => calls[t].ret # "panic"
=============================================================================
