----------------------------- MODULE AdminProofs -----------------------------
(***************************************************************************)
(* For any number of calls, any arguments, options and answers, and any    *)
(* moment at which a context ends or a client is closed: no goroutine of   *)
(* the admin client uses what is destroyed, and a call destroys what it    *)
(* made, once.                                                             *)
(***************************************************************************)
EXTENDS AdminClient, WellFoundedInduction, TLAPS

USE Zenon

-----------------------------------------------------------------------------
(* The inductive invariant speaks of one call r.                            *)
CallFields == {"pc", "op", "plan", "ctx", "made", "deferred", "twice", "pending", "reply", "hand",
               "closeChan", "waiter", "bad", "raced", "ret", "result"}

Operations == Requests \cup Queries \cup Directs

\* What an operation leaves behind however it ends.
Leaky(o, x) == \A c : c.op = o => x[1] \in KnownLeaks(c)

\* The objects a call makes itself; the others are those of its arguments.
Event == Object("event")
Queue == Object("queue")
AdminOptionsObject == Object("options")
Own == {"options", "queue", "event", "response"}

Typed(r) ==
  /\ DOMAIN r = CallFields
  /\ r.pc \in {"idle", "options", "queue", "request", "wait", "drain", "convert",
               "ask", "askTimeout", "askDrain", "direct", "done"}
  /\ r.waiter \in {"none", "loop", "poll", "send", "ask", "found", "timeout", "exit"}
  /\ r.ret \in {"none", "closed", "invalid", "panic", "ok", "error", "ctx"}
  /\ r.deferred \subseteq r.made /\ ~r.twice

\* A call that has not sent a request has no answer, nor a goroutine that waits for it.
Silent(r) == ~r.pending /\ r.reply = NoEvent

Unstarted(r) == r.waiter = "none" /\ Silent(r) /\ r.made = {}

\* What no return will destroy is an event in hand or known to be left behind.
Owned(r) == \A x \in r.made : x \in r.deferred \/ x = Event \/ Leaky(r.op, x)

\* Up to the request.
Preparing(r) ==
  /\ r.op \in Requests /\ r.waiter = "none" /\ Silent(r) /\ Owned(r)
  /\ Event \notin r.made
  /\ r.pc \in {"options", "queue"} => Queue \notin r.made
  /\ r.pc = "options" => \A x \in r.made : x[1] \notin Own
  /\ r.pc = "options" /\ ~r.plan.freesOptions => Leaky(r.op, AdminOptionsObject)
  /\ r.pc = "request" => Queue \in r.deferred

\* While the goroutine of waitResult() polls: the event is on the queue or in its hands.
Awaiting(r) ==
  /\ Owned(r) /\ Queue \in r.deferred /\ Event \notin r.deferred
  /\ r.waiter \in {"loop", "poll", "send", "exit"}
  /\ Event \in r.made <=> r.reply # NoEvent \/ r.waiter = "send"
  /\ r.waiter = "send" => r.reply = NoEvent
  /\ r.pending => Event \notin r.made

Converting(r) ==
  /\ Owned(r) /\ {Queue, Event} \subseteq r.deferred /\ r.waiter = "exit" /\ Silent(r)

\* While librdkafka is asked.
Asking(r) ==
  /\ r.made \subseteq {Object("response")} /\ r.deferred = {} /\ Silent(r)
  /\ r.waiter \in {"ask", "found", "timeout"}

Directly(r) == r.deferred = r.made /\ r.waiter = "none" /\ Silent(r) /\ Queue \notin r.made

\* A call that has returned.
Finished(r) ==
  /\ r.deferred = {} /\ r.reply = NoEvent /\ Queue \notin r.made
  /\ \A x \in r.made : x[1] \in Leaks(r)
  /\ r.waiter \notin {"none", "exit"} => r.ctx = "nil" /\ r.ret = "panic"

CallOK(r) ==
  /\ Typed(r)
  /\ r.pc = "idle" => Unstarted(r)
  /\ r.pc \in {"options", "queue", "request"} => Preparing(r)
  /\ r.pc \in {"wait", "drain"} => Awaiting(r)
  /\ r.pc = "convert" => Converting(r)
  /\ r.pc \in {"ask", "askTimeout", "askDrain"} => Asking(r)
  /\ r.pc = "direct" => Directly(r)
  /\ r.pc = "done" => Finished(r)

\* A call, or a goroutine it left behind, that still runs: after Close() only if it
\* overlaps it or never asked.
Active(r) == r.pc \notin {"idle", "done"} \/ r.waiter \notin {"none", "exit"}
Allowed(r, closed) == closed /\ Active(r) => r.raced \/ ~r.plan.verified
Excused(r, parent) == r.bad => r.raced \/ parent \/ ~r.plan.verified

\* The handle and the instance.
ClientOK ==
  /\ use \in Uses
  /\ handle \in {"set", "empty"} /\ rk \in {"live", "destroyed"}
  /\ {isClosed, parentClosed} \subseteq BOOLEAN
  /\ closer \in {"none", "join", "destroy", "done"}
  /\ handle = "empty" => isClosed
  /\ closer \in {"join", "destroy"} => isClosed
  /\ rk = "destroyed" => isClosed \/ parentClosed

\* The log poller: the log queue and the channel last as long as it runs.
LogFields == {"term", "poller", "sent", "closed", "queue", "held"}
LogOK ==
  /\ DOMAIN log = LogFields
  /\ log.sent \in 0 .. LogSize
  /\ log.poller \in {"loop", "poll", "send", "done"}
  /\ log.poller # "done" => log.queue = "live" /\ ~log.closed

AdminInv ==
  /\ ClientOK /\ LogOK /\ DOMAIN calls = Callers
  /\ \A t \in Callers : CallOK(calls[t]) /\ Allowed(calls[t], isClosed) /\ Excused(calls[t], parentClosed)

-----------------------------------------------------------------------------
(* The conversion of arguments: which objects it makes and leaves behind.   *)
Ends == {"ok", "invalid", "panic"}

\* One element.
ItemOK(o, c) ==
  /\ c.end \in Ends /\ c.leaked \subseteq c.made /\ c.made \cap Own = {}
  /\ \A k \in c.leaked : \A d : d.op = o => k \in KnownLeaks(d)

\* All of them, and the request.
ConvFields == {"made", "leaked", "end"}
ConvOK(o, c) ==
  /\ DOMAIN c = ConvFields /\ c.end \in Ends /\ c.leaked \subseteq c.made
  /\ \A x \in c.made : x[1] \notin Own
  /\ \A x \in c.leaked : Leaky(o, x)

PlanFields == {"conv", "verified", "indexes", "freesOptions"}
PlanOK(o, p) ==
  /\ DOMAIN p = PlanFields /\ ConvOK(o, p.conv)
  /\ ~p.freesOptions => Leaky(o, AdminOptionsObject)
  /\ o \in Queries => p.conv.made = {}

\* An object of the conversion of a list comes from an element of it.
FromItems(o, c) ==
  /\ DOMAIN c = ConvFields /\ c.end \in Ends
  /\ \A x \in c.made : \E d, i : ItemOK(o, d) /\ x \in d.made \X {i}
  /\ \A x \in c.leaked : \E d, i : ItemOK(o, d) /\ x \in d.leaked \X {i} /\ d.made \X {i} \subseteq c.made

LEMMA ItemsConverted == ASSUME NEW o, NEW c, FromItems(o, c) PROVE ConvOK(o, c)
<1>2. ASSUME NEW x \in c.made PROVE x[1] \notin Own
  <2>1. PICK d, i : ItemOK(o, d) /\ x \in d.made \X {i}
    BY DEF FromItems
  <2>2. x[1] \in d.made
    BY <2>1, SMT
  <2> QED BY <2>1, <2>2 DEF ItemOK
<1>3. ASSUME NEW x \in c.leaked PROVE Leaky(o, x) /\ x \in c.made
  <2>1. PICK d, i : ItemOK(o, d) /\ x \in d.leaked \X {i} /\ d.made \X {i} \subseteq c.made
    BY DEF FromItems
  <2>2. x[1] \in d.leaked /\ d.leaked \subseteq d.made
    BY <2>1, SMT DEF ItemOK
  <2>3. x \in d.made \X {i}
    BY <2>1, <2>2, SMT
  <2> QED BY <2>1, <2>2, <2>3 DEF ItemOK, Leaky
<1> QED BY <1>2, <1>3 DEF ConvOK, FromItems

LEMMA NothingConverted == ASSUME NEW o PROVE ConvOK(o, Nothing) /\ ConvOK(o, Refused)
BY DEF ConvOK, ConvFields, Nothing, Refused, Ends

LEMMA RequestMade ==
  ASSUME NEW o, NEW c, ConvOK(o, c), o \in Queries => c.made = {} PROVE PlanOK(o, Request(c))
BY DEF PlanOK, PlanFields, Request

LEMMA IndexedMade ==
  ASSUME NEW o, NEW c, ConvOK(o, c), o \notin Queries, NEW items PROVE PlanOK(o, IndexedBy(c, items))
BY DEF PlanOK, PlanFields, IndexedBy, Request

LEMMA UnverifiedMade ==
  ASSUME NEW o, NEW c, ConvOK(o, c), o \notin Queries PROVE PlanOK(o, Unverified(c))
BY DEF PlanOK, PlanFields, Unverified, Request

LEMMA KeptMade ==
  ASSUME NEW o, NEW c, ConvOK(o, c), o \notin Queries, Leaky(o, AdminOptionsObject) PROVE PlanOK(o, KeepsOptions(c))
BY DEF PlanOK, PlanFields, KeepsOptions, Request

\* What the operations that leak leave behind.
LEMMA LeaksKnown ==
  /\ \A d : d.op = "CreateTopics" => KnownLeaks(d) = {"string"}
  /\ \A d : d.op = "DeleteTopics" => KnownLeaks(d) = {"string"}
  /\ \A d : d.op = "CreatePartitions" => KnownLeaks(d) = {"string"}
  /\ \A d : d.op = "AlterConfigs" => KnownLeaks(d) = {"string"}
  /\ \A d : d.op = "DescribeConfigs" => KnownLeaks(d) = {"string"}
  /\ \A d : d.op = "CreateACLs" => KnownLeaks(d) = {"options"}
  /\ \A d : d.op = "DeleteACLs" => KnownLeaks(d) = {"options"}
  /\ \A d : d.op = "DescribeACLs" => KnownLeaks(d) = {"options", "filter"}
  /\ \A d : d.op = "AlterConsumerGroupOffsets" => KnownLeaks(d) = {"list"}
  /\ \A d : d.op = "ListConsumerGroups" /\ d.ret = "panic" => KnownLeaks(d) = {"options"}
BY DEF KnownLeaks

LEMMA NewTopicEach == ASSUME NEW in PROVE ConvOK("CreateTopics", Each(in, NewTopic))
<1>1. PICK e : e = Each(in, NewTopic)
  OBVIOUS
<1>2. ASSUME NEW t PROVE ItemOK("CreateTopics", NewTopic(t)) /\ NewTopic(t).end \in Ends /\ "ok" \in Ends
  <2>1. \A c : Settings(t, c) \in Ends
    BY DEF Settings, Ends
  <2> QED BY LeaksKnown, <2>1, SMT DEF NewTopic, ItemOK, Conv, Own, Ends
<1>3. DOMAIN e = ConvFields /\ e.end \in Ends
  BY <1>1, <1>2 DEF Each, ConvFields
<1>4. PICK n : /\ e.made = UNION {NewTopic(in[i]).made \X {i} : i \in 1 .. n}
               /\ e.leaked = UNION {NewTopic(in[i]).leaked \X {i} : i \in 1 .. n}
  BY <1>1 DEF Each
<1>5. \A i \in 1 .. n : NewTopic(in[i]).made \X {i} \subseteq e.made
  BY <1>4
<1>6. ASSUME NEW x \in e.leaked PROVE \E i \in 1 .. n : x \in NewTopic(in[i]).leaked \X {i}
  BY <1>4
<1>7. ASSUME NEW x \in e.made PROVE \E i \in 1 .. n : x \in NewTopic(in[i]).made \X {i}
  BY <1>4
<1>8. FromItems("CreateTopics", e)
  <2>1. \A x \in e.made : \E d, i : ItemOK("CreateTopics", d) /\ x \in d.made \X {i}
    BY <1>2, <1>7
  <2>2. \A x \in e.leaked : \E d, i : ItemOK("CreateTopics", d) /\ x \in d.leaked \X {i} /\ d.made \X {i} \subseteq e.made
    BY <1>2, <1>5, <1>6
  <2> QED BY <1>3, <2>1, <2>2 DEF FromItems
<1> QED BY <1>1, <1>8, ItemsConverted

LEMMA DeleteTopicEach == ASSUME NEW in PROVE ConvOK("DeleteTopics", Each(in, DeleteTopic))
<1>1. PICK e : e = Each(in, DeleteTopic)
  OBVIOUS
<1>2. ASSUME NEW t PROVE ItemOK("DeleteTopics", DeleteTopic(t)) /\ DeleteTopic(t).end \in Ends /\ "ok" \in Ends
  BY LeaksKnown, SMT DEF DeleteTopic, ItemOK, Conv, Own, Ends
<1>3. DOMAIN e = ConvFields /\ e.end \in Ends
  BY <1>1, <1>2 DEF Each, ConvFields
<1>4. PICK n : /\ e.made = UNION {DeleteTopic(in[i]).made \X {i} : i \in 1 .. n}
               /\ e.leaked = UNION {DeleteTopic(in[i]).leaked \X {i} : i \in 1 .. n}
  BY <1>1 DEF Each
<1>5. \A i \in 1 .. n : DeleteTopic(in[i]).made \X {i} \subseteq e.made
  BY <1>4
<1>6. ASSUME NEW x \in e.leaked PROVE \E i \in 1 .. n : x \in DeleteTopic(in[i]).leaked \X {i}
  BY <1>4
<1>7. ASSUME NEW x \in e.made PROVE \E i \in 1 .. n : x \in DeleteTopic(in[i]).made \X {i}
  BY <1>4
<1>8. FromItems("DeleteTopics", e)
  <2>1. \A x \in e.made : \E d, i : ItemOK("DeleteTopics", d) /\ x \in d.made \X {i}
    BY <1>2, <1>7
  <2>2. \A x \in e.leaked : \E d, i : ItemOK("DeleteTopics", d) /\ x \in d.leaked \X {i} /\ d.made \X {i} \subseteq e.made
    BY <1>2, <1>5, <1>6
  <2> QED BY <1>3, <2>1, <2>2 DEF FromItems
<1> QED BY <1>1, <1>8, ItemsConverted

LEMMA NewPartitionsEach == ASSUME NEW in PROVE ConvOK("CreatePartitions", Each(in, NewPartitions))
<1>1. PICK e : e = Each(in, NewPartitions)
  OBVIOUS
<1>2. ASSUME NEW t PROVE ItemOK("CreatePartitions", NewPartitions(t)) /\ NewPartitions(t).end \in Ends /\ "ok" \in Ends
  <2>1. PICK s : s = Settings(t, FALSE) /\ s \in Ends
    BY DEF Settings, Ends
  <2>2. CASE t.valid
    <3>1. NewPartitions(t) = Conv({"string", "parts"}, {"string"}, s)
      BY <2>1, <2>2 DEF NewPartitions
    <3>2. ItemOK("CreatePartitions", Conv({"string", "parts"}, {"string"}, s))
      BY LeaksKnown, <2>1 DEF ItemOK, Conv, Own
    <3> QED BY <3>1, <3>2 DEF ItemOK, Ends
  <2>3. CASE ~t.valid
    BY LeaksKnown, <2>3, SMT DEF NewPartitions, ItemOK, Conv, Own, Ends
  <2> QED BY <2>2, <2>3
<1>3. DOMAIN e = ConvFields /\ e.end \in Ends
  BY <1>1, <1>2 DEF Each, ConvFields
<1>4. PICK n : /\ e.made = UNION {NewPartitions(in[i]).made \X {i} : i \in 1 .. n}
               /\ e.leaked = UNION {NewPartitions(in[i]).leaked \X {i} : i \in 1 .. n}
  BY <1>1 DEF Each
<1>5. \A i \in 1 .. n : NewPartitions(in[i]).made \X {i} \subseteq e.made
  BY <1>4
<1>6. ASSUME NEW x \in e.leaked PROVE \E i \in 1 .. n : x \in NewPartitions(in[i]).leaked \X {i}
  BY <1>4
<1>7. ASSUME NEW x \in e.made PROVE \E i \in 1 .. n : x \in NewPartitions(in[i]).made \X {i}
  BY <1>4
<1>8. FromItems("CreatePartitions", e)
  <2>1. \A x \in e.made : \E d, i : ItemOK("CreatePartitions", d) /\ x \in d.made \X {i}
    BY <1>2, <1>7
  <2>2. \A x \in e.leaked : \E d, i : ItemOK("CreatePartitions", d) /\ x \in d.leaked \X {i} /\ d.made \X {i} \subseteq e.made
    BY <1>2, <1>5, <1>6
  <2> QED BY <1>3, <2>1, <2>2 DEF FromItems
<1> QED BY <1>1, <1>8, ItemsConverted

LEMMA AlterResourceEach == ASSUME NEW in PROVE ConvOK("AlterConfigs", Each(in, AlterResource))
<1>1. PICK e : e = Each(in, AlterResource)
  OBVIOUS
<1>2. ASSUME NEW t PROVE ItemOK("AlterConfigs", AlterResource(t)) /\ AlterResource(t).end \in Ends /\ "ok" \in Ends
  BY LeaksKnown, SMT DEF AlterResource, ItemOK, Conv, Own, Ends
<1>3. DOMAIN e = ConvFields /\ e.end \in Ends
  BY <1>1, <1>2 DEF Each, ConvFields
<1>4. PICK n : /\ e.made = UNION {AlterResource(in[i]).made \X {i} : i \in 1 .. n}
               /\ e.leaked = UNION {AlterResource(in[i]).leaked \X {i} : i \in 1 .. n}
  BY <1>1 DEF Each
<1>5. \A i \in 1 .. n : AlterResource(in[i]).made \X {i} \subseteq e.made
  BY <1>4
<1>6. ASSUME NEW x \in e.leaked PROVE \E i \in 1 .. n : x \in AlterResource(in[i]).leaked \X {i}
  BY <1>4
<1>7. ASSUME NEW x \in e.made PROVE \E i \in 1 .. n : x \in AlterResource(in[i]).made \X {i}
  BY <1>4
<1>8. FromItems("AlterConfigs", e)
  <2>1. \A x \in e.made : \E d, i : ItemOK("AlterConfigs", d) /\ x \in d.made \X {i}
    BY <1>2, <1>7
  <2>2. \A x \in e.leaked : \E d, i : ItemOK("AlterConfigs", d) /\ x \in d.leaked \X {i} /\ d.made \X {i} \subseteq e.made
    BY <1>2, <1>5, <1>6
  <2> QED BY <1>3, <2>1, <2>2 DEF FromItems
<1> QED BY <1>1, <1>8, ItemsConverted

LEMMA IncrementalResourceEach == ASSUME NEW o, NEW in PROVE ConvOK(o, Each(in, IncrementalResource))
<1>1. PICK e : e = Each(in, IncrementalResource)
  OBVIOUS
<1>2. ASSUME NEW t PROVE ItemOK(o, IncrementalResource(t)) /\ IncrementalResource(t).end \in Ends /\ "ok" \in Ends
  BY SMT DEF IncrementalResource, ItemOK, Conv, Own, Ends
<1>3. DOMAIN e = ConvFields /\ e.end \in Ends
  BY <1>1, <1>2 DEF Each, ConvFields
<1>4. PICK n : /\ e.made = UNION {IncrementalResource(in[i]).made \X {i} : i \in 1 .. n}
               /\ e.leaked = UNION {IncrementalResource(in[i]).leaked \X {i} : i \in 1 .. n}
  BY <1>1 DEF Each
<1>5. \A i \in 1 .. n : IncrementalResource(in[i]).made \X {i} \subseteq e.made
  BY <1>4
<1>6. ASSUME NEW x \in e.leaked PROVE \E i \in 1 .. n : x \in IncrementalResource(in[i]).leaked \X {i}
  BY <1>4
<1>7. ASSUME NEW x \in e.made PROVE \E i \in 1 .. n : x \in IncrementalResource(in[i]).made \X {i}
  BY <1>4
<1>8. FromItems(o, e)
  <2>1. \A x \in e.made : \E d, i : ItemOK(o, d) /\ x \in d.made \X {i}
    BY <1>2, <1>7
  <2>2. \A x \in e.leaked : \E d, i : ItemOK(o, d) /\ x \in d.leaked \X {i} /\ d.made \X {i} \subseteq e.made
    BY <1>2, <1>5, <1>6
  <2> QED BY <1>3, <2>1, <2>2 DEF FromItems
<1> QED BY <1>1, <1>8, ItemsConverted

LEMMA DescribeResourceEach == ASSUME NEW in PROVE ConvOK("DescribeConfigs", Each(in, DescribeResource))
<1>1. PICK e : e = Each(in, DescribeResource)
  OBVIOUS
<1>2. ASSUME NEW t PROVE ItemOK("DescribeConfigs", DescribeResource(t)) /\ DescribeResource(t).end \in Ends /\ "ok" \in Ends
  BY LeaksKnown, SMT DEF DescribeResource, ItemOK, Conv, Own, Ends
<1>3. DOMAIN e = ConvFields /\ e.end \in Ends
  BY <1>1, <1>2 DEF Each, ConvFields
<1>4. PICK n : /\ e.made = UNION {DescribeResource(in[i]).made \X {i} : i \in 1 .. n}
               /\ e.leaked = UNION {DescribeResource(in[i]).leaked \X {i} : i \in 1 .. n}
  BY <1>1 DEF Each
<1>5. \A i \in 1 .. n : DescribeResource(in[i]).made \X {i} \subseteq e.made
  BY <1>4
<1>6. ASSUME NEW x \in e.leaked PROVE \E i \in 1 .. n : x \in DescribeResource(in[i]).leaked \X {i}
  BY <1>4
<1>7. ASSUME NEW x \in e.made PROVE \E i \in 1 .. n : x \in DescribeResource(in[i]).made \X {i}
  BY <1>4
<1>8. FromItems("DescribeConfigs", e)
  <2>1. \A x \in e.made : \E d, i : ItemOK("DescribeConfigs", d) /\ x \in d.made \X {i}
    BY <1>2, <1>7
  <2>2. \A x \in e.leaked : \E d, i : ItemOK("DescribeConfigs", d) /\ x \in d.leaked \X {i} /\ d.made \X {i} \subseteq e.made
    BY <1>2, <1>5, <1>6
  <2> QED BY <1>3, <2>1, <2>2 DEF FromItems
<1> QED BY <1>1, <1>8, ItemsConverted

LEMMA AclBindingToCEach == ASSUME NEW o, NEW in PROVE ConvOK(o, Each(in, aclBindingToC))
<1>1. PICK e : e = Each(in, aclBindingToC)
  OBVIOUS
<1>2. ASSUME NEW t PROVE ItemOK(o, aclBindingToC(t)) /\ aclBindingToC(t).end \in Ends /\ "ok" \in Ends
  BY SMT DEF aclBindingToC, ItemOK, Conv, Own, Ends
<1>3. DOMAIN e = ConvFields /\ e.end \in Ends
  BY <1>1, <1>2 DEF Each, ConvFields
<1>4. PICK n : /\ e.made = UNION {aclBindingToC(in[i]).made \X {i} : i \in 1 .. n}
               /\ e.leaked = UNION {aclBindingToC(in[i]).leaked \X {i} : i \in 1 .. n}
  BY <1>1 DEF Each
<1>5. \A i \in 1 .. n : aclBindingToC(in[i]).made \X {i} \subseteq e.made
  BY <1>4
<1>6. ASSUME NEW x \in e.leaked PROVE \E i \in 1 .. n : x \in aclBindingToC(in[i]).leaked \X {i}
  BY <1>4
<1>7. ASSUME NEW x \in e.made PROVE \E i \in 1 .. n : x \in aclBindingToC(in[i]).made \X {i}
  BY <1>4
<1>8. FromItems(o, e)
  <2>1. \A x \in e.made : \E d, i : ItemOK(o, d) /\ x \in d.made \X {i}
    BY <1>2, <1>7
  <2>2. \A x \in e.leaked : \E d, i : ItemOK(o, d) /\ x \in d.leaked \X {i} /\ d.made \X {i} \subseteq e.made
    BY <1>2, <1>5, <1>6
  <2> QED BY <1>3, <2>1, <2>2 DEF FromItems
<1> QED BY <1>1, <1>8, ItemsConverted

LEMMA AclBindingFilterToCEach == ASSUME NEW o, NEW in PROVE ConvOK(o, Each(in, aclBindingFilterToC))
<1>1. PICK e : e = Each(in, aclBindingFilterToC)
  OBVIOUS
<1>2. ASSUME NEW t PROVE ItemOK(o, aclBindingFilterToC(t)) /\ aclBindingFilterToC(t).end \in Ends /\ "ok" \in Ends
  BY SMT DEF aclBindingFilterToC, ItemOK, Conv, Own, Ends
<1>3. DOMAIN e = ConvFields /\ e.end \in Ends
  BY <1>1, <1>2 DEF Each, ConvFields
<1>4. PICK n : /\ e.made = UNION {aclBindingFilterToC(in[i]).made \X {i} : i \in 1 .. n}
               /\ e.leaked = UNION {aclBindingFilterToC(in[i]).leaked \X {i} : i \in 1 .. n}
  BY <1>1 DEF Each
<1>5. \A i \in 1 .. n : aclBindingFilterToC(in[i]).made \X {i} \subseteq e.made
  BY <1>4
<1>6. ASSUME NEW x \in e.leaked PROVE \E i \in 1 .. n : x \in aclBindingFilterToC(in[i]).leaked \X {i}
  BY <1>4
<1>7. ASSUME NEW x \in e.made PROVE \E i \in 1 .. n : x \in aclBindingFilterToC(in[i]).made \X {i}
  BY <1>4
<1>8. FromItems(o, e)
  <2>1. \A x \in e.made : \E d, i : ItemOK(o, d) /\ x \in d.made \X {i}
    BY <1>2, <1>7
  <2>2. \A x \in e.leaked : \E d, i : ItemOK(o, d) /\ x \in d.leaked \X {i} /\ d.made \X {i} \subseteq e.made
    BY <1>2, <1>5, <1>6
  <2> QED BY <1>3, <2>1, <2>2 DEF FromItems
<1> QED BY <1>1, <1>8, ItemsConverted

LEMMA DeleteGroupEach == ASSUME NEW o, NEW in PROVE ConvOK(o, Each(in, DeleteGroup))
<1>1. PICK e : e = Each(in, DeleteGroup)
  OBVIOUS
<1>2. ASSUME NEW t PROVE ItemOK(o, DeleteGroup(t)) /\ DeleteGroup(t).end \in Ends /\ "ok" \in Ends
  BY SMT DEF DeleteGroup, ItemOK, Conv, Own, Ends
<1>3. DOMAIN e = ConvFields /\ e.end \in Ends
  BY <1>1, <1>2 DEF Each, ConvFields
<1>4. PICK n : /\ e.made = UNION {DeleteGroup(in[i]).made \X {i} : i \in 1 .. n}
               /\ e.leaked = UNION {DeleteGroup(in[i]).leaked \X {i} : i \in 1 .. n}
  BY <1>1 DEF Each
<1>5. \A i \in 1 .. n : DeleteGroup(in[i]).made \X {i} \subseteq e.made
  BY <1>4
<1>6. ASSUME NEW x \in e.leaked PROVE \E i \in 1 .. n : x \in DeleteGroup(in[i]).leaked \X {i}
  BY <1>4
<1>7. ASSUME NEW x \in e.made PROVE \E i \in 1 .. n : x \in DeleteGroup(in[i]).made \X {i}
  BY <1>4
<1>8. FromItems(o, e)
  <2>1. \A x \in e.made : \E d, i : ItemOK(o, d) /\ x \in d.made \X {i}
    BY <1>2, <1>7
  <2>2. \A x \in e.leaked : \E d, i : ItemOK(o, d) /\ x \in d.leaked \X {i} /\ d.made \X {i} \subseteq e.made
    BY <1>2, <1>5, <1>6
  <2> QED BY <1>3, <2>1, <2>2 DEF FromItems
<1> QED BY <1>1, <1>8, ItemsConverted

LEMMA GroupPartitionsEach == ASSUME NEW o, NEW in PROVE ConvOK(o, Each(in, GroupPartitions))
<1>1. PICK e : e = Each(in, GroupPartitions)
  OBVIOUS
<1>2. ASSUME NEW t PROVE ItemOK(o, GroupPartitions(t)) /\ GroupPartitions(t).end \in Ends /\ "ok" \in Ends
  BY SMT DEF GroupPartitions, ItemOK, Conv, Own, Ends
<1>3. DOMAIN e = ConvFields /\ e.end \in Ends
  BY <1>1, <1>2 DEF Each, ConvFields
<1>4. PICK n : /\ e.made = UNION {GroupPartitions(in[i]).made \X {i} : i \in 1 .. n}
               /\ e.leaked = UNION {GroupPartitions(in[i]).leaked \X {i} : i \in 1 .. n}
  BY <1>1 DEF Each
<1>5. \A i \in 1 .. n : GroupPartitions(in[i]).made \X {i} \subseteq e.made
  BY <1>4
<1>6. ASSUME NEW x \in e.leaked PROVE \E i \in 1 .. n : x \in GroupPartitions(in[i]).leaked \X {i}
  BY <1>4
<1>7. ASSUME NEW x \in e.made PROVE \E i \in 1 .. n : x \in GroupPartitions(in[i]).made \X {i}
  BY <1>4
<1>8. FromItems(o, e)
  <2>1. \A x \in e.made : \E d, i : ItemOK(o, d) /\ x \in d.made \X {i}
    BY <1>2, <1>7
  <2>2. \A x \in e.leaked : \E d, i : ItemOK(o, d) /\ x \in d.leaked \X {i} /\ d.made \X {i} \subseteq e.made
    BY <1>2, <1>5, <1>6
  <2> QED BY <1>3, <2>1, <2>2 DEF FromItems
<1> QED BY <1>1, <1>8, ItemsConverted

LEMMA AlterOffsetsEach == ASSUME NEW in PROVE ConvOK("AlterConsumerGroupOffsets", Each(in, AlterOffsets))
<1>1. PICK e : e = Each(in, AlterOffsets)
  OBVIOUS
<1>2. ASSUME NEW t PROVE ItemOK("AlterConsumerGroupOffsets", AlterOffsets(t)) /\ AlterOffsets(t).end \in Ends /\ "ok" \in Ends
  BY LeaksKnown, SMT DEF AlterOffsets, ItemOK, Conv, Own, Ends
<1>3. DOMAIN e = ConvFields /\ e.end \in Ends
  BY <1>1, <1>2 DEF Each, ConvFields
<1>4. PICK n : /\ e.made = UNION {AlterOffsets(in[i]).made \X {i} : i \in 1 .. n}
               /\ e.leaked = UNION {AlterOffsets(in[i]).leaked \X {i} : i \in 1 .. n}
  BY <1>1 DEF Each
<1>5. \A i \in 1 .. n : AlterOffsets(in[i]).made \X {i} \subseteq e.made
  BY <1>4
<1>6. ASSUME NEW x \in e.leaked PROVE \E i \in 1 .. n : x \in AlterOffsets(in[i]).leaked \X {i}
  BY <1>4
<1>7. ASSUME NEW x \in e.made PROVE \E i \in 1 .. n : x \in AlterOffsets(in[i]).made \X {i}
  BY <1>4
<1>8. FromItems("AlterConsumerGroupOffsets", e)
  <2>1. \A x \in e.made : \E d, i : ItemOK("AlterConsumerGroupOffsets", d) /\ x \in d.made \X {i}
    BY <1>2, <1>7
  <2>2. \A x \in e.leaked : \E d, i : ItemOK("AlterConsumerGroupOffsets", d) /\ x \in d.leaked \X {i} /\ d.made \X {i} \subseteq e.made
    BY <1>2, <1>5, <1>6
  <2> QED BY <1>3, <2>1, <2>2 DEF FromItems
<1> QED BY <1>1, <1>8, ItemsConverted

LEMMA AlterationEach == ASSUME NEW o, NEW in PROVE ConvOK(o, Each(in, Alteration))
<1>1. PICK e : e = Each(in, Alteration)
  OBVIOUS
<1>2. ASSUME NEW t PROVE ItemOK(o, Alteration(t)) /\ Alteration(t).end \in Ends /\ "ok" \in Ends
  BY SMT DEF Alteration, ItemOK, Conv, Own, Ends
<1>3. DOMAIN e = ConvFields /\ e.end \in Ends
  BY <1>1, <1>2 DEF Each, ConvFields
<1>4. PICK n : /\ e.made = UNION {Alteration(in[i]).made \X {i} : i \in 1 .. n}
               /\ e.leaked = UNION {Alteration(in[i]).leaked \X {i} : i \in 1 .. n}
  BY <1>1 DEF Each
<1>5. \A i \in 1 .. n : Alteration(in[i]).made \X {i} \subseteq e.made
  BY <1>4
<1>6. ASSUME NEW x \in e.leaked PROVE \E i \in 1 .. n : x \in Alteration(in[i]).leaked \X {i}
  BY <1>4
<1>7. ASSUME NEW x \in e.made PROVE \E i \in 1 .. n : x \in Alteration(in[i]).made \X {i}
  BY <1>4
<1>8. FromItems(o, e)
  <2>1. \A x \in e.made : \E d, i : ItemOK(o, d) /\ x \in d.made \X {i}
    BY <1>2, <1>7
  <2>2. \A x \in e.leaked : \E d, i : ItemOK(o, d) /\ x \in d.leaked \X {i} /\ d.made \X {i} \subseteq e.made
    BY <1>2, <1>5, <1>6
  <2> QED BY <1>3, <2>1, <2>2 DEF FromItems
<1> QED BY <1>1, <1>8, ItemsConverted

LEMMA NameEach == ASSUME NEW o, NEW in PROVE ConvOK(o, Each(in, Name))
<1>1. PICK e : e = Each(in, Name)
  OBVIOUS
<1>2. ASSUME NEW t PROVE ItemOK(o, Name(t)) /\ Name(t).end \in Ends /\ "ok" \in Ends
  BY SMT DEF Name, ItemOK, Conv, Own, Ends
<1>3. DOMAIN e = ConvFields /\ e.end \in Ends
  BY <1>1, <1>2 DEF Each, ConvFields
<1>4. PICK n : /\ e.made = UNION {Name(in[i]).made \X {i} : i \in 1 .. n}
               /\ e.leaked = UNION {Name(in[i]).leaked \X {i} : i \in 1 .. n}
  BY <1>1 DEF Each
<1>5. \A i \in 1 .. n : Name(in[i]).made \X {i} \subseteq e.made
  BY <1>4
<1>6. ASSUME NEW x \in e.leaked PROVE \E i \in 1 .. n : x \in Name(in[i]).leaked \X {i}
  BY <1>4
<1>7. ASSUME NEW x \in e.made PROVE \E i \in 1 .. n : x \in Name(in[i]).made \X {i}
  BY <1>4
<1>8. FromItems(o, e)
  <2>1. \A x \in e.made : \E d, i : ItemOK(o, d) /\ x \in d.made \X {i}
    BY <1>2, <1>7
  <2>2. \A x \in e.leaked : \E d, i : ItemOK(o, d) /\ x \in d.leaked \X {i} /\ d.made \X {i} \subseteq e.made
    BY <1>2, <1>5, <1>6
  <2> QED BY <1>3, <2>1, <2>2 DEF FromItems
<1> QED BY <1>1, <1>8, ItemsConverted

-----------------------------------------------------------------------------
(* The operations.                                                          *)

\* A list or a collection besides the elements.
LEMMA AddedOK ==
  ASSUME NEW o, NEW c, ConvOK(o, c), NEW k, k \notin Own
  PROVE  ConvOK(o, [c EXCEPT !.made = @ \cup {<<k, 0>>}])
<1>1. PICK d : d = [c EXCEPT !.made = @ \cup {<<k, 0>>}]
  OBVIOUS
<1>2. DOMAIN d = ConvFields /\ d.made = c.made \cup {<<k, 0>>} /\ d.leaked = c.leaked /\ d.end = c.end
  BY <1>1 DEF ConvOK, ConvFields
<1>3. <<k, 0>>[1] \notin Own
  OBVIOUS
<1> QED BY <1>1, <1>2, <1>3 DEF ConvOK

\* Objects without a list.
LEMMA MadeOK ==
  ASSUME NEW o, NEW S, \A x \in S : x[1] \notin Own
  PROVE  ConvOK(o, [Nothing EXCEPT !.made = S])
BY DEF ConvOK, ConvFields, Nothing, Ends

LEMMA FilterLeft == ASSUME NEW f PROVE PlanOK("DescribeACLs", DescribeACLs(f))
<1>1. PICK e : e = Each(<<f>>, aclBindingFilterToC)
  OBVIOUS
<1>2. ConvOK("DescribeACLs", e)
  BY <1>1, AclBindingFilterToCEach
<1>3. ASSUME NEW x \in e.made PROVE x[1] = "filter"
  <2>1. PICK i, t : x \in aclBindingFilterToC(t).made \X {i}
    BY <1>1, <1>3 DEF Each
  <2>2. x[1] \in aclBindingFilterToC(t).made
    BY <2>1, SMT
  <2> QED BY <2>2 DEF aclBindingFilterToC, Conv
<1>4. PICK d : d = [e EXCEPT !.leaked = @ \cup e.made]
  OBVIOUS
<1>5. DOMAIN d = ConvFields /\ d.made = e.made /\ d.leaked = e.leaked \cup e.made /\ d.end = e.end
  BY <1>2, <1>4 DEF ConvOK, ConvFields
<1>6. \A x \in e.made : Leaky("DescribeACLs", x)
  BY <1>3, LeaksKnown DEF Leaky
<1>7. ConvOK("DescribeACLs", d)
  BY <1>2, <1>5, <1>6 DEF ConvOK
<1>8. Leaky("DescribeACLs", AdminOptionsObject)
  BY LeaksKnown DEF Leaky, AdminOptionsObject, Object
<1>9. DescribeACLs(f) = KeepsOptions(d)
  BY <1>1, <1>4 DEF DescribeACLs
<1> QED BY <1>7, <1>8, <1>9, KeptMade DEF Queries

LEMMA AclsLeft ==
  Leaky("CreateACLs", AdminOptionsObject) /\ Leaky("DeleteACLs", AdminOptionsObject)
BY LeaksKnown DEF Leaky, AdminOptionsObject, Object

LEMMA Prepared == ASSUME NEW o \in Operations, NEW in PROVE PlanOK(o, Prepare(o, in))
<1> USE RequestMade, IndexedMade, UnverifiedMade, KeptMade, NothingConverted DEF Queries
<1>1. CASE o = "CreateTopics"
  <2>1. Prepare(o, in) = CreateTopics(in)
    BY <1>1 DEF Prepare
  <2> QED BY <2>1, <1>1, NewTopicEach DEF CreateTopics
<1>2. CASE o = "DeleteTopics"
  <2>1. Prepare(o, in) = DeleteTopics(in)
    BY <1>2 DEF Prepare
  <2> QED BY <2>1, <1>2, DeleteTopicEach DEF DeleteTopics
<1>3. CASE o = "CreatePartitions"
  <2>1. Prepare(o, in) = CreatePartitions(in)
    BY <1>3 DEF Prepare
  <2> QED BY <2>1, <1>3, NewPartitionsEach DEF CreatePartitions
<1>4. CASE o = "AlterConfigs"
  <2>1. Prepare(o, in) = AlterConfigs(in)
    BY <1>4 DEF Prepare
  <2> QED BY <2>1, <1>4, AlterResourceEach DEF AlterConfigs
<1>5. CASE o = "IncrementalAlterConfigs"
  <2>1. Prepare(o, in) = IncrementalAlterConfigs(in)
    BY <1>5 DEF Prepare
  <2> QED BY <2>1, <1>5, IncrementalResourceEach DEF IncrementalAlterConfigs
<1>6. CASE o = "DescribeConfigs"
  <2>1. Prepare(o, in) = DescribeConfigs(in)
    BY <1>6 DEF Prepare
  <2> QED BY <2>1, <1>6, DescribeResourceEach DEF DescribeConfigs
<1>7. CASE o = "DeleteConsumerGroups"
  <2>1. Prepare(o, in) = DeleteConsumerGroups(in)
    BY <1>7 DEF Prepare
  <2> QED BY <2>1, <1>7, DeleteGroupEach DEF DeleteConsumerGroups
<1>8. CASE o = "CreateACLs"
  <2>1. Prepare(o, in) = CreateACLs(in)
    BY <1>8 DEF Prepare
  <2> QED BY <2>1, <1>8, AclBindingToCEach, AclsLeft DEF CreateACLs
<1>9. CASE o = "DeleteACLs"
  <2>1. Prepare(o, in) = DeleteACLs(in)
    BY <1>9 DEF Prepare
  <2> QED BY <2>1, <1>9, AclBindingFilterToCEach, AclsLeft DEF DeleteACLs
<1>10. CASE o = "ListConsumerGroupOffsets"
  <2>1. Prepare(o, in) = ListConsumerGroupOffsets(in)
    BY <1>10 DEF Prepare
  <2> QED BY <2>1, <1>10, GroupPartitionsEach DEF ListConsumerGroupOffsets
<1>11. CASE o = "AlterConsumerGroupOffsets"
  <2>1. Prepare(o, in) = AlterConsumerGroupOffsets(in)
    BY <1>11 DEF Prepare
  <2> QED BY <2>1, <1>11, AlterOffsetsEach DEF AlterConsumerGroupOffsets
<1>12. CASE o = "AlterUserScramCredentials"
  <2>1. Prepare(o, in) = AlterUserScramCredentials(in)
    BY <1>12 DEF Prepare
  <2> QED BY <2>1, <1>12, AlterationEach DEF AlterUserScramCredentials
<1>13. CASE o = "DescribeConsumerGroups"
  <2>1. Prepare(o, in) = DescribeConsumerGroups(in)
    BY <1>13 DEF Prepare
  <2> QED BY <2>1, <1>13, NameEach DEF DescribeConsumerGroups
<1>14. CASE o = "DescribeUserScramCredentials"
  <2>1. Prepare(o, in) = DescribeUserScramCredentials(in)
    BY <1>14 DEF Prepare
  <2> QED BY <2>1, <1>14, NameEach DEF DescribeUserScramCredentials
<1>15. CASE o = "DescribeACLs"
  <2>1. Prepare(o, in) = DescribeACLs(in)
    BY <1>15 DEF Prepare
  <2> QED BY <1>15, <2>1, FilterLeft
<1>16. CASE o = "DescribeTopics"
  <2>1. Prepare(o, in) = DescribeTopics(in)
    BY <1>16 DEF Prepare
  <2> QED
    <3>1. "collection" \notin Own
      BY DEF Own
    <3>2. ConvOK(o, [Each(in, Name) EXCEPT !.made = @ \cup {<<"collection", 0>>}])
      BY <3>1, NameEach, AddedOK
    <3> QED BY <1>16, <2>1, <3>2 DEF DescribeTopics
<1>17. CASE o = "ListOffsets"
  <2>1. Prepare(o, in) = ListOffsets(in)
    BY <1>17 DEF Prepare
  <2> QED
    <3>1. "list" \notin Own
      BY DEF Own
    <3>2. ConvOK(o, [Each(in, Name) EXCEPT !.made = @ \cup {<<"list", 0>>}])
      BY <3>1, NameEach, AddedOK
    <3> QED BY <1>17, <2>1, <3>2 DEF ListOffsets
<1>18. CASE o = "DeleteRecords"
  <2>1. Prepare(o, in) = DeleteRecords(in)
    BY <1>18 DEF Prepare
  <2> QED
    <3>1. PICK S : S = {<<"list", 0>>, <<"request", 0>>}
      OBVIOUS
    <3>2. \A x \in S : x[1] \notin Own
      BY <3>1, SMT DEF Own
    <3>3. ConvOK(o, [Nothing EXCEPT !.made = S])
      BY <3>2, MadeOK
    <3> QED BY <1>18, <2>1, <3>1, <3>3 DEF DeleteRecords
<1>19. CASE o = "ElectLeaders"
  <2>1. Prepare(o, in) = ElectLeaders(in)
    BY <1>19 DEF Prepare
  <2> QED
    <3>1. PICK S : S = ({<<"request", 0>>} \cup (IF in = Nil THEN {} ELSE {<<"list", 0>>}))
      OBVIOUS
    <3>2. \A x \in S : x[1] \notin Own
      BY <3>1, SMT DEF Own
    <3>3. ConvOK(o, [Nothing EXCEPT !.made = S])
      BY <3>2, MadeOK
    <3> QED BY <1>19, <2>1, <3>1, <3>3 DEF ElectLeaders
<1>20. CASE o = "SetOAuthBearerToken"
  <2>1. Prepare(o, in) = setOAuthBearerToken(in)
    BY <1>20 DEF Prepare
  <2> QED
    <3>1. PICK S : S = (({"token", "principal", "errstr"} \X {0}) \cup ({"key", "value"} \X (1 .. in)))
      OBVIOUS
    <3>2. \A x \in S : x[1] \notin Own
      BY <3>1, SMT DEF Own
    <3>3. ConvOK(o, [Nothing EXCEPT !.made = S])
      BY <3>2, MadeOK
    <3>4. Prepare(o, in) = Request([Nothing EXCEPT !.made = S])
      BY <2>1, <3>1 DEF setOAuthBearerToken
    <3> QED BY <1>20, <3>3, <3>4
<1>21. CASE o = "SetOAuthBearerTokenFailure"
  <2>1. Prepare(o, in) = setOAuthBearerTokenFailure(in)
    BY <1>21 DEF Prepare
  <2> QED
    <3>1. PICK S : S = ({"errstr"} \X {0})
      OBVIOUS
    <3>2. \A x \in S : x[1] \notin Own
      BY <3>1, SMT DEF Own
    <3>3. ConvOK(o, [Nothing EXCEPT !.made = S])
      BY <3>2, MadeOK
    <3> QED BY <1>21, <2>1, <3>1, <3>3 DEF setOAuthBearerTokenFailure, Strings
<1>22. CASE o = "SetSaslCredentials"
  <2>1. Prepare(o, in) = setSaslCredentials(in)
    BY <1>22 DEF Prepare
  <2> QED
    <3>1. PICK S : S = ({"username", "password"} \X {0})
      OBVIOUS
    <3>2. \A x \in S : x[1] \notin Own
      BY <3>1, SMT DEF Own
    <3>3. ConvOK(o, [Nothing EXCEPT !.made = S])
      BY <3>2, MadeOK
    <3> QED BY <1>22, <2>1, <3>1, <3>3 DEF setSaslCredentials, Strings
<1>23. CASE o = "ListConsumerGroups"
  <2>1. Prepare(o, in) = ListConsumerGroups(in)
    BY <1>23 DEF Prepare
  <2> QED BY <1>23, <2>1 DEF ListConsumerGroups, Nothing
<1>24. CASE o = "DescribeCluster"
  <2>1. Prepare(o, in) = DescribeCluster(in)
    BY <1>24 DEF Prepare
  <2> QED BY <1>24, <2>1 DEF DescribeCluster, Nothing
<1>25. CASE o \in Queries \cup {"GetMetadata"}
  <2>1. Prepare(o, in) = Request(Nothing)
    BY <1>25 DEF Prepare
  <2> QED BY <1>25, <2>1 DEF Nothing
<1> QED BY <1>1, <1>2, <1>3, <1>4, <1>5, <1>6, <1>7, <1>8, <1>9, <1>10, <1>11, <1>12, <1>13, <1>14, <1>15, <1>16, <1>17, <1>18, <1>19, <1>20, <1>21, <1>22, <1>23, <1>24, <1>25 DEF Operations, Requests, Directs

-----------------------------------------------------------------------------
(* The options.                                                             *)

\* A set of naturals has a least element.
LEMMA LeastOne == ASSUME NEW S \in SUBSET Nat, S # {} PROVE \E i \in S : \A j \in S : i <= j
<1>1. PICK R : R = OpToRel(<, Nat)
  OBVIOUS
<1>2. IsWellFoundedOn(R, Nat)
  BY <1>1, NatLessThanWellFounded
<1>3. PICK i \in S : \A j \in S : ~(<<j, i>> \in R)
  BY <1>2, WFMin
<1>4. \A j \in S : ~(j < i)
  BY <1>1, <1>3 DEF OpToRel
<1> QED BY <1>4, SMT

\* An option is applied, refused or, for the states and types of ListConsumerGroups(),
\* panics.
LEMMA OptionOK ==
  ASSUME NEW o, NEW v, NEW ao \in AdminOptions(o, v)
  PROVE  ao.apply \in {"ok", "refused", "panic"} /\ (ao.apply = "panic" => o = "ListConsumerGroups")
<1>1. \A ops, list : /\ Option(ops, list, v).ops = ops
                     /\ Option(ops, list, v).apply \in {"ok", "refused", "panic"}
                     /\ Option(ops, list, v).apply = "panic" => list
  BY DEF Option
<1> USE <1>1
<1>0. o \in ao.ops
  BY DEF AdminOptions
<1>2. CASE ao = OperationTimeout(v)
  BY <1>2 DEF OperationTimeout
<1>3. CASE ao = RequestTimeout(v)
  BY <1>3 DEF RequestTimeout
<1>4. CASE ao = IsolationLevel(v)
  BY <1>4 DEF IsolationLevel
<1>5. CASE ao = ValidateOnly(v)
  BY <1>5 DEF ValidateOnly
<1>6. CASE ao = RequireStableOffsets(v)
  BY <1>6 DEF RequireStableOffsets
<1>7. CASE ao = MatchConsumerGroupStates(v)
  <2>1. ao.ops = {"ListConsumerGroups"} /\ ao.apply \in {"ok", "refused", "panic"}
    BY <1>7 DEF MatchConsumerGroupStates
  <2> QED BY <1>0, <2>1
<1>8. CASE ao = MatchConsumerGroupTypes(v)
  <2>1. ao.ops = {"ListConsumerGroups"} /\ ao.apply \in {"ok", "refused", "panic"}
    BY <1>8 DEF MatchConsumerGroupTypes
  <2> QED BY <1>0, <2>1
<1>9. CASE ao = IncludeAuthorizedOperations(v)
  BY <1>9 DEF IncludeAuthorizedOperations
<1> QED BY <1>2, <1>3, <1>4, <1>5, <1>6, <1>7, <1>8, <1>9 DEF AdminOptions

LEMMA OptionsApplied ==
  ASSUME NEW o \in Requests, NEW options \in OptionLists(o)
  PROVE  /\ Applied(options) \in {"ok", "refused", "panic"}
         /\ Applied(options) = "panic" => o = "ListConsumerGroups"
<1>1. DOMAIN options \subseteq Nat /\ \A i \in DOMAIN options : \E v \in OptionValues : options[i] \in AdminOptions(o, v)
  BY AdminConstants
<1>2. PICK bad : bad = {i \in DOMAIN options : options[i].apply # "ok"}
  OBVIOUS
<1>3. CASE bad = {}
  BY <1>2, <1>3 DEF Applied
<1>4. CASE bad # {}
  <2>1. bad \in SUBSET Nat
    BY <1>1, <1>2
  <2>2. \E i \in bad : \A j \in bad : i <= j
    BY <1>4, <2>1, LeastOne
  <2>3. PICK i : i = CHOOSE k \in bad : \A j \in bad : k <= j
    OBVIOUS
  <2>4. i \in bad
    BY <2>2, <2>3
  <2>5. Applied(options) = options[i].apply
    BY <1>2, <1>4, <2>3 DEF Applied
  <2>6. PICK v : options[i] \in AdminOptions(o, v)
    BY <1>1, <1>2, <2>4
  <2>7. options[i].apply \in {"ok", "refused", "panic"} /\ (options[i].apply = "panic" => o = "ListConsumerGroups")
    BY <2>6, OptionOK
  <2> QED BY <2>5, <2>7
<1> QED BY <1>3, <1>4

-----------------------------------------------------------------------------
(* Steps of a record.                                                       *)
Response == Object("response")
Returns == {"closed", "invalid", "panic", "ok", "error", "ctx"}
Waiters == {"none", "loop", "poll", "send", "ask", "found", "timeout", "exit"}

\* Two calls that differ in what they were given and answered only.
Like(r, s) ==
  /\ DOMAIN s = CallFields
  /\ s.pc = r.pc /\ s.op = r.op /\ s.plan = r.plan /\ s.ctx = r.ctx
  /\ s.made = r.made /\ s.deferred = r.deferred /\ s.twice = r.twice
  /\ s.pending = r.pending /\ s.reply = r.reply /\ s.closeChan = r.closeChan
  /\ s.waiter = r.waiter /\ s.ret = r.ret

\* What a call leaves behind depends on how it ended.
LEMMA LeaksKept ==
  ASSUME NEW r, NEW s, s.op = r.op, s.ret = r.ret, s.ctx = r.ctx, s.waiter = "none" => r.waiter = "none",
         NEW k \in Leaks(r)
  PROVE  k \in Leaks(s)
<1>1. KnownLeaks(s) = KnownLeaks(r)
  BY SMT DEF KnownLeaks
<1> QED BY <1>1 DEF Leaks

LEMMA LikeFinished == ASSUME NEW r, NEW s, Like(r, s), Finished(r) PROVE Finished(s)
<1>1. s.op = r.op /\ s.ret = r.ret /\ s.ctx = r.ctx /\ s.waiter = r.waiter
  BY DEF Like
<1>2. s.deferred = r.deferred /\ s.reply = r.reply /\ s.made = r.made
  BY DEF Like
<1>3. \A x \in s.made : x[1] \in Leaks(s)
  BY <1>1, <1>2, LeaksKept DEF Finished
<1> QED BY <1>1, <1>2, <1>3 DEF Finished

LEMMA LikeOK == ASSUME NEW r, NEW s, Like(r, s), CallOK(r) PROVE CallOK(s)
<1> USE DEF Like
<1>1. Typed(s)
  BY DEF Typed, CallOK
<1>2. s.pc = "idle" => Unstarted(s)
  BY DEF CallOK, Unstarted, Silent
<1>3. s.pc \in {"options", "queue", "request"} => Preparing(s)
  BY DEF CallOK, Preparing, Silent, Owned
<1>4. s.pc \in {"wait", "drain"} => Awaiting(s)
  BY DEF CallOK, Awaiting, Owned
<1>5. s.pc = "convert" => Converting(s)
  BY DEF CallOK, Converting, Silent, Owned
<1>6. s.pc \in {"ask", "askTimeout", "askDrain"} => Asking(s)
  BY DEF CallOK, Asking, Silent
<1>7. s.pc = "direct" => Directly(s)
  BY DEF CallOK, Directly, Silent
<1>8. s.pc = "done" => Finished(s)
  BY LikeFinished DEF CallOK
<1> QED BY <1>1, <1>2, <1>3, <1>4, <1>5, <1>6, <1>7, <1>8 DEF CallOK

\* A call keeps its excuses.
Carries(r, s) == s.raced = r.raced /\ s.plan = r.plan /\ s.bad = r.bad
Fine(r) == CallOK(r) /\ Allowed(r, isClosed) /\ Excused(r, parentClosed)

LEMMA CarriesFine ==
  ASSUME NEW r, NEW s, Fine(r), Carries(r, s), CallOK(s), Active(s) => Active(r) PROVE Fine(s)
BY DEF Fine, Carries, Allowed, Excused

\* A call that runs reads the handle.
Used(r, u) == Like(r, u) /\ u.raced = r.raced /\ u.hand = r.hand /\ u.result = r.result

LEMMA UsingFine ==
  ASSUME NEW r, Fine(r), Active(r), ClientOK PROVE Used(r, Using(r)) /\ Fine(Using(r))
<1>1. PICK u : u = Using(r)
  OBVIOUS
<1>2. DOMAIN r = CallFields
  BY DEF Fine, CallOK, Typed
<1>3. Used(r, u)
  BY <1>1, <1>2 DEF Using, CallFields, Used, Like
<1>4. u.bad = (r.bad \/ handle = "empty" \/ rk = "destroyed")
  BY <1>1, <1>2 DEF Using, CallFields
<1>5. CallOK(u)
  BY <1>3, LikeOK DEF Used, Fine
<1>6. u.raced = r.raced /\ u.plan = r.plan /\ u.pc = r.pc /\ u.waiter = r.waiter
  BY <1>3 DEF Used, Like
<1>7. Allowed(u, isClosed)
  BY <1>6 DEF Fine, Allowed, Active
<1>8. handle = "empty" \/ rk = "destroyed" => isClosed \/ parentClosed
  BY DEF ClientOK
<1>9. Excused(u, parentClosed)
  BY <1>4, <1>6, <1>8 DEF Fine, Allowed, Excused
<1> QED BY <1>1, <1>3, <1>5, <1>7, <1>9 DEF Fine

\* A return.
ReturnsTo(r, how, s) ==
  /\ DOMAIN s = CallFields
  /\ s.pc = "done" /\ s.ret = how /\ s.deferred = {} /\ s.reply = NoEvent /\ ~s.twice
  /\ \A x \in s.made : x \in r.made /\ x \notin r.deferred
  /\ Queue \in r.deferred /\ r.reply # NoEvent => Event \notin s.made
  /\ s.op = r.op /\ s.plan = r.plan /\ s.ctx = r.ctx /\ s.waiter = r.waiter
  /\ s.bad = r.bad /\ s.raced = r.raced

Returning(r) ==
  /\ DOMAIN r = CallFields /\ r.deferred \subseteq r.made /\ ~r.twice
  /\ Queue \in r.deferred /\ r.reply # NoEvent => Event \in r.made

LEMMA Returned == ASSUME NEW r, NEW how, Returning(r) PROVE ReturnsTo(r, how, Return(r, how))
<1>1. PICK q : q = IF Object("queue") \in r.deferred /\ r.reply # NoEvent THEN {Object("event")} ELSE {}
  OBVIOUS
<1>2. PICK d : d = Destroy(r, r.deferred \cup q)
  OBVIOUS
<1>3. PICK s : s = [d EXCEPT !.pc = "done", !.ret = how, !.deferred = {}, !.reply = NoEvent]
  OBVIOUS
<1>4. Return(r, how) = s
  BY <1>1, <1>2, <1>3 DEF Return
<1>5. r.deferred \cup q \subseteq r.made
  BY <1>1 DEF Returning, Queue, Event
<1>6. /\ DOMAIN d = CallFields /\ d.made = r.made \ (r.deferred \cup q) /\ ~d.twice
      /\ d.op = r.op /\ d.plan = r.plan /\ d.ctx = r.ctx /\ d.waiter = r.waiter
      /\ d.bad = r.bad /\ d.raced = r.raced
  BY <1>2, <1>5 DEF Destroy, Returning, CallFields
<1>7. /\ DOMAIN s = CallFields
      /\ s.pc = "done" /\ s.ret = how /\ s.deferred = {} /\ s.reply = NoEvent
      /\ s.made = d.made /\ s.twice = d.twice
      /\ s.op = d.op /\ s.plan = d.plan /\ s.ctx = d.ctx /\ s.waiter = d.waiter
      /\ s.bad = d.bad /\ s.raced = d.raced
  BY <1>3, <1>6 DEF CallFields
<1>8. Queue \in r.deferred /\ r.reply # NoEvent => Event \in q
  BY <1>1 DEF Queue, Event
<1>9. \A x \in s.made : x \in r.made /\ x \notin r.deferred /\ x \notin q
  BY <1>6, <1>7
<1>10. ReturnsTo(r, how, s)
  BY <1>6, <1>7, <1>8, <1>9 DEF ReturnsTo
<1> QED BY <1>4, <1>10

\* What a return leaves behind.
Abandoned(r, how) == r.ctx = "nil" /\ how = "panic" /\ r.waiter # "none"
Left(r, how, x) ==
  \/ x \in r.deferred
  \/ Leaky(r.op, x)
  \/ x = Event /\ Queue \in r.deferred /\ r.reply # NoEvent
  \/ x \in {Event, Response} /\ Abandoned(r, how)
  \/ x = AdminOptionsObject /\ r.op = "ListConsumerGroups" /\ how = "panic"
Leaves(r, how) ==
  /\ how \in Returns /\ Returning(r) /\ r.waiter \in Waiters
  /\ Queue \in r.made => Queue \in r.deferred
  /\ \A x \in r.made : Left(r, how, x)
  /\ r.waiter \notin {"none", "exit"} => Abandoned(r, how)

LEMMA LeftLeaks ==
  ASSUME NEW r, NEW how, NEW s, ReturnsTo(r, how, s), NEW x \in s.made, Left(r, how, x)
  PROVE  x[1] \in Leaks(s)
<1>1. x \notin r.deferred /\ s.op = r.op /\ s.ctx = r.ctx /\ s.ret = how /\ s.waiter = r.waiter
  BY DEF ReturnsTo
<1>2. \A k \in KnownLeaks(s) : k \in Leaks(s)
  BY DEF Leaks
<1>3. CASE Leaky(r.op, x)
  BY <1>1, <1>2, <1>3 DEF Leaky
<1>4. ~(x = Event /\ Queue \in r.deferred /\ r.reply # NoEvent)
  BY DEF ReturnsTo
<1>5. CASE x \in {Event, Response} /\ Abandoned(r, how)
  <2>1. x[1] \in {"event", "response"}
    BY <1>5, SMT DEF Event, Response, Object
  <2>2. Leaks(s) = KnownLeaks(s) \cup {"event", "response"}
    BY <1>1, <1>5 DEF Leaks, Abandoned
  <2> QED BY <2>1, <2>2
<1>6. CASE x = AdminOptionsObject /\ r.op = "ListConsumerGroups" /\ how = "panic"
  <2>1. x[1] = "options"
    BY <1>6, SMT DEF AdminOptionsObject, Object
  <2>2. "options" \in KnownLeaks(s)
    BY <1>1, <1>6, SMT DEF KnownLeaks
  <2> QED BY <1>2, <2>1, <2>2
<1> QED BY <1>1, <1>3, <1>4, <1>5, <1>6 DEF Left

LEMMA ReturnOK ==
  ASSUME NEW r, NEW how, Leaves(r, how) PROVE CallOK(Return(r, how)) /\ ReturnsTo(r, how, Return(r, how))
<1>1. PICK s : s = Return(r, how)
  OBVIOUS
<1>2. ReturnsTo(r, how, s)
  BY <1>1, Returned DEF Leaves
<1>3. \A x \in s.made : x[1] \in Leaks(s)
  <2>1. ASSUME NEW x \in s.made PROVE x[1] \in Leaks(s)
    <3>1. Left(r, how, x)
      BY <1>2 DEF ReturnsTo, Leaves
    <3> QED BY <1>2, <3>1, LeftLeaks
  <2> QED BY <2>1
<1>4. s.waiter = r.waiter /\ s.ctx = r.ctx /\ s.ret = how
  BY <1>2 DEF ReturnsTo
<1>5. Queue \notin s.made
  BY <1>2 DEF ReturnsTo, Leaves
<1>6. Finished(s)
  BY <1>2, <1>3, <1>4, <1>5 DEF ReturnsTo, Finished, Leaves, Abandoned
<1>7. Typed(s)
  BY <1>2, <1>4 DEF ReturnsTo, Typed, Leaves, Returns, Waiters
<1>8. s.pc = "done"
  BY <1>2 DEF ReturnsTo
<1> QED BY <1>1, <1>2, <1>6, <1>7, <1>8 DEF CallOK

LEMMA ReturnFine ==
  ASSUME NEW c, NEW r, NEW how, Fine(c), Carries(c, r), Leaves(r, how), Active(r) => Active(c)
  PROVE  Fine(Return(r, how))
<1>1. PICK s : s = Return(r, how)
  OBVIOUS
<1>2. CallOK(s) /\ ReturnsTo(r, how, s)
  BY <1>1, ReturnOK
<1>3. Carries(c, s)
  BY <1>2 DEF ReturnsTo, Carries
<1>4. Active(s) => Active(r)
  BY <1>2 DEF ReturnsTo, Active
<1> QED BY <1>1, <1>2, <1>3, <1>4, CarriesFine

-----------------------------------------------------------------------------
(* The steps of a call.                                                     *)
LEMMA NowFine ==
  ASSUME AdminInv, NEW t \in Callers, NEW s, Now(t, s), Fine(s) PROVE AdminInv'
<1>1. /\ use' = use /\ isClosed' = isClosed /\ handle' = handle /\ rk' = rk /\ parentClosed' = parentClosed
      /\ closer' = closer /\ log' = log /\ calls' = [calls EXCEPT ![t] = s]
  BY DEF Now, client
<1>2. ClientOK' /\ LogOK'
  BY <1>1 DEF AdminInv, ClientOK, LogOK
<1>3. DOMAIN calls' = Callers
  BY <1>1 DEF AdminInv
<1>4. ASSUME NEW u \in Callers
      PROVE  CallOK(calls'[u]) /\ Allowed(calls'[u], isClosed') /\ Excused(calls'[u], parentClosed')
  <2>1. CASE u = t
    <3>1. calls'[u] = s
      BY <1>1, <2>1 DEF AdminInv
    <3> QED BY <1>1, <3>1 DEF Fine
  <2>2. CASE u # t
    <3>1. calls'[u] = calls[u]
      BY <1>1, <2>2 DEF AdminInv
    <3> QED BY <1>1, <3>1 DEF AdminInv
  <2> QED BY <2>1, <2>2
<1> QED BY <1>2, <1>3, <1>4 DEF AdminInv

LEMMA CallFine == ASSUME AdminInv, NEW t \in Callers PROVE Fine(calls[t]) /\ DOMAIN calls[t] = CallFields /\ ClientOK
BY DEF AdminInv, Fine, CallOK, Typed

\* The parts of CallOK, for a step to another pc.
LEMMA TypedPreparing ==
  ASSUME NEW s, Typed(s), s.pc \in {"options", "queue", "request"}, Preparing(s) PROVE CallOK(s)
BY DEF CallOK
LEMMA TypedAwaiting == ASSUME NEW s, Typed(s), s.pc \in {"wait", "drain"}, Awaiting(s) PROVE CallOK(s)
BY DEF CallOK
LEMMA TypedConverting == ASSUME NEW s, Typed(s), s.pc = "convert", Converting(s) PROVE CallOK(s)
BY DEF CallOK
LEMMA TypedAsking == ASSUME NEW s, Typed(s), s.pc \in {"ask", "askTimeout", "askDrain"}, Asking(s) PROVE CallOK(s)
BY DEF CallOK
LEMMA TypedDirectly == ASSUME NEW s, Typed(s), s.pc = "direct", Directly(s) PROVE CallOK(s)
BY DEF CallOK
LEMMA TypedFinished == ASSUME NEW s, Typed(s), s.pc = "done", Finished(s) PROVE CallOK(s)
BY DEF CallOK

\* An operation of Directs leaves nothing behind.
LEMMA DirectsLeakNothing == ASSUME NEW o \in Directs, NEW x PROVE ~Leaky(o, x)
<1>1. PICK d : d = [op |-> o, ret |-> "none"]
  OBVIOUS
<1>2. KnownLeaks(d) = {}
  BY <1>1, SMT DEF KnownLeaks, Directs
<1>3. d.op = o
  BY <1>1
<1> QED BY <1>2, <1>3 DEF Leaky

\* verifyClient() lets a call through, or none.
LEMMA BeginStep ==
  ASSUME AdminInv, NEW t \in Callers, NEW o \in Operations, NEW in, NEW c, Begin(t, o, in, c) PROVE AdminInv'
<1>1. PICK p : p = Prepare(o, in)
  OBVIOUS
<1>2. PlanOK(o, p)
  BY <1>1, Prepared
<1>3. PICK plan : plan = [p EXCEPT !.conv = Nothing]
  OBVIOUS
<1>4. plan.verified = p.verified /\ plan.freesOptions = p.freesOptions
  BY <1>2, <1>3 DEF PlanOK, PlanFields
<1>5. PICK r : r = [NoCall EXCEPT !.op = o, !.plan = plan, !.ctx = c, !.made = p.conv.made,
                                  !.deferred = p.conv.made \ p.conv.leaked]
  OBVIOUS
<1>6. /\ DOMAIN r = CallFields /\ r.pc = "idle" /\ r.op = o /\ r.plan = plan /\ r.ctx = c
      /\ r.made = p.conv.made /\ r.deferred = p.conv.made \ p.conv.leaked /\ ~r.twice
      /\ ~r.pending /\ r.reply = NoEvent /\ r.waiter = "none" /\ ~r.bad /\ r.ret = "none"
  BY <1>5 DEF NoCall, CallFields
<1>7. PICK k : k = [NoCall EXCEPT !.op = o, !.plan = plan, !.pc = "done", !.ret = "closed"]
  OBVIOUS
<1>8. PICK s : s = [r EXCEPT !.pc = CASE o \in Requests -> "options" [] o \in Queries -> "ask" [] o \in Directs -> "direct",
                              !.waiter = IF o \in Queries THEN "ask" ELSE "none"]
  OBVIOUS
<1>9. Now(t, IF ~verifyClient(p) THEN k ELSE IF p.conv.end # "ok" THEN Return(r, p.conv.end) ELSE s)
  BY <1>1, <1>3, <1>5, <1>6, <1>7, <1>8 DEF Begin
<1>10. /\ \A x \in r.made : x[1] \notin Own
       /\ \A x \in r.made : x \in r.deferred \/ Leaky(o, x)
       /\ p.conv.end \in Ends
  BY <1>2, <1>6 DEF PlanOK, ConvOK
<1>11. Queue \notin r.made /\ Event \notin r.made
  <2>1. Queue[1] \in Own /\ Event[1] \in Own
    BY SMT DEF Queue, Event, Object, Own
  <2> QED BY <1>10, <2>1
<1>12. Fine(k)
  <2>1. /\ DOMAIN k = CallFields /\ k.pc = "done" /\ k.made = {} /\ k.deferred = {} /\ ~k.twice
        /\ k.reply = NoEvent /\ k.waiter = "none" /\ ~k.bad /\ k.ret = "closed"
    BY <1>7 DEF NoCall, CallFields
  <2>2. Typed(k) /\ Finished(k)
    BY <2>1 DEF Typed, Finished
  <2>3. CallOK(k)
    BY <2>1, <2>2, TypedFinished
  <2> QED BY <2>1, <2>3 DEF Fine, Allowed, Excused, Active
<1>13. CASE ~verifyClient(p)
  BY <1>9, <1>12, <1>13, NowFine
<1>14. CASE verifyClient(p) /\ p.conv.end # "ok"
  <2>1. Leaves(r, p.conv.end)
    BY <1>6, <1>10, <1>11 DEF Leaves, Returning, Left, Returns, Waiters, Ends
  <2>2. PICK z : z = Return(r, p.conv.end)
    OBVIOUS
  <2>3. CallOK(z) /\ ReturnsTo(r, p.conv.end, z)
    BY <2>1, <2>2, ReturnOK
  <2>4. z.pc = "done" /\ z.waiter = "none" /\ ~z.bad
    BY <1>6, <2>3 DEF ReturnsTo
  <2>5. Fine(z)
    BY <2>3, <2>4 DEF Fine, Allowed, Excused, Active
  <2>6. Now(t, z)
    BY <1>9, <1>14, <2>2
  <2> QED BY <2>5, <2>6, NowFine
<1>15. CASE verifyClient(p) /\ p.conv.end = "ok"
  <2>1. /\ DOMAIN s = CallFields /\ s.op = o /\ s.plan = plan
        /\ s.made = r.made /\ s.deferred = r.deferred /\ ~s.twice
        /\ ~s.pending /\ s.reply = NoEvent /\ ~s.bad /\ s.ret = "none"
    BY <1>6, <1>8 DEF CallFields
  <2>2. s.deferred \subseteq s.made
    BY <1>6, <2>1
  <2>3. Silent(s)
    BY <2>1 DEF Silent
  <2>4. CallOK(s)
    <3>1. CASE o \in Requests
      <4>0. o \notin Queries /\ o \notin Directs
        BY <3>1 DEF Requests, Queries, Directs
      <4>1. s.pc = "options" /\ s.waiter = "none"
        BY <1>6, <1>8, <3>1, <4>0 DEF CallFields
      <4>2. Typed(s)
        BY <2>1, <2>2, <4>1 DEF Typed
      <4>3. Owned(s)
        BY <1>10, <2>1 DEF Owned
      <4>4. ~s.plan.freesOptions => Leaky(s.op, AdminOptionsObject)
        BY <1>2, <1>4, <2>1 DEF PlanOK
      <4>5. Preparing(s)
        BY <1>10, <1>11, <2>1, <2>3, <3>1, <4>1, <4>3, <4>4 DEF Preparing
      <4> QED BY <4>1, <4>2, <4>5, TypedPreparing
    <3>2. CASE o \in Queries
      <4>0. o \notin Requests /\ o \notin Directs
        BY <3>2 DEF Requests, Queries, Directs
      <4>1. s.pc = "ask" /\ s.waiter = "ask"
        BY <1>6, <1>8, <3>2, <4>0 DEF CallFields
      <4>2. Typed(s)
        BY <2>1, <2>2, <4>1 DEF Typed
      <4>3. s.made = {} /\ s.deferred = {}
        BY <1>2, <1>6, <2>1, <3>2 DEF PlanOK
      <4>4. Asking(s)
        BY <2>3, <4>1, <4>3 DEF Asking
      <4> QED BY <4>1, <4>2, <4>4, TypedAsking
    <3>3. CASE o \in Directs
      <4>0. o \notin Requests /\ o \notin Queries
        BY <3>3 DEF Requests, Queries, Directs
      <4>1. s.pc = "direct" /\ s.waiter = "none"
        BY <1>6, <1>8, <3>3, <4>0 DEF CallFields
      <4>2. Typed(s)
        BY <2>1, <2>2, <4>1 DEF Typed
      <4>3. s.deferred = s.made
        BY <1>6, <1>10, <2>1, <3>3, DirectsLeakNothing
      <4>4. Directly(s)
        BY <1>11, <2>1, <2>3, <4>1, <4>3 DEF Directly
      <4> QED BY <4>1, <4>2, <4>4, TypedDirectly
    <3> QED BY <3>1, <3>2, <3>3 DEF Operations
  <2>5. Allowed(s, isClosed)
    BY <1>4, <1>15, <2>1 DEF Allowed, verifyClient
  <2>6. Fine(s)
    BY <2>1, <2>4, <2>5 DEF Fine, Excused
  <2>7. Now(t, s)
    BY <1>9, <1>15
  <2> QED BY <2>6, <2>7, NowFine
<1> QED BY <1>13, <1>14, <1>15

LEMMA OptionsStep ==
  ASSUME AdminInv, NEW t \in Callers, NEW options \in OptionLists(calls[t].op), Options(t, options) PROVE AdminInv'
<1>1. PICK r : r = calls[t]
  OBVIOUS
<1>2. Fine(r) /\ DOMAIN r = CallFields /\ ClientOK /\ r.pc = "options"
  BY <1>1, CallFine DEF Options
<1>3. Active(r)
  BY <1>2 DEF Active
<1>4. PICK u : u = Using(r)
  OBVIOUS
<1>5. Fine(u) /\ Used(r, u)
  BY <1>2, <1>3, <1>4, UsingFine
<1>6. u.pc = "options" /\ DOMAIN u = CallFields /\ u.op = r.op
  BY <1>2, <1>5 DEF Used, Like
<1>7. Typed(u) /\ Preparing(u)
  BY <1>5, <1>6 DEF Fine, CallOK
<1>8. /\ u.waiter = "none" /\ u.op \in Requests /\ ~u.pending /\ u.reply = NoEvent
      /\ u.deferred \subseteq u.made /\ ~u.twice
      /\ Event \notin u.made /\ Queue \notin u.made
      /\ \A x \in u.made : x[1] \notin Own
      /\ ~u.plan.freesOptions => Leaky(u.op, AdminOptionsObject)
      /\ u.ret \in {"none", "closed", "invalid", "panic", "ok", "error", "ctx"}
  BY <1>6, <1>7 DEF Typed, Preparing, Silent
<1>9. \A x \in u.made : x \in u.deferred \/ Leaky(u.op, x)
  BY <1>7, <1>8 DEF Preparing, Owned
<1>10. AdminOptionsObject \notin u.made /\ AdminOptionsObject # Queue /\ AdminOptionsObject # Event
  <2>1. AdminOptionsObject[1] \in Own /\ AdminOptionsObject # Queue /\ AdminOptionsObject # Event
    BY SMT DEF AdminOptionsObject, Queue, Event, Object, Own
  <2> QED BY <1>8, <2>1
<1>11. PICK o : o = [u EXCEPT !.made = @ \cup {AdminOptionsObject}]
  OBVIOUS
<1>12. /\ DOMAIN o = CallFields /\ o.pc = "options" /\ o.op = u.op /\ o.plan = u.plan /\ o.ctx = u.ctx
       /\ o.made = u.made \cup {AdminOptionsObject} /\ o.deferred = u.deferred /\ ~o.twice
       /\ ~o.pending /\ o.reply = NoEvent /\ o.waiter = "none" /\ o.bad = u.bad /\ o.raced = u.raced /\ o.ret = u.ret
  BY <1>6, <1>8, <1>11 DEF CallFields
<1>13. PICK applied : applied = Applied(options)
  OBVIOUS
<1>14. applied \in {"ok", "refused", "panic"} /\ (applied = "panic" => u.op = "ListConsumerGroups")
  BY <1>1, <1>6, <1>8, <1>13, OptionsApplied
<1>15. PICK s : s = adminOptionsSetup(u, options)
  OBVIOUS
<1>16. Now(t, s)
  BY <1>1, <1>4, <1>15 DEF Options
<1>17. Carries(u, o) /\ Active(u)
  BY <1>6, <1>12 DEF Carries, Active
<1>18. CASE applied = "ok"
  <2>1. s = [o EXCEPT !.pc = "queue", !.deferred = @ \cup IF o.plan.freesOptions THEN {AdminOptionsObject} ELSE {}]
    BY <1>11, <1>13, <1>15, <1>18 DEF adminOptionsSetup, AdminOptionsObject
  <2>2. /\ DOMAIN s = CallFields /\ s.pc = "queue" /\ s.op = o.op /\ s.plan = o.plan
        /\ s.made = o.made /\ s.deferred = o.deferred \cup IF o.plan.freesOptions THEN {AdminOptionsObject} ELSE {}
        /\ ~s.twice /\ ~s.pending /\ s.reply = NoEvent /\ s.waiter = "none"
        /\ s.bad = o.bad /\ s.raced = o.raced /\ s.ret = o.ret
    BY <1>12, <2>1 DEF CallFields
  <2>3. s.deferred \subseteq s.made
    BY <1>8, <1>12, <2>2
  <2>4. Typed(s)
    BY <1>8, <1>12, <2>2, <2>3 DEF Typed
  <2>5. Owned(s)
    BY <1>8, <1>9, <1>12, <2>2 DEF Owned
  <2>6. Event \notin s.made /\ Queue \notin s.made
    BY <1>8, <1>10, <1>12, <2>2
  <2>7. Preparing(s)
    BY <1>8, <1>12, <2>2, <2>5, <2>6 DEF Preparing, Silent
  <2>8. CallOK(s)
    BY <2>2, <2>4, <2>7, TypedPreparing
  <2>9. Carries(u, s)
    BY <1>12, <2>2 DEF Carries
  <2>10. Fine(s)
    BY <1>5, <1>17, <2>8, <2>9, CarriesFine
  <2> QED BY <1>16, <2>10, NowFine
<1>19. CASE applied = "refused"
  <2>1. PICK d : d = Destroy(o, {AdminOptionsObject})
    OBVIOUS
  <2>2. s = Return(d, "invalid")
    BY <1>11, <1>13, <1>15, <1>19, <2>1 DEF adminOptionsSetup, AdminOptionsObject
  <2>3. AdminOptionsObject \in o.made
    BY <1>12
  <2>4. /\ DOMAIN d = CallFields /\ d.op = o.op /\ d.plan = o.plan
        /\ d.made = o.made \ {AdminOptionsObject} /\ d.deferred = o.deferred /\ ~d.twice
        /\ d.reply = NoEvent /\ d.waiter = "none" /\ d.bad = o.bad /\ d.raced = o.raced /\ d.pc = o.pc
    BY <1>12, <2>1, <2>3 DEF Destroy, CallFields
  <2>5. d.made = u.made
    BY <1>10, <1>12, <2>4
  <2>6. Leaves(d, "invalid")
    BY <1>8, <1>9, <1>12, <2>4, <2>5 DEF Leaves, Returning, Left, Returns, Waiters
  <2>7. Carries(u, d)
    BY <1>12, <2>4 DEF Carries
  <2>8. Fine(s)
    BY <1>5, <1>17, <2>2, <2>6, <2>7, ReturnFine
  <2> QED BY <1>16, <2>8, NowFine
<1>20. CASE applied = "panic"
  <2>1. s = Return(o, "panic")
    BY <1>11, <1>13, <1>15, <1>20 DEF adminOptionsSetup, AdminOptionsObject
  <2>2. o.deferred \subseteq o.made
    BY <1>8, <1>12
  <2>3. \A x \in o.made : Left(o, "panic", x)
    BY <1>9, <1>12, <1>14, <1>20 DEF Left
  <2>4. Queue \notin o.made
    BY <1>8, <1>10, <1>12
  <2>5. Leaves(o, "panic")
    BY <1>12, <2>2, <2>3, <2>4 DEF Leaves, Returning, Returns, Waiters
  <2>6. Fine(s)
    BY <1>5, <1>17, <2>1, <2>5, ReturnFine
  <2> QED BY <1>16, <2>6, NowFine
<1> QED BY <1>14, <1>18, <1>19, <1>20

LEMMA NewQueueStep == ASSUME AdminInv, NEW t \in Callers, NewQueue(t) PROVE AdminInv'
<1>1. PICK r : r = calls[t]
  OBVIOUS
<1>2. Fine(r) /\ DOMAIN r = CallFields /\ ClientOK /\ r.pc = "queue"
  BY <1>1, CallFine DEF NewQueue
<1>3. Active(r)
  BY <1>2 DEF Active
<1>4. PICK u : u = Using(r)
  OBVIOUS
<1>5. Fine(u) /\ Used(r, u)
  BY <1>2, <1>3, <1>4, UsingFine
<1>6. u.pc = "queue" /\ DOMAIN u = CallFields
  BY <1>2, <1>5 DEF Used, Like
<1>7. Typed(u) /\ Preparing(u)
  BY <1>5, <1>6 DEF Fine, CallOK
<1>8. /\ u.waiter = "none" /\ u.op \in Requests /\ ~u.pending /\ u.reply = NoEvent
      /\ u.deferred \subseteq u.made /\ ~u.twice /\ Event \notin u.made
      /\ u.ret \in {"none", "closed", "invalid", "panic", "ok", "error", "ctx"}
      /\ \A x \in u.made : x \in u.deferred \/ x = Event \/ Leaky(u.op, x)
  BY <1>7 DEF Typed, Preparing, Silent, Owned
<1>9. PICK s : s = [u EXCEPT !.made = @ \cup {Queue}, !.deferred = @ \cup {Queue}, !.pc = "request"]
  OBVIOUS
<1>10. Now(t, s)
  BY <1>1, <1>4, <1>9 DEF NewQueue, Queue
<1>11. /\ DOMAIN s = CallFields /\ s.pc = "request" /\ s.op = u.op /\ s.plan = u.plan
       /\ s.made = u.made \cup {Queue} /\ s.deferred = u.deferred \cup {Queue}
       /\ ~s.twice /\ ~s.pending /\ s.reply = NoEvent /\ s.waiter = "none"
       /\ s.bad = u.bad /\ s.raced = u.raced /\ s.ret = u.ret
  BY <1>6, <1>8, <1>9 DEF CallFields
<1>12. Queue # Event
  BY SMT DEF Queue, Event, Object
<1>13. Typed(s)
  BY <1>8, <1>11 DEF Typed
<1>14. Owned(s)
  BY <1>8, <1>11 DEF Owned
<1>15. Preparing(s)
  BY <1>8, <1>11, <1>12, <1>14 DEF Preparing, Silent
<1>16. CallOK(s)
  BY <1>11, <1>13, <1>15, TypedPreparing
<1>17. Carries(u, s) /\ Active(u)
  BY <1>6, <1>11 DEF Carries, Active
<1>18. Fine(s)
  BY <1>5, <1>16, <1>17, CarriesFine
<1> QED BY <1>10, <1>18, NowFine

LEMMA SendRequestStep == ASSUME AdminInv, NEW t \in Callers, SendRequest(t) PROVE AdminInv'
<1>1. PICK r : r = calls[t]
  OBVIOUS
<1>2. Fine(r) /\ DOMAIN r = CallFields /\ ClientOK /\ r.pc = "request"
  BY <1>1, CallFine DEF SendRequest
<1>3. Active(r)
  BY <1>2 DEF Active
<1>4. PICK u : u = Using(r)
  OBVIOUS
<1>5. Fine(u) /\ Used(r, u)
  BY <1>2, <1>3, <1>4, UsingFine
<1>6. CASE r.plan.indexes
  <2>1. Typed(r) /\ Preparing(r)
    BY <1>2 DEF Fine, CallOK
  <2>2. /\ r.waiter = "none" /\ r.reply = NoEvent /\ r.deferred \subseteq r.made /\ ~r.twice
        /\ Event \notin r.made /\ Queue \in r.deferred
        /\ \A x \in r.made : x \in r.deferred \/ x = Event \/ Leaky(r.op, x)
    BY <1>2, <2>1 DEF Typed, Preparing, Silent, Owned
  <2>3. \A x \in r.made : Left(r, "panic", x)
    BY <2>2 DEF Left
  <2>4. Leaves(r, "panic")
    BY <1>2, <2>2, <2>3 DEF Leaves, Returning, Returns, Waiters
  <2>5. Carries(r, r)
    BY DEF Carries
  <2>6. Fine(Return(r, "panic"))
    BY <1>2, <2>4, <2>5, ReturnFine
  <2>7. Now(t, Return(r, "panic"))
    BY <1>1, <1>6 DEF SendRequest
  <2> QED BY <2>6, <2>7, NowFine
<1>7. CASE ~r.plan.indexes
  <2>1. u.pc = "request" /\ DOMAIN u = CallFields
    BY <1>2, <1>5 DEF Used, Like
  <2>2. Typed(u) /\ Preparing(u)
    BY <1>5, <2>1 DEF Fine, CallOK
  <2>3. PICK s : s = [u EXCEPT !.pending = TRUE, !.pc = "wait", !.waiter = "loop"]
    OBVIOUS
  <2>4. Now(t, s)
    BY <1>1, <1>4, <1>7, <2>3 DEF SendRequest
  <2>5. /\ DOMAIN s = CallFields /\ s.pc = "wait" /\ s.op = u.op /\ s.plan = u.plan
        /\ s.made = u.made /\ s.deferred = u.deferred /\ s.twice = u.twice /\ s.reply = u.reply
        /\ s.closeChan = u.closeChan /\ s.waiter = "loop" /\ s.bad = u.bad /\ s.raced = u.raced /\ s.ret = u.ret
    BY <2>1, <2>3 DEF CallFields
  <2>6. Typed(s)
    BY <2>2, <2>5 DEF Typed
  <2>7. Event \notin u.made /\ Queue \in u.deferred /\ u.reply = NoEvent /\ u.deferred \subseteq u.made
    BY <2>1, <2>2 DEF Typed, Preparing, Silent
  <2>8. Owned(s)
    BY <2>2, <2>5 DEF Owned, Preparing
  <2>9. Awaiting(s)
    BY <2>5, <2>7, <2>8 DEF Awaiting
  <2>10. CallOK(s)
    BY <2>5, <2>6, <2>9, TypedAwaiting
  <2>11. Carries(u, s) /\ Active(u)
    BY <2>1, <2>5 DEF Carries, Active
  <2>12. Fine(s)
    BY <1>5, <2>10, <2>11, CarriesFine
  <2> QED BY <2>4, <2>12, NowFine
<1> QED BY <1>6, <1>7

-----------------------------------------------------------------------------
(* waitResult().                                                            *)

\* The goroutine waits for an answer, or was left behind by a panic.
LEMMA WaitsOrLeft ==
  ASSUME NEW r, CallOK(r), r.waiter \in {"loop", "poll", "send"}
  PROVE  \/ r.pc \in {"wait", "drain"} /\ Awaiting(r)
         \/ r.pc = "done" /\ Finished(r)
<1>1. r.waiter \notin {"none", "ask", "found", "timeout", "exit"}
  OBVIOUS
<1>2. ~Unstarted(r) /\ ~Preparing(r) /\ ~Converting(r) /\ ~Asking(r) /\ ~Directly(r)
  BY <1>1 DEF Unstarted, Preparing, Converting, Asking, Directly
<1>3. /\ r.pc # "idle" /\ r.pc # "options" /\ r.pc # "queue" /\ r.pc # "request" /\ r.pc # "convert"
      /\ r.pc # "ask" /\ r.pc # "askTimeout" /\ r.pc # "askDrain" /\ r.pc # "direct"
  BY <1>2 DEF CallOK
<1>4. r.pc \in {"wait", "drain", "done"}
  BY <1>3 DEF CallOK, Typed
<1> QED BY <1>4 DEF CallOK

\* A step of the goroutine that changes nothing but where it is.
Moved(r, s) ==
  /\ DOMAIN s = CallFields
  /\ s.pc = r.pc /\ s.op = r.op /\ s.plan = r.plan /\ s.ctx = r.ctx
  /\ s.made = r.made /\ s.deferred = r.deferred /\ s.twice = r.twice
  /\ s.pending = r.pending /\ s.reply = r.reply /\ s.ret = r.ret
  /\ s.bad = r.bad /\ s.raced = r.raced

LEMMA MovedFinished ==
  ASSUME NEW r, NEW s, Moved(r, s), Finished(r), s.waiter # "none", r.waiter \notin {"none", "exit"} PROVE Finished(s)
<1>1. \A x \in s.made : x[1] \in Leaks(s)
  BY LeaksKept DEF Moved, Finished
<1> QED BY <1>1 DEF Moved, Finished

LEMMA MovedFine ==
  ASSUME NEW r, NEW s, Fine(r), Moved(r, s), r.waiter \in {"loop", "poll"}, s.waiter \in {"loop", "poll", "exit"}
  PROVE  Fine(s)
<1>1. CallOK(r) /\ Active(r)
  BY DEF Fine, Active
<1>2. Typed(s)
  BY <1>1 DEF Moved, CallOK, Typed
<1>3. Carries(r, s)
  BY DEF Moved, Carries
<1>4. CASE r.pc \in {"wait", "drain"} /\ Awaiting(r)
  <2>1. Awaiting(s)
    BY <1>4 DEF Moved, Awaiting, Owned
  <2>2. s.pc \in {"wait", "drain"}
    BY <1>4 DEF Moved
  <2>3. CallOK(s)
    BY <1>2, <2>1, <2>2, TypedAwaiting
  <2> QED BY <1>1, <1>3, <2>3, CarriesFine
<1>5. CASE r.pc = "done" /\ Finished(r)
  <2>1. Finished(s)
    BY <1>5, MovedFinished
  <2>2. s.pc = "done"
    BY <1>5 DEF Moved
  <2>3. CallOK(s)
    BY <1>2, <2>1, <2>2, TypedFinished
  <2> QED BY <1>1, <1>3, <2>3, CarriesFine
<1> QED BY <1>1, <1>4, <1>5, WaitsOrLeft

LEMMA WaiterLoopStep == ASSUME AdminInv, NEW t \in Callers, WaiterLoop(t) PROVE AdminInv'
<1>1. PICK r : r = calls[t]
  OBVIOUS
<1>2. Fine(r) /\ DOMAIN r = CallFields /\ r.waiter = "loop"
  BY <1>1, CallFine DEF WaiterLoop
<1>3. PICK w : w = IF r.closeChan THEN "exit" ELSE "poll"
  OBVIOUS
<1>4. PICK s : s = [r EXCEPT !.waiter = w]
  OBVIOUS
<1>5. Now(t, s)
  BY <1>1, <1>3, <1>4 DEF WaiterLoop
<1>6. Moved(r, s) /\ s.waiter = w
  BY <1>2, <1>4 DEF Moved, CallFields
<1>7. w \in {"loop", "poll", "exit"}
  BY <1>3
<1>8. Fine(s)
  BY <1>2, <1>6, <1>7, MovedFine
<1> QED BY <1>5, <1>8, NowFine

LEMMA WaiterPollStep == ASSUME AdminInv, NEW t \in Callers, WaiterPoll(t) PROVE AdminInv'
<1>1. PICK r : r = calls[t]
  OBVIOUS
<1>2. Fine(r) /\ DOMAIN r = CallFields /\ r.waiter = "poll" /\ CallOK(r) /\ Typed(r)
  BY <1>1, CallFine DEF WaiterPoll, Fine, CallOK
<1>3. CASE r.reply = NoEvent
  <2>1. PICK s : s = [r EXCEPT !.waiter = "loop"]
    OBVIOUS
  <2>2. Now(t, s)
    BY <1>1, <1>3, <2>1 DEF WaiterPoll
  <2>3. Moved(r, s) /\ s.waiter = "loop"
    BY <1>2, <2>1 DEF Moved, CallFields
  <2>4. Fine(s)
    BY <1>2, <2>3, MovedFine
  <2> QED BY <2>2, <2>4, NowFine
<1>4. CASE r.reply # NoEvent
  <2>1. PICK s : s = [r EXCEPT !.hand = r.reply, !.reply = NoEvent, !.waiter = "send"]
    OBVIOUS
  <2>2. Now(t, s)
    BY <1>1, <1>4, <2>1 DEF WaiterPoll
  <2>3. r.pc \in {"wait", "drain"} /\ Awaiting(r)
    BY <1>2, <1>4, WaitsOrLeft DEF Finished
  <2>4. /\ DOMAIN s = CallFields
        /\ s.pc = r.pc /\ s.op = r.op /\ s.plan = r.plan
        /\ s.made = r.made /\ s.deferred = r.deferred /\ s.twice = r.twice
        /\ s.pending = r.pending /\ s.reply = NoEvent /\ s.ret = r.ret /\ s.waiter = "send"
        /\ s.bad = r.bad /\ s.raced = r.raced
    BY <1>2, <2>1 DEF CallFields
  <2>5. Typed(s)
    BY <1>2, <2>4 DEF Typed
  <2>6. Owned(s)
    BY <2>3, <2>4 DEF Awaiting, Owned
  <2>7. Awaiting(s)
    BY <1>4, <2>3, <2>4, <2>6 DEF Awaiting
  <2>8. CallOK(s)
    BY <2>3, <2>4, <2>5, <2>7, TypedAwaiting
  <2>9. Carries(r, s) /\ Active(r)
    BY <1>2, <2>4 DEF Carries, Active
  <2>10. Fine(s)
    BY <1>2, <2>8, <2>9, CarriesFine
  <2> QED BY <2>2, <2>10, NowFine
<1> QED BY <1>3, <1>4

\* The event in the goroutine's hands is destroyed, and the call returns.
Handed(r, d) ==
  /\ DOMAIN d = CallFields /\ d.op = r.op /\ d.plan = r.plan /\ d.made = r.made \ {Event} /\ d.deferred = r.deferred
  /\ ~d.twice /\ d.reply = r.reply /\ d.waiter = "exit" /\ d.bad = r.bad /\ d.raced = r.raced /\ d.pc = r.pc

LEMMA HandedOff ==
  ASSUME NEW r, DOMAIN r = CallFields, ~r.twice, Event \in r.made
  PROVE  Handed(r, Destroy([r EXCEPT !.waiter = "exit"], {Event}))
<1>1. PICK e : e = [r EXCEPT !.waiter = "exit"]
  OBVIOUS
<1>2. /\ DOMAIN e = CallFields /\ e.op = r.op /\ e.plan = r.plan /\ e.made = r.made /\ e.deferred = r.deferred
      /\ ~e.twice /\ e.reply = r.reply /\ e.waiter = "exit" /\ e.bad = r.bad /\ e.raced = r.raced /\ e.pc = r.pc
  BY <1>1 DEF CallFields
<1>3. PICK d : d = Destroy(e, {Event})
  OBVIOUS
<1>4. {Event} \subseteq e.made
  BY <1>2
<1>5. /\ DOMAIN d = CallFields /\ d.op = e.op /\ d.plan = e.plan /\ d.made = e.made \ {Event} /\ d.deferred = e.deferred
      /\ ~d.twice /\ d.reply = e.reply /\ d.waiter = e.waiter /\ d.bad = e.bad /\ d.raced = e.raced /\ d.pc = e.pc
  BY <1>2, <1>3, <1>4 DEF Destroy, CallFields
<1>6. Handed(r, d)
  BY <1>2, <1>5 DEF Handed
<1> QED BY <1>1, <1>3, <1>6

LEMMA HandedReturns ==
  ASSUME NEW r, NEW d, NEW how \in Returns, Fine(r), r.pc \in {"wait", "drain"}, r.waiter = "send", Handed(r, d)
  PROVE  Fine(Return(d, how))
<1>1. Typed(r) /\ Awaiting(r) /\ Active(r)
  BY DEF Fine, CallOK, Active
<1>2. /\ r.deferred \subseteq r.made /\ Event \notin r.deferred /\ Queue \in r.deferred /\ r.reply = NoEvent
      /\ \A x \in r.made : x \in r.deferred \/ x = Event \/ Leaky(r.op, x)
  BY <1>1 DEF Typed, Awaiting, Owned
<1>3. \A x \in d.made : Left(d, how, x)
  BY <1>2 DEF Left, Handed
<1>4. d.deferred \subseteq d.made
  BY <1>2 DEF Handed
<1>5. Leaves(d, how)
  BY <1>2, <1>3, <1>4 DEF Handed, Leaves, Returning, Waiters
<1>6. Carries(r, d)
  BY DEF Handed, Carries
<1> QED BY <1>1, <1>5, <1>6, ReturnFine

LEMMA Holding ==
  ASSUME NEW r, CallOK(r), r.pc \in {"wait", "drain"}, r.waiter = "send" PROVE Event \in r.made /\ ~r.twice /\ DOMAIN r = CallFields
BY DEF CallOK, Typed, Awaiting

LEMMA WaitResultStep == ASSUME AdminInv, NEW t \in Callers, WaitResult(t) PROVE AdminInv'
<1>1. PICK r : r = calls[t]
  OBVIOUS
<1>2. Fine(r) /\ DOMAIN r = CallFields /\ r.pc = "wait" /\ r.waiter = "send" /\ CallOK(r)
  BY <1>1, CallFine DEF WaitResult, Fine
<1>3. Event \in r.made /\ ~r.twice
  BY <1>2, Holding
<1>4. PICK e : e = [r EXCEPT !.waiter = "exit"]
  OBVIOUS
<1>5. /\ DOMAIN e = CallFields /\ e.op = r.op /\ e.plan = r.plan /\ e.made = r.made /\ e.deferred = r.deferred
      /\ e.twice = r.twice /\ e.reply = r.reply /\ e.pending = r.pending /\ e.waiter = "exit"
      /\ e.bad = r.bad /\ e.raced = r.raced /\ e.ret = r.ret
  BY <1>2, <1>4 DEF CallFields
<1>6. Now(t, Result(e))
  BY <1>1, <1>4 DEF WaitResult
<1>7. CASE e.hand.kind # "ok"
  <2>1. PICK d : d = Destroy(e, {Event})
    OBVIOUS
  <2>2. Handed(r, d)
    BY <1>2, <1>3, <1>4, <2>1, HandedOff
  <2>3. Result(e) = Return(d, "error")
    BY <1>7, <2>1 DEF Result, Event
  <2>4. "error" \in Returns
    BY DEF Returns
  <2>5. Fine(Return(d, "error"))
    BY <1>2, <2>2, <2>4, HandedReturns
  <2>6. Now(t, Return(d, "error"))
    BY <1>6, <2>3
  <2> QED BY <2>5, <2>6, NowFine
<1>8. CASE e.hand.kind = "ok"
  <2>1. PICK s : s = [e EXCEPT !.closeChan = TRUE, !.deferred = @ \cup {Event}, !.pc = "convert"]
    OBVIOUS
  <2>2. Now(t, s)
    BY <1>6, <1>8, <2>1 DEF Result, Event
  <2>3. /\ DOMAIN s = CallFields /\ s.pc = "convert" /\ s.op = r.op /\ s.plan = r.plan /\ s.made = r.made
        /\ s.deferred = r.deferred \cup {Event}
        /\ s.twice = r.twice /\ s.reply = r.reply /\ s.pending = r.pending /\ s.waiter = "exit"
        /\ s.bad = r.bad /\ s.raced = r.raced /\ s.ret = r.ret
    BY <1>5, <2>1 DEF CallFields
  <2>4. Typed(r) /\ Awaiting(r)
    BY <1>2 DEF CallOK
  <2>5. Typed(s)
    BY <1>3, <2>3, <2>4 DEF Typed
  <2>6. Owned(s)
    BY <2>3, <2>4 DEF Awaiting, Owned
  <2>7. ~r.pending /\ r.reply = NoEvent /\ Queue \in r.deferred
    BY <1>2, <1>3, <2>4 DEF Awaiting
  <2>8. Converting(s)
    BY <2>3, <2>6, <2>7 DEF Converting, Silent
  <2>9. CallOK(s)
    BY <2>3, <2>5, <2>8, TypedConverting
  <2>10. Carries(r, s) /\ Active(r)
    BY <1>2, <2>3 DEF Carries, Active
  <2>11. Fine(s)
    BY <1>2, <2>9, <2>10, CarriesFine
  <2> QED BY <2>2, <2>11, NowFine
<1> QED BY <1>7, <1>8

LEMMA WaitCancelledStep == ASSUME AdminInv, NEW t \in Callers, WaitCancelled(t) PROVE AdminInv'
<1>1. PICK r : r = calls[t]
  OBVIOUS
<1>2. Fine(r) /\ DOMAIN r = CallFields /\ r.pc = "wait" /\ CallOK(r)
  BY <1>1, CallFine DEF WaitCancelled, Fine
<1>3. PICK s : s = [r EXCEPT !.closeChan = TRUE, !.pc = "drain"]
  OBVIOUS
<1>4. Now(t, s)
  BY <1>1, <1>3 DEF WaitCancelled
<1>5. /\ DOMAIN s = CallFields /\ s.pc = "drain" /\ s.op = r.op /\ s.plan = r.plan /\ s.made = r.made
      /\ s.deferred = r.deferred /\ s.twice = r.twice /\ s.reply = r.reply /\ s.pending = r.pending
      /\ s.waiter = r.waiter /\ s.bad = r.bad /\ s.raced = r.raced /\ s.ret = r.ret
  BY <1>2, <1>3 DEF CallFields
<1>6. Typed(r) /\ Awaiting(r)
  BY <1>2 DEF CallOK
<1>7. Typed(s)
  BY <1>5, <1>6 DEF Typed
<1>8. Awaiting(s)
  BY <1>5, <1>6 DEF Awaiting, Owned
<1>9. CallOK(s)
  BY <1>5, <1>7, <1>8, TypedAwaiting
<1>10. Carries(r, s) /\ Active(r)
  BY <1>2, <1>5 DEF Carries, Active
<1>11. Fine(s)
  BY <1>2, <1>9, <1>10, CarriesFine
<1> QED BY <1>4, <1>11, NowFine

\* An event that is not in the goroutine's hands goes with the queue.
LEMMA ReturnsWithQueue ==
  ASSUME NEW r, NEW how \in Returns, Fine(r), r.pc \in {"wait", "drain"},
         r.waiter # "exit" => Abandoned(r, how)
  PROVE  Fine(Return(r, how))
<1>1. Typed(r) /\ Awaiting(r)
  BY DEF Fine, CallOK
<1>2. /\ DOMAIN r = CallFields /\ r.deferred \subseteq r.made /\ ~r.twice /\ Queue \in r.deferred /\ r.waiter \in Waiters
      /\ Event \in r.made <=> r.reply # NoEvent \/ r.waiter = "send"
      /\ \A x \in r.made : x \in r.deferred \/ x = Event \/ Leaky(r.op, x)
  BY <1>1 DEF Typed, Awaiting, Owned, Waiters
<1>3. ASSUME NEW x \in r.made PROVE Left(r, how, x)
  BY <1>2 DEF Left
<1>4. Leaves(r, how)
  BY <1>2, <1>3 DEF Leaves, Returning
<1>5. Carries(r, r)
  BY DEF Carries
<1> QED BY <1>4, <1>5, ReturnFine

LEMMA DrainStep == ASSUME AdminInv, NEW t \in Callers, Drain(t) PROVE AdminInv'
<1>1. PICK r : r = calls[t]
  OBVIOUS
<1>2. Fine(r) /\ DOMAIN r = CallFields /\ r.pc = "drain" /\ CallOK(r) /\ "ctx" \in Returns
  BY <1>1, CallFine DEF Drain, Fine, Returns
<1>3. CASE r.waiter = "send" /\ Now(t, Return(Destroy([r EXCEPT !.waiter = "exit"], {Object("event")}), "ctx"))
  <2>1. Event \in r.made /\ ~r.twice
    BY <1>2, <1>3, Holding
  <2>2. PICK d : d = Destroy([r EXCEPT !.waiter = "exit"], {Event})
    OBVIOUS
  <2>3. Handed(r, d)
    BY <1>2, <2>1, <2>2, HandedOff
  <2>4. Fine(Return(d, "ctx"))
    BY <1>2, <1>3, <2>3, HandedReturns
  <2>5. Now(t, Return(d, "ctx"))
    BY <1>3, <2>2 DEF Event
  <2> QED BY <2>4, <2>5, NowFine
<1>4. CASE r.waiter = "exit" /\ Now(t, Return(r, "ctx"))
  <2>1. Fine(Return(r, "ctx"))
    BY <1>2, <1>4, ReturnsWithQueue
  <2> QED BY <1>4, <2>1, NowFine
<1> QED BY <1>1, <1>3, <1>4 DEF Drain

LEMMA WaitNilStep == ASSUME AdminInv, NEW t \in Callers, WaitNil(t) PROVE AdminInv'
<1>1. PICK r : r = calls[t]
  OBVIOUS
<1>2. Fine(r) /\ DOMAIN r = CallFields /\ r.pc \in {"wait", "ask"} /\ CallOK(r) /\ r.ctx = "nil" /\ "panic" \in Returns
  BY <1>1, CallFine DEF WaitNil, Fine, Returns
<1>3. Now(t, Return(r, "panic"))
  BY <1>1 DEF WaitNil
<1>4. CASE r.pc = "wait"
  <2>1. r.waiter # "none"
    BY <1>2, <1>4 DEF CallOK, Awaiting
  <2>2. Abandoned(r, "panic")
    BY <1>2, <2>1 DEF Abandoned
  <2>3. Fine(Return(r, "panic"))
    BY <1>2, <1>4, <2>2, ReturnsWithQueue
  <2> QED BY <1>3, <2>3, NowFine
<1>5. CASE r.pc = "ask"
  <2>1. Typed(r) /\ Asking(r)
    BY <1>2, <1>5 DEF CallOK
  <2>2. /\ r.made \subseteq {Response} /\ r.deferred = {} /\ ~r.twice /\ r.reply = NoEvent
        /\ r.waiter \in Waiters /\ r.waiter # "none"
    BY <2>1 DEF Asking, Typed, Silent, Response, Waiters
  <2>3. Abandoned(r, "panic")
    BY <1>2, <2>2 DEF Abandoned
  <2>4. Queue # Response
    BY SMT DEF Queue, Response, Object
  <2>5. \A x \in r.made : Left(r, "panic", x)
    BY <2>2, <2>3 DEF Left
  <2>6. Leaves(r, "panic")
    BY <1>2, <2>2, <2>3, <2>4, <2>5 DEF Leaves, Returning
  <2>7. Carries(r, r)
    BY DEF Carries
  <2>8. Fine(Return(r, "panic"))
    BY <1>2, <2>6, <2>7, ReturnFine
  <2> QED BY <1>3, <2>8, NowFine
<1> QED BY <1>2, <1>4, <1>5

\* The result of a call that has returned.
LEMMA WithResult ==
  ASSUME NEW r, NEW s, Fine(r), r.pc = "done", Like(r, s), s.raced = r.raced, s.bad = r.bad PROVE Fine(s)
<1>1. CallOK(s)
  BY LikeOK DEF Fine
<1>2. Carries(r, s) /\ (Active(s) => Active(r))
  BY DEF Like, Carries, Active
<1> QED BY <1>1, <1>2, CarriesFine

LEMMA ConvertResultStep == ASSUME AdminInv, NEW t \in Callers, ConvertResult(t) PROVE AdminInv'
<1>1. PICK r : r = calls[t]
  OBVIOUS
<1>2. Fine(r) /\ DOMAIN r = CallFields /\ r.pc = "convert" /\ CallOK(r)
  BY <1>1, CallFine DEF ConvertResult, Fine
<1>3. Typed(r) /\ Converting(r)
  BY <1>2 DEF CallOK
<1>4. /\ r.deferred \subseteq r.made /\ ~r.twice /\ Queue \in r.deferred /\ Event \in r.deferred
      /\ r.waiter = "exit" /\ r.reply = NoEvent
      /\ \A x \in r.made : x \in r.deferred \/ Leaky(r.op, x)
  BY <1>3 DEF Typed, Converting, Silent, Owned
<1>5. \A x \in r.made : Left(r, "ok", x)
  BY <1>4 DEF Left
<1>6. Leaves(r, "ok")
  BY <1>2, <1>4, <1>5 DEF Leaves, Returning, Returns, Waiters
<1>7. PICK z : z = Return(r, "ok")
  OBVIOUS
<1>8. Carries(r, r) /\ Active(r)
  BY <1>2 DEF Carries, Active
<1>9. Fine(z)
  BY <1>2, <1>6, <1>7, <1>8, ReturnFine
<1>10. z.pc = "done" /\ DOMAIN z = CallFields
  <2>1. ReturnsTo(r, "ok", z)
    BY <1>6, <1>7, ReturnOK
  <2> QED BY <2>1 DEF ReturnsTo
<1>11. PICK v : v = Convert(r.op, r.hand.resp)
  OBVIOUS
<1>12. PICK s : s = [z EXCEPT !.result = v]
  OBVIOUS
<1>13. Now(t, s)
  BY <1>1, <1>7, <1>11, <1>12 DEF ConvertResult
<1>14. Like(z, s) /\ s.raced = z.raced /\ s.bad = z.bad
  BY <1>10, <1>12 DEF Like, CallFields
<1>15. Fine(s)
  BY <1>9, <1>10, <1>14, WithResult
<1> QED BY <1>13, <1>15, NowFine

-----------------------------------------------------------------------------
(* Queries and direct calls.                                                *)

\* A query runs, or its goroutine was left behind by a panic.
LEMMA AsksOrLeft ==
  ASSUME NEW r, CallOK(r), r.waiter = "ask"
  PROVE  \/ r.pc \in {"ask", "askTimeout", "askDrain"} /\ Asking(r)
         \/ r.pc = "done" /\ Finished(r)
<1>2. ~Unstarted(r) /\ ~Preparing(r) /\ ~Awaiting(r) /\ ~Converting(r) /\ ~Directly(r)
  BY DEF Unstarted, Preparing, Converting, Awaiting, Directly
<1>3. /\ r.pc # "idle" /\ r.pc # "options" /\ r.pc # "queue" /\ r.pc # "request" /\ r.pc # "convert"
      /\ r.pc # "wait" /\ r.pc # "drain" /\ r.pc # "direct"
  BY <1>2 DEF CallOK
<1>4. r.pc \in {"ask", "askTimeout", "askDrain", "done"}
  BY <1>3 DEF CallOK, Typed
<1> QED BY <1>4 DEF CallOK

LEMMA QueryAnswerStep ==
  ASSUME AdminInv, NEW t \in Callers, NEW found \in BOOLEAN, QueryAnswer(t, found) PROVE AdminInv'
<1>1. PICK r : r = calls[t]
  OBVIOUS
<1>2. Fine(r) /\ DOMAIN r = CallFields /\ ClientOK /\ r.waiter = "ask"
  BY <1>1, CallFine DEF QueryAnswer
<1>3. Active(r)
  BY <1>2 DEF Active
<1>4. PICK u : u = Using(r)
  OBVIOUS
<1>5. Fine(u) /\ Used(r, u)
  BY <1>2, <1>3, <1>4, UsingFine
<1>6. u.waiter = "ask" /\ DOMAIN u = CallFields /\ CallOK(u) /\ Typed(u)
  BY <1>2, <1>5 DEF Used, Like, Fine, CallOK
<1>7. PICK w : w = IF found THEN "found" ELSE "timeout"
  OBVIOUS
<1>8. PICK m : m = IF found /\ r.op = "ClusterID" THEN {Response} ELSE {}
  OBVIOUS
<1>9. PICK s : s = [u EXCEPT !.waiter = w, !.made = @ \cup m]
  OBVIOUS
<1>10. Now(t, s)
  BY <1>1, <1>4, <1>7, <1>8, <1>9 DEF QueryAnswer, Response
<1>11. /\ DOMAIN s = CallFields
       /\ s.pc = u.pc /\ s.op = u.op /\ s.plan = u.plan /\ s.ctx = u.ctx
       /\ s.made = u.made \cup m /\ s.deferred = u.deferred /\ s.twice = u.twice
       /\ s.pending = u.pending /\ s.reply = u.reply /\ s.ret = u.ret /\ s.waiter = w
       /\ s.bad = u.bad /\ s.raced = u.raced
  BY <1>6, <1>9 DEF CallFields
<1>12. w \in {"found", "timeout"} /\ m \subseteq {Response}
  BY <1>7, <1>8
<1>13. Typed(s)
  BY <1>6, <1>11, <1>12 DEF Typed
<1>14. Carries(u, s) /\ Active(u)
  BY <1>6, <1>11 DEF Carries, Active
<1>15. CallOK(s)
  <2>1. CASE u.pc \in {"ask", "askTimeout", "askDrain"} /\ Asking(u)
    <3>1. s.made \subseteq {Response}
      BY <1>11, <1>12, <2>1 DEF Asking, Response
    <3>2. Asking(s)
      BY <1>11, <1>12, <2>1, <3>1 DEF Asking, Silent, Response
    <3>3. s.pc \in {"ask", "askTimeout", "askDrain"}
      BY <1>11, <2>1
    <3> QED BY <1>13, <3>2, <3>3, TypedAsking
  <2>2. CASE u.pc = "done" /\ Finished(u)
    <3>1. u.ctx = "nil" /\ u.ret = "panic"
      BY <1>6, <2>2 DEF Finished
    <3>2. Leaks(s) = KnownLeaks(s) \cup {"event", "response"}
      BY <1>11, <1>12, <3>1 DEF Leaks
    <3>3. Response[1] \in Leaks(s) /\ Queue # Response
      <4>1. Response[1] = "response" /\ Queue # Response
        BY SMT DEF Queue, Response, Object
      <4> QED BY <3>2, <4>1
    <3>4. s.op = u.op /\ s.ret = u.ret /\ s.ctx = u.ctx /\ s.waiter # "none"
      BY <1>11, <1>12
    <3>5. \A x \in u.made : x[1] \in Leaks(s)
      BY <2>2, <3>4, LeaksKept DEF Finished
    <3>6. \A x \in s.made : x[1] \in Leaks(s)
      BY <1>11, <1>12, <3>3, <3>5
    <3>7. Queue \notin s.made
      BY <1>11, <1>12, <2>2, <3>3 DEF Finished
    <3>8. Finished(s)
      BY <1>11, <2>2, <3>1, <3>6, <3>7 DEF Finished
    <3>9. s.pc = "done"
      BY <1>11, <2>2
    <3> QED BY <1>13, <3>8, <3>9, TypedFinished
  <2> QED BY <1>6, <2>1, <2>2, AsksOrLeft
<1>16. Fine(s)
  BY <1>5, <1>14, <1>15, CarriesFine
<1> QED BY <1>10, <1>16, NowFine

\* The response is freed, and the call returns.
LEMMA AnsweredFine ==
  ASSUME NEW r, NEW how \in Returns, Fine(r), ClientOK, r.pc \in {"ask", "askTimeout", "askDrain"}
  PROVE  Fine(Answered(r, how))
<1>1. Active(r)
  BY DEF Active
<1>2. PICK u : u = IF r.made = {} THEN r ELSE Using(r)
  OBVIOUS
<1>3. Like(r, r)
  BY DEF Like, Fine, CallOK, Typed
<1>4. Fine(u) /\ Like(r, u)
  <2>1. Fine(Using(r)) /\ Used(r, Using(r))
    BY <1>1, UsingFine
  <2> QED BY <1>2, <1>3, <2>1 DEF Used
<1>5. u.pc = r.pc /\ u.made = r.made /\ DOMAIN u = CallFields
  BY <1>4 DEF Like
<1>6. Asking(u) /\ Typed(u)
  BY <1>4, <1>5 DEF Fine, CallOK
<1>7. PICK d : d = [u EXCEPT !.deferred = r.made, !.waiter = "exit"]
  OBVIOUS
<1>8. /\ DOMAIN d = CallFields /\ d.op = u.op /\ d.plan = u.plan /\ d.made = u.made /\ d.deferred = u.made
      /\ d.twice = u.twice /\ d.reply = u.reply /\ d.waiter = "exit" /\ d.bad = u.bad /\ d.raced = u.raced
  BY <1>5, <1>7 DEF CallFields
<1>9. ~u.twice /\ u.reply = NoEvent
  BY <1>6 DEF Typed, Asking, Silent
<1>10. Leaves(d, how)
  BY <1>8, <1>9 DEF Leaves, Returning, Left, Waiters
<1>11. Carries(u, d) /\ Active(u)
  BY <1>5, <1>8 DEF Carries, Active
<1>12. Fine(Return(d, how))
  BY <1>4, <1>10, <1>11, ReturnFine
<1>13. Answered(r, how) = Return(d, how)
  BY <1>2, <1>7 DEF Answered
<1> QED BY <1>12, <1>13

\* The caller of a query turns to something else.
LEMMA AskingMoves ==
  ASSUME NEW r, NEW p \in {"askTimeout", "askDrain"}, Fine(r), r.pc = "ask" PROVE Fine([r EXCEPT !.pc = p])
<1>1. Typed(r) /\ Asking(r) /\ Active(r)
  BY DEF Fine, CallOK, Active
<1>2. PICK s : s = [r EXCEPT !.pc = p]
  OBVIOUS
<1>3. /\ DOMAIN s = CallFields /\ s.pc = p /\ s.op = r.op /\ s.plan = r.plan /\ s.made = r.made
      /\ s.deferred = r.deferred /\ s.twice = r.twice /\ s.reply = r.reply /\ s.pending = r.pending
      /\ s.waiter = r.waiter /\ s.bad = r.bad /\ s.raced = r.raced /\ s.ret = r.ret
  BY <1>1, <1>2 DEF CallFields, Typed
<1>4. Typed(s)
  BY <1>1, <1>3 DEF Typed
<1>5. Asking(s)
  BY <1>1, <1>3 DEF Asking, Silent
<1>6. CallOK(s)
  BY <1>3, <1>4, <1>5, TypedAsking
<1>7. Carries(r, s)
  BY <1>3 DEF Carries
<1>8. Fine(s)
  BY <1>1, <1>6, <1>7, CarriesFine
<1> QED BY <1>2, <1>8

LEMMA QuerySteps ==
  ASSUME AdminInv, NEW t \in Callers, QueryReturn(t) \/ QueryTimeout(t) \/ QueryCancelled(t) \/ QueryDrain(t)
  PROVE  AdminInv'
<1>1. PICK r : r = calls[t]
  OBVIOUS
<1>2. Fine(r) /\ ClientOK /\ "ok" \in Returns /\ "ctx" \in Returns
  BY <1>1, CallFine DEF Returns
<1>3. ASSUME NEW how \in {"ok", "ctx"}, r.pc \in {"ask", "askTimeout", "askDrain"}, Now(t, Answered(r, how)) PROVE AdminInv'
  <2>1. Fine(Answered(r, how))
    BY <1>2, <1>3, AnsweredFine
  <2> QED BY <1>3, <2>1, NowFine
<1>4. ASSUME NEW p \in {"askTimeout", "askDrain"}, r.pc = "ask", Now(t, [r EXCEPT !.pc = p]) PROVE AdminInv'
  <2>1. PICK s : s = [r EXCEPT !.pc = p]
    OBVIOUS
  <2>2. Fine(s)
    BY <1>2, <1>4, <2>1, AskingMoves
  <2> QED BY <1>4, <2>1, <2>2, NowFine
<1>5. CASE QueryReturn(t)
  <2>1. r.pc = "ask"
    BY <1>1, <1>5 DEF QueryReturn
  <2>2. Now(t, Answered(r, "ok")) \/ Now(t, [r EXCEPT !.pc = "askTimeout"])
    BY <1>1, <1>5 DEF QueryReturn
  <2> QED BY <1>3, <1>4, <2>1, <2>2
<1>6. CASE QueryTimeout(t)
  BY <1>1, <1>3, <1>6 DEF QueryTimeout
<1>7. CASE QueryCancelled(t)
  BY <1>1, <1>4, <1>7 DEF QueryCancelled
<1>8. CASE QueryDrain(t)
  BY <1>1, <1>3, <1>8 DEF QueryDrain
<1> QED BY <1>5, <1>6, <1>7, <1>8

LEMMA DirectStep == ASSUME AdminInv, NEW t \in Callers, Direct(t) PROVE AdminInv'
<1>1. PICK r : r = calls[t]
  OBVIOUS
<1>2. Fine(r) /\ DOMAIN r = CallFields /\ ClientOK /\ r.pc = "direct"
  BY <1>1, CallFine DEF Direct
<1>3. Active(r)
  BY <1>2 DEF Active
<1>4. PICK u : u = Using(r)
  OBVIOUS
<1>5. Fine(u) /\ Used(r, u)
  BY <1>2, <1>3, <1>4, UsingFine
<1>6. u.pc = "direct" /\ DOMAIN u = CallFields
  BY <1>2, <1>5 DEF Used, Like
<1>7. Typed(u) /\ Directly(u)
  BY <1>5, <1>6 DEF Fine, CallOK
<1>8. u.deferred = u.made /\ ~u.twice /\ u.waiter = "none" /\ u.reply = NoEvent /\ Queue \notin u.made
  BY <1>7 DEF Typed, Directly, Silent
<1>9. Carries(u, u) /\ Active(u)
  BY <1>6 DEF Carries, Active
<1>10. ASSUME NEW how \in {"ok", "error"}
       PROVE  Fine(Return(u, how)) /\ Return(u, how).pc = "done" /\ DOMAIN Return(u, how) = CallFields
  <2>1. Leaves(u, how)
    BY <1>6, <1>8 DEF Leaves, Returning, Left, Returns, Waiters
  <2>2. Fine(Return(u, how))
    BY <1>5, <1>9, <2>1, ReturnFine
  <2>3. ReturnsTo(u, how, Return(u, how))
    BY <2>1, ReturnOK
  <2> QED BY <2>2, <2>3 DEF ReturnsTo
<1>11. CASE Now(t, Return(u, "error")) \/ Now(t, Return(u, "ok"))
  BY <1>10, <1>11, NowFine
<1>12. CASE \E x \in Responses("GetMetadata") :
              Now(t, [Return(u, "ok") EXCEPT !.hand = [kind |-> "ok", resp |-> x], !.result = getMetadata(x)])
  <2>1. PICK x \in Responses("GetMetadata") :
          Now(t, [Return(u, "ok") EXCEPT !.hand = [kind |-> "ok", resp |-> x], !.result = getMetadata(x)])
    BY <1>12
  <2>2. PICK z : z = Return(u, "ok")
    OBVIOUS
  <2>3. PICK h : h = [kind |-> "ok", resp |-> x]
    OBVIOUS
  <2>4. PICK v : v = getMetadata(x)
    OBVIOUS
  <2>5. PICK s : s = [z EXCEPT !.hand = h, !.result = v]
    OBVIOUS
  <2>6. Now(t, s)
    BY <2>1, <2>2, <2>3, <2>4, <2>5
  <2>7. Fine(z) /\ z.pc = "done" /\ DOMAIN z = CallFields
    BY <1>10, <2>2
  <2>8. Like(z, s) /\ s.raced = z.raced /\ s.bad = z.bad
    BY <2>5, <2>7 DEF Like, CallFields
  <2>9. Fine(s)
    BY <2>7, <2>8, WithResult
  <2> QED BY <2>6, <2>9, NowFine
<1> QED BY <1>1, <1>4, <1>11, <1>12 DEF Direct

-----------------------------------------------------------------------------
(* The context, and librdkafka's answer.                                    *)
LEMMA ContextDoneStep == ASSUME AdminInv, NEW t \in Callers, ContextDone(t) PROVE AdminInv'
<1>1. PICK r : r = calls[t]
  OBVIOUS
<1>2. Fine(r) /\ DOMAIN r = CallFields /\ r.pc \notin {"idle", "done"} /\ CallOK(r)
  BY <1>1, CallFine DEF ContextDone, Fine
<1>3. PICK s : s = [r EXCEPT !.ctx = "done"]
  OBVIOUS
<1>4. Now(t, s)
  BY <1>1, <1>3 DEF ContextDone
<1>5. /\ DOMAIN s = CallFields
      /\ s.pc = r.pc /\ s.op = r.op /\ s.plan = r.plan
      /\ s.made = r.made /\ s.deferred = r.deferred /\ s.twice = r.twice
      /\ s.pending = r.pending /\ s.reply = r.reply /\ s.waiter = r.waiter /\ s.ret = r.ret
      /\ s.bad = r.bad /\ s.raced = r.raced
  BY <1>2, <1>3 DEF CallFields
<1>6. CallOK(s)
  <2>1. Typed(s)
    BY <1>2, <1>5 DEF Typed, CallOK
  <2>2. s.pc # "idle" /\ s.pc # "done"
    BY <1>2, <1>5
  <2>3. s.pc \in {"options", "queue", "request"} => Preparing(s)
    BY <1>2, <1>5 DEF CallOK, Preparing, Silent, Owned
  <2>4. s.pc \in {"wait", "drain"} => Awaiting(s)
    BY <1>2, <1>5 DEF CallOK, Awaiting, Owned
  <2>5. s.pc = "convert" => Converting(s)
    BY <1>2, <1>5 DEF CallOK, Converting, Silent, Owned
  <2>6. s.pc \in {"ask", "askTimeout", "askDrain"} => Asking(s)
    BY <1>2, <1>5 DEF CallOK, Asking, Silent
  <2>7. s.pc = "direct" => Directly(s)
    BY <1>2, <1>5 DEF CallOK, Directly, Silent
  <2> QED BY <2>1, <2>2, <2>3, <2>4, <2>5, <2>6, <2>7 DEF CallOK
<1>7. Carries(r, s) /\ Active(r)
  BY <1>2, <1>5 DEF Carries, Active
<1>8. Fine(s)
  BY <1>2, <1>6, <1>7, CarriesFine
<1> QED BY <1>4, <1>8, NowFine

\* A request that was sent has a call that waits for its answer, or has returned.
LEMMA PendingCall ==
  ASSUME NEW r, CallOK(r), r.pending
  PROVE  \/ r.pc \in {"wait", "drain"} /\ Awaiting(r)
         \/ r.pc = "done" /\ Finished(r)
<1>2. ~Unstarted(r) /\ ~Preparing(r) /\ ~Converting(r) /\ ~Asking(r) /\ ~Directly(r)
  BY DEF Unstarted, Preparing, Converting, Asking, Directly, Silent
<1>3. /\ r.pc # "idle" /\ r.pc # "options" /\ r.pc # "queue" /\ r.pc # "request" /\ r.pc # "convert"
      /\ r.pc # "ask" /\ r.pc # "askTimeout" /\ r.pc # "askDrain" /\ r.pc # "direct"
  BY <1>2 DEF CallOK
<1>4. r.pc \in {"wait", "drain", "done"}
  BY <1>3 DEF CallOK, Typed
<1> QED BY <1>4 DEF CallOK

LEMMA EventsAnswer == ASSUME NEW o, NEW e \in Events(o) PROVE e # NoEvent
<1>1. e.kind # "none"
  <2>1. CASE \E k \in {"error", "otherType"} : e = [kind |-> k, resp |-> <<>>]
    <3>1. PICK k \in {"error", "otherType"} : e = [kind |-> k, resp |-> <<>>]
      BY <2>1
    <3> QED BY <3>1
  <2>2. CASE \E r \in Responses(o) : e = [kind |-> "ok", resp |-> r]
    <3>1. PICK r \in Responses(o) : e = [kind |-> "ok", resp |-> r]
      BY <2>2
    <3> QED BY <3>1
  <2> QED BY <2>1, <2>2 DEF Events
<1>2. NoEvent.kind = "none"
  BY DEF NoEvent
<1> QED BY <1>1, <1>2

LEMMA ReplyStep == ASSUME AdminInv, NEW t \in Callers, Reply(t) PROVE AdminInv'
<1>1. PICK r : r = calls[t]
  OBVIOUS
<1>2. Fine(r) /\ DOMAIN r = CallFields /\ r.pending /\ CallOK(r) /\ Typed(r)
  BY <1>1, CallFine DEF Reply, Fine, CallOK
<1>3. CASE Queue \in r.made
  <2>1. r.pc \in {"wait", "drain"} /\ Awaiting(r)
    BY <1>2, <1>3, PendingCall DEF Finished
  <2>2. PICK e \in Events(r.op) : Now(t, [r EXCEPT !.pending = FALSE, !.reply = e, !.made = @ \cup {Object("event")}])
    BY <1>1, <1>3 DEF Reply, Queue
  <2>3. PICK s : s = [r EXCEPT !.pending = FALSE, !.reply = e, !.made = @ \cup {Event}]
    OBVIOUS
  <2>4. Now(t, s)
    BY <2>2, <2>3 DEF Event
  <2>5. /\ DOMAIN s = CallFields
        /\ s.pc = r.pc /\ s.op = r.op /\ s.plan = r.plan
        /\ s.made = r.made \cup {Event} /\ s.deferred = r.deferred /\ s.twice = r.twice
        /\ ~s.pending /\ s.reply = e /\ s.waiter = r.waiter /\ s.ret = r.ret
        /\ s.bad = r.bad /\ s.raced = r.raced
    BY <1>2, <2>3 DEF CallFields
  <2>6. e # NoEvent
    BY EventsAnswer
  <2>7. r.waiter # "send"
    BY <1>2, <2>1 DEF Awaiting
  <2>8. Typed(s)
    BY <1>2, <2>5 DEF Typed
  <2>9. Owned(s)
    BY <2>1, <2>5 DEF Awaiting, Owned
  <2>10. Awaiting(s)
    BY <2>1, <2>5, <2>6, <2>7, <2>9 DEF Awaiting
  <2>11. s.pc \in {"wait", "drain"}
    BY <2>1, <2>5
  <2>12. CallOK(s)
    BY <2>8, <2>10, <2>11, TypedAwaiting
  <2>13. Carries(r, s) /\ Active(r)
    BY <2>1, <2>5 DEF Carries, Active
  <2>14. Fine(s)
    BY <1>2, <2>12, <2>13, CarriesFine
  <2> QED BY <2>4, <2>14, NowFine
<1>4. CASE Queue \notin r.made
  <2>1. ~Awaiting(r)
    BY <1>2, <1>4 DEF Awaiting, Typed
  <2>2. r.pc = "done" /\ Finished(r)
    BY <1>2, <2>1, PendingCall
  <2>3. PICK s : s = [r EXCEPT !.pending = FALSE]
    OBVIOUS
  <2>4. Now(t, s)
    BY <1>1, <1>4, <2>3 DEF Reply, Queue
  <2>5. /\ DOMAIN s = CallFields
        /\ s.pc = r.pc /\ s.op = r.op /\ s.plan = r.plan /\ s.ctx = r.ctx
        /\ s.made = r.made /\ s.deferred = r.deferred /\ s.twice = r.twice
        /\ s.reply = r.reply /\ s.waiter = r.waiter /\ s.ret = r.ret
        /\ s.bad = r.bad /\ s.raced = r.raced
    BY <1>2, <2>3 DEF CallFields
  <2>6. Typed(s)
    BY <1>2, <2>5 DEF Typed
  <2>7. s.op = r.op /\ s.ret = r.ret /\ s.ctx = r.ctx /\ s.waiter = r.waiter
    BY <2>5
  <2>8. \A x \in s.made : x[1] \in Leaks(s)
    BY <2>2, <2>5, <2>7, LeaksKept DEF Finished
  <2>9. Finished(s)
    BY <2>2, <2>5, <2>8 DEF Finished
  <2>10. CallOK(s)
    BY <2>2, <2>5, <2>6, <2>9, TypedFinished
  <2>11. Carries(r, s) /\ (Active(s) => Active(r))
    BY <2>5 DEF Carries, Active
  <2>12. Fine(s)
    BY <1>2, <2>10, <2>11, CarriesFine
  <2> QED BY <2>4, <2>12, NowFine
<1> QED BY <1>3, <1>4

-----------------------------------------------------------------------------
(* Close() and the log poller.                                              *)

\* A call that Close() overlaps is excused.
LEMMA OverlapsFine ==
  ASSUME AdminInv, Overlaps, NEW t \in Callers, NEW closed, NEW parent, parentClosed => parent
  PROVE  CallOK(calls'[t]) /\ Allowed(calls'[t], closed) /\ Excused(calls'[t], parent)
<1>1. PICK r : r = calls[t]
  OBVIOUS
<1>2. PICK s : s = [r EXCEPT !.raced = @ \/ Running(t) \/ r.waiter \notin {"none", "exit"}]
  OBVIOUS
<1>3. calls'[t] = s
  BY <1>1, <1>2 DEF Overlaps
<1>4. Fine(r) /\ DOMAIN r = CallFields
  BY <1>1, CallFine
<1>5. s.raced = (r.raced \/ Running(t) \/ r.waiter \notin {"none", "exit"})
  BY <1>2, <1>4 DEF CallFields
<1>6. Like(r, s) /\ s.bad = r.bad
  BY <1>2, <1>4 DEF Like, CallFields
<1>7. CallOK(s)
  BY <1>4, <1>6, LikeOK DEF Fine
<1>8. s.pc = r.pc /\ s.waiter = r.waiter /\ s.plan = r.plan
  BY <1>6 DEF Like
<1>9. Active(s) => s.raced
  BY <1>1, <1>5, <1>8 DEF Active, Running
<1>10. r.raced => s.raced
  BY <1>5
<1>11. Allowed(s, closed) /\ Excused(s, parent)
  BY <1>4, <1>6, <1>8, <1>9, <1>10 DEF Allowed, Excused, Fine
<1> QED BY <1>3, <1>7, <1>11

LEMMA OverlapsDomain == ASSUME Overlaps PROVE DOMAIN calls' = Callers
BY DEF Overlaps

LEMMA CloseBeginStep == ASSUME AdminInv, CloseBegin PROVE AdminInv'
<1>1. isClosed' = TRUE /\ use' = use /\ rk' = rk /\ parentClosed' = parentClosed /\ Overlaps
  BY DEF CloseBegin
<1>2. ClientOK /\ LogOK
  BY DEF AdminInv
<1>3. \A t \in Callers : CallOK(calls'[t]) /\ Allowed(calls'[t], isClosed') /\ Excused(calls'[t], parentClosed')
  BY <1>1, OverlapsFine
<1>4. DOMAIN calls' = Callers
  BY <1>1, OverlapsDomain
<1>5. CASE use.derived
  <2>1. handle' = "empty" /\ closer' = "done" /\ log' = log
    BY <1>5 DEF CloseBegin
  <2>2. ClientOK'
    BY <1>1, <1>2, <2>1 DEF ClientOK
  <2>3. LogOK'
    BY <1>2, <2>1 DEF LogOK
  <2> QED BY <1>3, <1>4, <2>2, <2>3 DEF AdminInv
<1>6. CASE ~use.derived
  <2>1. handle' = handle /\ closer' = "join" /\ log' = [log EXCEPT !.term = use.logs # "none"]
    BY <1>6 DEF CloseBegin
  <2>2. ClientOK'
    BY <1>1, <1>2, <2>1 DEF ClientOK
  <2>3. /\ DOMAIN log' = LogFields /\ log'.sent = log.sent /\ log'.poller = log.poller
        /\ log'.queue = log.queue /\ log'.closed = log.closed
    BY <1>2, <2>1 DEF LogOK, LogFields
  <2>4. LogOK'
    BY <1>2, <2>3 DEF LogOK
  <2> QED BY <1>3, <1>4, <2>2, <2>4 DEF AdminInv
<1> QED BY <1>5, <1>6

\* The calls stay as they are.
LEMMA CallsKept ==
  ASSUME AdminInv, calls' = calls, isClosed' = isClosed, parentClosed => parentClosed'
  PROVE  /\ DOMAIN calls' = Callers
         /\ \A t \in Callers : CallOK(calls'[t]) /\ Allowed(calls'[t], isClosed') /\ Excused(calls'[t], parentClosed')
BY DEF AdminInv, Excused

LEMMA CloseJoinStep == ASSUME AdminInv, CloseJoin PROVE AdminInv'
<1>1. /\ use' = use /\ isClosed' = isClosed /\ handle' = handle /\ rk' = rk /\ parentClosed' = parentClosed
      /\ calls' = calls /\ closer = "join" /\ closer' = "destroy" /\ log.poller = "done"
      /\ log' = [log EXCEPT !.queue = "none", !.closed = use.logs = "own"]
  BY DEF CloseJoin, client
<1>2. ClientOK /\ LogOK
  BY DEF AdminInv
<1>3. ClientOK'
  BY <1>1, <1>2 DEF ClientOK
<1>4. DOMAIN log' = LogFields /\ log'.sent = log.sent /\ log'.poller = log.poller
  BY <1>1, <1>2 DEF LogOK, LogFields
<1>5. LogOK'
  BY <1>1, <1>2, <1>4 DEF LogOK
<1>6. /\ DOMAIN calls' = Callers
      /\ \A t \in Callers : CallOK(calls'[t]) /\ Allowed(calls'[t], isClosed') /\ Excused(calls'[t], parentClosed')
  BY <1>1, CallsKept
<1> QED BY <1>3, <1>5, <1>6 DEF AdminInv

LEMMA CloseDestroyStep == ASSUME AdminInv, CloseDestroy PROVE AdminInv'
<1>1. /\ use' = use /\ isClosed' = isClosed /\ handle' = handle /\ rk' = "destroyed" /\ parentClosed' = parentClosed
      /\ closer = "destroy" /\ closer' = "done" /\ log' = log /\ Overlaps
  BY DEF CloseDestroy
<1>2. ClientOK /\ LogOK
  BY DEF AdminInv
<1>3. ClientOK'
  BY <1>1, <1>2 DEF ClientOK
<1>4. LogOK'
  BY <1>1, <1>2 DEF LogOK
<1>5. \A t \in Callers : CallOK(calls'[t]) /\ Allowed(calls'[t], isClosed') /\ Excused(calls'[t], parentClosed')
  BY <1>1, OverlapsFine
<1>6. DOMAIN calls' = Callers
  BY <1>1, OverlapsDomain
<1> QED BY <1>3, <1>4, <1>5, <1>6 DEF AdminInv

LEMMA ParentCloseStep == ASSUME AdminInv, ParentClose PROVE AdminInv'
<1>1. /\ use' = use /\ isClosed' = isClosed /\ handle' = handle /\ rk' = "destroyed" /\ parentClosed' = TRUE
      /\ calls' = calls /\ closer' = closer /\ log' = log
  BY DEF ParentClose
<1>2. ClientOK /\ LogOK
  BY DEF AdminInv
<1>3. ClientOK'
  BY <1>1, <1>2 DEF ClientOK
<1>4. LogOK'
  BY <1>1, <1>2 DEF LogOK
<1>5. /\ DOMAIN calls' = Callers
      /\ \A t \in Callers : CallOK(calls'[t]) /\ Allowed(calls'[t], isClosed') /\ Excused(calls'[t], parentClosed')
  BY <1>1, CallsKept
<1> QED BY <1>3, <1>4, <1>5 DEF AdminInv

\* A step of the log poller or of the reader of its channel.
LogStep(l) ==
  /\ DOMAIN l = LogFields /\ l.sent \in 0 .. LogSize
  /\ l.poller \in {"loop", "poll", "send", "done"}
  /\ l.poller # "done" => log.poller # "done"
  /\ l.queue = log.queue /\ l.closed = log.closed

LEMMA LogStepOK == ASSUME AdminInv, NEW l, LogStep(l), Log(l) PROVE AdminInv'
<1>1. /\ use' = use /\ isClosed' = isClosed /\ handle' = handle /\ rk' = rk /\ parentClosed' = parentClosed
      /\ calls' = calls /\ closer' = closer /\ log' = l
  BY DEF Log, client
<1>2. ClientOK /\ LogOK
  BY DEF AdminInv
<1>3. ClientOK'
  BY <1>1, <1>2 DEF ClientOK
<1>4. LogOK'
  BY <1>1, <1>2 DEF LogOK, LogStep
<1>5. /\ DOMAIN calls' = Callers
      /\ \A t \in Callers : CallOK(calls'[t]) /\ Allowed(calls'[t], isClosed') /\ Excused(calls'[t], parentClosed')
  BY <1>1, CallsKept
<1> QED BY <1>3, <1>4, <1>5 DEF AdminInv

\* The poller goes on to p.
LEMMA PollerStep ==
  ASSUME AdminInv, log.poller # "done", NEW p \in {"loop", "poll", "send", "done"}, NEW l, l = [log EXCEPT !.poller = p]
  PROVE  LogStep(l)
<1>1. LogOK
  BY DEF AdminInv
<1>2. DOMAIN l = LogFields /\ l.sent = log.sent /\ l.poller = p /\ l.queue = log.queue /\ l.closed = log.closed
  BY <1>1 DEF LogOK, LogFields
<1> QED BY <1>1, <1>2 DEF LogStep, LogOK

LEMMA LogSteps == ASSUME AdminInv, Polls \/ LogSend \/ LogRead PROVE AdminInv'
<1>0. LogOK /\ LogSize \in Nat
  BY AdminConstants DEF AdminInv
<1>1. CASE LogLoop
  <2>1. PICK p : p = IF log.term THEN "done" ELSE "poll"
    OBVIOUS
  <2>2. PICK l : l = [log EXCEPT !.poller = p]
    OBVIOUS
  <2>3. Log(l) /\ log.poller # "done" /\ p \in {"loop", "poll", "send", "done"}
    BY <1>1, <2>1, <2>2 DEF LogLoop
  <2> QED BY <2>2, <2>3, PollerStep, LogStepOK
<1>2. CASE LogPoll
  <2>1. PICK got \in BOOLEAN : Log([log EXCEPT !.poller = IF got THEN "send" ELSE "loop"])
    BY <1>2 DEF LogPoll
  <2>2. PICK p : p = IF got THEN "send" ELSE "loop"
    OBVIOUS
  <2>3. PICK l : l = [log EXCEPT !.poller = p]
    OBVIOUS
  <2>4. Log(l) /\ log.poller # "done" /\ p \in {"loop", "poll", "send", "done"}
    BY <1>2, <2>1, <2>2, <2>3 DEF LogPoll
  <2> QED BY <2>3, <2>4, PollerStep, LogStepOK
<1>3. CASE LogTerminated
  <2>1. PICK l : l = [log EXCEPT !.poller = "done"]
    OBVIOUS
  <2>2. Log(l) /\ log.poller # "done"
    BY <1>3, <2>1 DEF LogTerminated
  <2> QED BY <2>1, <2>2, PollerStep, LogStepOK
<1>4. CASE LogSend
  <2>1. PICK l : l = [log EXCEPT !.sent = @ + 1, !.poller = "loop"]
    OBVIOUS
  <2>2. Log(l) /\ log.poller = "send" /\ log.sent < LogSize
    BY <1>4, <2>1 DEF LogSend
  <2>3. /\ DOMAIN l = LogFields /\ l.sent = log.sent + 1 /\ l.poller = "loop"
        /\ l.queue = log.queue /\ l.closed = log.closed
    BY <1>0, <2>1 DEF LogOK, LogFields
  <2>4. l.sent \in 0 .. LogSize
    BY <1>0, <2>2, <2>3, SMT DEF LogOK
  <2>5. LogStep(l)
    BY <2>2, <2>3, <2>4 DEF LogStep
  <2> QED BY <2>2, <2>5, LogStepOK
<1>5. CASE LogRead
  <2>1. PICK l : l = [log EXCEPT !.sent = @ - 1]
    OBVIOUS
  <2>2. Log(l) /\ log.sent > 0
    BY <1>5, <2>1 DEF LogRead
  <2>3. /\ DOMAIN l = LogFields /\ l.sent = log.sent - 1 /\ l.poller = log.poller
        /\ l.queue = log.queue /\ l.closed = log.closed
    BY <1>0, <2>1 DEF LogOK, LogFields
  <2>4. l.sent \in 0 .. LogSize
    BY <1>0, <2>2, <2>3, SMT DEF LogOK
  <2>5. LogStep(l)
    BY <1>0, <2>3, <2>4 DEF LogStep, LogOK
  <2> QED BY <2>2, <2>5, LogStepOK
<1> QED BY <1>1, <1>2, <1>3, <1>4, <1>5 DEF Polls

-----------------------------------------------------------------------------
(* The theorems.                                                            *)
LEMMA InitAdmin == Init => AdminInv
<1> SUFFICES ASSUME Init PROVE AdminInv
  OBVIOUS
<1>1. ClientOK
  BY DEF Init, ClientOK
<1>2. LogOK
  <2>1. /\ DOMAIN log = LogFields /\ log.sent = 0 /\ ~log.closed
        /\ log.poller = IF use.logs = "none" THEN "done" ELSE "loop"
        /\ log.queue = IF use.logs = "none" THEN "none" ELSE "live"
    BY DEF Init, LogFields
  <2>2. log.sent \in 0 .. LogSize
    BY <2>1, AdminConstants, SMT
  <2> QED BY <2>1, <2>2 DEF LogOK
<1>3. DOMAIN calls = Callers /\ \A t \in Callers : calls[t] = NoCall
  BY DEF Init
<1>4. /\ DOMAIN NoCall = CallFields /\ NoCall.pc = "idle" /\ NoCall.waiter = "none" /\ NoCall.ret = "none"
      /\ NoCall.made = {} /\ NoCall.deferred = {} /\ ~NoCall.twice /\ ~NoCall.pending /\ NoCall.reply = NoEvent
      /\ ~NoCall.bad
  BY DEF NoCall, CallFields
<1>5. PICK r : r = NoCall
  OBVIOUS
<1>6. Typed(r) /\ Unstarted(r) /\ r.pc = "idle"
  BY <1>4, <1>5 DEF Typed, Unstarted, Silent
<1>7. CallOK(r)
  BY <1>6 DEF CallOK
<1>8. Allowed(r, isClosed) /\ Excused(r, parentClosed)
  BY <1>4, <1>5 DEF Allowed, Excused, Active
<1> QED BY <1>1, <1>2, <1>3, <1>5, <1>7, <1>8 DEF AdminInv

LEMMA NextAdmin == AdminInv /\ [Next]_vars => AdminInv'
<1> SUFFICES ASSUME AdminInv, [Next]_vars PROVE AdminInv'
  OBVIOUS
<1>1. ASSUME NEW t \in Callers, NEW o \in Ops(use, t), NEW in \in Inputs(o), NEW c \in Contexts(o), Begin(t, o, in, c)
      PROVE  AdminInv'
  <2>1. use \in Uses
    BY DEF AdminInv, ClientOK
  <2>2. o \in Operations
    BY <2>1, AdminConstants DEF Operations
  <2> QED BY <1>1, <2>2, BeginStep
<1>2. ASSUME NEW t \in Callers, Goes(t) PROVE AdminInv'
  BY <1>2, OptionsStep, NewQueueStep, SendRequestStep, WaitResultStep, WaitCancelledStep, DrainStep, WaitNilStep,
     ConvertResultStep, QuerySteps, DirectStep DEF Goes
<1>3. ASSUME NEW t \in Callers, Waits(t) \/ ContextDone(t) \/ Reply(t) PROVE AdminInv'
  BY <1>3, WaiterLoopStep, WaiterPollStep, ContextDoneStep, ReplyStep DEF Waits
<1>4. ASSUME NEW t \in Callers, NEW found \in BOOLEAN, QueryAnswer(t, found) PROVE AdminInv'
  BY <1>4, QueryAnswerStep
<1>5. CASE CloseBegin \/ Closes \/ ParentClose
  BY <1>5, CloseBeginStep, CloseJoinStep, CloseDestroyStep, ParentCloseStep DEF Closes
<1>6. CASE Polls \/ LogSend \/ LogRead
  BY <1>6, LogSteps
<1>7. CASE UNCHANGED vars
  <2>1. /\ use' = use /\ isClosed' = isClosed /\ handle' = handle /\ rk' = rk /\ parentClosed' = parentClosed
        /\ calls' = calls /\ closer' = closer /\ log' = log
    BY <1>7 DEF vars, client
  <2>2. ClientOK' /\ LogOK'
    BY <2>1 DEF AdminInv, ClientOK, LogOK
  <2>3. /\ DOMAIN calls' = Callers
        /\ \A t \in Callers : CallOK(calls'[t]) /\ Allowed(calls'[t], isClosed') /\ Excused(calls'[t], parentClosed')
    BY <2>1, CallsKept
  <2> QED BY <2>2, <2>3 DEF AdminInv
<1> QED BY <1>1, <1>2, <1>3, <1>4, <1>5, <1>6, <1>7 DEF Next

\* The invariant holds in every reachable state: of every call, what it has made and
\* what its return will destroy agree with the step of adminapi.go it is at.
THEOREM AdminInvariant == Spec => []AdminInv
BY InitAdmin, NextAdmin, PTL DEF Spec

LEMMA InvUse == AdminInv => NoUseAfterDestroy
<1> SUFFICES ASSUME AdminInv PROVE NoUseAfterDestroy
  OBVIOUS
<1>1. ClientOK /\ LogOK /\ \A t \in Callers : CallOK(calls[t]) /\ Excused(calls[t], parentClosed)
  BY DEF AdminInv
<1>2. TypeOK
  <2>1. \A t \in Callers : Typed(calls[t])
    BY <1>1 DEF CallOK
  <2> QED BY <1>1, <2>1 DEF TypeOK, ClientOK, LogOK, Typed
<1>3. QueueOutlivesWaiter
  <2>1. ASSUME NEW t \in Callers, calls[t].waiter = "poll" PROVE Object("queue") \in calls[t].made \/ calls[t].ret = "panic"
    <3>1. PICK r : r = calls[t]
      OBVIOUS
    <3>2. CallOK(r) /\ Typed(r) /\ r.waiter = "poll"
      BY <1>1, <2>1, <3>1 DEF CallOK
    <3>3. Queue \in r.made \/ r.ret = "panic"
      BY <3>2, WaitsOrLeft DEF Awaiting, Finished, Typed
    <3> QED BY <3>1, <3>3 DEF Queue
  <2> QED BY <2>1 DEF QueueOutlivesWaiter
<1>4. UsesLiveHandle
  BY <1>1 DEF UsesLiveHandle, Excused
<1>5. LogsSafe
  BY <1>1 DEF LogsSafe, LogOK
<1> QED BY <1>2, <1>3, <1>4, <1>5 DEF NoUseAfterDestroy

\* No goroutine of the admin client uses what another has destroyed or closed: the
\* goroutine of waitResult() its call's queue, a call the handle of a client that was
\* closed before it began, the poller of log.go the log queue and channel.
THEOREM UseBeforeDestroy == Spec => []NoUseAfterDestroy
BY AdminInvariant, InvUse, PTL

LEMMA InvReleased == AdminInv => ReleasedOnce
<1> SUFFICES ASSUME AdminInv PROVE ReleasedOnce
  OBVIOUS
<1>1. \A t \in Callers : CallOK(calls[t])
  BY DEF AdminInv
<1>2. Released
  BY <1>1 DEF Released, CallOK, Finished
<1>3. NoDoubleDestroy
  BY <1>1 DEF NoDoubleDestroy, CallOK, Typed
<1> QED BY <1>2, <1>3 DEF ReleasedOnce

\* However a call of adminapi.go ends (refused, cancelled, answered, with an error or
\* with a panic), it has destroyed the C objects it made, each once, but for those
\* KnownLeaks names.
THEOREM DestroyedOnce == Spec => []ReleasedOnce
BY AdminInvariant, InvReleased, PTL
=============================================================================
