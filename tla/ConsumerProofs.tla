--------------------------- MODULE ConsumerProofs ---------------------------
(***************************************************************************)
(* Close() of the consumer is safe, no rebalance is lost, and the consumer *)
(* implements GroupMember, for any number of partitions, any queue and     *)
(* channel sizes and any configuration.                                    *)
(***************************************************************************)
EXTENDS Consumer, TLAPS

USE Zenon

-----------------------------------------------------------------------------
(* The inductive invariant.                                                *)

InPoll == {"poll", "rebalance", "callback", "assign", "forward", "panic"}

ReaderPcs == InPoll \cup {"loop", "send", "done"}

CallerPcs == InPoll \cup {"idle", "setCb", "call", "join", "closing", "destroy", "done"}

\* Where a goroutine is, and what that says about the consumer.
Where(t) ==
  /\ t = Reader => pc[t] \in ReaderPcs
  /\ t # Reader => pc[t] \in CallerPcs
  /\ t # Reader /\ pc[t] \in InPoll =>
       \/ caller[t] \in {"poll", "read"} /\ ~EventsChanEnable
       \/ caller[t] = "close" /\ isClosing /\ terminating
  /\ pc[t] = "join" => isClosing
  /\ pc[t] = "closing" => isClosing /\ terminating
  /\ pc[t] = "destroy" => isClosed
  /\ t # Reader /\ pc[t] = "done" => destroyed
  /\ pc[t] \in {"forward", "panic"} => failed

\* The event it has in hand.
Has(t) ==
  /\ pc[t] \in {"rebalance", "callback", "assign"} => IsRebalance(ev[t])
  /\ pc[t] = "send" => ev[t] # Nil
  /\ pc[t] = "send" /\ IsRebalance(ev[t]) => AppRebalanceEnable

\* The order of Close().
CloseOrder ==
  /\ readerTerm => isClosing
  /\ eventsClosed => terminating
  /\ terminating => isClosing /\ pc[Reader] = "done"
  /\ isClosed => terminating
  /\ destroyed => isClosed
  /\ EventsChanEnable \/ pc[Reader] = "done"

\* The application is given a rebalance event over the channel only if it asked
\* for that.
Forwarded ==
  /\ \A i \in 1 .. Len(events) : IsRebalance(events[i]) => AppRebalanceEnable
  /\ todo # Nil => AppRebalanceEnable /\ IsRebalance(todo)

\* What librdkafka waits for.
Asked ==
  wait # Nil => /\ IsRebalance(wait)
                /\ ~Cooperative /\ wait.type = "assign" => assigned = {}
                /\ ~Cooperative /\ wait.type = "revoke" => wait.parts = assigned

CInv ==
  /\ mode \in Modes /\ TypeOK /\ CloseOrder /\ Forwarded /\ Asked
  /\ \A t \in Threads : Where(t) /\ Has(t)

\* With Quiesce: beside the goroutine that closes, no other is in a call.
Closes(c) ==
  /\ pc[c] \in {"join", "closing", "destroy", "done"} \/ (caller[c] = "close" /\ pc[c] \in InPoll)
  /\ isClosed => pc[c] \in {"destroy", "done"}
  /\ destroyed => pc[c] = "done"
  /\ \A u \in Callers : u # c => pc[u] = "idle"

Quiet == isClosing => \E c \in Callers : Closes(c)

\* Where the event that librdkafka waits for is. A callback that has made its
\* call holds it no more.
On(s, e) == \E i \in 1 .. Len(s) : s[i] = e

Holds(t) == pc[t] \in {"rebalance", "assign", "send"} \/ (pc[t] = "callback" /\ ~appReassigned)

NotLost ==
  \/ AppRebalanceEnable /\ isClosing
  \/ wait = Nil \/ failed
  \/ On(rkq, wait) \/ On(events, wait) \/ todo = wait
  \/ \E t \in Threads : Holds(t) /\ ev[t] = wait

\* Without the reader: the callback is set, or about to be, where the application
\* asked for one, and no event is answered before it was told.
CallbackSet ==
  \/ EventsChanEnable
  \/ /\ wanted => rebalanceCb \/ \E t \in Callers : pc[t] = "setCb"
     /\ \A t \in Threads : pc[t] = "callback" => told[t]
     /\ \A t \in Threads : pc[t] = "assign" /\ wanted => told[t]

\* With Faithful: there is one place at most where a rebalance event is, and it
\* is the event that librdkafka waits for.
NoReb(s) == \A i \in 1 .. Len(s) : ~IsRebalance(s[i])

Only(s, e) == \E i \in 1 .. Len(s) : s[i] = e /\ \A j \in 1 .. Len(s) : j # i => ~IsRebalance(s[j])

HasReb(t) == Holds(t) /\ IsRebalance(ev[t])

NoHands == \A t \in Threads : ~HasReb(t)

OneHand == \E t \in Threads : HasReb(t) /\ ev[t] = wait /\ \A u \in Threads : HasReb(u) => u = t

InOnePlace ==
  \/ NoReb(rkq) /\ NoHands /\ NoReb(events) /\ todo = Nil
  \/ wait # Nil /\ Only(rkq, wait) /\ NoHands /\ NoReb(events) /\ todo = Nil
  \/ wait # Nil /\ NoReb(rkq) /\ OneHand /\ NoReb(events) /\ todo = Nil
  \/ wait # Nil /\ NoReb(rkq) /\ NoHands /\ Only(events, wait) /\ todo = Nil
  \/ wait # Nil /\ NoReb(rkq) /\ NoHands /\ NoReb(events) /\ todo = wait

Sole == Faithful /\ ~failed => InOnePlace

\* One goroutine of the application: it subscribes and polls one after the other.
Single == \A t, u \in Callers : t = u

-----------------------------------------------------------------------------
(* Sequences of events.                                                    *)

LEMMA TailFacts ==
  ASSUME NEW S, NEW s \in Seq(S), s # <<>>
  PROVE  /\ Tail(s) \in Seq(S) /\ Len(Tail(s)) = Len(s) - 1 /\ Len(s) \in Nat
         /\ Head(s) \in S /\ Head(s) = s[1] /\ 1 \in 1 .. Len(s)
         /\ \A i \in 1 .. Len(Tail(s)) : i + 1 \in 1 .. Len(s) /\ i + 1 # 1 /\ Tail(s)[i] = s[i + 1]
         /\ \A i \in 1 .. Len(s) : i # 1 => i - 1 \in 1 .. Len(Tail(s)) /\ Tail(s)[i - 1] = s[i]
BY SMT

LEMMA AppendFacts ==
  ASSUME NEW S, NEW s \in Seq(S), NEW e \in S
  PROVE  /\ Append(s, e) \in Seq(S) /\ Len(Append(s, e)) = Len(s) + 1 /\ Len(s) \in Nat
         /\ Len(s) + 1 \in 1 .. Len(Append(s, e)) /\ Append(s, e)[Len(s) + 1] = e
         /\ \A i \in 1 .. Len(s) : i \in 1 .. Len(Append(s, e)) /\ i # Len(s) + 1 /\ Append(s, e)[i] = s[i]
         /\ \A i \in 1 .. Len(Append(s, e)) : i = Len(s) + 1 \/ i \in 1 .. Len(s)
BY SMT

LEMMA TailOn ==
  ASSUME NEW S, NEW s \in Seq(S), s # <<>>
  PROVE  /\ \A e : On(s, e) => e = Head(s) \/ On(Tail(s), e)
         /\ NoReb(s) => NoReb(Tail(s)) /\ ~IsRebalance(Head(s))
         /\ \A e : Only(s, e) /\ IsRebalance(Head(s)) => NoReb(Tail(s)) /\ (IsRebalance(e) => e = Head(s))
         /\ \A e : Only(s, e) /\ ~IsRebalance(Head(s)) /\ IsRebalance(e) => Only(Tail(s), e)
<1>1. /\ Head(s) = s[1] /\ 1 \in 1 .. Len(s)
      /\ \A i \in 1 .. Len(Tail(s)) : i + 1 \in 1 .. Len(s) /\ i + 1 # 1 /\ Tail(s)[i] = s[i + 1]
      /\ \A i \in 1 .. Len(s) : i # 1 => i - 1 \in 1 .. Len(Tail(s)) /\ Tail(s)[i - 1] = s[i]
  BY TailFacts
<1>2. ASSUME NEW e, On(s, e) PROVE e = Head(s) \/ On(Tail(s), e)
  BY <1>1, <1>2 DEF On
<1>3. ASSUME NoReb(s) PROVE NoReb(Tail(s)) /\ ~IsRebalance(Head(s))
  BY <1>1, <1>3 DEF NoReb
<1>4. ASSUME NEW e, Only(s, e), IsRebalance(Head(s)) PROVE NoReb(Tail(s)) /\ (IsRebalance(e) => e = Head(s))
  <2>1. PICK i \in 1 .. Len(s) : s[i] = e /\ \A j \in 1 .. Len(s) : j # i => ~IsRebalance(s[j])
    BY <1>4 DEF Only
  <2>2. i = 1
    BY <1>1, <1>4, <2>1
  <2> QED BY <1>1, <2>1, <2>2 DEF NoReb
<1>5. ASSUME NEW e, Only(s, e), ~IsRebalance(Head(s)), IsRebalance(e) PROVE Only(Tail(s), e)
  <2>1. PICK i \in 1 .. Len(s) : s[i] = e /\ \A j \in 1 .. Len(s) : j # i => ~IsRebalance(s[j])
    BY <1>5 DEF Only
  <2>2. i # 1
    BY <1>1, <1>5, <2>1
  <2>3. i - 1 \in 1 .. Len(Tail(s)) /\ Tail(s)[i - 1] = e
    BY <1>1, <2>1, <2>2
  <2>4. ASSUME NEW j \in 1 .. Len(Tail(s)), j # i - 1 PROVE ~IsRebalance(Tail(s)[j])
    <3>1. j + 1 # i
      BY <2>4, SMT
    <3> QED BY <1>1, <2>1, <3>1
  <2> QED BY <2>3, <2>4 DEF Only
<1> QED BY <1>2, <1>3, <1>4, <1>5

LEMMA AppendOn ==
  ASSUME NEW S, NEW s \in Seq(S), NEW x \in S
  PROVE  /\ On(Append(s, x), x) /\ \A e : On(s, e) => On(Append(s, x), e)
         /\ NoReb(s) => Only(Append(s, x), x)
         /\ NoReb(s) /\ ~IsRebalance(x) => NoReb(Append(s, x))
         /\ \A e : Only(s, e) /\ ~IsRebalance(x) => Only(Append(s, x), e)
<1>1. /\ Len(s) + 1 \in 1 .. Len(Append(s, x)) /\ Append(s, x)[Len(s) + 1] = x
      /\ \A i \in 1 .. Len(s) : i \in 1 .. Len(Append(s, x)) /\ i # Len(s) + 1 /\ Append(s, x)[i] = s[i]
      /\ \A i \in 1 .. Len(Append(s, x)) : i = Len(s) + 1 \/ i \in 1 .. Len(s)
  BY AppendFacts
<1>2. On(Append(s, x), x) /\ \A e : On(s, e) => On(Append(s, x), e)
  BY <1>1 DEF On
<1>3. ASSUME NoReb(s) PROVE Only(Append(s, x), x)
  BY <1>1, <1>3 DEF Only, NoReb
<1>4. ASSUME NoReb(s), ~IsRebalance(x) PROVE NoReb(Append(s, x))
  BY <1>1, <1>4 DEF NoReb
<1>5. ASSUME NEW e, Only(s, e), ~IsRebalance(x) PROVE Only(Append(s, x), e)
  <2>1. PICK i \in 1 .. Len(s) : s[i] = e /\ \A j \in 1 .. Len(s) : j # i => ~IsRebalance(s[j])
    BY <1>5 DEF Only
  <2> QED BY <1>1, <1>5, <2>1 DEF Only
<1> QED BY <1>2, <1>3, <1>4, <1>5

-----------------------------------------------------------------------------
(* Frames: what a goroutine that takes no step keeps.                      *)

\* No step takes these back.
Grows ==
  /\ mode' = mode
  /\ (isClosing => isClosing') /\ (terminating => terminating') /\ (isClosed => isClosed')
  /\ (destroyed => destroyed') /\ (failed => failed')

Stays(u) == pc'[u] = pc[u] /\ caller'[u] = caller[u] /\ ev'[u] = ev[u]

LEMMA Parts ==
  ASSUME CInv
  PROVE  /\ mode \in Modes /\ TypeOK /\ CloseOrder /\ Forwarded /\ Asked
         /\ \A t \in Threads : Where(t) /\ Has(t)
         /\ Topics \subseteq Partitions
<1>1. /\ mode \in Modes /\ TypeOK /\ CloseOrder /\ Forwarded /\ Asked
      /\ \A t \in Threads : Where(t) /\ Has(t)
  BY DEF CInv
<1>2. Topics \subseteq Partitions
  BY <1>1, ConsumerConstants, SMT DEF Topics
<1> QED BY <1>1, <1>2

LEMMA Names == Reader \in Threads /\ Callers \subseteq Threads /\ \A t \in Threads : t \in Callers <=> t # Reader
BY ConsumerConstants, SMT DEF Threads

LEMMA StaysWhere ==
  ASSUME CInv, Grows, NEW u \in Threads, Stays(u)
  PROVE  Where(u)' /\ Has(u)'
<1>1. Where(u) /\ Has(u)
  BY Parts
<1>2. Where(u)'
  BY <1>1 DEF Where, Grows, Stays, EventsChanEnable
<1>3. Has(u)'
  BY <1>1 DEF Has, Grows, Stays, AppRebalanceEnable
<1> QED BY <1>2, <1>3

\* The types, in parts.
ConfTypes == /\ isClosed \in BOOLEAN /\ isClosing \in BOOLEAN /\ readerTerm \in BOOLEAN /\ eventsClosed \in BOOLEAN
             /\ subscribed \in BOOLEAN /\ terminating \in BOOLEAN /\ closed \in BOOLEAN /\ destroyed \in BOOLEAN
             /\ fatal \in BOOLEAN /\ failed \in BOOLEAN
CbTypes == /\ rebalanceCb \in BOOLEAN /\ appReassigned \in BOOLEAN /\ wanted \in BOOLEAN
           /\ told \in [Threads -> BOOLEAN]
SeqTypes == /\ events \in Seq(Event) /\ Len(events) <= ChanSize
            /\ rkq \in Seq(Event) /\ Len(rkq) <= MaxQueue + 1
AllPcs == {"idle", "setCb", "call", "poll", "send", "loop", "rebalance", "callback", "assign",
           "forward", "panic", "join", "closing", "destroy", "done"}
GoTypes == /\ pc \in [Threads -> AllPcs]
           /\ caller \in [Threads -> {Nil, "poll", "read", "close"}]
           /\ ev \in [Threads -> Event \cup {Nil}]
           /\ evcnt \in 0 .. MaxEvents - 1 /\ expired \in [Threads -> BOOLEAN]
GroupTypes == todo \in Event \cup {Nil} /\ wait \in Event \cup {Nil} /\ assigned \subseteq Partitions

LEMMA Types == TypeOK <=> ConfTypes /\ CbTypes /\ SeqTypes /\ GoTypes /\ GroupTypes
BY SMT DEF TypeOK, ConfTypes, CbTypes, SeqTypes, GoTypes, GroupTypes, AllPcs

LEMMA TypesNext ==
  ASSUME ConfTypes', CbTypes', SeqTypes', GoTypes', GroupTypes' PROVE TypeOK'
BY SMT DEF TypeOK, ConfTypes, CbTypes, SeqTypes, GoTypes, GroupTypes, AllPcs

LEMMA PcIs ==
  ASSUME CInv, NEW t \in Threads, NEW l \in AllPcs, Goto(t, l)
  PROVE  /\ pc' \in [Threads -> AllPcs] /\ pc'[t] = l
         /\ \A u \in Threads : u # t => pc'[u] = pc[u]
<1>1. pc \in [Threads -> AllPcs]
  BY Parts, Types DEF GoTypes
<1> QED BY <1>1, SMT DEF Goto

\* With the types of what a step changes, a goroutine that keeps its
\* place and event is where it was.
Closing(t) == pc[t] \in {"join", "closing"} \/ (caller[t] = "close" /\ pc[t] \in InPoll)

LEMMA QuietStep ==
  ASSUME Quiet, NEW t \in Threads, pc[t] \notin {"destroy", "done"},
         \A u \in Threads : u # t => pc'[u] = pc[u] /\ caller'[u] = caller[u],
         isClosing' = isClosing, isClosed' = isClosed, destroyed' = destroyed,
         isClosing /\ t \in Callers => /\ pc[t] = "idle" => pc'[t] = "idle"
                                       /\ Closing(t) => Closing(t)'
  PROVE  Quiet'
<1> SUFFICES ASSUME isClosing PROVE \E c \in Callers : Closes(c)'
  BY DEF Quiet
<1>1. PICK c \in Callers : Closes(c)
  BY DEF Quiet
<1>2. c \in Threads /\ \A u \in Callers : u \in Threads
  BY Names
<1>3. \A u \in Callers : u # c => pc'[u] = "idle"
  BY <1>1, <1>2 DEF Closes
<1>4. CASE c = t
  <2>1. ~isClosed /\ ~destroyed /\ Closing(t)
    BY <1>1, <1>4 DEF Closes, Closing
  <2>2. Closing(t)'
    BY <1>4, <2>1
  <2> QED BY <1>3, <1>4, <2>1, <2>2 DEF Closes, Closing
<1>5. CASE c # t
  <2>1. pc'[c] = pc[c] /\ caller'[c] = caller[c]
    BY <1>2, <1>5
  <2> QED BY <1>1, <1>3, <2>1 DEF Closes
<1> QED BY <1>4, <1>5

\* Nothing of the goroutines changes.
LEMMA QuietFrame ==
  ASSUME Quiet, UNCHANGED <<pc, caller>>, isClosing' = isClosing, isClosed' = isClosed, destroyed' = destroyed
  PROVE  Quiet'
BY DEF Quiet, Closes

\* What a step keeps besides CInv.
Keeps ==
  /\ Quiesce /\ Quiet => Quiet'
  /\ NotLost => NotLost'
  /\ Single /\ Sole => Sole'
  /\ Single /\ CallbackSet => CallbackSet'

LEMMA NotLostFrame ==
  ASSUME NotLost, Grows, UNCHANGED <<wait, events, rkq, todo>>,
         \A u \in Threads : Holds(u) => Holds(u)' /\ ev'[u] = ev[u]
  PROVE  NotLost'
BY DEF NotLost, Grows, AppRebalanceEnable

LEMMA SoleFrame ==
  ASSUME Sole, Grows, UNCHANGED <<wait, events, rkq, todo>>,
         \A u \in Threads : HasReb(u)' => HasReb(u) /\ ev'[u] = ev[u]
  PROVE  Sole'
<1> SUFFICES ASSUME Faithful', ~failed' PROVE InOnePlace'
  BY DEF Sole
<1>1. InOnePlace
  BY DEF Sole, Grows, Faithful
<1>2. NoHands => NoHands'
  BY DEF NoHands
<1>3. OneHand => OneHand' \/ NoHands'
  BY DEF OneHand, NoHands
<1> QED BY <1>1, <1>2, <1>3 DEF InOnePlace

LEMMA CallbackFrame ==
  ASSUME CallbackSet, Grows, UNCHANGED <<wanted, rebalanceCb>>,
         \A u \in Threads : /\ pc[u] = "setCb" => pc'[u] = "setCb"
                            /\ pc'[u] = "callback" => pc[u] = "callback" /\ told'[u] = told[u]
                            /\ pc'[u] = "assign" => told'[u] = told[u] /\ (pc[u] = "assign" \/ pc[u] = "callback")
  PROVE  CallbackSet'
<1> SUFFICES ASSUME ~EventsChanEnable PROVE CallbackSet'
  BY DEF CallbackSet, Grows, EventsChanEnable
<1>1. /\ wanted => rebalanceCb \/ \E t \in Callers : pc[t] = "setCb"
      /\ \A t \in Threads : pc[t] = "callback" => told[t]
      /\ \A t \in Threads : pc[t] = "assign" /\ wanted => told[t]
  BY DEF CallbackSet
<1>2. wanted => rebalanceCb \/ \E t \in Callers : pc'[t] = "setCb"
  BY <1>1, Names
<1> QED BY <1>1, <1>2 DEF CallbackSet

\* Where a goroutine has an event in hand.
Handling == {"rebalance", "callback", "assign", "send", "forward", "panic"}

LEMMA NotHandling == \A l : l \notin Handling => /\ l \notin {"rebalance", "callback", "assign"} /\ l # "send"
                                               /\ l \notin {"forward", "panic"}
                                               /\ l \notin {"rebalance", "assign", "send"} /\ l # "callback" /\ l # "assign"
BY DEF Handling

\* A goroutine goes from one place to another without an event in hand.
LEMMA PlaceStep ==
  ASSUME CInv, Grows, NEW t \in Threads, pc[t] \notin Handling, pc'[t] \notin Handling,
         \A u \in Threads : u # t => pc'[u] = pc[u] /\ caller'[u] = caller[u],
         UNCHANGED <<ev, events, rkq, todo, wait, assigned, told, appReassigned>>
  PROVE  /\ NotLost => NotLost'
         /\ Sole => Sole'
         /\ UNCHANGED <<wanted, rebalanceCb>> /\ pc[t] # "setCb" => (CallbackSet => CallbackSet')
         /\ Forwarded' /\ Asked' /\ Has(t)' /\ \A u \in Threads : u # t => Where(u)' /\ Has(u)'
<1>1. \A u \in Threads : Holds(u)' <=> Holds(u)
  <2>1. ~Holds(t) /\ ~Holds(t)'
    BY NotHandling DEF Holds
  <2>2. \A u \in Threads : u # t => (Holds(u)' <=> Holds(u))
    BY DEF Holds
  <2> QED BY <2>1, <2>2
<1>2. \A u \in Threads : HasReb(u)' => HasReb(u) /\ ev'[u] = ev[u]
  BY <1>1 DEF HasReb
<1>3. NotLost => NotLost'
  BY <1>1, NotLostFrame
<1>4. Sole => Sole'
  BY <1>2, SoleFrame
<1>5. UNCHANGED <<wanted, rebalanceCb>> /\ pc[t] # "setCb" => (CallbackSet => CallbackSet')
  <2> SUFFICES ASSUME UNCHANGED <<wanted, rebalanceCb>>, pc[t] # "setCb", CallbackSet PROVE CallbackSet'
    OBVIOUS
  <2>1. pc'[t] # "callback" /\ pc'[t] # "assign"
    BY NotHandling
  <2>2. \A u \in Threads : /\ pc[u] = "setCb" => pc'[u] = "setCb"
                           /\ pc'[u] = "callback" => pc[u] = "callback" /\ told'[u] = told[u]
                           /\ pc'[u] = "assign" => told'[u] = told[u] /\ (pc[u] = "assign" \/ pc[u] = "callback")
    BY <2>1
  <2> QED BY <2>2, CallbackFrame
<1>6. Forwarded' /\ Asked'
  BY Parts DEF Forwarded, Asked, Grows, AppRebalanceEnable, Cooperative
<1>7. Has(t)'
  BY NotHandling DEF Has
<1>8. \A u \in Threads : u # t => Where(u)' /\ Has(u)'
  BY StaysWhere DEF Stays
<1> QED BY <1>3, <1>4, <1>5, <1>6, <1>7, <1>8

\* A goroutine that is not the reader's has the reader where it was.
LEMMA ReaderStays ==
  ASSUME NEW t \in Threads, t # Reader, \A u \in Threads : u # t => pc'[u] = pc[u]
  PROVE  pc'[Reader] = pc[Reader]
BY Names

-----------------------------------------------------------------------------
(* The calls of the application, and Close().                              *)

LEMMA CallTypes ==
  ASSUME CInv, NEW t \in Threads, NEW l \in AllPcs, Goto(t, l), UNCHANGED <<caller, ev, evcnt, expired>>
  PROVE  /\ GoTypes' /\ pc'[t] = l
         /\ \A u \in Threads : u # t => pc'[u] = pc[u] /\ caller'[u] = caller[u]
<1>1. GoTypes
  BY Parts, Types
<1>2. pc' \in [Threads -> AllPcs] /\ pc'[t] = l /\ \A u \in Threads : u # t => pc'[u] = pc[u]
  BY PcIs
<1> QED BY <1>1, <1>2 DEF GoTypes

LEMMA Pcs == /\ AllPcs = CallerPcs \cup {"send", "loop"}
             /\ \A l : l \in {"idle", "setCb", "call", "join", "closing", "destroy", "done"} => l \notin InPoll /\ l \notin Handling /\ l \in CallerPcs
BY SMT DEF AllPcs, CallerPcs, InPoll, Handling

LEMMA SubscribeTopicsStep ==
  ASSUME CInv, NEW t \in Threads, NEW cb \in Callbacks, SubscribeTopics(t, cb) PROVE CInv' /\ Keeps
<1>1. /\ t \in Callers /\ pc[t] = "idle" /\ (Quiesce => ~isClosing)
      /\ subscribed' = TRUE /\ wanted' = cb /\ Goto(t, "setCb")
  BY DEF SubscribeTopics, MayCall
<1>2. UNCHANGED <<mode, isClosed, isClosing, readerTerm, events, eventsClosed, rebalanceCb, appReassigned, told,
                  caller, ev, evcnt, expired, todo, assigned, wait, failed, rkq, terminating, closed, destroyed, fatal>>
  BY DEF SubscribeTopics, conf, chan, app, group
<1>3. ConfTypes /\ CbTypes /\ SeqTypes /\ GroupTypes /\ mode \in Modes /\ CloseOrder /\ Where(t)
  BY Parts, Types
<1>4. GoTypes' /\ pc'[t] = "setCb" /\ \A u \in Threads : u # t => pc'[u] = pc[u] /\ caller'[u] = caller[u]
  BY <1>1, <1>2, CallTypes DEF AllPcs
<1>5. Grows
  BY <1>2 DEF Grows
<1>6. /\ NotLost => NotLost'
      /\ Sole => Sole'
      /\ Forwarded' /\ Asked' /\ Has(t)' /\ \A u \in Threads : u # t => Where(u)' /\ Has(u)'
  BY <1>1, <1>2, <1>4, <1>5, PlaceStep, Pcs
<1>7. TypeOK'
  <2>1. ConfTypes'
    BY <1>1, <1>2, <1>3 DEF ConfTypes
  <2>2. CbTypes'
    BY <1>1, <1>2, <1>3, ConsumerConstants DEF CbTypes
  <2>3. SeqTypes' /\ GroupTypes'
    BY <1>2, <1>3 DEF SeqTypes, GroupTypes
  <2> QED BY <1>4, <2>1, <2>2, <2>3, TypesNext
<1>8. t # Reader /\ pc'[Reader] = pc[Reader]
  BY <1>1, <1>4, Names
<1>9. CloseOrder'
  BY <1>2, <1>3, <1>8 DEF CloseOrder, EventsChanEnable
<1>10. Where(t)'
  BY <1>1, <1>2, <1>4, <1>8, Pcs DEF Where
<1>11. CInv'
  BY <1>2, <1>3, <1>6, <1>7, <1>9, <1>10 DEF CInv
<1>12. Quiesce /\ Quiet => Quiet'
  BY <1>1, <1>2 DEF Quiet
<1>13. Single /\ CallbackSet => CallbackSet'
  <2> SUFFICES ASSUME Single, ~EventsChanEnable PROVE CallbackSet'
    BY <1>2 DEF CallbackSet, EventsChanEnable
  <2>1. pc[Reader] = "done"
    BY <1>3 DEF CloseOrder
  <2>2. \A u \in Threads : u = t \/ u = Reader
    BY <1>1, Names DEF Single
  <2>3. \A u \in Threads : pc'[u] \in {"setCb", "done"}
    BY <1>4, <1>8, <2>1, <2>2
  <2>4. \A l : l \in {"setCb", "done"} => l # "callback" /\ l # "assign"
    OBVIOUS
  <2> QED BY <1>1, <1>4, <2>3, <2>4 DEF CallbackSet
<1> QED BY <1>6, <1>11, <1>12, <1>13 DEF Keeps

\* A step from one place to another that changes neither the callback nor what
\* the group asked for.
LEMMA GoStep ==
  ASSUME CInv, Grows, NEW t \in Threads, pc[t] \notin Handling, pc'[t] \notin Handling, pc[t] # "setCb",
         \A u \in Threads : u # t => pc'[u] = pc[u] /\ caller'[u] = caller[u],
         UNCHANGED <<ev, events, rkq, todo, wait, assigned, told, appReassigned, wanted, rebalanceCb>>,
         GoTypes', ConfTypes', CloseOrder', Where(t)', Quiesce /\ Quiet => Quiet'
  PROVE  CInv' /\ Keeps
<1>1. CbTypes /\ SeqTypes /\ GroupTypes /\ mode \in Modes
  BY Parts, Types
<1>2. CbTypes' /\ SeqTypes' /\ GroupTypes' /\ mode' \in Modes
  BY <1>1 DEF CbTypes, SeqTypes, GroupTypes, Grows
<1>3. TypeOK'
  BY <1>2, TypesNext
<1>4. /\ NotLost => NotLost'
      /\ Sole => Sole'
      /\ CallbackSet => CallbackSet'
      /\ Forwarded' /\ Asked' /\ Has(t)' /\ \A u \in Threads : u # t => Where(u)' /\ Has(u)'
  BY PlaceStep
<1>5. CInv'
  BY <1>2, <1>3, <1>4 DEF CInv
<1> QED BY <1>4, <1>5 DEF Keeps

LEMMA SetRebalanceCbStep == ASSUME CInv, NEW t \in Threads, SetRebalanceCb(t) PROVE CInv' /\ Keeps
<1>1. pc[t] = "setCb" /\ rebalanceCb' = wanted /\ Goto(t, "idle")
  BY DEF SetRebalanceCb
<1>2. UNCHANGED <<mode, isClosed, isClosing, readerTerm, events, eventsClosed, appReassigned, wanted, told,
                  caller, ev, evcnt, expired, todo, assigned, wait, failed, rkq, subscribed, terminating, closed, destroyed, fatal>>
  BY DEF SetRebalanceCb, conf, chan, app, group, rk
<1>3. ConfTypes /\ CbTypes /\ SeqTypes /\ GroupTypes /\ mode \in Modes /\ CloseOrder /\ Where(t)
  BY Parts, Types
<1>4. GoTypes' /\ pc'[t] = "idle" /\ \A u \in Threads : u # t => pc'[u] = pc[u] /\ caller'[u] = caller[u]
  BY <1>1, <1>2, CallTypes DEF AllPcs
<1>5. Grows
  BY <1>2 DEF Grows
<1>6. /\ NotLost => NotLost'
      /\ Sole => Sole'
      /\ Forwarded' /\ Asked' /\ Has(t)' /\ \A u \in Threads : u # t => Where(u)' /\ Has(u)'
  BY <1>1, <1>2, <1>4, <1>5, PlaceStep, Pcs
<1>7. TypeOK'
  <2>1. ConfTypes'
    BY <1>2, <1>3 DEF ConfTypes
  <2>2. CbTypes'
    BY <1>1, <1>2, <1>3 DEF CbTypes
  <2>3. SeqTypes' /\ GroupTypes'
    BY <1>2, <1>3 DEF SeqTypes, GroupTypes
  <2> QED BY <1>4, <2>1, <2>2, <2>3, TypesNext
<1>8. t # Reader /\ pc'[Reader] = pc[Reader]
  <2>1. "setCb" \notin ReaderPcs
    BY DEF ReaderPcs, InPoll
  <2> QED BY <1>1, <1>3, <1>4, <2>1, Names DEF Where
<1>9. CloseOrder'
  BY <1>2, <1>3, <1>8 DEF CloseOrder, EventsChanEnable
<1>10. Where(t)'
  BY <1>1, <1>2, <1>4, <1>8, Pcs DEF Where
<1>11. CInv'
  BY <1>2, <1>3, <1>6, <1>7, <1>9, <1>10 DEF CInv
<1>12. Quiesce /\ Quiet => Quiet'
  <2>1. ~Closing(t)
    BY <1>1, Pcs DEF Closing
  <2> QED BY <1>1, <1>2, <1>4, <2>1, QuietStep
<1>13. CallbackSet => CallbackSet'
  <2>1. \A u \in Threads : /\ pc'[u] = "callback" => pc[u] = "callback"
                           /\ pc'[u] = "assign" => pc[u] = "assign"
    BY <1>4
  <2> QED BY <1>1, <1>2, <2>1 DEF CallbackSet, EventsChanEnable
<1> QED BY <1>6, <1>11, <1>12, <1>13 DEF Keeps

\* A call of the application begins or returns, and Poll() or ReadMessage() begins.
LEMMA BeginStep ==
  ASSUME CInv, NEW t \in Threads, NEW l \in {"idle", "call", "poll"}, pc[t] \in {"idle", "call"}, pc'[t] = l,
         pc[t] = "idle" => t \in Callers /\ (Quiesce => ~isClosing), l = "call" => t \in Callers,
         l = "poll" => caller'[t] \in {"poll", "read"} /\ ~EventsChanEnable /\ t \in Callers,
         GoTypes', \A u \in Threads : u # t => pc'[u] = pc[u] /\ caller'[u] = caller[u],
         UNCHANGED <<mode, isClosed, isClosing, readerTerm, events, eventsClosed, rebalanceCb, appReassigned, wanted,
                     told, ev, evcnt, todo, assigned, wait, failed, rkq, subscribed, terminating, closed, destroyed, fatal>>
  PROVE  CInv' /\ Keeps
<1>1. Grows /\ pc[t] \notin Handling /\ pc'[t] \notin Handling /\ pc[t] # "setCb"
  BY DEF Grows, Handling
<1>2. ConfTypes /\ CloseOrder /\ Where(t)
  BY Parts, Types
<1>3. ConfTypes'
  BY <1>2 DEF ConfTypes
<1>4. t # Reader /\ pc'[Reader] = pc[Reader]
  <2>1. "idle" \notin ReaderPcs /\ "call" \notin ReaderPcs
    BY DEF ReaderPcs, InPoll
  <2> QED BY <1>2, <2>1, Names DEF Where
<1>5. CloseOrder'
  BY <1>2, <1>4 DEF CloseOrder, EventsChanEnable
<1>6. Where(t)'
  <2>1. l \in CallerPcs /\ (l # "poll" => l \notin InPoll)
    BY DEF CallerPcs, InPoll
  <2>2. l # "join" /\ l # "closing" /\ l # "destroy" /\ l # "done" /\ l \notin {"forward", "panic"}
    OBVIOUS
  <2> QED BY <1>4, <2>1, <2>2 DEF Where, EventsChanEnable
<1>7. Quiesce /\ Quiet => Quiet'
  <2> SUFFICES ASSUME Quiesce, Quiet PROVE Quiet'
    OBVIOUS
  <2>1. ~Closing(t)
    BY Pcs DEF Closing
  <2>2. pc[t] \notin {"destroy", "done"}
    OBVIOUS
  <2>3. isClosing => pc[t] # "idle" \/ pc'[t] = "idle"
    BY <1>4, Names
  <2> QED BY <2>1, <2>2, <2>3, QuietStep
<1> QED BY <1>1, <1>3, <1>5, <1>6, <1>7, GoStep

LEMMA CallsStep ==
  ASSUME CInv, NEW t \in Threads, Call(t) \/ CallReturns(t) PROVE CInv' /\ Keeps
<1>1. PICK l \in {"idle", "call"} : /\ Goto(t, l) /\ pc[t] \in {"idle", "call"}
                                    /\ pc[t] = "idle" => t \in Callers /\ (Quiesce => ~isClosing)
                                    /\ l = "call" => t \in Callers
  <2>1. ASSUME Call(t) PROVE t \in Callers /\ pc[t] = "idle" /\ (Quiesce => ~isClosing) /\ Goto(t, "call")
    BY <2>1 DEF Call, MayCall
  <2>2. ASSUME CallReturns(t) PROVE pc[t] = "call" /\ Goto(t, "idle")
    BY <2>2 DEF CallReturns
  <2> QED BY <2>1, <2>2
<1>2. UNCHANGED <<mode, isClosed, isClosing, readerTerm, events, eventsClosed, rebalanceCb, appReassigned, wanted,
                  told, caller, ev, evcnt, expired, todo, assigned, wait, failed, rkq, subscribed, terminating, closed,
                  destroyed, fatal>>
  BY DEF Call, CallReturns, conf, chan, cbs, app, group, rk
<1>3. GoTypes' /\ pc'[t] = l /\ \A u \in Threads : u # t => pc'[u] = pc[u] /\ caller'[u] = caller[u]
  BY <1>1, <1>2, CallTypes DEF AllPcs
<1> QED BY <1>1, <1>2, <1>3, BeginStep

LEMMA BeginPollStep ==
  ASSUME CInv, NEW t \in Threads, NEW by \in {"poll", "read"}, BeginPoll(t, by) PROVE CInv' /\ Keeps
<1>1. t \in Callers /\ pc[t] = "idle" /\ (Quiesce => ~isClosing) /\ ~EventsChanEnable
  BY DEF BeginPoll, MayCall
<1>2. UNCHANGED <<mode, isClosed, isClosing, readerTerm, events, eventsClosed, rebalanceCb, appReassigned, wanted,
                  told, ev, evcnt, todo, assigned, wait, failed, rkq, subscribed, terminating, closed, destroyed, fatal>>
  BY DEF BeginPoll, conf, chan, cbs, app, group, rk
<1>3. GoTypes
  BY Parts, Types
<1>4. GoTypes' /\ pc'[t] = "poll" /\ caller'[t] = by /\ \A u \in Threads : u # t => pc'[u] = pc[u] /\ caller'[u] = caller[u]
  BY <1>2, <1>3, SMT DEF BeginPoll, Goto, GoTypes, AllPcs
<1> QED BY <1>1, <1>2, <1>4, BeginStep

\* Nothing of what the invariants speak of changes.
LEMMA NothingStep ==
  ASSUME CInv, GoTypes', ConfTypes',
         UNCHANGED <<mode, isClosed, isClosing, readerTerm, events, eventsClosed, rebalanceCb, appReassigned, wanted,
                     told, pc, caller, ev, todo, assigned, wait, failed, rkq, terminating, destroyed>>
  PROVE  CInv' /\ Keeps
<1>1. CbTypes /\ SeqTypes /\ GroupTypes /\ mode \in Modes /\ CloseOrder /\ Forwarded /\ Asked
  BY Parts, Types
<1>2. Grows /\ \A u \in Threads : Stays(u)
  BY DEF Grows, Stays
<1>3. TypeOK'
  BY <1>1, TypesNext DEF CbTypes, SeqTypes, GroupTypes
<1>4. CloseOrder' /\ Forwarded' /\ Asked'
  BY <1>1 DEF CloseOrder, Forwarded, Asked, EventsChanEnable, AppRebalanceEnable, Cooperative
<1>5. CInv'
  BY <1>1, <1>2, <1>3, <1>4, StaysWhere DEF CInv
<1>6. \A u \in Threads : (Holds(u)' <=> Holds(u)) /\ (HasReb(u)' <=> HasReb(u))
  BY DEF HasReb, Holds
<1>7. Quiet => Quiet'
  BY QuietFrame
<1>8. NotLost => NotLost'
  BY <1>2, <1>6, NotLostFrame
<1>9. Sole => Sole'
  BY <1>2, <1>6, SoleFrame
<1>10. CallbackSet => CallbackSet'
  BY DEF CallbackSet, EventsChanEnable
<1> QED BY <1>5, <1>7, <1>8, <1>9, <1>10 DEF Keeps

LEMMA UnsubscribeStep == ASSUME CInv, NEW t \in Threads, Unsubscribe(t) PROVE CInv' /\ Keeps
<1>1. ConfTypes /\ GoTypes
  BY Parts, Types
<1>2. /\ UNCHANGED <<mode, isClosed, isClosing, readerTerm, events, eventsClosed, rebalanceCb, appReassigned, wanted,
                     told, pc, caller, ev, evcnt, expired, todo, assigned, wait, failed, rkq, terminating, closed, destroyed, fatal>>
      /\ subscribed' = FALSE
  BY DEF Unsubscribe, conf, chan, cbs, go, app, group
<1>3a. fatal' \in BOOLEAN /\ closed' \in BOOLEAN
  BY <1>1, <1>2 DEF ConfTypes
<1>3b. ConfTypes'
  BY <1>1, <1>2, <1>3a DEF ConfTypes
<1>3c. GoTypes'
  BY <1>1, <1>2 DEF GoTypes
<1>3. ConfTypes' /\ GoTypes'
  BY <1>3b, <1>3c
<1> QED BY <1>2, <1>3, NothingStep

LEMMA ExpireStep == ASSUME CInv, NEW t \in Threads, Expire(t) PROVE CInv' /\ Keeps
<1>1. ConfTypes /\ GoTypes
  BY Parts, Types
<1>2. UNCHANGED <<mode, isClosed, isClosing, readerTerm, events, eventsClosed, rebalanceCb, appReassigned, wanted,
                  told, pc, caller, ev, evcnt, todo, assigned, wait, failed, rkq, subscribed, terminating, closed, destroyed, fatal>>
  BY DEF Expire, conf, chan, cbs, app, group, rk
<1>3. ConfTypes' /\ GoTypes'
  BY <1>1, <1>2, SMT DEF ConfTypes, GoTypes, Expire
<1> QED BY <1>2, <1>3, NothingStep

LEMMA ReaderLoopStep == ASSUME CInv, NEW t \in Threads, ReaderLoop(t) PROVE CInv' /\ Keeps
<1>1. PICK l \in {"done", "poll"} : Goto(t, l)
  BY DEF ReaderLoop
<1>2. /\ UNCHANGED <<mode, isClosed, isClosing, readerTerm, events, eventsClosed, rebalanceCb, appReassigned, wanted,
                     told, caller, ev, evcnt, expired, todo, assigned, wait, failed, rkq, subscribed, terminating, closed,
                     destroyed, fatal>>
      /\ pc[t] = "loop"
  BY DEF ReaderLoop, conf, chan, cbs, app, group, rk
<1>3. GoTypes' /\ pc'[t] = l /\ \A u \in Threads : u # t => pc'[u] = pc[u] /\ caller'[u] = caller[u]
  BY <1>1, <1>2, CallTypes DEF AllPcs
<1>4. ConfTypes /\ CloseOrder /\ Where(t)
  BY Parts, Types
<1>5. t = Reader /\ t \notin Callers
  <2>1. "loop" \notin CallerPcs
    BY DEF CallerPcs, InPoll
  <2> QED BY <1>2, <1>4, <2>1, Names DEF Where
<1>6a. Grows
  BY <1>2 DEF Grows
<1>6b. ConfTypes'
  BY <1>2, <1>4 DEF ConfTypes
<1>6c. pc'[t] \notin Handling
  BY <1>1, <1>3 DEF Handling
<1>6d. pc[t] \notin Handling /\ pc[t] # "setCb" /\ pc[t] \notin {"destroy", "done"}
  BY <1>2 DEF Handling
<1>6. /\ Grows /\ ConfTypes' /\ pc[t] \notin Handling /\ pc'[t] \notin Handling /\ pc[t] # "setCb"
      /\ pc[t] \notin {"destroy", "done"}
  BY <1>6a, <1>6b, <1>6c, <1>6d
<1>7. CloseOrder'
  BY <1>2, <1>4, <1>5, <1>6 DEF CloseOrder, EventsChanEnable
<1>8. Where(t)'
  BY <1>3, <1>5 DEF Where, ReaderPcs, InPoll
<1>9. Quiesce /\ Quiet => Quiet'
  BY <1>2, <1>3, <1>5, <1>6, QuietStep
<1> QED BY <1>2, <1>3, <1>6, <1>7, <1>8, <1>9, GoStep

LEMMA CloseBeginStep == ASSUME CInv, NEW t \in Threads, CloseBegin(t) PROVE CInv' /\ Keeps
<1>1. /\ t \in Callers /\ pc[t] = "idle" /\ ~isClosed /\ ~isClosing /\ Goto(t, "join")
      /\ Quiesce => \A u \in Callers : u # t => pc[u] = "idle"
      /\ isClosing' = TRUE /\ readerTerm' = TRUE
  BY DEF CloseBegin, MayCall
<1>2. UNCHANGED <<mode, isClosed, events, eventsClosed, rebalanceCb, appReassigned, wanted, told, caller, ev, evcnt,
                  expired, todo, assigned, wait, failed, rkq, subscribed, terminating, closed, destroyed, fatal>>
  BY DEF CloseBegin, chan, cbs, app, group, rk
<1>3. GoTypes' /\ pc'[t] = "join" /\ \A u \in Threads : u # t => pc'[u] = pc[u] /\ caller'[u] = caller[u]
  BY <1>1, <1>2, CallTypes DEF AllPcs
<1>4. ConfTypes /\ CloseOrder /\ Where(t)
  BY Parts, Types
<1>5. t # Reader /\ pc'[Reader] = pc[Reader]
  BY <1>1, <1>3, Names
<1>6. Grows /\ ConfTypes' /\ pc[t] \notin Handling /\ pc'[t] \notin Handling /\ pc[t] # "setCb"
  BY <1>1, <1>2, <1>3, <1>4 DEF Grows, ConfTypes, Handling
<1>7. CloseOrder'
  BY <1>1, <1>2, <1>4, <1>5 DEF CloseOrder, EventsChanEnable
<1>8. Where(t)'
  BY <1>1, <1>3, <1>5, Pcs DEF Where
<1>9. Quiesce /\ Quiet => Quiet'
  <2> SUFFICES ASSUME Quiesce PROVE Closes(t)'
    BY <1>1 DEF Quiet
  <2>1. ~isClosed' /\ ~destroyed'
    BY <1>1, <1>2, <1>4 DEF CloseOrder
  <2>2. \A u \in Callers : u # t => pc'[u] = "idle"
    BY <1>1, <1>3, Names
  <2> QED BY <1>3, <2>1, <2>2 DEF Closes
<1> QED BY <1>1, <1>2, <1>3, <1>6, <1>7, <1>8, <1>9, GoStep

LEMMA CloseJoinStep == ASSUME CInv, NEW t \in Threads, CloseJoin(t) PROVE CInv' /\ Keeps
<1>1. /\ pc[t] = "join" /\ pc[Reader] = "done" /\ Goto(t, "closing")
      /\ eventsClosed' = EventsChanEnable /\ terminating' = TRUE
  BY DEF CloseJoin
<1>2. UNCHANGED <<mode, isClosed, isClosing, readerTerm, events, rebalanceCb, appReassigned, wanted, told, caller, ev,
                  evcnt, expired, todo, assigned, wait, failed, rkq, subscribed, closed, destroyed, fatal>>
  BY DEF CloseJoin, conf, cbs, app, group
<1>3. GoTypes' /\ pc'[t] = "closing" /\ \A u \in Threads : u # t => pc'[u] = pc[u] /\ caller'[u] = caller[u]
  BY <1>1, <1>2, CallTypes DEF AllPcs
<1>4. ConfTypes /\ CloseOrder /\ Where(t) /\ mode \in Modes
  BY Parts, Types
<1>5. t # Reader /\ pc'[Reader] = pc[Reader]
  BY <1>1, <1>3, Names
<1>6. Grows /\ ConfTypes' /\ pc[t] \notin Handling /\ pc'[t] \notin Handling /\ pc[t] # "setCb"
  <2>1. EventsChanEnable \in BOOLEAN
    BY <1>4, ConsumerConstants, SMT DEF EventsChanEnable
  <2> QED BY <1>1, <1>2, <1>3, <1>4, <2>1 DEF Grows, ConfTypes, Handling
<1>7. isClosing
  BY <1>1, <1>4 DEF Where
<1>8. CloseOrder'
  BY <1>1, <1>2, <1>4, <1>5, <1>7 DEF CloseOrder, EventsChanEnable
<1>9. Where(t)'
  BY <1>1, <1>2, <1>3, <1>5, <1>7, Pcs DEF Where
<1>10. Quiesce /\ Quiet => Quiet'
  <2>1. pc[t] \notin {"destroy", "done"} /\ pc[t] # "idle"
    BY <1>1
  <2>2. Closing(t)'
    BY <1>3 DEF Closing
  <2> QED BY <1>2, <1>3, <2>1, <2>2, QuietStep
<1> QED BY <1>2, <1>3, <1>6, <1>8, <1>9, <1>10, GoStep

LEMMA CloseLoopStep == ASSUME CInv, NEW t \in Threads, CloseLoop(t) PROVE CInv' /\ Keeps
<1>1. UNCHANGED <<mode, isClosing, readerTerm, events, eventsClosed, rebalanceCb, appReassigned, wanted, told, ev,
                  evcnt, expired, todo, assigned, wait, failed, rkq, subscribed, terminating, closed, destroyed, fatal>>
  BY DEF CloseLoop, chan, cbs, app, group, rk
<1>2. ConfTypes /\ GoTypes /\ CloseOrder /\ Where(t)
  BY Parts, Types
<1>3. pc[t] = "closing" /\ isClosing /\ terminating /\ t # Reader
  <2>1. "closing" \notin ReaderPcs
    BY DEF ReaderPcs, InPoll
  <2> QED BY <1>2, <2>1 DEF CloseLoop, Where
<1>4. /\ GoTypes' /\ \A u \in Threads : u # t => pc'[u] = pc[u] /\ caller'[u] = caller[u]
      /\ \/ pc'[t] = "destroy" /\ caller' = caller /\ isClosed' = TRUE
         \/ pc'[t] = "poll" /\ caller'[t] = "close" /\ isClosed' = isClosed
  <2>1. CASE closed
    <3>1. Goto(t, "destroy") /\ caller' = caller /\ isClosed' = TRUE
      BY <2>1 DEF CloseLoop
    <3> QED BY <1>1, <3>1, CallTypes DEF AllPcs
  <2>2. CASE ~closed
    <3>1. Goto(t, "poll") /\ caller' = [caller EXCEPT ![t] = "close"] /\ isClosed' = isClosed
      BY <2>2 DEF CloseLoop
    <3>2. pc' \in [Threads -> AllPcs] /\ pc'[t] = "poll" /\ \A u \in Threads : u # t => pc'[u] = pc[u]
      BY <3>1, PcIs DEF AllPcs
    <3>3. /\ caller' \in [Threads -> {Nil, "poll", "read", "close"}] /\ caller'[t] = "close"
          /\ \A u \in Threads : u # t => caller'[u] = caller[u]
      BY <1>2, <3>1, SMT DEF GoTypes
    <3> QED BY <1>1, <1>2, <3>1, <3>2, <3>3 DEF GoTypes
  <2> QED BY <2>1, <2>2
<1>5. pc'[Reader] = pc[Reader]
  BY <1>3, <1>4, Names
<1>6. Grows /\ ConfTypes' /\ pc[t] \notin Handling /\ pc'[t] \notin Handling /\ pc[t] # "setCb"
  <2>0. isClosed \in BOOLEAN
    BY <1>2 DEF ConfTypes
  <2>1. isClosed' \in BOOLEAN /\ (isClosed => isClosed') /\ pc'[t] \in {"destroy", "poll"}
    <3>1. CASE isClosed' = TRUE /\ pc'[t] = "destroy"
      BY <3>1
    <3>2. CASE isClosed' = isClosed /\ pc'[t] = "poll"
      BY <2>0, <3>2
    <3> QED BY <1>4, <3>1, <3>2
  <2>2. Grows
    BY <1>1, <2>1 DEF Grows
  <2>3. ConfTypes'
    BY <1>1, <1>2, <2>1 DEF ConfTypes
  <2>4. pc[t] \notin Handling /\ pc'[t] \notin Handling /\ pc[t] # "setCb"
    BY <1>3, <2>1 DEF Handling
  <2> QED BY <2>2, <2>3, <2>4
<1>7. CloseOrder'
  <2>1. isClosed' => terminating'
    BY <1>1, <1>3
  <2>2. destroyed' => isClosed'
    BY <1>1, <1>2, <1>6 DEF CloseOrder, Grows
  <2>3. /\ readerTerm' => isClosing'
        /\ eventsClosed' => terminating'
        /\ terminating' => isClosing' /\ pc'[Reader] = "done"
        /\ EventsChanEnable' \/ pc'[Reader] = "done"
    BY <1>1, <1>2, <1>5 DEF CloseOrder, EventsChanEnable
  <2> QED BY <2>1, <2>2, <2>3 DEF CloseOrder
<1>8. Where(t)'
  <2>1. CASE pc'[t] = "destroy" /\ isClosed' = TRUE
    BY <1>3, <2>1, Pcs DEF Where
  <2>2. CASE pc'[t] = "poll" /\ caller'[t] = "close"
    BY <1>1, <1>3, <2>2 DEF Where, CallerPcs, InPoll
  <2> QED BY <1>4, <2>1, <2>2
<1>9. Quiesce /\ Quiet => Quiet'
  <2> SUFFICES ASSUME Quiet PROVE \E c \in Callers : Closes(c)'
    BY DEF Quiet
  <2>1. PICK c \in Callers : Closes(c)
    BY <1>3 DEF Quiet
  <2>2. c = t /\ \A u \in Callers : u \in Threads
    BY <1>3, <2>1, Names DEF Closes
  <2>3. ~isClosed /\ ~destroyed
    BY <1>3, <2>1, <2>2 DEF Closes
  <2>4. ~destroyed' /\ \A u \in Callers : u # t => pc'[u] = "idle"
    BY <1>1, <1>4, <2>1, <2>2, <2>3 DEF Closes
  <2>5. Closes(t)'
    <3>1. CASE pc'[t] = "destroy"
      BY <2>4, <3>1 DEF Closes
    <3>2. CASE pc'[t] = "poll" /\ caller'[t] = "close" /\ isClosed' = isClosed
      BY <2>3, <2>4, <3>2 DEF Closes, InPoll
    <3> QED BY <1>4, <3>1, <3>2
  <2> QED BY <2>1, <2>2, <2>5
<1> QED BY <1>1, <1>4, <1>6, <1>7, <1>8, <1>9, GoStep

LEMMA CloseDestroyStep == ASSUME CInv, NEW t \in Threads, CloseDestroy(t) PROVE CInv' /\ Keeps
<1>1. pc[t] = "destroy" /\ Goto(t, "done") /\ destroyed' = TRUE
  BY DEF CloseDestroy
<1>2. UNCHANGED <<mode, isClosed, isClosing, readerTerm, events, eventsClosed, rebalanceCb, appReassigned, wanted, told,
                  caller, ev, evcnt, expired, todo, assigned, wait, failed, rkq, subscribed, terminating, closed, fatal>>
  BY DEF CloseDestroy, conf, chan, cbs, app, group
<1>3. GoTypes' /\ pc'[t] = "done" /\ \A u \in Threads : u # t => pc'[u] = pc[u] /\ caller'[u] = caller[u]
  BY <1>1, <1>2, CallTypes DEF AllPcs
<1>4. ConfTypes /\ CloseOrder /\ Where(t)
  BY Parts, Types
<1>5. t # Reader /\ pc'[Reader] = pc[Reader] /\ isClosed
  <2>1. "destroy" \notin ReaderPcs
    BY DEF ReaderPcs, InPoll
  <2> QED BY <1>1, <1>3, <1>4, <2>1, Names DEF Where
<1>6. Grows /\ ConfTypes' /\ pc[t] \notin Handling /\ pc'[t] \notin Handling /\ pc[t] # "setCb"
  BY <1>1, <1>2, <1>3, <1>4 DEF Grows, ConfTypes, Handling
<1>7. CloseOrder'
  BY <1>1, <1>2, <1>4, <1>5 DEF CloseOrder, EventsChanEnable
<1>8. Where(t)'
  BY <1>1, <1>3, <1>5, Pcs DEF Where
<1>9. Quiesce /\ Quiet => Quiet'
  <2> SUFFICES ASSUME Quiet, isClosing PROVE \E c \in Callers : Closes(c)'
    BY <1>2 DEF Quiet
  <2>1. PICK c \in Callers : Closes(c)
    BY DEF Quiet
  <2>2. c = t /\ \A u \in Callers : u \in Threads
    BY <1>1, <1>5, <2>1, Names DEF Closes
  <2>3. \A u \in Callers : u # t => pc'[u] = "idle"
    BY <1>3, <2>1, <2>2 DEF Closes
  <2>4. Closes(t)'
    BY <1>3, <2>3 DEF Closes
  <2> QED BY <2>1, <2>2, <2>4
<1> QED BY <1>2, <1>3, <1>6, <1>7, <1>8, <1>9, GoStep

-----------------------------------------------------------------------------
(* eventPoll() and handleRebalanceEvent().                                 *)

Moving == InPoll \cup {"send"}

\* Only the reader sends, and where it polls no other goroutine does.
LEMMA OnePoller ==
  ASSUME CInv, Single, NEW t \in Threads, NEW u \in Threads, pc[t] \in Moving, pc[u] \in Moving
  PROVE  t = u
<1>1. "done" \notin Moving /\ "send" \notin CallerPcs
  BY DEF Moving, CallerPcs, InPoll
<1>2. ASSUME NEW v \in Threads, pc[v] \in Moving, v # Reader PROVE pc[Reader] = "done"
  <2>1. Where(v) /\ CloseOrder
    BY Parts
  <2>2. pc[v] \in InPoll
    BY <1>1, <1>2, <2>1 DEF Where, Moving
  <2> QED BY <1>2, <2>1, <2>2 DEF Where, CloseOrder
<1>3. (t = Reader => u = Reader) /\ (u = Reader => t = Reader)
  BY <1>1, <1>2
<1> QED BY <1>3, Names DEF Single

\* How a step of a goroutine that polls keeps CInv and Quiet.
LEMMA StepInv ==
  ASSUME CInv, NEW t \in Threads, pc[t] \in Moving,
         \A u \in Threads : u # t => Stays(u),
         UNCHANGED <<mode, isClosed, isClosing, readerTerm, eventsClosed, subscribed, terminating, closed, destroyed, fatal>>,
         failed' \in BOOLEAN, failed => failed', CbTypes', SeqTypes', GoTypes', GroupTypes',
         Forwarded', Asked', Where(t)', Has(t)', t # Reader /\ Closing(t) => Closing(t)'
  PROVE  CInv' /\ Grows /\ (Quiet => Quiet')
<1>1. Grows
  BY DEF Grows
<1>2. ConfTypes /\ mode \in Modes /\ CloseOrder
  BY Parts, Types
<1>3. ConfTypes' /\ mode' \in Modes
  BY <1>2 DEF ConfTypes
<1>4. TypeOK'
  BY <1>3, TypesNext
<1>5. pc[t] \notin {"destroy", "done"} /\ pc[t] # "idle"
  BY DEF Moving, InPoll
<1>6. pc[Reader] = "done" => pc'[Reader] = "done"
  BY <1>5, Names DEF Stays
<1>7. CloseOrder'
  BY <1>2, <1>6 DEF CloseOrder, EventsChanEnable
<1>8. \A u \in Threads : u # t => Where(u)' /\ Has(u)'
  BY <1>1, StaysWhere
<1>9. CInv'
  BY <1>3, <1>4, <1>7, <1>8 DEF CInv
<1>10. Quiet => Quiet'
  BY <1>5, Names, QuietStep DEF Stays
<1> QED BY <1>1, <1>9, <1>10

\* Where eventPoll() returns to.
LEMMA Returns ==
  ASSUME CInv, NEW t \in Threads, pc[t] \in Moving, NEW e \in Event \cup {Nil}, Return(t, e)
  PROVE  /\ GoTypes' /\ ev'[t] = Nil /\ \A u \in Threads : u # t => Stays(u)
         /\ t = Reader => pc'[t] \in {"poll", "loop"}
         /\ t # Reader /\ caller[t] = "close" => pc'[t] = "closing" /\ caller'[t] = "close"
         /\ t # Reader /\ caller[t] \in {"poll", "read"} =>
              pc'[t] = "idle" \/ (pc'[t] = "poll" /\ caller'[t] = caller[t])
         /\ t # Reader => caller[t] \in {"close", "poll", "read"} /\ pc[t] \in InPoll
<1>1. GoTypes /\ Where(t)
  BY Parts, Types
<1>2. t # Reader => caller[t] \in {"close", "poll", "read"} /\ pc[t] \in InPoll
  <2>1. "send" \notin CallerPcs
    BY DEF CallerPcs, InPoll
  <2> QED BY <1>1, <2>1 DEF Where, Moving
<1> PICK l : l = After(t, e)
  OBVIOUS
<1>3. /\ t = Reader => l \in {"poll", "loop"}
      /\ t # Reader /\ caller[t] = "close" => l = "closing"
      /\ t # Reader /\ caller[t] \in {"poll", "read"} => l \in {"idle", "poll"}
  BY DEF After
<1>4. l \in AllPcs
  BY <1>2, <1>3 DEF AllPcs
<1>5. /\ Goto(t, l) /\ ev' = [ev EXCEPT ![t] = Nil]
      /\ caller' = [caller EXCEPT ![t] = IF l = "idle" THEN Nil ELSE @]
      /\ expired' = [expired EXCEPT ![t] = IF l = "idle" THEN FALSE ELSE @]
      /\ evcnt' = IF t # Reader THEN evcnt ELSE IF l = "poll" THEN evcnt + 1 ELSE 0
  BY DEF Return
<1>6. pc' \in [Threads -> AllPcs] /\ pc'[t] = l /\ \A u \in Threads : u # t => pc'[u] = pc[u]
  BY <1>4, <1>5, PcIs
<1>7. /\ ev' \in [Threads -> Event \cup {Nil}] /\ ev'[t] = Nil /\ \A u \in Threads : u # t => ev'[u] = ev[u]
  BY <1>1, <1>5 DEF GoTypes
<1>8. /\ caller' \in [Threads -> {Nil, "poll", "read", "close"}]
      /\ caller'[t] = IF l = "idle" THEN Nil ELSE caller[t]
      /\ \A u \in Threads : u # t => caller'[u] = caller[u]
  BY <1>1, <1>5, SMT DEF GoTypes
<1>9. expired' \in [Threads -> BOOLEAN]
  <2>1. expired \in [Threads -> BOOLEAN] /\ FALSE \in BOOLEAN
    BY <1>1 DEF GoTypes
  <2>2. expired' = [expired EXCEPT ![t] = IF l = "idle" THEN FALSE ELSE expired[t]]
    BY <1>5
  <2> QED BY <2>1, <2>2
<1>10. evcnt' \in 0 .. MaxEvents - 1
  <2>1. t = Reader /\ l = "poll" => evcnt + 1 < MaxEvents
    BY DEF After
  <2> QED BY <1>1, <1>5, <2>1, ConsumerConstants, SMT DEF GoTypes
<1>11. GoTypes' /\ \A u \in Threads : u # t => Stays(u)
  BY <1>6, <1>7, <1>8, <1>9, <1>10 DEF GoTypes, Stays
<1>12. t # Reader /\ caller[t] = "close" => pc'[t] = "closing" /\ caller'[t] = "close"
  BY <1>3, <1>6, <1>8
<1>13. t # Reader /\ caller[t] \in {"poll", "read"} => pc'[t] = "idle" \/ (pc'[t] = "poll" /\ caller'[t] = caller[t])
  BY <1>3, <1>6, <1>8
<1> QED BY <1>2, <1>3, <1>6, <1>7, <1>11, <1>12, <1>13

LEMMA ReturnsWhere ==
  ASSUME CInv, Grows, NEW t \in Threads, pc[t] \in Moving, NEW e \in Event \cup {Nil}, Return(t, e)
  PROVE  /\ Where(t)' /\ Has(t)' /\ (t # Reader /\ Closing(t) => Closing(t)') /\ ~Holds(t)'
         /\ pc'[t] \notin Handling /\ pc'[t] # "setCb"
<1> USE Returns
<1>1. Where(t) /\ pc'[t] \in {"poll", "loop", "closing", "idle"}
  BY Parts
<1>2. pc'[t] \notin Handling /\ pc'[t] # "setCb" /\ pc'[t] \notin {"join", "destroy", "done"}
  BY <1>1 DEF Handling
<1>3. Has(t)' /\ ~Holds(t)'
  BY <1>2, NotHandling DEF Has, Holds
<1>4. Where(t)'
  <2>1. CASE t = Reader
    BY <1>2, <2>1, NotHandling DEF Where, ReaderPcs, InPoll
  <2>2. CASE t # Reader /\ caller[t] = "close"
    <3>1. pc'[t] = "closing" /\ isClosing' /\ terminating'
      BY <1>1, <2>2 DEF Where, Grows
    <3> QED BY <2>2, <3>1, Pcs DEF Where
  <2>3. CASE t # Reader /\ caller[t] \in {"poll", "read"}
    <3>1. ~EventsChanEnable
      BY <1>1, <2>3 DEF Where
    <3>2. CASE pc'[t] = "idle"
      BY <2>3, <3>2, Pcs DEF Where
    <3>3. CASE pc'[t] = "poll" /\ caller'[t] = caller[t]
      BY <2>3, <3>1, <3>3 DEF Where, CallerPcs, InPoll, EventsChanEnable, Grows
    <3> QED BY <2>3, <3>2, <3>3
  <2> QED BY <2>1, <2>2, <2>3
<1>5. t # Reader /\ Closing(t) => Closing(t)'
  <2>1. pc[t] \notin {"join", "closing"}
    BY DEF Moving, InPoll
  <2> QED BY <2>1 DEF Closing
<1> QED BY <1>2, <1>3, <1>4, <1>5

LEMMA PollEventStep == ASSUME CInv, NEW t \in Threads, PollEvent(t) PROVE CInv' /\ Keeps
<1> PICK e : e = Head(rkq)
  OBVIOUS
<1>1. /\ pc[t] = "poll" /\ rkq # <<>> /\ rkq' = Tail(rkq) /\ told' = [told EXCEPT ![t] = FALSE]
      /\ UNCHANGED <<mode, isClosed, isClosing, readerTerm, events, eventsClosed, rebalanceCb, appReassigned, wanted, todo,
                     assigned, wait, failed, subscribed, terminating, closed, destroyed, fatal>>
  BY DEF PollEvent, conf, chan, app, group
<1>2. pc[t] \in Moving /\ ~Holds(t) /\ pc[t] # "setCb" /\ pc[t] \notin {"join", "closing"} /\ pc[t] \in InPoll
  BY <1>1 DEF Moving, InPoll, Holds
<1>3. ConfTypes /\ CbTypes /\ SeqTypes /\ GoTypes /\ GroupTypes /\ Forwarded /\ Asked /\ Where(t)
  BY Parts, Types
<1>4. Tail(rkq) \in Seq(Event) /\ e \in Event /\ Len(Tail(rkq)) <= MaxQueue + 1 /\ e # Nil
  <2>1. Tail(rkq) \in Seq(Event) /\ e \in Event /\ Len(Tail(rkq)) = Len(rkq) - 1 /\ Len(rkq) \in Nat
    BY <1>1, <1>3, TailFacts DEF SeqTypes
  <2>2. Len(Tail(rkq)) <= MaxQueue + 1
    BY <1>3, <2>1, ConsumerConstants, SMT DEF SeqTypes
  <2> QED BY <2>1, <2>2, NilIsNoEvent
<1>5. /\ \A x : On(rkq, x) => x = e \/ On(rkq', x)
      /\ NoReb(rkq) => NoReb(rkq') /\ ~IsRebalance(e)
      /\ \A x : Only(rkq, x) /\ IsRebalance(e) => NoReb(rkq') /\ (IsRebalance(x) => x = e)
      /\ \A x : Only(rkq, x) /\ ~IsRebalance(e) /\ IsRebalance(x) => Only(rkq', x)
  BY <1>1, <1>3, TailOn DEF SeqTypes
<1>6. Grows
  BY <1>1 DEF Grows
<1>7. /\ told' \in [Threads -> BOOLEAN] /\ ~told'[t] /\ \A u \in Threads : u # t => told'[u] = told[u]
  BY <1>1, <1>3 DEF CbTypes
<1>8. CbTypes' /\ SeqTypes' /\ GroupTypes' /\ Forwarded' /\ Asked' /\ failed' \in BOOLEAN
  BY <1>1, <1>3, <1>4, <1>7 DEF ConfTypes, CbTypes, SeqTypes, GroupTypes, Forwarded, Asked, AppRebalanceEnable, Cooperative
<1>9. /\ GoTypes' /\ Where(t)' /\ Has(t)' /\ (t # Reader /\ Closing(t) => Closing(t)') /\ \A u \in Threads : u # t => Stays(u)
      /\ pc'[t] \notin {"callback", "assign"} /\ pc'[t] # "setCb"
      /\ \/ (IsRebalance(e) \/ t = Reader) /\ ev'[t] = e /\ pc'[t] \in {"rebalance", "send"}
         \/ ~IsRebalance(e) /\ ~Holds(t)'
  <2>1. CASE IsRebalance(e) \/ t = Reader
    <3>1. PICK l \in {"rebalance", "send"} : Goto(t, l) /\ (IsRebalance(e) => l = "rebalance") /\ (~IsRebalance(e) => l = "send")
      BY <2>1 DEF PollEvent
    <3>2. ev' = [ev EXCEPT ![t] = e] /\ UNCHANGED <<caller, evcnt, expired>>
      BY <2>1 DEF PollEvent
    <3>3. pc' \in [Threads -> AllPcs] /\ pc'[t] = l /\ \A u \in Threads : u # t => pc'[u] = pc[u]
      BY <3>1, PcIs DEF AllPcs
    <3>4. ev' \in [Threads -> Event \cup {Nil}] /\ ev'[t] = e /\ \A u \in Threads : u # t => ev'[u] = ev[u]
      BY <1>3, <1>4, <3>2 DEF GoTypes
    <3>5. GoTypes' /\ \A u \in Threads : u # t => Stays(u)
      BY <1>3, <3>2, <3>3, <3>4 DEF GoTypes, Stays
    <3>6. Where(t)'
      <4>1. CASE l = "rebalance"
        BY <1>1, <1>2, <1>3, <3>2, <3>3, <4>1 DEF Where, ReaderPcs, CallerPcs, InPoll, EventsChanEnable
      <4>2. CASE l = "send"
        BY <2>1, <3>1, <3>3, <4>2 DEF Where, ReaderPcs, InPoll
      <4> QED BY <4>1, <4>2
    <3>7. Has(t)'
      BY <1>4, <3>1, <3>3, <3>4 DEF Has
    <3>8. Closing(t) /\ t # Reader => Closing(t)'
      <4>1. t # Reader => l = "rebalance"
        BY <2>1, <3>1
      <4> QED BY <1>2, <3>2, <3>3, <4>1 DEF Closing, InPoll
    <3> QED BY <2>1, <3>3, <3>4, <3>5, <3>6, <3>7, <3>8
  <2>2. CASE ~IsRebalance(e) /\ t # Reader
    <3>1. Return(t, e)
      BY <2>2 DEF PollEvent
    <3>2. e \in Event \cup {Nil}
      BY <1>4
    <3> QED BY <1>2, <1>6, <2>2, <3>1, <3>2, Returns, ReturnsWhere, NotHandling
  <2> QED BY <2>1, <2>2
<1>10. CInv' /\ (Quiet => Quiet')
  BY <1>1, <1>2, <1>8, <1>9, StepInv
<1>11. \A u \in Threads : u # t => (Holds(u)' <=> Holds(u)) /\ (HasReb(u)' <=> HasReb(u)) /\ ev'[u] = ev[u]
  BY <1>1, <1>9 DEF Stays, Holds, HasReb
<1>12. IsRebalance(e) => Holds(t)' /\ ev'[t] = e /\ HasReb(t)'
  BY <1>9 DEF Holds, HasReb
<1>13. ~IsRebalance(e) => ~HasReb(t)'
  BY <1>9 DEF HasReb
<1>14. NotLost => NotLost'
  <2> SUFFICES ASSUME NotLost, ~(AppRebalanceEnable /\ isClosing), wait # Nil, ~failed PROVE NotLost'
    BY <1>1 DEF NotLost, AppRebalanceEnable
  <2>1. IsRebalance(wait)
    BY <1>3 DEF Asked
  <2>2. CASE On(rkq, wait)
    BY <1>1, <1>5, <1>12, <2>1, <2>2 DEF NotLost
  <2>3. CASE On(events, wait) \/ todo = wait
    BY <1>1, <2>3 DEF NotLost
  <2>4. ASSUME NEW u \in Threads, Holds(u), ev[u] = wait PROVE NotLost'
    BY <1>1, <1>2, <1>11, <2>4 DEF NotLost
  <2> QED BY <2>2, <2>3, <2>4 DEF NotLost
<1>15. Sole => Sole'
  <2> SUFFICES ASSUME InOnePlace PROVE InOnePlace'
    BY <1>1 DEF Sole, Faithful
  <2>1. ~HasReb(t)
    BY <1>2 DEF HasReb
  <2>2. wait # Nil => IsRebalance(wait)
    BY <1>3 DEF Asked
  <2>3. CASE IsRebalance(e)
    <3>1. wait # Nil /\ Only(rkq, wait) /\ NoHands /\ NoReb(events) /\ todo = Nil
      BY <1>5, <2>3 DEF InOnePlace
    <3>2. NoReb(rkq') /\ wait = e
      BY <1>5, <2>2, <2>3, <3>1
    <3>3. OneHand'
      BY <1>1, <1>11, <1>12, <2>3, <3>1, <3>2 DEF OneHand, NoHands
    <3> QED BY <1>1, <3>1, <3>2, <3>3 DEF InOnePlace
  <2>4. CASE ~IsRebalance(e)
    <3>1. NoHands => NoHands'
      BY <1>11, <1>13, <2>4 DEF NoHands
    <3>2. OneHand => OneHand'
      BY <1>1, <1>11, <1>13, <2>1, <2>4 DEF OneHand
    <3>3. (NoReb(rkq) => NoReb(rkq')) /\ (wait # Nil /\ Only(rkq, wait) => Only(rkq', wait))
      BY <1>5, <2>2, <2>4
    <3> QED BY <1>1, <3>1, <3>2, <3>3 DEF InOnePlace
  <2> QED BY <2>3, <2>4
<1>16. CallbackSet => CallbackSet'
  <2>1. \A u \in Threads : /\ pc[u] = "setCb" => pc'[u] = "setCb"
                           /\ pc'[u] = "callback" => pc[u] = "callback" /\ told'[u] = told[u]
                           /\ pc'[u] = "assign" => told'[u] = told[u] /\ (pc[u] = "assign" \/ pc[u] = "callback")
    BY <1>2, <1>7, <1>9 DEF Stays
  <2> QED BY <1>1, <1>6, <2>1, CallbackFrame
<1> QED BY <1>10, <1>14, <1>15, <1>16 DEF Keeps

\* A goroutine that returns with nothing that librdkafka waits for in its hand.
LEMMA ReturnStep ==
  ASSUME CInv, NEW t \in Threads, pc[t] \in Moving, ~Holds(t), Return(t, Nil),
         UNCHANGED <<conf, chan, cbs, app, group, rk>>
  PROVE  CInv' /\ Keeps
<1>1. UNCHANGED <<mode, isClosed, isClosing, readerTerm, events, eventsClosed, rebalanceCb, appReassigned, wanted, told,
                  todo, assigned, wait, failed, rkq, subscribed, terminating, closed, destroyed, fatal>>
  BY DEF conf, chan, cbs, app, group, rk
<1>2. ConfTypes /\ CbTypes /\ SeqTypes /\ GroupTypes /\ Forwarded /\ Asked
  BY Parts, Types
<1>3. CbTypes' /\ SeqTypes' /\ GroupTypes' /\ Forwarded' /\ Asked' /\ failed' \in BOOLEAN /\ Grows
  <2>1. CbTypes' /\ SeqTypes' /\ GroupTypes'
    BY <1>1, <1>2 DEF CbTypes, SeqTypes, GroupTypes
  <2>2. Forwarded' /\ Asked'
    BY <1>1, <1>2 DEF Forwarded, Asked, AppRebalanceEnable, Cooperative
  <2>3. failed' \in BOOLEAN /\ Grows
    BY <1>1, <1>2 DEF ConfTypes, Grows
  <2> QED BY <2>1, <2>2, <2>3
<1>4. GoTypes' /\ \A u \in Threads : u # t => Stays(u)
  BY Returns
<1>5. /\ Where(t)' /\ Has(t)' /\ (t # Reader /\ Closing(t) => Closing(t)') /\ ~Holds(t)'
      /\ pc'[t] # "callback" /\ pc'[t] # "assign" /\ pc[t] # "setCb"
  <2>1. pc[t] # "setCb"
    BY DEF Moving, InPoll
  <2> QED BY <1>3, <2>1, ReturnsWhere, NotHandling
<1>6. CInv' /\ (Quiet => Quiet')
  BY <1>1, <1>3, <1>4, <1>5, StepInv
<1>7. \A u \in Threads : (Holds(u)' <=> Holds(u)) /\ (Holds(u) => ev'[u] = ev[u])
  <2>1. \A u \in Threads : u # t => (Holds(u)' <=> Holds(u)) /\ ev'[u] = ev[u]
    BY <1>1, <1>4 DEF Holds, Stays
  <2> QED BY <1>5, <2>1
<1>8. NotLost => NotLost'
  BY <1>1, <1>3, <1>7, NotLostFrame
<1>9. Sole => Sole'
  <2>1. \A u \in Threads : HasReb(u)' => HasReb(u) /\ ev'[u] = ev[u]
    BY <1>7 DEF HasReb
  <2> QED BY <1>1, <1>3, <2>1, SoleFrame
<1>10. CallbackSet => CallbackSet'
  <2>1. \A u \in Threads : /\ pc[u] = "setCb" => pc'[u] = "setCb"
                           /\ pc'[u] = "callback" => pc[u] = "callback" /\ told'[u] = told[u]
                           /\ pc'[u] = "assign" => told'[u] = told[u] /\ (pc[u] = "assign" \/ pc[u] = "callback")
    BY <1>1, <1>4, <1>5 DEF Stays
  <2> QED BY <1>1, <1>3, <2>1, CallbackFrame
<1> QED BY <1>6, <1>8, <1>9, <1>10 DEF Keeps

LEMMA PollNoneStep == ASSUME CInv, NEW t \in Threads, PollNone(t) PROVE CInv' /\ Keeps
<1>1. pc[t] = "poll" /\ UNCHANGED <<conf, chan, cbs, app, group, rk>>
  BY DEF PollNone
<1>2. pc[t] \in Moving /\ ~Holds(t) /\ pc[t] \notin Handling /\ pc[t] # "setCb" /\ pc[t] \notin {"destroy", "done"}
  BY <1>1 DEF Moving, InPoll, Holds, Handling
<1>3. CASE t # Reader
  <2>1. Return(t, Nil)
    BY <1>3 DEF PollNone
  <2> QED BY <1>1, <1>2, <2>1, ReturnStep
<1>4. CASE t = Reader
  <2>1. Goto(t, "loop") /\ evcnt' = 0 /\ UNCHANGED <<caller, ev, expired>>
    BY <1>4 DEF PollNone
  <2>2. UNCHANGED <<mode, isClosed, isClosing, readerTerm, events, eventsClosed, rebalanceCb, appReassigned, wanted, told,
                    todo, assigned, wait, failed, rkq, subscribed, terminating, closed, destroyed, fatal>>
    BY <1>1 DEF conf, chan, cbs, app, group, rk
  <2>3. ConfTypes /\ GoTypes /\ CloseOrder
    BY Parts, Types
  <2>4. pc' \in [Threads -> AllPcs] /\ pc'[t] = "loop" /\ \A u \in Threads : u # t => pc'[u] = pc[u]
    BY <2>1, PcIs DEF AllPcs
  <2>5. evcnt' \in 0 .. MaxEvents - 1
    BY <2>1, ConsumerConstants, SMT
  <2>6a. GoTypes'
    BY <2>1, <2>3, <2>4, <2>5 DEF GoTypes
  <2>6b. ConfTypes'
    BY <2>2, <2>3 DEF ConfTypes
  <2>6c. Grows
    BY <2>2 DEF Grows
  <2>6. GoTypes' /\ ConfTypes' /\ Grows /\ pc'[t] \notin Handling
    BY <2>4, <2>6a, <2>6b, <2>6c DEF Handling
  <2>7. CloseOrder'
    BY <1>1, <1>4, <2>2, <2>3 DEF CloseOrder, EventsChanEnable
  <2>8. Where(t)'
    BY <1>4, <2>4 DEF Where, ReaderPcs, InPoll
  <2>9. t \notin Callers
    BY <1>4, Names
  <2>10. Quiet => Quiet'
    BY <1>2, <2>1, <2>2, <2>4, <2>9, QuietStep
  <2> QED BY <1>2, <2>1, <2>2, <2>4, <2>6, <2>7, <2>8, <2>10, GoStep
<1> QED BY <1>3, <1>4

LEMMA SendStep == ASSUME CInv, NEW t \in Threads, Send(t) PROVE CInv' /\ Keeps
<1> PICK e : e = ev[t]
  OBVIOUS
<1>1. /\ pc[t] = "send" /\ Len(events) < ChanSize /\ events' = Append(events, e) /\ Return(t, e)
      /\ UNCHANGED <<mode, isClosed, isClosing, readerTerm, eventsClosed, rebalanceCb, appReassigned, wanted, told, todo,
                     assigned, wait, failed, rkq, subscribed, terminating, closed, destroyed, fatal>>
  BY DEF Send, conf, cbs, app, group, rk
<1>2. pc[t] \in Moving /\ Holds(t) /\ pc[t] # "setCb"
  BY <1>1 DEF Moving, InPoll, Holds
<1>3. ConfTypes /\ CbTypes /\ SeqTypes /\ GoTypes /\ GroupTypes /\ Forwarded /\ Asked /\ Has(t)
  BY Parts, Types
<1>4. e \in Event /\ e \in Event \cup {Nil} /\ (IsRebalance(e) => AppRebalanceEnable)
  BY <1>1, <1>3 DEF GoTypes, Has
<1>5. /\ events' \in Seq(Event) /\ Len(events') = Len(events) + 1 /\ Len(events) \in Nat
      /\ events'[Len(events) + 1] = e
      /\ \A i \in 1 .. Len(events) : events'[i] = events[i]
      /\ \A i \in 1 .. Len(events') : i = Len(events) + 1 \/ i \in 1 .. Len(events)
  <2>0. events \in Seq(Event)
    BY <1>1, <1>3, <1>4 DEF SeqTypes
  <2>1. /\ Append(events, e) \in Seq(Event) /\ Len(Append(events, e)) = Len(events) + 1 /\ Len(events) \in Nat
        /\ Append(events, e)[Len(events) + 1] = e
        /\ \A i \in 1 .. Len(events) : Append(events, e)[i] = events[i]
        /\ \A i \in 1 .. Len(Append(events, e)) : i = Len(events) + 1 \/ i \in 1 .. Len(events)
    BY <1>4, <2>0, SMT
  <2> QED BY <1>1, <1>3, <1>4, <2>1
<1>6. Len(events') <= ChanSize
  BY <1>1, <1>5, ConsumerConstants, SMT
<1>7. /\ On(events', e) /\ \A x : On(events, x) => On(events', x)
      /\ NoReb(events) => Only(events', e)
      /\ NoReb(events) /\ ~IsRebalance(e) => NoReb(events')
      /\ \A x : Only(events, x) /\ ~IsRebalance(e) => Only(events', x)
  BY <1>1, <1>3, <1>4, AppendOn DEF SeqTypes
<1>8. CbTypes' /\ SeqTypes' /\ GroupTypes' /\ Asked' /\ failed' \in BOOLEAN /\ Grows
  <2>1. CbTypes' /\ GroupTypes'
    BY <1>1, <1>3 DEF CbTypes, GroupTypes
  <2>2. SeqTypes'
    BY <1>1, <1>3, <1>5, <1>6 DEF SeqTypes
  <2>3. Asked'
    BY <1>1, <1>3 DEF Asked, Cooperative
  <2>4. failed' \in BOOLEAN /\ Grows
    BY <1>1, <1>3 DEF ConfTypes, Grows
  <2> QED BY <2>1, <2>2, <2>3, <2>4
<1>9. Forwarded'
  BY <1>1, <1>3, <1>4, <1>5 DEF Forwarded, AppRebalanceEnable
<1>10. GoTypes' /\ \A u \in Threads : u # t => Stays(u)
  BY <1>1, <1>2, <1>4, Returns
<1>11. /\ Where(t)' /\ Has(t)' /\ (t # Reader /\ Closing(t) => Closing(t)') /\ ~Holds(t)'
       /\ pc'[t] # "callback" /\ pc'[t] # "assign"
  BY <1>1, <1>2, <1>4, <1>8, ReturnsWhere, NotHandling
<1>12. CInv' /\ (Quiet => Quiet')
  BY <1>1, <1>2, <1>8, <1>9, <1>10, <1>11, StepInv
<1>13. \A u \in Threads : u # t => (Holds(u)' <=> Holds(u)) /\ (HasReb(u)' <=> HasReb(u)) /\ ev'[u] = ev[u]
  BY <1>1, <1>10 DEF Stays, Holds, HasReb
<1>14. NotLost => NotLost'
  <2> SUFFICES ASSUME NotLost, ~(AppRebalanceEnable /\ isClosing), wait # Nil, ~failed PROVE NotLost'
    BY <1>1 DEF NotLost, AppRebalanceEnable
  <2>1. CASE On(rkq, wait) \/ todo = wait
    BY <1>1, <2>1 DEF NotLost
  <2>2. CASE On(events, wait)
    BY <1>1, <1>7, <2>2 DEF NotLost
  <2>3. ASSUME NEW u \in Threads, Holds(u), ev[u] = wait PROVE NotLost'
    <3>1. CASE u = t
      BY <1>1, <1>7, <2>3, <3>1 DEF NotLost
    <3>2. CASE u # t
      BY <1>1, <1>13, <2>3, <3>2 DEF NotLost
    <3> QED BY <3>1, <3>2
  <2> QED BY <2>1, <2>2, <2>3 DEF NotLost
<1>15. Sole => Sole'
  <2> SUFFICES ASSUME InOnePlace PROVE InOnePlace'
    BY <1>1 DEF Sole, Faithful
  <2>1. ~HasReb(t)' /\ (HasReb(t) <=> IsRebalance(e))
    BY <1>2, <1>11 DEF HasReb
  <2>2. CASE IsRebalance(e)
    <3>1. wait # Nil /\ NoReb(rkq) /\ OneHand /\ NoReb(events) /\ todo = Nil
      BY <2>1, <2>2 DEF InOnePlace, NoHands
    <3>2. wait = e /\ NoHands'
      BY <1>13, <2>1, <2>2, <3>1 DEF OneHand, NoHands
    <3> QED BY <1>1, <1>7, <3>1, <3>2 DEF InOnePlace
  <2>3. CASE ~IsRebalance(e)
    <3>1. NoHands => NoHands'
      BY <1>13, <2>1 DEF NoHands
    <3>2. OneHand => OneHand'
      BY <1>1, <1>13, <2>1, <2>3 DEF OneHand
    <3> QED BY <1>1, <1>7, <2>3, <3>1, <3>2 DEF InOnePlace
  <2> QED BY <2>2, <2>3
<1>16. CallbackSet => CallbackSet'
  <2>1. \A u \in Threads : /\ pc[u] = "setCb" => pc'[u] = "setCb"
                           /\ pc'[u] = "callback" => pc[u] = "callback" /\ told'[u] = told[u]
                           /\ pc'[u] = "assign" => told'[u] = told[u] /\ (pc[u] = "assign" \/ pc[u] = "callback")
    BY <1>1, <1>2, <1>10, <1>11 DEF Stays
  <2> QED BY <1>1, <1>8, <2>1, CallbackFrame
<1> QED BY <1>12, <1>14, <1>15, <1>16 DEF Keeps

LEMMA SendTerminatedStep == ASSUME CInv, NEW t \in Threads, SendTerminated(t) PROVE CInv' /\ Keeps
<1>1. /\ pc[t] = "send" /\ readerTerm /\ Goto(t, "done") /\ ev' = [ev EXCEPT ![t] = Nil]
      /\ UNCHANGED <<mode, isClosed, isClosing, readerTerm, events, eventsClosed, rebalanceCb, appReassigned, wanted, told,
                     caller, evcnt, expired, todo, assigned, wait, failed, rkq, subscribed, terminating, closed, destroyed,
                     fatal>>
  BY DEF SendTerminated, conf, chan, cbs, app, group, rk
<1>2. ConfTypes /\ CbTypes /\ SeqTypes /\ GoTypes /\ GroupTypes /\ Forwarded /\ Asked /\ CloseOrder /\ Where(t) /\ Has(t)
  BY Parts, Types
<1>3. pc' \in [Threads -> AllPcs] /\ pc'[t] = "done" /\ \A u \in Threads : u # t => pc'[u] = pc[u]
  BY <1>1, PcIs DEF AllPcs
<1>4. ev' \in [Threads -> Event \cup {Nil}] /\ ev'[t] = Nil /\ \A u \in Threads : u # t => ev'[u] = ev[u]
  BY <1>1, <1>2 DEF GoTypes
<1>5. GoTypes' /\ \A u \in Threads : u # t => Stays(u)
  BY <1>1, <1>2, <1>3, <1>4 DEF GoTypes, Stays
<1>6. CbTypes' /\ SeqTypes' /\ GroupTypes' /\ Forwarded' /\ Asked' /\ failed' \in BOOLEAN /\ Grows
  <2>1. CbTypes' /\ SeqTypes' /\ GroupTypes'
    BY <1>1, <1>2 DEF CbTypes, SeqTypes, GroupTypes
  <2>2. Forwarded' /\ Asked'
    BY <1>1, <1>2 DEF Forwarded, Asked, AppRebalanceEnable, Cooperative
  <2>3. failed' \in BOOLEAN /\ Grows
    BY <1>1, <1>2 DEF ConfTypes, Grows
  <2> QED BY <2>1, <2>2, <2>3
<1>7. t = Reader
  <2>1. "send" \notin CallerPcs
    BY DEF CallerPcs, InPoll
  <2> QED BY <1>1, <1>2, <2>1 DEF Where
<1>8. Where(t)' /\ Has(t)' /\ ~Holds(t)' /\ pc[t] \in Moving
  BY <1>1, <1>3, <1>7 DEF Where, Has, ReaderPcs, InPoll, Holds, Moving
<1>9. CInv' /\ (Quiet => Quiet')
  BY <1>1, <1>5, <1>6, <1>7, <1>8, StepInv
<1>10. \A u \in Threads : u # t => (Holds(u)' <=> Holds(u)) /\ ev'[u] = ev[u]
  BY <1>1, <1>5 DEF Stays, Holds
<1>11. NotLost => NotLost'
  <2> SUFFICES ASSUME NotLost, ~(AppRebalanceEnable /\ isClosing), wait # Nil, ~failed PROVE NotLost'
    BY <1>1 DEF NotLost, AppRebalanceEnable
  <2>1. ev[t] # wait
    BY <1>1, <1>2 DEF Has, Asked, CloseOrder
  <2> QED BY <1>1, <1>10, <2>1 DEF NotLost
<1>12. Sole => Sole'
  <2>1. \A u \in Threads : HasReb(u)' => HasReb(u) /\ ev'[u] = ev[u]
    BY <1>8, <1>10 DEF HasReb
  <2> QED BY <1>1, <1>6, <2>1, SoleFrame
<1>13. CallbackSet => CallbackSet'
  <2>1. \A u \in Threads : /\ pc[u] = "setCb" => pc'[u] = "setCb"
                           /\ pc'[u] = "callback" => pc[u] = "callback" /\ told'[u] = told[u]
                           /\ pc'[u] = "assign" => told'[u] = told[u] /\ (pc[u] = "assign" \/ pc[u] = "callback")
    BY <1>1, <1>3
  <2> QED BY <1>1, <1>6, <2>1, CallbackFrame
<1> QED BY <1>9, <1>11, <1>12, <1>13 DEF Keeps

LEMMA HandleRebalanceStep == ASSUME CInv, NEW t \in Threads, HandleRebalance(t) PROVE CInv' /\ Keeps
<1>1. /\ pc[t] = "rebalance"
      /\ UNCHANGED <<mode, isClosed, isClosing, readerTerm, events, eventsClosed, rebalanceCb, wanted, caller, ev, evcnt,
                     expired, todo, assigned, wait, failed, rkq, subscribed, terminating, closed, destroyed, fatal>>
  BY DEF HandleRebalance, conf, chan, app, group, rk
<1>2. ConfTypes /\ CbTypes /\ SeqTypes /\ GoTypes /\ GroupTypes /\ Forwarded /\ Asked /\ CloseOrder /\ Where(t) /\ Has(t)
  BY Parts, Types
<1>3. PICK l \in {"send", "callback", "assign"} :
        /\ Goto(t, l) /\ (l = "send" => t = Reader /\ AppRebalanceEnable)
        /\ l = "callback" => ~appReassigned' /\ told' = [told EXCEPT ![t] = TRUE] /\ appReassigned' \in BOOLEAN
        /\ l = "assign" => ~rebalanceCb
        /\ l # "callback" => UNCHANGED <<appReassigned, told>>
  BY DEF HandleRebalance
<1>4. pc' \in [Threads -> AllPcs] /\ pc'[t] = l /\ \A u \in Threads : u # t => pc'[u] = pc[u]
  BY <1>3, PcIs DEF AllPcs
<1>5. /\ told' \in [Threads -> BOOLEAN] /\ (l = "callback" => told'[t]) /\ appReassigned' \in BOOLEAN
      /\ \A u \in Threads : u # t => told'[u] = told[u]
  BY <1>2, <1>3 DEF CbTypes
<1>6. GoTypes' /\ \A u \in Threads : u # t => Stays(u)
  BY <1>1, <1>2, <1>4 DEF GoTypes, Stays
<1>7. CbTypes' /\ SeqTypes' /\ GroupTypes' /\ Forwarded' /\ Asked' /\ failed' \in BOOLEAN /\ Grows
  <2>1. CbTypes' /\ SeqTypes' /\ GroupTypes'
    BY <1>1, <1>2, <1>5 DEF CbTypes, SeqTypes, GroupTypes
  <2>2. Forwarded' /\ Asked'
    BY <1>1, <1>2, <1>5 DEF Forwarded, Asked, AppRebalanceEnable, Cooperative
  <2>3. failed' \in BOOLEAN /\ Grows
    BY <1>1, <1>2, <1>5 DEF ConfTypes, Grows
  <2> QED BY <2>1, <2>2, <2>3
<1>8. Where(t)'
  <2>1. CASE l = "send"
    BY <1>3, <1>4, <2>1 DEF Where, ReaderPcs, InPoll
  <2>2. CASE l \in {"callback", "assign"}
    <3>1. pc[t] \in InPoll /\ l \in InPoll /\ l \in CallerPcs /\ l \in ReaderPcs
      BY <1>1, <2>2 DEF InPoll, CallerPcs, ReaderPcs
    <3>2. /\ l # "join" /\ l # "closing" /\ l # "destroy" /\ l # "done" /\ l \notin {"forward", "panic"}
      BY <2>2
    <3> QED BY <1>1, <1>2, <1>4, <3>1, <3>2 DEF Where, EventsChanEnable
  <2> QED BY <2>1, <2>2
<1>9. IsRebalance(ev[t]) /\ Has(t)' /\ Holds(t) /\ Holds(t)' /\ pc[t] \in Moving /\ pc'[t] \in Moving
  <2>1. IsRebalance(ev[t]) /\ ev[t] # Nil
    BY <1>1, <1>2 DEF Has, IsRebalance
  <2>2. Has(t)'
    BY <1>1, <1>3, <1>4, <2>1 DEF Has, AppRebalanceEnable
  <2>3. Holds(t)'
    BY <1>3, <1>4 DEF Holds
  <2>4. Holds(t) /\ pc[t] \in Moving /\ pc'[t] \in Moving
    BY <1>1, <1>4 DEF Holds, Moving, InPoll
  <2> QED BY <2>1, <2>2, <2>3, <2>4
<1>10. t # Reader /\ Closing(t) => Closing(t)'
  BY <1>1, <1>3, <1>4 DEF Closing, InPoll
<1>11. CInv' /\ (Quiet => Quiet')
  BY <1>1, <1>6, <1>7, <1>8, <1>9, <1>10, StepInv
<1>12. \A u \in Threads : Holds(u) => Holds(u)' /\ ev'[u] = ev[u]
  <2>1. appReassigned' => appReassigned
    BY <1>3
  <2>2. \A u \in Threads : u # t => (Holds(u) => Holds(u)')
    BY <1>4, <2>1 DEF Holds
  <2> QED BY <1>1, <1>9, <2>2
<1>13. NotLost => NotLost'
  BY <1>1, <1>7, <1>12, NotLostFrame
<1>14. ASSUME Single PROVE \A u \in Threads : u # t => pc[u] \notin Moving
  BY <1>9, <1>14, OnePoller
<1>15. Single /\ Sole => Sole'
  <2> SUFFICES ASSUME Single, Sole PROVE Sole'
    OBVIOUS
  <2>1. \A u \in Threads : Holds(u)' => pc'[u] \in Moving
    BY DEF Holds, Moving, InPoll
  <2>2. \A u \in Threads : Holds(u)' => u = t
    BY <1>4, <1>14, <2>1
  <2>3. \A u \in Threads : HasReb(u)' => HasReb(u) /\ ev'[u] = ev[u]
    BY <1>1, <1>9, <2>2 DEF HasReb
  <2> QED BY <1>1, <1>7, <2>3, SoleFrame
<1>16. Single /\ CallbackSet => CallbackSet'
  <2> SUFFICES ASSUME Single, CallbackSet, ~EventsChanEnable PROVE CallbackSet'
    BY <1>1 DEF CallbackSet, EventsChanEnable
  <2>1. \A u \in Threads : u # t => pc'[u] \notin Moving
    BY <1>4, <1>14
  <2>2. \A u \in Threads : pc'[u] \in {"callback", "assign"} => u = t
    BY <2>1 DEF Moving, InPoll
  <2>3. t # Reader
    BY <1>1, <1>2 DEF CloseOrder
  <2>4. \A u \in Callers : pc[u] # "setCb"
    BY <1>1, <2>3, Names DEF Single
  <2>5. wanted => rebalanceCb
    BY <2>4 DEF CallbackSet
  <2>6. l = "assign" => ~wanted
    BY <1>3, <2>5
  <2>7. \A u \in Threads : pc'[u] = "callback" => told'[u]
    BY <1>4, <1>5, <2>2
  <2>8. \A u \in Threads : pc'[u] = "assign" => ~wanted
    BY <1>4, <2>2, <2>6
  <2> QED BY <1>1, <2>5, <2>7, <2>8 DEF CallbackSet
<1> QED BY <1>11, <1>13, <1>15, <1>16 DEF Keeps

-----------------------------------------------------------------------------
(* The *assign() calls.                                                    *)

LEMMA CallFacts ==
  ASSUME CInv, NEW call \in Calls, NEW ps \in SUBSET Partitions, CallOk(call, ps) \/ CallFails(call)
  PROVE  /\ assigned' \subseteq Partitions /\ wait' \in {wait, Nil} /\ (wait' # Nil => assigned' = assigned)
         /\ failed' \in BOOLEAN /\ (failed => failed') /\ (wait' = Nil \/ failed')
         /\ ~failed' => CallOk(call, ps)
<1>1. assigned \subseteq Partitions /\ failed \in BOOLEAN
  BY Parts, Types DEF GroupTypes, ConfTypes
<1>2. CASE CallOk(call, ps)
  <2>1. Requested(call, ps) \subseteq Partitions
    BY <1>1, SMT DEF Requested, Calls
  <2> QED BY <1>1, <1>2, <2>1 DEF CallOk
<1>3. CASE CallFails(call)
  BY <1>1, <1>3 DEF CallFails
<1> QED BY <1>2, <1>3

LEMMA AnswerFacts ==
  ASSUME NEW e \in Event, IsRebalance(e), Topics \subseteq Partitions
  PROVE  /\ Answer(e) \in Calls /\ e.parts \in SUBSET Partitions
         /\ \A c \in Choices(e) : /\ c[1] \in Calls /\ c[2] \in SUBSET Partitions
                                  /\ Faithful => c[1] = Answer(e) /\ c[2] = e.parts
<1>1. e.type \in {"assign", "revoke"} /\ e.parts \in SUBSET Partitions
  BY SMT DEF Event, IsRebalance
<1>2. Answer(e) \in Calls
  BY <1>1, SMT DEF Answer, Calls
<1>3. ASSUME NEW c \in Choices(e)
      PROVE  c[1] \in Calls /\ c[2] \in SUBSET Partitions /\ (Faithful => c[1] = Answer(e) /\ c[2] = e.parts)
  <2>1. CASE Faithful
    <3>1. c = <<Answer(e), e.parts>>
      BY <1>3, <2>1 DEF Choices
    <3> QED BY <1>1, <1>2, <3>1, SMT
  <2>2. CASE ~Faithful
    <3>1. c \in Calls \X {{}, e.parts, Topics}
      BY <1>3, <2>2 DEF Choices
    <3> QED BY <1>1, <2>2, <3>1, SMT
  <2> QED BY <2>1, <2>2
<1> QED BY <1>1, <1>2, <1>3

\* The call that a faithful application makes leaves no rebalance event behind.
Answers == Single /\ Sole /\ Faithful /\ ~failed' => NoReb(rkq) /\ NoHands' /\ NoReb(events) /\ todo' = Nil

GroupOnly ==
  UNCHANGED <<mode, isClosed, isClosing, readerTerm, events, eventsClosed, rebalanceCb, wanted, told, pc, caller, ev,
              evcnt, expired, rkq, subscribed, terminating, closed, destroyed, fatal>>

\* The application makes a call, outside its callback or in it.
LEMMA AssignsStep ==
  ASSUME CInv, NEW call \in Calls, NEW ps \in SUBSET Partitions, AssignCall(call, ps), todo' \in {todo, Nil},
         GroupOnly, Answers
  PROVE  CInv' /\ Keeps
<1>1. UNCHANGED <<mode, isClosed, isClosing, readerTerm, events, eventsClosed, rebalanceCb, wanted, told, pc, caller, ev,
                  evcnt, expired, rkq, subscribed, terminating, closed, destroyed, fatal>>
  BY DEF GroupOnly
<1>2. /\ assigned' \subseteq Partitions /\ wait' \in {wait, Nil} /\ (wait' # Nil => assigned' = assigned)
      /\ failed' \in BOOLEAN /\ (failed => failed') /\ (wait' = Nil \/ failed') /\ appReassigned' = TRUE
  BY CallFacts DEF AssignCall
<1>3. ConfTypes /\ CbTypes /\ SeqTypes /\ GoTypes /\ GroupTypes /\ Forwarded /\ Asked /\ CloseOrder /\ mode \in Modes
  BY Parts, Types
<1>4a. ConfTypes'
  BY <1>1, <1>2, <1>3 DEF ConfTypes
<1>4b. CbTypes'
  BY <1>1, <1>2, <1>3 DEF CbTypes
<1>4c. SeqTypes' /\ GoTypes'
  BY <1>1, <1>3 DEF SeqTypes, GoTypes
<1>4. ConfTypes' /\ CbTypes' /\ SeqTypes' /\ GoTypes'
  BY <1>4a, <1>4b, <1>4c
<1>5. GroupTypes'
  BY <1>2, <1>3 DEF GroupTypes
<1>6. TypeOK'
  BY <1>4, <1>5, TypesNext
<1>7. Grows /\ \A u \in Threads : Stays(u)
  BY <1>1, <1>2 DEF Grows, Stays
<1>8. CloseOrder'
  BY <1>1, <1>3 DEF CloseOrder, EventsChanEnable
<1>9. Forwarded'
  BY <1>1, <1>3 DEF Forwarded, AppRebalanceEnable
<1>10. Asked'
  <2> SUFFICES ASSUME wait' # Nil PROVE Asked'
    BY DEF Asked
  <2>1. wait' = wait /\ assigned' = assigned /\ mode' = mode
    BY <1>1, <1>2
  <2> QED BY <1>3, <2>1 DEF Asked, Cooperative
<1>11. CInv'
  BY <1>1, <1>3, <1>6, <1>7, <1>8, <1>9, <1>10, StaysWhere DEF CInv
<1>12. Quiet => Quiet'
  BY <1>1, QuietFrame
<1>13. NotLost'
  BY <1>2 DEF NotLost
<1>14. Single /\ Sole => Sole'
  BY <1>1 DEF Sole, Faithful, InOnePlace, Answers
<1>15. CallbackSet => CallbackSet'
  <2>1. UNCHANGED <<mode, pc, told, wanted, rebalanceCb>>
    BY <1>1
  <2> QED BY <2>1 DEF CallbackSet, EventsChanEnable
<1> QED BY <1>11, <1>12, <1>13, <1>14, <1>15 DEF Keeps

LEMMA AssignStep ==
  ASSUME CInv, NEW t \in Threads, NEW call \in Calls, NEW ps \in {{}, Topics}, Assign(t, call, ps)
  PROVE  CInv' /\ Keeps
<1>1. /\ AssignCall(call, ps) /\ ~Faithful /\ todo' = todo
      /\ GroupOnly
  BY DEF Assign, GroupOnly, app, conf, chan, go, rk
<1>2. ps \in SUBSET Partitions
  BY Parts
<1> QED BY <1>1, <1>2, AssignsStep DEF Answers

LEMMA CallbackAssignsStep == ASSUME CInv, NEW t \in Threads, CallbackAssigns(t) PROVE CInv' /\ Keeps
<1>1. /\ pc[t] = "callback" /\ ~appReassigned /\ todo' = todo
      /\ GroupOnly
  BY DEF CallbackAssigns, GroupOnly, app, conf, chan, go, rk
<1>2. GoTypes /\ Has(t) /\ Topics \subseteq Partitions
  BY Parts, Types
<1>3. ev[t] \in Event /\ IsRebalance(ev[t])
  BY <1>1, <1>2 DEF Has, GoTypes, IsRebalance
<1>4. PICK c \in Choices(ev[t]) : AssignCall(c[1], c[2])
  BY DEF CallbackAssigns
<1>5. c[1] \in Calls /\ c[2] \in SUBSET Partitions
  BY <1>2, <1>3, AnswerFacts
<1>6. ASSUME Sole, Faithful, ~failed' PROVE NoReb(rkq) /\ NoHands' /\ NoReb(events) /\ todo' = Nil
  <2>1. InOnePlace
    BY <1>4, <1>5, <1>6, CallFacts DEF Sole, AssignCall
  <2>2. HasReb(t)
    BY <1>1, <1>3 DEF HasReb, Holds
  <2>3. NoReb(rkq) /\ OneHand /\ NoReb(events) /\ todo = Nil
    BY <2>1, <2>2 DEF InOnePlace, NoHands
  <2>4. appReassigned' /\ pc' = pc /\ ev' = ev
    BY <1>1, <1>4 DEF AssignCall, GroupOnly
  <2>5. \A u \in Threads : HasReb(u)' => HasReb(u) /\ u # t
    BY <1>1, <2>4 DEF HasReb, Holds
  <2>6. NoHands'
    BY <2>2, <2>3, <2>5 DEF NoHands, OneHand
  <2> QED BY <1>1, <2>3, <2>6
<1> QED BY <1>1, <1>4, <1>5, <1>6, AssignsStep DEF Answers

LEMMA AnswerEventStep == ASSUME CInv, NEW t \in Threads, AnswerEvent(t) PROVE CInv' /\ Keeps
<1>1. /\ todo # Nil /\ todo' = Nil
      /\ GroupOnly
  BY DEF AnswerEvent, GroupOnly, conf, chan, go, rk
<1>2. Forwarded /\ GroupTypes /\ CloseOrder /\ Topics \subseteq Partitions
  BY Parts, Types
<1>3. todo \in Event /\ IsRebalance(todo) /\ AppRebalanceEnable
  BY <1>1, <1>2 DEF Forwarded, GroupTypes
<1>4. CASE ~isClosed
  <2>1. PICK c \in Choices(todo) : AssignCall(c[1], c[2])
    BY <1>4 DEF AnswerEvent
  <2>2. c[1] \in Calls /\ c[2] \in SUBSET Partitions
    BY <1>2, <1>3, AnswerFacts
  <2>3. ASSUME Sole, Faithful, ~failed' PROVE NoReb(rkq) /\ NoHands' /\ NoReb(events) /\ todo' = Nil
    <3>1. InOnePlace
      BY <2>1, <2>2, <2>3, CallFacts DEF Sole, AssignCall
    <3>2. NoReb(rkq) /\ NoHands /\ NoReb(events)
      BY <1>1, <3>1 DEF InOnePlace
    <3>3. appReassigned' /\ pc' = pc /\ ev' = ev
      BY <1>1, <2>1 DEF AssignCall, GroupOnly
    <3>4. NoHands'
      BY <3>2, <3>3 DEF NoHands, HasReb, Holds
    <3> QED BY <1>1, <3>2, <3>4
  <2> QED BY <1>1, <2>1, <2>2, <2>3, AssignsStep DEF Answers
<1>5. CASE isClosed
  <2>1. UNCHANGED <<mode, isClosed, isClosing, readerTerm, events, eventsClosed, rebalanceCb, appReassigned, wanted, told,
                    pc, caller, ev, evcnt, expired, assigned, wait, failed, rkq, subscribed, terminating, closed,
                    destroyed, fatal>>
    BY <1>1, <1>5 DEF AnswerEvent, group, GroupOnly
  <2>2. ConfTypes /\ CbTypes /\ SeqTypes /\ GoTypes /\ Asked /\ mode \in Modes
    BY Parts, Types
  <2>3. TypeOK'
    <3>1. ConfTypes'
      BY <2>1, <2>2 DEF ConfTypes
    <3>2. CbTypes' /\ SeqTypes'
      BY <2>1, <2>2 DEF CbTypes, SeqTypes
    <3>3. GoTypes'
      BY <2>1, <2>2 DEF GoTypes
    <3>4. GroupTypes'
      BY <1>1, <1>2, <2>1 DEF GroupTypes
    <3> QED BY <3>1, <3>2, <3>3, <3>4, TypesNext
  <2>4. Grows /\ \A u \in Threads : Stays(u)
    BY <2>1 DEF Grows, Stays
  <2>5. CloseOrder' /\ Forwarded' /\ Asked'
    <3>1. CloseOrder'
      BY <1>2, <2>1 DEF CloseOrder, EventsChanEnable
    <3>2. Forwarded' /\ Asked'
      BY <1>1, <1>2, <2>1, <2>2 DEF Forwarded, Asked, AppRebalanceEnable, Cooperative
    <3> QED BY <3>1, <3>2
  <2>6. CInv'
    BY <2>1, <2>2, <2>3, <2>4, <2>5, StaysWhere DEF CInv
  <2>7. Quiet => Quiet'
    BY <2>1, QuietFrame
  <2>8. NotLost'
    BY <1>2, <1>3, <1>5, <2>1 DEF NotLost, CloseOrder, AppRebalanceEnable
  <2>9. Sole => Sole'
    <3> SUFFICES ASSUME InOnePlace PROVE InOnePlace'
      BY <2>1 DEF Sole, Faithful
    <3>1. NoReb(rkq) /\ NoHands /\ NoReb(events)
      BY <1>1 DEF InOnePlace
    <3>2. NoHands'
      BY <2>1, <3>1 DEF NoHands, HasReb, Holds
    <3> QED BY <1>1, <2>1, <3>1, <3>2 DEF InOnePlace
  <2>10. CallbackSet => CallbackSet'
    BY <2>1 DEF CallbackSet, EventsChanEnable
  <2> QED BY <2>6, <2>7, <2>8, <2>9, <2>10 DEF Keeps
<1> QED BY <1>4, <1>5

LEMMA TakeEventStep == ASSUME CInv, NEW t \in Threads, TakeEvent(t) PROVE CInv' /\ Keeps
<1> PICK e : e = Head(events)
  OBVIOUS
<1>1. /\ events # <<>> /\ todo = Nil /\ events' = Tail(events)
      /\ (IsRebalance(e) => todo' = e) /\ (~IsRebalance(e) => todo' = Nil)
  BY DEF TakeEvent
<1>2. UNCHANGED <<mode, isClosed, isClosing, readerTerm, eventsClosed, rebalanceCb, appReassigned, wanted, told,
                  pc, caller, ev, evcnt, expired, assigned, wait, failed, rkq, subscribed, terminating, closed,
                  destroyed, fatal>>
  BY DEF TakeEvent, conf, cbs, go, group, rk
<1>3. ConfTypes /\ CbTypes /\ SeqTypes /\ GoTypes /\ GroupTypes /\ Forwarded /\ Asked /\ CloseOrder /\ mode \in Modes
  BY Parts, Types
<1>4. /\ events' \in Seq(Event) /\ Len(events') = Len(events) - 1 /\ Len(events) \in Nat
      /\ e \in Event /\ e = events[1] /\ 1 \in 1 .. Len(events)
      /\ \A i \in 1 .. Len(events') : i + 1 \in 1 .. Len(events) /\ events'[i] = events[i + 1]
  BY <1>1, <1>3, TailFacts DEF SeqTypes
<1>5. Len(events') <= ChanSize
  BY <1>3, <1>4, ConsumerConstants, SMT DEF SeqTypes
<1>6. /\ \A x : On(events, x) => x = e \/ On(events', x)
      /\ NoReb(events) => NoReb(events') /\ ~IsRebalance(e)
      /\ \A x : Only(events, x) /\ IsRebalance(e) => NoReb(events') /\ (IsRebalance(x) => x = e)
      /\ \A x : Only(events, x) /\ ~IsRebalance(e) /\ IsRebalance(x) => Only(events', x)
  BY <1>1, <1>3, TailOn DEF SeqTypes
<1>7. TypeOK'
  <2>1. todo' \in Event \cup {Nil}
    BY <1>1, <1>4
  <2>2. ConfTypes'
    BY <1>2, <1>3 DEF ConfTypes
  <2>3. CbTypes' /\ GoTypes'
    BY <1>2, <1>3 DEF CbTypes, GoTypes
  <2>4. SeqTypes' /\ GroupTypes'
    BY <1>2, <1>3, <1>4, <1>5, <2>1 DEF SeqTypes, GroupTypes
  <2> QED BY <2>2, <2>3, <2>4, TypesNext
<1>8. Grows /\ \A u \in Threads : Stays(u)
  BY <1>2 DEF Grows, Stays
<1>9. Forwarded'
  BY <1>1, <1>2, <1>3, <1>4 DEF Forwarded, AppRebalanceEnable
<1>10. CloseOrder' /\ Asked'
  BY <1>2, <1>3 DEF CloseOrder, Asked, EventsChanEnable, Cooperative
<1>11. CInv'
  BY <1>2, <1>3, <1>7, <1>8, <1>9, <1>10, StaysWhere DEF CInv
<1>12. Quiet => Quiet'
  BY <1>2, QuietFrame
<1>13. \A u \in Threads : (Holds(u)' <=> Holds(u)) /\ (HasReb(u)' <=> HasReb(u)) /\ ev'[u] = ev[u]
  BY <1>2 DEF Holds, HasReb
<1>14. NotLost => NotLost'
  <2> SUFFICES ASSUME NotLost, ~(AppRebalanceEnable /\ isClosing), wait # Nil, ~failed PROVE NotLost'
    BY <1>2 DEF NotLost, AppRebalanceEnable
  <2>1. IsRebalance(wait)
    BY <1>3 DEF Asked
  <2>2. CASE On(events, wait)
    BY <1>1, <1>2, <1>6, <2>1, <2>2 DEF NotLost
  <2>3. CASE ~On(events, wait)
    BY <1>1, <1>2, <1>13, <2>3 DEF NotLost
  <2> QED BY <2>2, <2>3
<1>15. Sole => Sole'
  <2> SUFFICES ASSUME InOnePlace PROVE InOnePlace'
    BY <1>2 DEF Sole, Faithful
  <2>1. wait # Nil => IsRebalance(wait)
    BY <1>3 DEF Asked
  <2>2. (NoHands => NoHands') /\ (OneHand => OneHand')
    BY <1>2, <1>13 DEF NoHands, OneHand
  <2>3. CASE IsRebalance(e)
    <3>1. wait # Nil /\ NoReb(rkq) /\ NoHands /\ Only(events, wait)
      BY <1>1, <1>6, <2>3 DEF InOnePlace
    <3>2. NoReb(events') /\ todo' = wait
      BY <1>1, <1>6, <2>1, <2>3, <3>1
    <3> QED BY <1>2, <2>2, <3>1, <3>2 DEF InOnePlace
  <2>4. CASE ~IsRebalance(e)
    <3>1. (NoReb(events) => NoReb(events')) /\ (wait # Nil /\ Only(events, wait) => Only(events', wait))
      BY <1>6, <2>1, <2>4
    <3> QED BY <1>1, <1>2, <2>2, <2>4, <3>1 DEF InOnePlace
  <2> QED BY <2>3, <2>4
<1>16. CallbackSet => CallbackSet'
  BY <1>2 DEF CallbackSet, EventsChanEnable
<1> QED BY <1>11, <1>12, <1>14, <1>15, <1>16 DEF Keeps

LEMMA CallbackReturnsStep == ASSUME CInv, NEW t \in Threads, CallbackReturns(t) PROVE CInv' /\ Keeps
<1>1. pc[t] = "callback" /\ UNCHANGED <<conf, chan, cbs, app, group, rk>>
  BY DEF CallbackReturns
<1>2. pc[t] \in Moving
  BY <1>1 DEF Moving, InPoll
<1>3. CASE appReassigned
  <2>1. Return(t, Nil) /\ ~Holds(t)
    BY <1>1, <1>3 DEF CallbackReturns, Holds
  <2> QED BY <1>1, <1>2, <2>1, ReturnStep
<1>4. CASE ~appReassigned
  <2>1. Goto(t, "assign") /\ UNCHANGED <<caller, ev, evcnt, expired>>
    BY <1>4 DEF CallbackReturns
  <2>2. UNCHANGED <<mode, isClosed, isClosing, readerTerm, events, eventsClosed, rebalanceCb, appReassigned, wanted, told,
                    todo, assigned, wait, failed, rkq, subscribed, terminating, closed, destroyed, fatal>>
    BY <1>1 DEF conf, chan, cbs, app, group, rk
  <2>3. ConfTypes /\ CbTypes /\ SeqTypes /\ GroupTypes /\ Forwarded /\ Asked /\ Where(t) /\ Has(t)
    BY Parts, Types
  <2>4. CbTypes' /\ SeqTypes' /\ GroupTypes' /\ Forwarded' /\ Asked' /\ failed' \in BOOLEAN /\ Grows
    <3>1. CbTypes' /\ SeqTypes' /\ GroupTypes'
      BY <2>2, <2>3 DEF CbTypes, SeqTypes, GroupTypes
    <3>2. Forwarded' /\ Asked'
      BY <2>2, <2>3 DEF Forwarded, Asked, AppRebalanceEnable, Cooperative
    <3>3. failed' \in BOOLEAN /\ Grows
      BY <2>2, <2>3 DEF ConfTypes, Grows
    <3> QED BY <3>1, <3>2, <3>3
  <2>5. GoTypes' /\ pc'[t] = "assign" /\ \A u \in Threads : u # t => pc'[u] = pc[u] /\ caller'[u] = caller[u]
    BY <2>1, CallTypes DEF AllPcs
  <2>6. \A u \in Threads : u # t => Stays(u)
    BY <2>1, <2>5 DEF Stays
  <2>7. Where(t)'
    <3>1. pc[t] \in InPoll /\ "assign" \in InPoll /\ "assign" \in CallerPcs /\ "assign" \in ReaderPcs
      BY <1>1 DEF InPoll, CallerPcs, ReaderPcs
    <3> QED BY <2>1, <2>2, <2>3, <2>5, <3>1 DEF Where, EventsChanEnable
  <2>8. Has(t)'
    BY <1>1, <2>1, <2>3, <2>5 DEF Has
  <2>9. Closing(t) => Closing(t)'
    BY <1>1, <2>1, <2>5 DEF Closing, InPoll
  <2>10. CInv' /\ (Quiet => Quiet')
    BY <1>2, <2>2, <2>4, <2>5, <2>6, <2>7, <2>8, <2>9, StepInv
  <2>11. \A u \in Threads : (Holds(u)' <=> Holds(u)) /\ ev'[u] = ev[u]
    <3>1. Holds(t) /\ Holds(t)'
      BY <1>1, <1>4, <2>5 DEF Holds
    <3>2. \A u \in Threads : u # t => (Holds(u)' <=> Holds(u))
      BY <2>2, <2>5 DEF Holds
    <3> QED BY <2>1, <3>1, <3>2
  <2>12. NotLost => NotLost'
    BY <2>2, <2>4, <2>11, NotLostFrame
  <2>13. Sole => Sole'
    <3>1. \A u \in Threads : HasReb(u)' => HasReb(u) /\ ev'[u] = ev[u]
      BY <2>11 DEF HasReb
    <3> QED BY <2>2, <2>4, <3>1, SoleFrame
  <2>14. CallbackSet => CallbackSet'
    <3>1. \A u \in Threads : /\ pc[u] = "setCb" => pc'[u] = "setCb"
                             /\ pc'[u] = "callback" => pc[u] = "callback" /\ told'[u] = told[u]
                             /\ pc'[u] = "assign" => told'[u] = told[u] /\ (pc[u] = "assign" \/ pc[u] = "callback")
      BY <1>1, <2>2, <2>5
    <3> QED BY <2>2, <2>4, <3>1, CallbackFrame
  <2> QED BY <2>10, <2>12, <2>13, <2>14 DEF Keeps
<1> QED BY <1>3, <1>4

LEMMA DefaultAssignStep == ASSUME CInv, NEW t \in Threads, DefaultAssign(t) PROVE CInv' /\ Keeps
<1> PICK e : e = ev[t]
  OBVIOUS
<1>1. /\ pc[t] = "assign"
      /\ UNCHANGED <<mode, isClosed, isClosing, readerTerm, events, eventsClosed, rebalanceCb, appReassigned, wanted, told,
                     todo, rkq, subscribed, terminating, closed, destroyed, fatal>>
  BY DEF DefaultAssign, conf, chan, cbs, app, rk
<1>2. /\ pc[t] \in Moving /\ Holds(t) /\ pc[t] # "setCb" /\ pc[t] \in InPoll /\ Nil \in Event \cup {Nil}
      /\ pc[t] \notin {"join", "closing"}
  BY <1>1 DEF Moving, InPoll, Holds
<1>3. /\ ConfTypes /\ CbTypes /\ SeqTypes /\ GoTypes /\ GroupTypes /\ Forwarded /\ Asked /\ Where(t) /\ Has(t)
      /\ Topics \subseteq Partitions
  BY Parts, Types
<1>4. e \in Event /\ IsRebalance(e)
  BY <1>1, <1>3 DEF Has, GoTypes, IsRebalance
<1>5. Answer(e) \in Calls /\ e.parts \in SUBSET Partitions
  BY <1>3, <1>4, AnswerFacts
<1>6. /\ assigned' \subseteq Partitions /\ wait' \in {wait, Nil} /\ (wait' # Nil => assigned' = assigned)
      /\ failed' \in BOOLEAN /\ (failed => failed') /\ (wait' = Nil \/ failed')
  <2>1. CallOk(Answer(e), e.parts) \/ CallFails(Answer(e))
    BY DEF DefaultAssign
  <2> QED BY <1>5, <2>1, CallFacts
<1>7. Grows
  BY <1>1, <1>6 DEF Grows
<1>8. CbTypes' /\ SeqTypes' /\ GroupTypes' /\ Forwarded'
  BY <1>1, <1>3, <1>6 DEF CbTypes, SeqTypes, GroupTypes, Forwarded, AppRebalanceEnable
<1>9. Asked'
  <2> SUFFICES ASSUME wait' # Nil PROVE Asked'
    BY DEF Asked
  <2>1. wait' = wait /\ assigned' = assigned /\ mode' = mode
    BY <1>1, <1>6
  <2> QED BY <1>3, <2>1 DEF Asked, Cooperative
<1>10. /\ GoTypes' /\ Where(t)' /\ Has(t)' /\ (t # Reader /\ Closing(t) => Closing(t)') /\ ~Holds(t)'
       /\ pc'[t] # "callback" /\ pc'[t] # "assign" /\ \A u \in Threads : u # t => Stays(u)
  <2>1. CASE Return(t, Nil)
    BY <1>2, <1>7, <2>1, Returns, ReturnsWhere, NotHandling
  <2>2. CASE CallFails(Answer(e)) /\ Goto(t, "forward") /\ UNCHANGED <<caller, ev, evcnt, expired>>
    <3>1. GoTypes' /\ pc'[t] = "forward" /\ \A u \in Threads : u # t => pc'[u] = pc[u] /\ caller'[u] = caller[u]
      BY <2>2, CallTypes DEF AllPcs
    <3>2. \A u \in Threads : u # t => Stays(u)
      BY <2>2, <3>1 DEF Stays
    <3>3. failed'
      BY <2>2 DEF CallFails
    <3>4. Where(t)'
      <4>1. "forward" \in InPoll /\ "forward" \in CallerPcs /\ "forward" \in ReaderPcs
        BY DEF InPoll, CallerPcs, ReaderPcs
      <4> QED BY <1>1, <1>2, <1>3, <2>2, <3>1, <3>3, <4>1 DEF Where, EventsChanEnable
    <3>5. Has(t)' /\ ~Holds(t)'
      BY <3>1 DEF Has, Holds
    <3>6. Closing(t) => Closing(t)'
      BY <1>2, <2>2, <3>1 DEF Closing, InPoll
    <3> QED BY <3>1, <3>2, <3>4, <3>5, <3>6
  <2> QED BY <2>1, <2>2 DEF DefaultAssign
<1>11. CInv' /\ (Quiet => Quiet')
  BY <1>1, <1>2, <1>6, <1>8, <1>9, <1>10, StepInv
<1>12. NotLost'
  BY <1>6 DEF NotLost
<1>13. Sole => Sole'
  <2> SUFFICES ASSUME InOnePlace PROVE InOnePlace'
    BY <1>1, <1>6 DEF Sole, Faithful
  <2>1. HasReb(t) /\ ~HasReb(t)'
    BY <1>2, <1>4, <1>10 DEF HasReb
  <2>2. NoReb(rkq) /\ OneHand /\ NoReb(events) /\ todo = Nil
    BY <2>1 DEF InOnePlace, NoHands
  <2>3. \A u \in Threads : u # t => (HasReb(u)' => HasReb(u))
    BY <1>1, <1>10 DEF Stays, Holds, HasReb
  <2>4. NoHands'
    BY <2>1, <2>2, <2>3 DEF NoHands, OneHand
  <2> QED BY <1>1, <2>2, <2>4 DEF InOnePlace
<1>14. CallbackSet => CallbackSet'
  <2>1. \A u \in Threads : /\ pc[u] = "setCb" => pc'[u] = "setCb"
                           /\ pc'[u] = "callback" => pc[u] = "callback" /\ told'[u] = told[u]
                           /\ pc'[u] = "assign" => told'[u] = told[u] /\ (pc[u] = "assign" \/ pc[u] = "callback")
    BY <1>1, <1>2, <1>10 DEF Stays
  <2> QED BY <1>1, <1>7, <2>1, CallbackFrame
<1> QED BY <1>11, <1>12, <1>13, <1>14 DEF Keeps

LEMMA ForwardErrorStep == ASSUME CInv, NEW t \in Threads, ForwardError(t) PROVE CInv' /\ Keeps
<1> PICK e : e = Plain("error")
  OBVIOUS
<1>1. /\ pc[t] = "forward"
      /\ UNCHANGED <<mode, isClosed, isClosing, readerTerm, eventsClosed, rebalanceCb, appReassigned, wanted, told, todo,
                     assigned, wait, failed, rkq, subscribed, terminating, closed, destroyed, fatal>>
  BY DEF ForwardError, conf, cbs, app, group, rk
<1>2. pc[t] \in Moving /\ ~Holds(t) /\ pc[t] # "setCb" /\ pc[t] \in InPoll /\ pc[t] \notin {"join", "closing"}
  BY <1>1 DEF Moving, InPoll, Holds
<1>3. ConfTypes /\ CbTypes /\ SeqTypes /\ GoTypes /\ GroupTypes /\ Forwarded /\ Asked /\ Where(t)
  BY Parts, Types
<1>4. e \in Event /\ ~IsRebalance(e)
  BY SMT DEF Plain, Event, IsRebalance
<1>5a. Grows /\ CbTypes' /\ GroupTypes'
  BY <1>1, <1>3 DEF Grows, CbTypes, GroupTypes
<1>5b. Asked'
  BY <1>1, <1>3 DEF Asked, Cooperative
<1>5c. failed' \in BOOLEAN
  BY <1>1, <1>3 DEF ConfTypes
<1>5. Grows /\ CbTypes' /\ GroupTypes' /\ Asked' /\ failed' \in BOOLEAN
  BY <1>5a, <1>5b, <1>5c
<1>6. failed
  BY <1>1, <1>3 DEF Where
<1>7. /\ GoTypes' /\ Where(t)' /\ Has(t)' /\ (t # Reader /\ Closing(t) => Closing(t)')
      /\ pc'[t] # "callback" /\ pc'[t] # "assign" /\ \A u \in Threads : u # t => Stays(u)
      /\ SeqTypes' /\ Forwarded'
  <2>1. CASE eventsClosed
    <3>1. Goto(t, "panic") /\ UNCHANGED <<events, caller, ev, evcnt, expired>>
      BY <2>1 DEF ForwardError
    <3>2. GoTypes' /\ pc'[t] = "panic" /\ \A u \in Threads : u # t => pc'[u] = pc[u] /\ caller'[u] = caller[u]
      BY <3>1, CallTypes DEF AllPcs
    <3>3. \A u \in Threads : u # t => Stays(u)
      BY <3>1, <3>2 DEF Stays
    <3>4. Where(t)'
      <4>1. "panic" \in InPoll /\ "panic" \in CallerPcs /\ "panic" \in ReaderPcs
        BY DEF InPoll, CallerPcs, ReaderPcs
      <4> QED BY <1>1, <1>2, <1>3, <1>6, <3>1, <3>2, <4>1 DEF Where, EventsChanEnable
    <3>5. Has(t)' /\ pc'[t] # "callback" /\ pc'[t] # "assign"
      BY <3>2 DEF Has
    <3>6. Closing(t) => Closing(t)'
      BY <1>2, <3>1, <3>2 DEF Closing, InPoll
    <3>7. SeqTypes' /\ Forwarded'
      BY <1>1, <1>3, <3>1 DEF SeqTypes, Forwarded, AppRebalanceEnable
    <3> QED BY <3>2, <3>3, <3>4, <3>5, <3>6, <3>7
  <2>2. CASE ~eventsClosed
    <3>1. Len(events) < ChanSize /\ events' = Append(events, e) /\ Return(t, Nil)
      BY <2>2 DEF ForwardError
    <3>2. /\ events' \in Seq(Event) /\ Len(events') = Len(events) + 1 /\ Len(events) \in Nat
          /\ events'[Len(events) + 1] = e
          /\ \A i \in 1 .. Len(events) : events'[i] = events[i]
          /\ \A i \in 1 .. Len(events') : i = Len(events) + 1 \/ i \in 1 .. Len(events)
      <4>0. events \in Seq(Event)
        BY <1>3, <1>4, <3>1 DEF SeqTypes
      <4>1. /\ Append(events, e) \in Seq(Event) /\ Len(Append(events, e)) = Len(events) + 1 /\ Len(events) \in Nat
            /\ Append(events, e)[Len(events) + 1] = e
            /\ \A i \in 1 .. Len(events) : Append(events, e)[i] = events[i]
            /\ \A i \in 1 .. Len(Append(events, e)) : i = Len(events) + 1 \/ i \in 1 .. Len(events)
        BY <1>4, <4>0, SMT
      <4> QED BY <1>3, <1>4, <3>1, <4>1
    <3>3. Len(events') <= ChanSize
      BY <3>1, <3>2, ConsumerConstants, SMT
    <3>4. SeqTypes' /\ Forwarded'
      BY <1>1, <1>3, <1>4, <3>2, <3>3 DEF SeqTypes, Forwarded, AppRebalanceEnable
    <3>5. Nil \in Event \cup {Nil}
      OBVIOUS
    <3> QED BY <1>2, <1>5, <3>1, <3>4, <3>5, Returns, ReturnsWhere, NotHandling
  <2> QED BY <2>1, <2>2
<1>8. CInv' /\ (Quiet => Quiet')
  BY <1>1, <1>2, <1>5, <1>7, StepInv
<1>9. NotLost' /\ Sole'
  BY <1>1, <1>6 DEF NotLost, Sole
<1>10. CallbackSet => CallbackSet'
  <2>1. \A u \in Threads : /\ pc[u] = "setCb" => pc'[u] = "setCb"
                           /\ pc'[u] = "callback" => pc[u] = "callback" /\ told'[u] = told[u]
                           /\ pc'[u] = "assign" => told'[u] = told[u] /\ (pc[u] = "assign" \/ pc[u] = "callback")
    BY <1>1, <1>2, <1>7 DEF Stays
  <2> QED BY <1>1, <1>5, <2>1, CallbackFrame
<1> QED BY <1>8, <1>9, <1>10 DEF Keeps

-----------------------------------------------------------------------------
(* librdkafka.                                                             *)

\* An event is put on the queue; if it is a rebalance, librdkafka waits for it.
Queues(e) == \/ IsRebalance(e) /\ wait = Nil /\ wait' = e
             \/ ~IsRebalance(e) /\ wait' = wait

QueueOnly ==
  UNCHANGED <<mode, isClosed, isClosing, readerTerm, events, eventsClosed, rebalanceCb, appReassigned, wanted, told,
              pc, caller, ev, evcnt, expired, todo, assigned, failed, subscribed, terminating, closed, destroyed, fatal>>

LEMMA QueueStep ==
  ASSUME CInv, NEW e \in Event, rkq' = Append(rkq, e), Len(rkq) <= MaxQueue,
         Queues(e), Asked', QueueOnly
  PROVE  CInv' /\ Keeps
<1>1. UNCHANGED <<mode, isClosed, isClosing, readerTerm, events, eventsClosed, rebalanceCb, appReassigned, wanted, told,
                  pc, caller, ev, evcnt, expired, todo, assigned, failed, subscribed, terminating, closed, destroyed, fatal>>
  BY DEF QueueOnly
<1>2. ConfTypes /\ CbTypes /\ SeqTypes /\ GoTypes /\ GroupTypes /\ Forwarded /\ CloseOrder /\ mode \in Modes
  BY Parts, Types
<1>3. rkq' \in Seq(Event) /\ Len(rkq') = Len(rkq) + 1 /\ Len(rkq) \in Nat
  BY <1>2, AppendFacts DEF SeqTypes
<1>4. Len(rkq') <= MaxQueue + 1
  BY <1>3, ConsumerConstants, SMT
<1>5. /\ On(rkq', e) /\ \A x : On(rkq, x) => On(rkq', x)
      /\ NoReb(rkq) => Only(rkq', e)
      /\ NoReb(rkq) /\ ~IsRebalance(e) => NoReb(rkq')
      /\ \A x : Only(rkq, x) /\ ~IsRebalance(e) => Only(rkq', x)
  BY <1>2, AppendOn DEF SeqTypes
<1>6. TypeOK'
  <2>0. ConfTypes'
    BY <1>1, <1>2 DEF ConfTypes
  <2>1. CbTypes' /\ GoTypes'
    BY <1>1, <1>2 DEF CbTypes, GoTypes
  <2>2. SeqTypes'
    BY <1>1, <1>2, <1>3, <1>4 DEF SeqTypes
  <2>3. GroupTypes'
    BY <1>1, <1>2 DEF GroupTypes, Queues
  <2> QED BY <2>0, <2>1, <2>2, <2>3, TypesNext
<1>7. Grows /\ \A u \in Threads : Stays(u)
  BY <1>1 DEF Grows, Stays
<1>8. CloseOrder' /\ Forwarded'
  BY <1>1, <1>2 DEF CloseOrder, Forwarded, EventsChanEnable, AppRebalanceEnable
<1>9. CInv'
  BY <1>1, <1>2, <1>6, <1>7, <1>8, StaysWhere DEF CInv
<1>10. Quiet => Quiet'
  BY <1>1, QuietFrame
<1>11. \A u \in Threads : (Holds(u)' <=> Holds(u)) /\ (HasReb(u)' <=> HasReb(u)) /\ ev'[u] = ev[u]
  BY <1>1 DEF Holds, HasReb
<1>12. NotLost => NotLost'
  <2>1. CASE wait' = e
    BY <1>5, <2>1 DEF NotLost
  <2>2. CASE wait' = wait
    BY <1>1, <1>5, <1>11, <2>2 DEF NotLost, AppRebalanceEnable
  <2> QED BY <2>1, <2>2 DEF Queues
<1>13. Sole => Sole'
  <2> SUFFICES ASSUME InOnePlace PROVE InOnePlace'
    BY <1>1 DEF Sole, Faithful
  <2>1. CASE IsRebalance(e) /\ wait = Nil /\ wait' = e
    <3>1. NoReb(rkq) /\ NoHands /\ NoReb(events) /\ todo = Nil
      BY <2>1 DEF InOnePlace
    <3>2. NoHands' /\ e # Nil
      BY <1>11, <2>1, <3>1 DEF NoHands, IsRebalance
    <3> QED BY <1>1, <1>5, <2>1, <3>1, <3>2 DEF InOnePlace
  <2>2. CASE ~IsRebalance(e) /\ wait' = wait
    <3>1. (NoHands => NoHands') /\ (OneHand => OneHand')
      BY <1>11, <2>2 DEF NoHands, OneHand
    <3> QED BY <1>1, <1>5, <2>2, <3>1 DEF InOnePlace
  <2> QED BY <2>1, <2>2 DEF Queues
<1>14. CallbackSet => CallbackSet'
  BY <1>1 DEF CallbackSet, EventsChanEnable
<1> QED BY <1>9, <1>10, <1>12, <1>13, <1>14 DEF Keeps

LEMMA RkAskStep ==
  ASSUME CInv, NEW ps \in SUBSET Topics, RkAssign(ps) \/ RkRevoke(ps) PROVE CInv' /\ Keeps
<1>1. ps \in SUBSET Partitions
  BY Parts
<1>2. PICK type \in {"assign", "revoke"} :
        /\ wait' = Rebalance(type, ps) /\ (type = "assign" /\ ~Cooperative => assigned = {})
        /\ type = "revoke" /\ ~Cooperative => ps = assigned
  BY DEF RkAssign, RkRevoke
<1>3. /\ wait = Nil /\ Len(rkq) <= MaxQueue /\ rkq' = Append(rkq, wait')
      /\ QueueOnly
  BY DEF RkAssign, RkRevoke, QueueOnly, conf, chan, cbs, go, app
<1>4. PICK e : e = wait'
  OBVIOUS
<1>5. e \in Event /\ e.type = type /\ e.parts = ps
  BY <1>1, <1>2, <1>4, SMT DEF Event, Rebalance
<1>6. IsRebalance(e)
  BY <1>2, <1>5, NilIsNoEvent DEF IsRebalance
<1>7. Asked'
  BY <1>2, <1>3, <1>4, <1>5, <1>6 DEF Asked, Cooperative, IsRebalance, QueueOnly
<1> QED BY <1>3, <1>4, <1>5, <1>6, <1>7, QueueStep DEF Queues

LEMMA RkEventStep == ASSUME CInv, NEW type \in Kinds, RkEvent(type) PROVE CInv' /\ Keeps
<1>1. /\ Len(rkq) < MaxQueue /\ rkq' = Append(rkq, Plain(type)) /\ UNCHANGED <<mode, assigned, wait, failed>>
      /\ QueueOnly
  BY DEF RkEvent, QueueOnly, group, conf, chan, cbs, go, app
<1>2. mode \in Modes /\ SeqTypes /\ Asked
  BY Parts, Types
<1>3. type \in {"msg", "error", "other"}
  BY <1>2, ConsumerConstants, SMT DEF Kinds
<1>4. Plain(type) \in Event /\ ~IsRebalance(Plain(type))
  BY <1>3, SMT DEF Plain, Event, IsRebalance
<1>5. Len(rkq) <= MaxQueue
  <2>1. Len(rkq) \in Nat
    BY <1>2, SMT DEF SeqTypes
  <2> QED BY <1>1, <2>1, ConsumerConstants, SMT
<1>6. Asked'
  BY <1>1, <1>2 DEF Asked, Cooperative
<1> QED BY <1>1, <1>4, <1>5, <1>6, QueueStep DEF Queues

LEMMA RkOtherStep == ASSUME CInv, RkFatal \/ RkClosed PROVE CInv' /\ Keeps
<1>1. ConfTypes /\ GoTypes
  BY Parts, Types
<1>2. /\ UNCHANGED <<mode, isClosed, isClosing, readerTerm, events, eventsClosed, rebalanceCb, appReassigned, wanted,
                     told, pc, caller, ev, evcnt, expired, todo, assigned, wait, failed, rkq, subscribed, terminating, destroyed>>
      /\ fatal' \in {fatal, TRUE} /\ closed' \in {closed, TRUE}
  BY DEF RkFatal, RkClosed, conf, chan, cbs, go, app, group
<1>3a. fatal' \in BOOLEAN /\ closed' \in BOOLEAN
  BY <1>1, <1>2 DEF ConfTypes
<1>3b. ConfTypes'
  BY <1>1, <1>2, <1>3a DEF ConfTypes
<1>3c. GoTypes'
  BY <1>1, <1>2 DEF GoTypes
<1>3. ConfTypes' /\ GoTypes'
  BY <1>3b, <1>3c
<1> QED BY <1>2, <1>3, NothingStep

-----------------------------------------------------------------------------
(* The invariants.                                                         *)

LEMMA InitInv == ASSUME Init PROVE CInv /\ Quiet /\ NotLost /\ Sole /\ CallbackSet
<1>1. /\ mode \in Modes /\ ~isClosed /\ ~isClosing /\ ~readerTerm /\ events = <<>> /\ ~eventsClosed
      /\ ~rebalanceCb /\ ~appReassigned /\ ~wanted /\ told = [t \in Threads |-> FALSE]
      /\ caller = [t \in Threads |-> Nil] /\ ev = [t \in Threads |-> Nil] /\ evcnt = 0
      /\ expired = [t \in Threads |-> FALSE] /\ todo = Nil /\ rkq = <<>> /\ ~subscribed /\ ~terminating /\ ~closed
      /\ ~destroyed /\ ~fatal /\ assigned = {} /\ wait = Nil /\ ~failed
  BY DEF Init
<1>2. \A t \in Threads : /\ pc[t] \in {"idle", "loop", "done"} /\ (t # Reader => pc[t] = "idle")
                         /\ t = Reader => pc[t] \in {"loop", "done"} /\ (EventsChanEnable \/ pc[t] = "done")
  BY DEF Init
<1>3. pc \in [Threads -> AllPcs]
  BY DEF Init, AllPcs
<1>4. TypeOK
  <2>1. ConfTypes /\ CbTypes /\ GroupTypes
    BY DEF Init, ConfTypes, CbTypes, GroupTypes
  <2>2. SeqTypes
    BY <1>1, ConsumerConstants, SMT DEF SeqTypes
  <2>3. evcnt \in 0 .. MaxEvents - 1
    BY <1>1, ConsumerConstants, SMT
  <2>4. GoTypes
    BY <1>1, <1>3, <2>3 DEF GoTypes
  <2> QED BY <2>1, <2>2, <2>4, Types
<1>5. CloseOrder
  BY <1>1, <1>2, Names DEF CloseOrder
<1>6. Len(events) = 0 /\ Len(rkq) = 0 /\ \A i : i \notin 1 .. 0
  BY <1>1, SMT
<1>7. Forwarded /\ Asked /\ NoReb(rkq) /\ NoReb(events)
  BY <1>1, <1>6 DEF Forwarded, Asked, NoReb
<1>8. \A t \in Threads : Where(t) /\ Has(t) /\ ~Holds(t)
  <2> TAKE t \in Threads
  <2>1. pc[t] \notin InPoll /\ (pc[t] = "idle" => pc[t] \in CallerPcs) /\ (pc[t] \in {"loop", "done"} => pc[t] \in ReaderPcs)
    BY <1>2 DEF InPoll, CallerPcs, ReaderPcs
  <2>2. Where(t)
    BY <1>2, <2>1 DEF Where
  <2>3. Has(t) /\ ~Holds(t)
    BY <1>2 DEF Has, Holds
  <2> QED BY <2>2, <2>3
<1>9. CInv
  BY <1>1, <1>4, <1>5, <1>7, <1>8 DEF CInv
<1>10. Quiet /\ NotLost
  BY <1>1 DEF Quiet, NotLost
<1>11. Sole
  BY <1>1, <1>7, <1>8 DEF Sole, InOnePlace, NoHands, HasReb
<1>12. CallbackSet
  BY <1>1, <1>2 DEF CallbackSet
<1> QED BY <1>9, <1>10, <1>11, <1>12

LEMMA NextInv == ASSUME CInv, [Next]_vars PROVE CInv' /\ Keeps
<1>1. ASSUME NEW t \in Threads, Step(t) PROVE CInv' /\ Keeps
  BY <1>1, SetRebalanceCbStep, CallsStep, PollEventStep, PollNoneStep, SendStep, SendTerminatedStep, ReaderLoopStep,
     HandleRebalanceStep, CallbackReturnsStep, DefaultAssignStep, ForwardErrorStep, CloseJoinStep, CloseLoopStep,
     CloseDestroyStep DEF Step
<1>2. ASSUME NEW t \in Threads, Application(t) PROVE CInv' /\ Keeps
  <2>1. ASSUME NEW cb \in Callbacks, SubscribeTopics(t, cb) PROVE CInv' /\ Keeps
    BY <2>1, SubscribeTopicsStep
  <2>2. ASSUME NEW call \in Calls, NEW ps \in {{}, Topics}, Assign(t, call, ps) PROVE CInv' /\ Keeps
    BY <2>2, AssignStep
  <2>3. ASSUME NEW by \in {"poll", "read"}, BeginPoll(t, by) PROVE CInv' /\ Keeps
    BY <2>3, BeginPollStep
  <2>4. CASE Unsubscribe(t) \/ Call(t) \/ TakeEvent(t) \/ AnswerEvent(t) \/ CallbackAssigns(t) \/ CloseBegin(t)
    BY <2>4, UnsubscribeStep, CallsStep, TakeEventStep, AnswerEventStep, CallbackAssignsStep, CloseBeginStep
  <2> QED BY <1>2, <2>1, <2>2, <2>3, <2>4 DEF Application
<1>3. ASSUME NEW t \in Threads, Expire(t) PROVE CInv' /\ Keeps
  BY <1>3, ExpireStep
<1>4. CASE Librdkafka
  <2>1. ASSUME NEW ps \in SUBSET Topics, RkAssign(ps) \/ RkRevoke(ps) PROVE CInv' /\ Keeps
    BY <2>1, RkAskStep
  <2>2. ASSUME NEW type \in Kinds, RkEvent(type) PROVE CInv' /\ Keeps
    BY <2>2, RkEventStep
  <2>3. CASE RkFatal \/ RkClosed
    BY <2>3, RkOtherStep
  <2> QED BY <1>4, <2>1, <2>2, <2>3 DEF Librdkafka
<1>5. CASE UNCHANGED vars
  <2>1. UNCHANGED <<mode, isClosed, isClosing, readerTerm, events, eventsClosed, rebalanceCb, appReassigned, wanted,
                    told, pc, caller, ev, evcnt, expired, todo, assigned, wait, failed, rkq, subscribed, terminating, closed,
                    destroyed, fatal>>
    BY <1>5 DEF vars, conf, chan, cbs, go, app, group, rk
  <2>2. ConfTypes /\ GoTypes
    BY Parts, Types
  <2>3. ConfTypes' /\ GoTypes'
    BY <2>1, <2>2 DEF ConfTypes, GoTypes
  <2> QED BY <2>1, <2>3, NothingStep
<1> QED BY <1>1, <1>2, <1>3, <1>4, <1>5 DEF Next

\* The event in hand, or the one the application owes an answer to, is the one
\* that librdkafka waits for.
LEMMA HandIsWait ==
  ASSUME InOnePlace, NEW t \in Threads, HasReb(t) PROVE wait # Nil /\ ev[t] = wait
<1>1. ~NoHands
  BY DEF NoHands
<1>2. wait # Nil /\ OneHand
  BY <1>1 DEF InOnePlace
<1> QED BY <1>2 DEF OneHand

LEMMA TodoIsWait == ASSUME InOnePlace, todo # Nil PROVE wait # Nil /\ todo = wait
BY DEF InOnePlace

\* The call that answers an event does what the group asked for.
LEMMA AnswerDoes ==
  ASSUME CInv, wait # Nil, CallOk(Answer(wait), wait.parts), mode' = mode PROVE GM!Do
<1>1. Asked /\ assigned' = Requested(Answer(wait), wait.parts) /\ wait' = Nil
  BY Parts DEF CallOk
<1>2. wait.type \in {"assign", "revoke"}
  BY <1>1 DEF Asked, IsRebalance
<1>3. assigned' = IF wait.type = "assign" THEN assigned \cup wait.parts ELSE assigned \ wait.parts
  <2>1. CASE wait.type = "assign" /\ Cooperative
    <3>1. Answer(wait) = "incrementalAssign"
      BY <2>1 DEF Answer
    <3> QED BY <1>1, <2>1, <3>1 DEF Requested
  <2>2. CASE wait.type = "assign" /\ ~Cooperative
    <3>1. Answer(wait) = "assign" /\ assigned = {}
      BY <1>1, <2>2 DEF Answer, Asked
    <3> QED BY <1>1, <2>2, <3>1, SMT DEF Requested
  <2>3. CASE wait.type = "revoke" /\ Cooperative
    <3>1. Answer(wait) = "incrementalUnassign"
      BY <2>3 DEF Answer
    <3> QED BY <1>1, <2>3, <3>1 DEF Requested
  <2>4. CASE wait.type = "revoke" /\ ~Cooperative
    <3>1. Answer(wait) = "unassign" /\ wait.parts = assigned
      BY <1>1, <2>4 DEF Answer, Asked
    <3> QED BY <1>1, <2>4, <3>1, SMT DEF Requested
  <2> QED BY <1>2, <2>1, <2>2, <2>3, <2>4
<1> QED BY <1>1, <1>3 DEF GM!Do, Cooperative

LEMMA RkAsks == ASSUME CInv, NEW ps \in SUBSET Topics, RkAssign(ps) \/ RkRevoke(ps) PROVE GM!Ask
<1>a. wait = Nil /\ ps # {} /\ mode' = mode /\ assigned' = assigned
  BY DEF RkAssign, RkRevoke, conf
<1>b. Topics \subseteq Partitions
  BY Parts
<1>c. ps \in SUBSET Partitions
  BY <1>b
<1>d. ps \notin {{}}
  BY <1>a
<1>1. wait = Nil /\ mode' = mode /\ assigned' = assigned /\ ps \in (SUBSET Partitions) \ {{}}
  BY <1>a, <1>c, <1>d
<1>2. CASE RkAssign(ps)
  <2>1. ps \cap assigned = {} /\ wait' = [type |-> "assign", parts |-> ps] /\ (~Cooperative => assigned = {})
    BY <1>2 DEF RkAssign, Rebalance
  <2>2. wait'.type = "assign"
    BY <2>1
  <2> QED BY <1>1, <2>1, <2>2 DEF GM!Ask, Cooperative
<1>3. CASE RkRevoke(ps)
  <2>1. ps \subseteq assigned /\ wait' = [type |-> "revoke", parts |-> ps] /\ (~Cooperative => ps = assigned)
    BY <1>3 DEF RkRevoke, Rebalance
  <2>2. wait'.type = "revoke" /\ wait'.parts = ps
    BY <2>1
  <2> QED BY <1>1, <2>1, <2>2 DEF GM!Ask, Cooperative
<1> QED BY <1>2, <1>3

\* A step of the group's member, or none.
Member == GM!GMNext \/ UNCHANGED <<mode, assigned, wait>>

LEMMA AnswerMember ==
  ASSUME CInv, Single, Sole, Faithful, ~failed', NEW t \in Threads,
         CallbackAssigns(t) \/ AnswerEvent(t) \/ DefaultAssign(t)
  PROVE  Member
<1>0. /\ GoTypes /\ GroupTypes /\ Forwarded /\ Has(t) /\ Topics \subseteq Partitions
  BY Parts, Types
<1>1. CASE CallbackAssigns(t)
  <2>1. pc[t] = "callback" /\ ~appReassigned /\ mode' = mode
    BY <1>1 DEF CallbackAssigns, conf
  <2>2. IsRebalance(ev[t]) /\ ev[t] \in Event /\ HasReb(t)
    BY <1>0, <2>1 DEF Has, GoTypes, IsRebalance, HasReb, Holds
  <2>3. PICK c \in Choices(ev[t]) : CallOk(c[1], c[2]) \/ CallFails(c[1])
    BY <1>1 DEF CallbackAssigns, AssignCall
  <2>4. c[1] \in Calls /\ c[2] \in SUBSET Partitions /\ c[1] = Answer(ev[t]) /\ c[2] = ev[t].parts
    BY <1>0, <2>2, AnswerFacts
  <2>5. CallOk(c[1], c[2]) /\ ~failed
    BY <2>3, <2>4, CallFacts
  <2>6. wait # Nil /\ ev[t] = wait
    BY <2>2, <2>5, HandIsWait DEF Sole
  <2>7. CallOk(Answer(wait), wait.parts)
    BY <2>4, <2>5, <2>6
  <2> QED BY <2>1, <2>6, <2>7, AnswerDoes DEF Member, GM!GMNext
<1>2. CASE AnswerEvent(t)
  <2>1. todo # Nil /\ mode' = mode
    BY <1>2 DEF AnswerEvent, conf
  <2>2. IsRebalance(todo) /\ todo \in Event
    BY <1>0, <2>1 DEF Forwarded, GroupTypes
  <2>3. CASE isClosed
    BY <1>2, <2>1, <2>3 DEF AnswerEvent, group, Member
  <2>4. CASE ~isClosed
    <3>1. PICK c \in Choices(todo) : CallOk(c[1], c[2]) \/ CallFails(c[1])
      BY <1>2, <2>4 DEF AnswerEvent, AssignCall
    <3>2. c[1] \in Calls /\ c[2] \in SUBSET Partitions /\ c[1] = Answer(todo) /\ c[2] = todo.parts
      BY <1>0, <2>2, AnswerFacts
    <3>3. CallOk(c[1], c[2]) /\ ~failed
      BY <3>1, <3>2, CallFacts
    <3>4. wait # Nil /\ todo = wait
      BY <2>1, <3>3, TodoIsWait DEF Sole
    <3>5. CallOk(Answer(wait), wait.parts)
      BY <3>2, <3>3, <3>4
    <3> QED BY <2>1, <3>4, <3>5, AnswerDoes DEF Member, GM!GMNext
  <2> QED BY <2>3, <2>4
<1>3. CASE DefaultAssign(t)
  <2>1. pc[t] = "assign" /\ mode' = mode
    BY <1>3 DEF DefaultAssign, conf
  <2>2. IsRebalance(ev[t]) /\ ev[t] \in Event /\ HasReb(t)
    BY <1>0, <2>1 DEF Has, GoTypes, IsRebalance, HasReb, Holds
  <2>3. Answer(ev[t]) \in Calls /\ ev[t].parts \in SUBSET Partitions
    BY <1>0, <2>2, AnswerFacts
  <2>4. CallOk(Answer(ev[t]), ev[t].parts) \/ CallFails(Answer(ev[t]))
    BY <1>3 DEF DefaultAssign
  <2>5. CallOk(Answer(ev[t]), ev[t].parts) /\ ~failed
    BY <2>3, <2>4, CallFacts
  <2>6. wait # Nil /\ ev[t] = wait
    BY <2>2, <2>5, HandIsWait DEF Sole
  <2>7. CallOk(Answer(wait), wait.parts)
    BY <2>5, <2>6
  <2> QED BY <2>1, <2>6, <2>7, AnswerDoes DEF Member, GM!GMNext
<1> QED BY <1>1, <1>2, <1>3

LEMMA GroupStep ==
  ASSUME CInv, Single, Sole, [Next]_vars PROVE [Faithful => GM!GMNext \/ failed']_GM!gmvars
<1> SUFFICES ASSUME Faithful, ~failed' PROVE Member
  BY DEF Member, GM!gmvars, Cooperative
<1>1. ASSUME NEW t \in Threads, Step(t) PROVE Member
  <2>1. CASE DefaultAssign(t)
    BY <2>1, AnswerMember
  <2>2. CASE ~DefaultAssign(t)
    BY <1>1, <2>2 DEF Member, Step, SetRebalanceCb, CallReturns, PollEvent, PollNone, Send, SendTerminated, ReaderLoop,
       HandleRebalance, CallbackReturns, ForwardError, CloseJoin, CloseLoop, CloseDestroy, conf, group
  <2> QED BY <2>1, <2>2
<1>2. ASSUME NEW t \in Threads, Application(t) PROVE Member
  <2>1. CASE AnswerEvent(t) \/ CallbackAssigns(t)
    BY <2>1, AnswerMember
  <2>2. CASE Unsubscribe(t) \/ Call(t) \/ TakeEvent(t) \/ CloseBegin(t)
    BY <2>2 DEF Member, Unsubscribe, Call, TakeEvent, CloseBegin, conf, group
  <2>3. ASSUME NEW cb \in Callbacks, SubscribeTopics(t, cb) PROVE Member
    BY <2>3 DEF Member, SubscribeTopics, conf, group
  <2>4. ASSUME NEW by \in {"poll", "read"}, BeginPoll(t, by) PROVE Member
    BY <2>4 DEF Member, BeginPoll, conf, group
  <2>5. ASSUME NEW call \in Calls, NEW ps \in {{}, Topics}, Assign(t, call, ps) PROVE Member
    BY <2>5 DEF Assign
  <2> QED BY <1>2, <2>1, <2>2, <2>3, <2>4, <2>5 DEF Application
<1>3. ASSUME NEW t \in Threads, Expire(t) PROVE Member
  BY <1>3 DEF Member, Expire, conf, group
<1>4. CASE Librdkafka
  <2>1. ASSUME NEW ps \in SUBSET Topics, RkAssign(ps) \/ RkRevoke(ps) PROVE Member
    BY <2>1, RkAsks DEF Member, GM!GMNext
  <2>2. ASSUME NEW type \in Kinds, RkEvent(type) PROVE Member
    BY <2>2 DEF Member, RkEvent, conf, group
  <2>3. CASE RkFatal \/ RkClosed
    BY <2>3 DEF Member, RkFatal, RkClosed, conf, group
  <2> QED BY <1>4, <2>1, <2>2, <2>3 DEF Librdkafka
<1>5. CASE UNCHANGED vars
  BY <1>5 DEF Member, vars, conf, group
<1> QED BY <1>1, <1>2, <1>3, <1>4, <1>5 DEF Next

-----------------------------------------------------------------------------
(* The theorems.                                                           *)

\* The limits of the events channel and of librdkafka's queue hold in every
\* configuration, and nobody sends on the closed channel, as long as no *assign()
\* call has failed, even if the application's other goroutines call on while one
\* of them closes (consumer.go:531-568).
THEOREM NothingSentOnClosed == Spec => [](TypeOK /\ NoSendOnClosed)
<1>1. Init => CInv
  BY InitInv
<1>2. CInv /\ [Next]_vars => CInv'
  BY NextInv
<1>3. CInv => TypeOK /\ NoSendOnClosed
  <2> SUFFICES ASSUME CInv, eventsClosed, ~failed, NEW t \in Threads PROVE pc[t] \notin {"send", "forward", "panic"}
    BY Parts DEF NoSendOnClosed
  <2>1. CloseOrder /\ Where(t)
    BY Parts
  <2>2. pc[t] \notin {"forward", "panic"}
    BY <2>1 DEF Where
  <2>3. "send" \notin CallerPcs
    BY DEF CallerPcs, InPoll
  <2>4. pc[t] # "send"
    BY <2>1, <2>3 DEF CloseOrder, Where
  <2> QED BY <2>2, <2>4
<1> QED BY <1>1, <1>2, <1>3, PTL DEF Spec

\* When the application makes no other call once Close() has begun, no goroutine
\* is in librdkafka when Close() destroys the instance, and the channel is closed
\* safely (consumer.go:531-568).
THEOREM CloseIsSafe == ASSUME Quiesce PROVE Spec => []CloseSafe
<1>1. Init => CInv /\ Quiet
  BY InitInv
<1>2. CInv /\ Quiet /\ [Next]_vars => CInv' /\ Quiet'
  BY NextInv DEF Keeps
<1>3. CInv /\ Quiet => NoUseAfterDestroy
  <2> SUFFICES ASSUME CInv, Quiet, destroyed, NEW t \in Threads PROVE pc[t] \in {"idle", "done", "panic"}
    BY DEF NoUseAfterDestroy
  <2>1. isClosing /\ pc[Reader] = "done"
    BY Parts DEF CloseOrder
  <2>2. PICK c \in Callers : Closes(c)
    BY <2>1 DEF Quiet
  <2>3. pc[c] = "done" /\ \A u \in Callers : u # c => pc[u] = "idle"
    BY <2>2 DEF Closes
  <2> QED BY <2>1, <2>3, Names
<1>4. Spec => []NoUseAfterDestroy
  BY <1>1, <1>2, <1>3, PTL DEF Spec
<1> QED BY <1>4, NothingSentOnClosed, PTL DEF CloseSafe

\* A rebalance event that librdkafka waits for is on its way to whoever answers
\* it, whatever calls the application's goroutines make, except that Close() may
\* drop it where the application answers over the channel (event.go:300-303).
THEOREM NoRebalanceLost == Spec => []RebalanceAnswerable
<1>1. Init => CInv /\ NotLost
  BY InitInv
<1>2. CInv /\ NotLost /\ [Next]_vars => CInv' /\ NotLost'
  BY NextInv DEF Keeps
<1>3. NotLost => RebalanceAnswerable
  BY DEF NotLost, RebalanceAnswerable, RebalanceNotLost, Pending, InHand, On, Holds
<1> QED BY <1>1, <1>2, <1>3, PTL DEF Spec

\* With one goroutine of the application, no rebalance is lost, and a polling
\* consumer answers none before the callback that was asked for was given it
\* (consumer.go:1040-1050).
THEOREM RebalancesHandled == ASSUME Single PROVE Spec => []RebalanceHandled
<1>1. Init => CInv /\ CallbackSet
  BY InitInv
<1>2. CInv /\ CallbackSet /\ [Next]_vars => CInv' /\ CallbackSet'
  BY NextInv DEF Keeps
<1>3. CallbackSet => CallbackFirst
  BY DEF CallbackSet, CallbackFirst
<1>4. Spec => []CallbackFirst
  BY <1>1, <1>2, <1>3, PTL DEF Spec
<1> QED BY <1>4, NoRebalanceLost, PTL DEF RebalanceHandled

\* With one goroutine of the application, the consumer implements GroupMember:
\* each rebalance is answered once, with the change it asks for, as long as the
\* application makes no *assign() call of its own and none fails
\* (consumer.go:1040-1078).
THEOREM ConsumerIsGroupMember == ASSUME Single PROVE Spec => ImplementsGroupMember
<1>1. Init => CInv /\ Sole
  BY InitInv
<1>2. CInv /\ Sole /\ [Next]_vars => CInv' /\ Sole'
  BY NextInv DEF Keeps
<1>3. Init => GM!GMInit
  <2> SUFFICES ASSUME Init PROVE GM!GMInit
    OBVIOUS
  <2>1. Cooperative \in BOOLEAN
    BY ConsumerConstants, SMT DEF Init, Cooperative
  <2> QED BY <2>1 DEF Init, GM!GMInit
<1>4. CInv /\ Sole /\ [Next]_vars => [Faithful => GM!GMNext \/ failed']_GM!gmvars
  BY GroupStep
<1> QED BY <1>1, <1>2, <1>3, <1>4, PTL DEF Spec, ImplementsGroupMember
=============================================================================
