----------------------------- MODULE ProducerInv -----------------------------
(***************************************************************************)
(* The inductive invariant behind ReportRouting and the refinement of      *)
(* DeliveryReports: where a message is, and who owns its cgo entry.        *)
(***************************************************************************)
EXTENDS Producer

\* The message produce() works on is undecided, and no other goroutine has it.
ArgInv ==
  /\ \A t \in Producers :
       /\ pc[t] \in {"put", "enqueue", "undo"} => arg[t] \in Msgs /\ status[arg[t]] = "calling"
       /\ pc[t] = "report" => t = ChannelProducer /\ arg[t] \in ViaChannel /\ status[arg[t]] = "rejected"
       /\ pc[t] \in {"idle", "done"} => arg[t] = Nil
       /\ t \in Callers => arg[t] \notin ViaChannel
       /\ t = ChannelProducer => arg[t] \in ViaChannel \cup {Nil}
  /\ \A t, u \in Producers : t # u /\ arg[t] # Nil => arg[t] # arg[u]

\* Every message on ProduceChannel() is there once and nowhere else.
ChannelInv ==
  /\ \A i \in 1 .. Len(produceChannel) :
       /\ status[produceChannel[i]] = "calling"
       /\ produceChannel[i] # arg[ChannelProducer]
  /\ \A i, j \in 1 .. Len(produceChannel) : i # j => produceChannel[i] # produceChannel[j]

\* What eventPoll() has in hand and has not sent.
Hand(e) == (batch[e] \cup {pend[e].msg}) \cap Msgs

\* A message accepted by librdkafka is in one place at a time.
DisjointInv ==
  /\ \A S \in drq : S \cap inflight = {}
  /\ \A S, T \in drq : S # T => S \cap T = {}
  /\ \A e \in Pollers :
       /\ Hand(e) \cap inflight = {}
       /\ \A S \in drq : Hand(e) \cap S = {}
       /\ pend[e].msg \notin batch[e]
  /\ \A e, f \in Pollers : e # f => Hand(e) \cap Hand(f) = {}

\* Accepted, and its report not sent.
Open(m) == status[m] = "accepted" /\ sent[m] = <<>>

\* Messages librdkafka or eventPoll() still holds.
Live == {m \in Msgs : \/ m \in inflight
                      \/ \E S \in drq : m \in S
                      \/ \E e \in Pollers : m \in Hand(e)}

LiveInv == \A m \in Live : Open(m)

\* Nothing is sent for an undecided message, nor before the report of a refused one.
SentInv ==
  /\ ReportRouting
  /\ \A m \in Msgs : status[m] \in {"new", "calling"} => sent[m] = <<>>
  /\ pc[ChannelProducer] = "report" => sent[arg[ChannelProducer]] = <<>>

\* With the counter at next, p leads through the map to the delivery channel and
\* the opaque of m.
Leads(next, map, p, m) ==
  IF NeedsCgo(m) THEN p \in 1 .. next /\ p \in DOMAIN map /\ map[p] = CgoDr(m) ELSE p = 0

\* Messages that own an entry of the cgo map through their _private pointer,
\* and goroutines that own one through cgoid.
Owners == {m \in Msgs : \/ m \in inflight
                        \/ \E S \in drq : m \in S
                        \/ \E e \in Pollers : m \in batch[e]}
OwnerThreads == {t \in Producers : pc[t] \in {"enqueue", "undo"}}

\* Owners find their own entry ...
CgoLeads ==
  /\ \A m \in Owners : Leads(cgoidNext, cgomap, priv[m], m)
  /\ \A t \in OwnerThreads : Leads(cgoidNext, cgomap, cgoid[t], arg[t])

\* ... and an entry has one owner.
CgoUnique ==
  /\ \A m, n \in Owners : m # n /\ priv[m] # 0 => priv[m] # priv[n]
  /\ \A t, u \in OwnerThreads : t # u /\ cgoid[t] # 0 => cgoid[t] # cgoid[u]
  /\ \A m \in Owners, t \in OwnerThreads : priv[m] # 0 => priv[m] # cgoid[t]

CgoInv == CgoLeads /\ CgoUnique

\* What is about to be sent is the report of the message.
PendInv ==
  \A e \in Pollers :
    /\ epc[e] = "send" => pend[e] # NoPend
    /\ pend[e] # NoPend => /\ pend[e].on = Dest(pend[e].msg)
                           /\ pend[e].opaque = Opaque[pend[e].msg]

\* Inductive: together these say that every step of produce() and eventPoll()
\* keeps a message, its place and its cgo entry in step.
IInv == /\ TypeOK
        /\ ArgInv
        /\ ChannelInv
        /\ DisjointInv
        /\ LiveInv
        /\ SentInv
        /\ CgoInv
        /\ PendInv

-----------------------------------------------------------------------------
(* What CloseSafe, FlushDelivered, NoReportLost and CgoMapExact rest on.     *)

\* Close() shuts one thing after the other, and the two goroutines that it waits
\* for have ended when events is closed.
CloseOrder ==
  /\ "pollerTermChan" \in closed => IsClosed
  /\ "produceChannel" \in closed => "pollerTermChan" \in closed
  /\ "events" \in closed => "produceChannel" \in closed /\ WaitGroupDone
  /\ ~Alive => "events" \in closed

\* What eventPoll() e has left to send is of the event it holds, and none is left
\* outside of the loop over the event's messages.
InHand(e) ==
  /\ epc[e] \notin {"dr", "send"} => batch[e] = {}
  /\ epc[e] # "send" => pend[e] = NoPend
  /\ epc[e] \in {"ret", "event", "term"} => held[e] = {}
  /\ Hand(e) \subseteq held[e]

\* Flush() is in eventPoll() only between FlushHand and FlushPolled.
Polls(f) == fpc[f] # "poll" => epc[f] = "ret"

\* No other call is under way once Close() has begun.
Quiet == Quiesce /\ IsClosed => /\ \A t \in Callers : pc[t] = "idle"
                                /\ \A f \in Flushers : fpc[f] = "idle" \/ FlushReturned(f)

\* Len() has found rd_kafka_outq_len() at zero, and nothing else so far.
FoundEmpty(f) == \/ fpc[f] = "ret0"
                 \/ fpc[f] = "len" /\ "outq" \notin todo[f] /\ ~nonzero[f]

\* After that, none of the messages that were there before Flush() is.
Flushed(f) ==
  /\ \A m \in before[f] : status[m] = "accepted"
  /\ FoundEmpty(f) => before[f] \cap Live = {}

RunInv == /\ CloseOrder
          /\ Quiet
          /\ \A e \in Pollers : InHand(e)
          /\ \A f \in Flushers : Polls(f) /\ Flushed(f)

\* Every message has a channel to be reported on.  (Otherwise eventPoll() returns
\* from the middle of an event.)
AllReported == \A m \in Msgs : Dest(m) # Nil

\* An accepted message is live or reported ...
Reaches == \A m \in Msgs : status[m] = "accepted" => m \in Live \/ sent[m] # <<>>

\* ... and an entry of the cgo map has an owner ...
Owned == \A i \in DOMAIN cgomap : /\ i # 0
                                  /\ \/ \E t \in OwnerThreads : cgoid[t] = i
                                     \/ \E m \in Owners : priv[m] = i

\* ... until Close() tells the poller to stop.
KeptInv == "pollerTermChan" \in closed \/ (Reaches /\ Owned)
=============================================================================
