---------------------------- MODULE BatchProducer ----------------------------
(***************************************************************************)
(* The producer with go.batch.producer: channelBatchProducer() gathers what *)
(* is written to ProduceChannel() by topic and hands each topic's messages  *)
(* to librdkafka in one call; beside it the poller that turns delivery      *)
(* reports into events, Purge() and Close().                                *)
(*                                                                         *)
(* librdkafka is external.  rd_kafka_produce_batch() takes the messages one *)
(* by one, waits for room in its queue, and returns how many it took; or it *)
(* returns -1 and takes none.                                               *)
(***************************************************************************)
EXTENDS Naturals, Sequences, FiniteSets

CONSTANTS
  Msgs,          \* the messages of the application
  TopicOf,       \* the topic of each
  Refused,       \* those librdkafka does not take (too large, say)
  BatchErrors,   \* may rd_kafka_produce_batch() return -1?
  ChannelSize,   \* go.produce.channel.size
  BatchSize,     \* messages gathered before a batch is sent (1,000,000 in the code)
  EventsSize,    \* go.events.channel.size
  QueueMax       \* queue.buffering.max.messages

Topics == {TopicOf[m] : m \in Msgs}

ASSUME BatchConstants ==
  /\ Refused \subseteq Msgs /\ BatchErrors \in BOOLEAN
  /\ {ChannelSize, BatchSize, EventsSize, QueueMax} \subseteq Nat \ {0}

VARIABLES
  \* struct Producer
  isClosed, produceChannel, channelClosed, pollerTerm, eventCh, eventsClosed,
  \* channelBatchProducer: where it is, its map and how many are in it, the topics
  \* its loop has still to do, what is left of the call in progress, messages to
  \* send back
  bpc, buffered, bufferedCnt, topicsLeft, batch, failing,
  \* the poller: whether it runs
  polling,
  \* librdkafka: messages waiting, sent, and in delivery reports
  queued, inflight, reports, destroyed,
  \* Close() and the application
  closePc, purged,
  \* history: messages in the order they were written and the order librdkafka
  \* took them, those it left out of a batch, what the application received
  written, taken, leftOut, received

chans == <<isClosed, produceChannel, channelClosed, pollerTerm, eventsClosed>>
batcher == <<bpc, buffered, bufferedCnt, topicsLeft, batch, failing>>
rkafka == <<queued, inflight, reports, destroyed>>
bhist == <<written, taken, leftOut, received>>
bvars == <<chans, eventCh, batcher, polling, rkafka, closePc, purged, bhist>>

\* The sequences that have each element of S once.
InSomeOrder(S) == {s \in [1 .. Cardinality(S) -> S] : \A i, j \in DOMAIN s : s[i] = s[j] => i = j}

NoneBuffered == [t \in Topics |-> <<>>]
InQueue == Len(queued) + Cardinality(inflight) + Len(reports)

BInit ==
  /\ isClosed = FALSE /\ produceChannel = <<>> /\ channelClosed = FALSE
  /\ pollerTerm = FALSE /\ eventCh = <<>> /\ eventsClosed = FALSE
  /\ bpc = "range" /\ buffered = NoneBuffered /\ bufferedCnt = 0 /\ topicsLeft = {} /\ batch = <<>> /\ failing = <<>>
  /\ polling = TRUE
  /\ queued = <<>> /\ inflight = {} /\ reports = <<>> /\ destroyed = FALSE
  /\ closePc = "open" /\ purged = FALSE
  /\ written = <<>> /\ taken = NoneBuffered /\ leftOut = {} /\ received = {}

BGoto(l) == bpc' = l

-----------------------------------------------------------------------------
(* The application writes to ProduceChannel() and reads Events().            *)
Write(m) ==
  /\ ~isClosed
  /\ \A i \in 1 .. Len(written) : written[i] # m
  /\ Len(produceChannel) < ChannelSize
  /\ produceChannel' = Append(produceChannel, m)
  /\ written' = Append(written, m)
  /\ UNCHANGED <<isClosed, channelClosed, pollerTerm, eventsClosed, eventCh, batcher, polling, rkafka,
                 closePc, purged, taken, leftOut, received>>

ReadEvents ==
  /\ eventCh # <<>>
  /\ eventCh' = Tail(eventCh)
  /\ received' = received \cup {Head(eventCh)}
  /\ UNCHANGED <<chans, batcher, polling, rkafka, closePc, purged, written, taken, leftOut>>

-----------------------------------------------------------------------------
(* channelBatchProducer()                                                    *)
\* (GatherFirst: a message is put before those of its topic.)
GatherFirst ==
  /\ bpc \in {"range", "select"} /\ produceChannel # <<>>
  /\ produceChannel' = Tail(produceChannel)
  /\ buffered' = [buffered EXCEPT ![TopicOf[Head(produceChannel)]] = <<Head(produceChannel)>> \o @]
  /\ bufferedCnt' = bufferedCnt + 1
  /\ IF bpc = "select" /\ bufferedCnt' >= BatchSize
     THEN BGoto("topics") /\ topicsLeft' = {t \in Topics : buffered'[t] # <<>>}
     ELSE BGoto("select") /\ UNCHANGED topicsLeft
  /\ UNCHANGED <<isClosed, channelClosed, pollerTerm, eventsClosed, eventCh, batch, failing, polling, rkafka,
                 closePc, purged, bhist>>

\* A message is received and appended to its topic's, by the range over the
\* channel or by the select inside it, which goes on until a batch is full ...
Gather ==
  /\ bpc \in {"range", "select"} /\ produceChannel # <<>>
  /\ produceChannel' = Tail(produceChannel)
  /\ buffered' = [buffered EXCEPT ![TopicOf[Head(produceChannel)]] = Append(@, Head(produceChannel))]
  /\ bufferedCnt' = bufferedCnt + 1
  /\ IF bpc = "select" /\ bufferedCnt' >= BatchSize
     THEN BGoto("topics") /\ topicsLeft' = {t \in Topics : buffered'[t] # <<>>}
     ELSE BGoto("select") /\ UNCHANGED topicsLeft
  /\ UNCHANGED <<isClosed, channelClosed, pollerTerm, eventsClosed, eventCh, batch, failing, polling, rkafka,
                 closePc, purged, bhist>>

\* (SelectWaits: the select has no default.)
SelectWaits ==
  /\ bpc = "select" /\ produceChannel = <<>> /\ channelClosed
  /\ BGoto("topics")
  /\ topicsLeft' = {t \in Topics : buffered[t] # <<>>}
  /\ UNCHANGED <<chans, eventCh, buffered, bufferedCnt, batch, failing, polling, rkafka, closePc, purged, bhist>>

\* ... or the channel is empty or closed.
SelectDefault ==
  /\ bpc = "select" /\ produceChannel = <<>>
  /\ BGoto("topics")
  /\ topicsLeft' = {t \in Topics : buffered[t] # <<>>}
  /\ UNCHANGED <<chans, eventCh, buffered, bufferedCnt, batch, failing, polling, rkafka, closePc, purged, bhist>>

\* The range ends when the channel is closed and drained.
RangeEnds ==
  /\ bpc = "range" /\ channelClosed /\ produceChannel = <<>>
  /\ BGoto("done")
  /\ UNCHANGED <<chans, eventCh, buffered, bufferedCnt, topicsLeft, batch, failing, polling, rkafka, closePc, purged, bhist>>

\* produceBatch() for one topic, in the order of the map: none in particular.
ProduceBatch(t) ==
  /\ bpc = "topics" /\ t \in topicsLeft
  /\ topicsLeft' = topicsLeft \ {t}
  /\ \/ BGoto("call") /\ batch' = buffered[t] /\ UNCHANGED failing
     \/ BatchErrors /\ BGoto("fail") /\ failing' = buffered[t] /\ UNCHANGED batch
  /\ UNCHANGED <<chans, eventCh, buffered, bufferedCnt, polling, rkafka, closePc, purged, bhist>>

\* rd_kafka_produce_batch(): the next message is taken, with F_BLOCK once there
\* is room for it, or left out of what is counted.
TakeMessage ==
  /\ bpc = "call" /\ batch # <<>>
  /\ batch' = Tail(batch)
  /\ IF Head(batch) \in Refused
     THEN leftOut' = leftOut \cup {Head(batch)} /\ UNCHANGED <<queued, taken>>
     ELSE /\ InQueue < QueueMax
          /\ queued' = Append(queued, Head(batch))
          /\ taken' = [taken EXCEPT ![TopicOf[Head(batch)]] = Append(@, Head(batch))]
          /\ UNCHANGED leftOut
  /\ UNCHANGED <<chans, eventCh, bpc, buffered, bufferedCnt, topicsLeft, failing, polling, inflight, reports, destroyed,
                 closePc, purged, written, received>>

\* It returns their number, which is no error.
BatchReturns ==
  /\ bpc = "call" /\ batch = <<>>
  /\ BGoto("topics")
  /\ UNCHANGED <<chans, eventCh, buffered, bufferedCnt, topicsLeft, batch, failing, polling, rkafka, closePc, purged, bhist>>

\* After an error every message of the batch is sent on Events().
SendBack ==
  /\ bpc = "fail" /\ failing # <<>>
  /\ Len(eventCh) < EventsSize
  /\ eventCh' = Append(eventCh, Head(failing))
  /\ failing' = Tail(failing)
  /\ UNCHANGED <<chans, bpc, buffered, bufferedCnt, topicsLeft, batch, polling, rkafka, closePc, purged, bhist>>

SendBackDone ==
  /\ bpc = "fail" /\ failing = <<>>
  /\ BGoto("topics")
  /\ UNCHANGED <<chans, eventCh, buffered, bufferedCnt, topicsLeft, batch, failing, polling, rkafka, closePc, purged, bhist>>

\* (ResetNot: the map is not made anew.)
ResetNot ==
  /\ bpc = "topics" /\ topicsLeft = {}
  /\ BGoto("range")
  /\ UNCHANGED <<chans, eventCh, buffered, bufferedCnt, topicsLeft, batch, failing, polling, rkafka, closePc, purged, bhist>>

\* All topics are done: the map is made anew and the range goes on.
Reset ==
  /\ bpc = "topics" /\ topicsLeft = {}
  /\ BGoto("range")
  /\ buffered' = NoneBuffered /\ bufferedCnt' = 0
  /\ UNCHANGED <<chans, eventCh, topicsLeft, batch, failing, polling, rkafka, closePc, purged, bhist>>

-----------------------------------------------------------------------------
(* The poller: eventPoll() on behalf of poller().                            *)
PollReport ==
  /\ polling /\ reports # <<>>
  /\ Len(eventCh) < EventsSize
  /\ eventCh' = Append(eventCh, Head(reports))
  /\ reports' = Tail(reports)
  /\ UNCHANGED <<chans, batcher, polling, queued, inflight, destroyed, closePc, purged, bhist>>

\* It stops when pollerTermChan is closed; a report it was sending is dropped.
PollerStops ==
  /\ polling /\ pollerTerm
  /\ polling' = FALSE
  /\ \/ UNCHANGED reports
     \/ reports # <<>> /\ reports' = Tail(reports)
  /\ UNCHANGED <<chans, eventCh, batcher, queued, inflight, destroyed, closePc, purged, bhist>>

-----------------------------------------------------------------------------
(* librdkafka: a message is sent, and its outcome reported.                  *)
RkSend ==
  /\ queued # <<>> /\ ~destroyed
  /\ queued' = Tail(queued)
  /\ inflight' = inflight \cup {Head(queued)}
  /\ UNCHANGED <<chans, eventCh, batcher, polling, reports, destroyed, closePc, purged, bhist>>

RkReport(m) ==
  /\ m \in inflight /\ ~destroyed
  /\ inflight' = inflight \ {m}
  /\ reports' = Append(reports, m)
  /\ UNCHANGED <<chans, eventCh, batcher, polling, queued, destroyed, closePc, purged, bhist>>

\* Purge(): what waits, or what is on its way, is reported as purged.  What the
\* batch producer still holds is not reached.
Purge(flags) ==
  /\ ~isClosed /\ ~purged
  /\ purged' = TRUE
  /\ LET waiting == IF "queue" \in flags THEN queued ELSE <<>>
         flying == IF "inflight" \in flags THEN inflight ELSE {}
     IN /\ queued' = IF "queue" \in flags THEN <<>> ELSE queued
        /\ inflight' = inflight \ flying
        /\ \E sent \in InSomeOrder(flying) : reports' = reports \o waiting \o sent
  /\ UNCHANGED <<chans, eventCh, batcher, polling, destroyed, closePc, bhist>>

-----------------------------------------------------------------------------
(* Close(): the poller is told first, then the channel is closed.            *)
CloseTerm ==
  /\ ~isClosed
  /\ isClosed' = TRUE /\ pollerTerm' = TRUE
  /\ closePc' = "term"
  /\ UNCHANGED <<produceChannel, channelClosed, eventsClosed, eventCh, batcher, polling, rkafka, purged, bhist>>

CloseChannel ==
  /\ closePc = "term"
  /\ channelClosed' = TRUE
  /\ closePc' = "join"
  /\ UNCHANGED <<isClosed, produceChannel, pollerTerm, eventsClosed, eventCh, batcher, polling, rkafka, purged, bhist>>

CloseJoin ==
  /\ closePc = "join"
  /\ ~polling /\ bpc = "done"
  /\ eventsClosed' = TRUE
  /\ closePc' = "destroy"
  /\ UNCHANGED <<isClosed, produceChannel, channelClosed, pollerTerm, eventCh, batcher, polling, rkafka, purged, bhist>>

CloseDestroy ==
  /\ closePc = "destroy"
  /\ destroyed' = TRUE
  /\ closePc' = "closed"
  /\ UNCHANGED <<chans, eventCh, batcher, polling, queued, inflight, reports, purged, bhist>>

-----------------------------------------------------------------------------
Batcher ==
  \/ Gather \/ SelectDefault \/ RangeEnds
  \/ \E t \in Topics : ProduceBatch(t)
  \/ TakeMessage \/ BatchReturns \/ SendBack \/ SendBackDone \/ Reset

Closer == CloseChannel \/ CloseJoin \/ CloseDestroy

BNext ==
  \/ \E m \in Msgs : Write(m) \/ RkReport(m)
  \/ ReadEvents
  \/ Batcher
  \/ PollReport \/ PollerStops
  \/ RkSend
  \/ \E flags \in SUBSET {"queue", "inflight"} : Purge(flags)
  \/ CloseTerm \/ Closer

BSpec == BInit /\ [][BNext]_bvars

\* The goroutines go on, librdkafka sends and reports, and the application reads
\* its events.
BFair ==
  /\ WF_bvars(Batcher) /\ WF_bvars(PollReport) /\ WF_bvars(PollerStops) /\ WF_bvars(Closer)
  /\ WF_bvars(RkSend) /\ \A m \in Msgs : WF_bvars(RkReport(m))
  /\ WF_bvars(ReadEvents)

-----------------------------------------------------------------------------
\* What is in the map.
Gathered == UNION {{t} \X (1 .. Len(buffered[t])) : t \in Topics}

\* Types; the channels and librdkafka's queue keep to their limits, the messages in
\* the map are counted, and no more are gathered than a batch may have
\* (producer.go:630-660).
BTypeOK ==
  /\ bpc \in {"range", "select", "topics", "call", "fail", "done"}
  /\ buffered \in [Topics -> Seq(Msgs)]
  /\ bufferedCnt = Cardinality(Gathered) /\ bufferedCnt <= (IF BatchSize = 1 THEN 2 ELSE BatchSize)
  /\ Len(produceChannel) <= ChannelSize /\ Len(eventCh) <= EventsSize
  /\ InQueue <= QueueMax

\* The topics whose messages the batch producer has still to hand over.
Waiting == IF bpc = "select" THEN Topics ELSE topicsLeft

\* Where a message is between the channel and the application.
Lines == [channel |-> produceChannel, batch |-> batch, failing |-> failing, queued |-> queued,
          reports |-> reports, events |-> eventCh]
Sets == [inflight |-> inflight, leftOut |-> leftOut, received |-> received]
At(s, m) == {i \in 1 .. Len(s) : s[i] = m}
Places(m) ==
  (UNION {{<<"line", n, i>> : i \in At(Lines[n], m)} : n \in DOMAIN Lines})
    \cup (UNION {{<<"map", t, i>> : i \in At(buffered[t], m)} : t \in Waiting})
    \cup {<<"set", n, 0>> : n \in {n \in DOMAIN Sets : m \in Sets[n]}}

\* A message written to ProduceChannel() is in one place until the application has
\* received it as an event: it is neither lost nor doubled, but for those that
\* rd_kafka_produce_batch() leaves out of its count (producer.go:328-332) and the
\* report the poller has in its hands when Close() stops it.
InOnePlace ==
  LET lost == {i \in 1 .. Len(written) : Places(written[i]) = {}}
  IN /\ \A i \in 1 .. Len(written) : \A p, q \in Places(written[i]) : p = q
     /\ \A i, j \in lost : ~polling /\ i = j

\* The messages of a topic reach librdkafka in the order they were written, over
\* all batches (producer.go:637, 653, 666).
TopicOrder ==
  \A t \in Topics : \A i, j \in 1 .. Len(taken[t]) :
    i < j => \E k, l \in 1 .. Len(written) : k < l /\ written[k] = taken[t][i] /\ written[l] = taken[t][j]

\* When Close() closes the events channel everything that was on ProduceChannel()
\* has been handed over or sent back, and nobody is about to send another event
\* (producer.go:412-418).
CloseDrains ==
  eventsClosed => /\ produceChannel = <<>> /\ batch = <<>> /\ failing = <<>>
                  /\ \A t \in Waiting : buffered[t] = <<>>
                  /\ bpc = "done" /\ ~polling

\* Every message is accounted for at every moment, batch limits and channel limits
\* are kept, and Close() leaves nothing behind.
Accounted == BTypeOK /\ InOnePlace /\ CloseDrains

\* The application hears of every message, delivered, failed, purged or sent back,
\* if librdkafka took it or refused the whole batch, and Close() is not called.
Heard ==
  \A m \in Msgs : (\E i \in 1 .. Len(written) : written[i] = m)
                    ~> (m \in received \cup leftOut \/ isClosed)

\* librdkafka's queue is full of messages nobody polls any more, and the batch
\* producer waits for room.
Stuck == /\ ~polling /\ bpc = "call" /\ batch # <<>>
         /\ InQueue = QueueMax

\* Close() returns, whatever is on its way, but for one case: it has stopped the
\* poller before the queue had room for the rest of the channel (producer.go:414-416).
BatchCloseReturns == closePc = "term" ~> (closePc = "closed" \/ Stuck)

\* What was written to ProduceChannel() is heard of, and Close() returns.
BatchProgress == Heard /\ BatchCloseReturns
=============================================================================
