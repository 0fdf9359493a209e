----------------------------- MODULE BatchProofs -----------------------------
(***************************************************************************)
(* For any messages and topics, any limits of the channels and of          *)
(* librdkafka's queue, and any batch size: what is written to the channel  *)
(* of a batching producer is in one place until the application has        *)
(* received it, and reaches librdkafka in the order it was written.        *)
(***************************************************************************)
EXTENDS BatchProducer, FiniteSetTheorems, TLAPS

USE Zenon

-----------------------------------------------------------------------------
(* Sequences of messages.                                                   *)
Has(s, m) == \E i \in 1 .. Len(s) : s[i] = m
Once(s) == \A i, j \in 1 .. Len(s) : s[i] = s[j] => i = j

\* In w, a is ahead of b; s is in the order of w; all of r is ahead of all of s.
Ahead(w, a, b) == \E k, l \in 1 .. Len(w) : k < l /\ w[k] = a /\ w[l] = b
Sorted(w, s) == \A i, j \in 1 .. Len(s) : i < j => Ahead(w, s[i], s[j])
Precedes(w, r, s) == \A a, b : Has(r, a) /\ Has(s, b) => Ahead(w, a, b)

-----------------------------------------------------------------------------
(* The inductive invariant.                                                 *)

Types ==
  /\ {produceChannel, eventCh, batch, failing, queued, reports, written} \subseteq Seq(Msgs)
  /\ buffered \in [Topics -> Seq(Msgs)] /\ taken \in [Topics -> Seq(Msgs)]
  /\ topicsLeft \subseteq Topics /\ inflight \subseteq Msgs /\ IsFiniteSet(inflight)
  /\ bpc \in {"range", "select", "topics", "call", "fail", "done"}
  /\ bufferedCnt \in Nat

\* Where the batch producer is in its loops.
Phases ==
  /\ bpc = "range" => \A t \in Topics : buffered[t] = <<>>
  /\ bpc \in {"range", "select", "done"} => topicsLeft = {}
  /\ bpc # "call" => batch = <<>>
  /\ bpc # "fail" => failing = <<>>
  /\ bpc = "done" => channelClosed /\ produceChannel = <<>>
  /\ closePc # "open" => isClosed
  /\ channelClosed => isClosed
  /\ eventsClosed => bpc = "done" /\ ~polling

\* The messages in the map are counted.
Counts ==
  /\ IsFiniteSet(Gathered) /\ bufferedCnt = Cardinality(Gathered)
  /\ bpc = "range" => bufferedCnt = 0
  /\ bpc = "select" => bufferedCnt = 1 \/ bufferedCnt < BatchSize
  /\ bufferedCnt <= (IF BatchSize = 1 THEN 2 ELSE BatchSize)

Limits ==
  /\ Len(produceChannel) <= ChannelSize /\ Len(eventCh) <= EventsSize
  /\ InQueue <= QueueMax

\* The message m is in the place n.
Here(n, m) ==
  \/ n = "channel" /\ Has(produceChannel, m)
  \/ n = "map" /\ \E t \in Waiting : Has(buffered[t], m)
  \/ n = "batch" /\ Has(batch, m)
  \/ n = "failing" /\ Has(failing, m)
  \/ n = "queued" /\ Has(queued, m)
  \/ n = "reports" /\ Has(reports, m)
  \/ n = "events" /\ Has(eventCh, m)
  \/ n = "inflight" /\ m \in inflight
  \/ n = "leftOut" /\ m \in leftOut
  \/ n = "received" /\ m \in received

Lost(m) == Has(written, m) /\ \A n : ~Here(n, m)

\* A message is in one place, in which only written ones are, and one may be lost.
OnePlace ==
  /\ \A m, n, o : Here(n, m) /\ Here(o, m) => n = o
  /\ \A m, n : Here(n, m) => Has(written, m)
  /\ \A m, o : Lost(m) /\ Lost(o) => ~polling /\ m = o

\* ... and there once.
NoDoubles ==
  /\ Once(written) /\ Once(produceChannel) /\ Once(batch) /\ Once(failing)
  /\ Once(queued) /\ Once(reports) /\ Once(eventCh)
  /\ \A t \in Waiting : Once(buffered[t])

\* The map has the messages of each topic, and the call in progress is for a topic that
\* is done with.
ByTopic ==
  /\ \A t \in Waiting : \A m : Has(buffered[t], m) => TopicOf[m] = t
  /\ \A m : Has(batch, m) => TopicOf[m] \notin topicsLeft

\* Of one topic, what librdkafka has taken was written before the rest of the call in
\* progress or what the map has still to hand over, and these before what is in the
\* channel.
InOrder ==
  /\ Sorted(written, produceChannel) /\ Sorted(written, batch)
  /\ \A t \in Waiting : Sorted(written, buffered[t])
  /\ \A t \in Topics : Sorted(written, taken[t])
  /\ Precedes(written, batch, produceChannel)
  /\ \A t \in Waiting : Precedes(written, buffered[t], produceChannel)
  /\ \A t \in Topics : Precedes(written, taken[t], produceChannel)
  /\ \A t \in Waiting : Precedes(written, taken[t], buffered[t])
  /\ \A a, m : Has(batch, m) /\ Has(taken[TopicOf[m]], a) => Ahead(written, a, m)
  /\ \A t \in Topics : \A m : Has(taken[t], m) => Has(written, m)

BatchInv == Types /\ Phases /\ Counts /\ Limits /\ OnePlace /\ NoDoubles /\ ByTopic /\ InOrder

-----------------------------------------------------------------------------
(* Facts about sequences.                                                   *)

\* The empty sequence has nothing.
LEMMA HasEmpty ==
  /\ \A m : ~Has(<<>>, m)
  /\ Once(<<>>)
  /\ \A w : Sorted(w, <<>>)
<1>1. \A i : i \notin 1 .. Len(<<>>)  BY SMT
<1> QED  BY <1>1 DEF Has, Once, Sorted

\* A sequence that has nothing is empty.
LEMMA HasNothing ==
  ASSUME NEW S, NEW s \in Seq(S), \A m : ~Has(s, m)
  PROVE  s = <<>>
<1>1. \A i \in 1 .. Len(s) : FALSE  BY DEF Has
<1> QED  BY <1>1, SMT

\* The first message of a sequence, and the rest.
LEMMA HasTail ==
  ASSUME NEW S, NEW s \in Seq(S), s # <<>>
  PROVE  /\ Head(s) \in S /\ Tail(s) \in Seq(S)
         /\ Len(Tail(s)) = Len(s) - 1 /\ Len(s) \in Nat
         /\ Has(s, Head(s))
         /\ \A m : Has(s, m) <=> m = Head(s) \/ Has(Tail(s), m)
<1>1. /\ Head(s) \in S /\ Tail(s) \in Seq(S) /\ Len(Tail(s)) = Len(s) - 1
      /\ Head(s) = s[1] /\ Len(s) \in Nat /\ Len(s) > 0
      /\ \A i \in 1 .. Len(Tail(s)) : Tail(s)[i] = s[i + 1] /\ i + 1 \in 1 .. Len(s)
      /\ \A i \in 1 .. Len(s) : i = 1 \/ (i - 1 \in 1 .. Len(Tail(s)) /\ i = i - 1 + 1)
  BY SMT
<1>2. 1 \in 1 .. Len(s)  BY <1>1, SMT
<1>3. ASSUME NEW m, Has(s, m), m # Head(s)  PROVE Has(Tail(s), m)
  <2>1. PICK i \in 1 .. Len(s) : s[i] = m  BY <1>3 DEF Has
  <2>2. i # 1  BY <2>1, <1>1, <1>3
  <2>3. i - 1 \in 1 .. Len(Tail(s)) /\ Tail(s)[i - 1] = s[i]  BY <2>2, <1>1
  <2> QED  BY <2>1, <2>3 DEF Has
<1>4. ASSUME NEW m, Has(Tail(s), m)  PROVE Has(s, m)  BY <1>4, <1>1 DEF Has
<1>5. Has(s, Head(s))  BY <1>1, <1>2 DEF Has
<1> QED  BY <1>1, <1>3, <1>4, <1>5

\* ... when nothing is in it twice.
LEMMA OnceTail ==
  ASSUME NEW S, NEW s \in Seq(S), s # <<>>, Once(s)
  PROVE  Once(Tail(s)) /\ ~Has(Tail(s), Head(s))
<1>1. /\ Head(s) = s[1] /\ 1 \in 1 .. Len(s)
      /\ \A i \in 1 .. Len(Tail(s)) : Tail(s)[i] = s[i + 1] /\ i + 1 \in 1 .. Len(s) /\ i + 1 # 1
      /\ \A i, j \in 1 .. Len(Tail(s)) : i + 1 = j + 1 => i = j
  BY SMT
<1>2. ASSUME NEW i \in 1 .. Len(Tail(s)), NEW j \in 1 .. Len(Tail(s)), Tail(s)[i] = Tail(s)[j]  PROVE i = j
  <2>1. s[i + 1] = s[j + 1] /\ i + 1 \in 1 .. Len(s) /\ j + 1 \in 1 .. Len(s)  BY <1>1, <1>2
  <2>2. i + 1 = j + 1  BY <2>1 DEF Once
  <2> QED  BY <2>2, <1>1
<1>3. ASSUME NEW i \in 1 .. Len(Tail(s))  PROVE Tail(s)[i] # Head(s)
  <2>1. Tail(s)[i] = s[i + 1] /\ i + 1 \in 1 .. Len(s) /\ i + 1 # 1  BY <1>1
  <2> QED  BY <2>1, <1>1 DEF Once
<1> QED  BY <1>2, <1>3 DEF Once, Has

\* ... and when it is in order.
LEMMA SortedTail ==
  ASSUME NEW S, NEW s \in Seq(S), s # <<>>, NEW w, Sorted(w, s)
  PROVE  Sorted(w, Tail(s)) /\ \A m : Has(Tail(s), m) => Ahead(w, Head(s), m)
<1>1. /\ Head(s) = s[1] /\ 1 \in 1 .. Len(s)
      /\ \A i \in 1 .. Len(Tail(s)) : Tail(s)[i] = s[i + 1] /\ i + 1 \in 1 .. Len(s) /\ 1 < i + 1
      /\ \A i, j \in 1 .. Len(Tail(s)) : i < j => i + 1 < j + 1
  BY SMT
<1>2. ASSUME NEW i \in 1 .. Len(Tail(s)), NEW j \in 1 .. Len(Tail(s)), i < j
      PROVE Ahead(w, Tail(s)[i], Tail(s)[j])
  <2>1. i + 1 \in 1 .. Len(s) /\ j + 1 \in 1 .. Len(s) /\ i + 1 < j + 1  BY <1>1, <1>2
  <2>2. Ahead(w, s[i + 1], s[j + 1])  BY <2>1 DEF Sorted
  <2> QED  BY <2>2, <1>1
<1>3. ASSUME NEW m, Has(Tail(s), m)  PROVE Ahead(w, Head(s), m)
  <2>1. PICK i \in 1 .. Len(Tail(s)) : Tail(s)[i] = m  BY <1>3 DEF Has
  <2>2. i + 1 \in 1 .. Len(s) /\ 1 < i + 1 /\ s[i + 1] = m  BY <2>1, <1>1
  <2>3. Ahead(w, s[1], s[i + 1])  BY <2>2, <1>1 DEF Sorted
  <2> QED  BY <2>2, <2>3, <1>1
<1> QED  BY <1>2, <1>3 DEF Sorted

\* A message at the end of a sequence.
LEMMA HasAppend ==
  ASSUME NEW S, NEW s \in Seq(S), NEW x \in S
  PROVE  /\ Append(s, x) \in Seq(S) /\ Len(Append(s, x)) = Len(s) + 1 /\ Len(s) \in Nat
         /\ \A m : Has(Append(s, x), m) <=> m = x \/ Has(s, m)
<1>1. /\ Append(s, x) \in Seq(S) /\ Len(Append(s, x)) = Len(s) + 1 /\ Len(s) \in Nat
      /\ \A i \in 1 .. Len(s) : Append(s, x)[i] = s[i] /\ i \in 1 .. Len(Append(s, x))
      /\ Append(s, x)[Len(s) + 1] = x /\ Len(s) + 1 \in 1 .. Len(Append(s, x))
      /\ \A i \in 1 .. Len(Append(s, x)) : i = Len(s) + 1 \/ i \in 1 .. Len(s)
  BY SMT
<1>2. ASSUME NEW m, Has(Append(s, x), m), m # x  PROVE Has(s, m)
  <2>1. PICK i \in 1 .. Len(Append(s, x)) : Append(s, x)[i] = m  BY <1>2 DEF Has
  <2>2. i \in 1 .. Len(s)  BY <2>1, <1>1, <1>2
  <2> QED  BY <2>1, <2>2, <1>1 DEF Has
<1>3. ASSUME NEW m, Has(s, m)  PROVE Has(Append(s, x), m)
  <2>1. PICK i \in 1 .. Len(s) : s[i] = m  BY <1>3 DEF Has
  <2> QED  BY <2>1, <1>1 DEF Has
<1>4. Has(Append(s, x), x)  BY <1>1 DEF Has
<1> QED  BY <1>1, <1>2, <1>3, <1>4

LEMMA OnceAppend ==
  ASSUME NEW S, NEW s \in Seq(S), NEW x \in S, Once(s), ~Has(s, x)
  PROVE  Once(Append(s, x))
<1>1. /\ \A i \in 1 .. Len(s) : Append(s, x)[i] = s[i]
      /\ Append(s, x)[Len(s) + 1] = x
      /\ \A i \in 1 .. Len(Append(s, x)) : i = Len(s) + 1 \/ i \in 1 .. Len(s)
  BY SMT
<1>2. SUFFICES ASSUME NEW i \in 1 .. Len(Append(s, x)), NEW j \in 1 .. Len(Append(s, x)),
                      Append(s, x)[i] = Append(s, x)[j]
               PROVE  i = j
  BY DEF Once
<1>3. CASE i \in 1 .. Len(s) /\ j \in 1 .. Len(s)  BY <1>2, <1>3, <1>1 DEF Once
<1>4. CASE i = Len(s) + 1 /\ j \in 1 .. Len(s)
  <2>1. s[j] = x  BY <1>2, <1>4, <1>1
  <2> QED  BY <2>1, <1>4 DEF Has
<1>5. CASE j = Len(s) + 1 /\ i \in 1 .. Len(s)
  <2>1. s[i] = x  BY <1>2, <1>5, <1>1
  <2> QED  BY <2>1, <1>5 DEF Has
<1>6. CASE i = Len(s) + 1 /\ j = Len(s) + 1  BY <1>6
<1> QED  BY <1>3, <1>4, <1>5, <1>6, <1>1

LEMMA SortedAppend ==
  ASSUME NEW S, NEW s \in Seq(S), NEW x \in S, NEW w, Sorted(w, s),
         \A m : Has(s, m) => Ahead(w, m, x)
  PROVE  Sorted(w, Append(s, x))
<1>1. /\ \A i \in 1 .. Len(s) : Append(s, x)[i] = s[i]
      /\ Append(s, x)[Len(s) + 1] = x
      /\ \A i, j \in 1 .. Len(Append(s, x)) : i < j => i \in 1 .. Len(s) /\ (j = Len(s) + 1 \/ j \in 1 .. Len(s))
  BY SMT
<1>2. SUFFICES ASSUME NEW i \in 1 .. Len(Append(s, x)), NEW j \in 1 .. Len(Append(s, x)), i < j
               PROVE  Ahead(w, Append(s, x)[i], Append(s, x)[j])
  BY DEF Sorted
<1>3. i \in 1 .. Len(s)  BY <1>1, <1>2
<1>4. CASE j \in 1 .. Len(s)
  <2>1. Ahead(w, s[i], s[j])  BY <1>2, <1>3, <1>4 DEF Sorted
  <2> QED  BY <2>1, <1>1, <1>3, <1>4
<1>5. CASE j = Len(s) + 1
  <2>1. Has(s, s[i])  BY <1>3 DEF Has
  <2>2. Ahead(w, s[i], x)  BY <2>1
  <2> QED  BY <2>2, <1>1, <1>3, <1>5
<1> QED  BY <1>1, <1>2, <1>4, <1>5

\* The positions of a sequence after another.
LEMMA Concatenation ==
  ASSUME NEW S, NEW r \in Seq(S), NEW s \in Seq(S)
  PROVE  /\ r \o s \in Seq(S) /\ Len(r \o s) = Len(r) + Len(s) /\ Len(r) \in Nat /\ Len(s) \in Nat
         /\ \A i \in 1 .. Len(r) : (r \o s)[i] = r[i] /\ i \in 1 .. Len(r \o s)
         /\ \A i \in 1 .. Len(s) : (r \o s)[Len(r) + i] = s[i] /\ Len(r) + i \in 1 .. Len(r \o s)
         /\ \A k \in 1 .. Len(r \o s) :
              k \in 1 .. Len(r) \/ (k - Len(r) \in 1 .. Len(s) /\ (r \o s)[k] = s[k - Len(r)])
         /\ \A k, l \in 1 .. Len(r \o s) : k - Len(r) = l - Len(r) => k = l
<1>1. r \o s \in Seq(S) /\ Len(r \o s) = Len(r) + Len(s) /\ Len(r) \in Nat /\ Len(s) \in Nat  BY SMT
<1>2. \A i \in 1 .. Len(r) : (r \o s)[i] = r[i]  BY SMT
<1>3. \A i \in 1 .. Len(s) : (r \o s)[Len(r) + i] = s[i]  BY SMT
<1>4. \A i \in 1 .. Len(r) : i \in 1 .. Len(r \o s)  BY <1>1, SMT
<1>5. \A i \in 1 .. Len(s) : Len(r) + i \in 1 .. Len(r \o s)  BY <1>1, SMT
<1>6. \A k, l \in 1 .. Len(r \o s) : k - Len(r) = l - Len(r) => k = l  BY <1>1, SMT
<1>7. \A k \in 1 .. Len(r \o s) : k \in 1 .. Len(r) \/ (k - Len(r) \in 1 .. Len(s) /\ Len(r) + (k - Len(r)) = k)
  BY <1>1, SMT
<1>9. \A i \in 1 .. Len(r) : (r \o s)[i] = r[i] /\ i \in 1 .. Len(r \o s)  BY <1>2, <1>4
<1>10. \A i \in 1 .. Len(s) : (r \o s)[Len(r) + i] = s[i] /\ Len(r) + i \in 1 .. Len(r \o s)  BY <1>3, <1>5
<1>11. \A k \in 1 .. Len(r \o s) :
         k \in 1 .. Len(r) \/ (k - Len(r) \in 1 .. Len(s) /\ (r \o s)[k] = s[k - Len(r)])
  <2> TAKE k \in 1 .. Len(r \o s)
  <2>1. k - Len(r) \in 1 .. Len(s) /\ Len(r) + (k - Len(r)) = k => (r \o s)[k] = s[k - Len(r)]  BY <1>3
  <2> QED  BY <2>1, <1>7
<1> QED  BY <1>1, <1>6, <1>9, <1>10, <1>11

\* A sequence after another.
LEMMA HasConcat ==
  ASSUME NEW S, NEW r \in Seq(S), NEW s \in Seq(S)
  PROVE  /\ r \o s \in Seq(S) /\ Len(r \o s) = Len(r) + Len(s) /\ Len(r) \in Nat /\ Len(s) \in Nat
         /\ \A m : Has(r \o s, m) <=> Has(r, m) \/ Has(s, m)
<1>1. /\ r \o s \in Seq(S) /\ Len(r \o s) = Len(r) + Len(s) /\ Len(r) \in Nat /\ Len(s) \in Nat
      /\ \A i \in 1 .. Len(r) : (r \o s)[i] = r[i] /\ i \in 1 .. Len(r \o s)
      /\ \A i \in 1 .. Len(s) : (r \o s)[Len(r) + i] = s[i] /\ Len(r) + i \in 1 .. Len(r \o s)
      /\ \A k \in 1 .. Len(r \o s) :
           k \in 1 .. Len(r) \/ (k - Len(r) \in 1 .. Len(s) /\ (r \o s)[k] = s[k - Len(r)])
  BY Concatenation
<1>2. ASSUME NEW m, Has(r, m)  PROVE Has(r \o s, m)
  <2>1. PICK i \in 1 .. Len(r) : r[i] = m  BY <1>2 DEF Has
  <2> QED  BY <2>1, <1>1 DEF Has
<1>3. ASSUME NEW m, Has(s, m)  PROVE Has(r \o s, m)
  <2>1. PICK i \in 1 .. Len(s) : s[i] = m  BY <1>3 DEF Has
  <2> QED  BY <2>1, <1>1 DEF Has
<1>4. ASSUME NEW m, Has(r \o s, m)  PROVE Has(r, m) \/ Has(s, m)
  <2>1. PICK k \in 1 .. Len(r \o s) : (r \o s)[k] = m  BY <1>4 DEF Has
  <2>2. CASE k \in 1 .. Len(r)  BY <2>1, <2>2, <1>1 DEF Has
  <2>3. CASE k - Len(r) \in 1 .. Len(s) /\ (r \o s)[k] = s[k - Len(r)]  BY <2>1, <2>3 DEF Has
  <2> QED  BY <2>2, <2>3, <1>1
<1> QED  BY <1>1, <1>2, <1>3, <1>4

LEMMA OnceConcat ==
  ASSUME NEW S, NEW r \in Seq(S), NEW s \in Seq(S), Once(r), Once(s), \A m : ~(Has(r, m) /\ Has(s, m))
  PROVE  Once(r \o s)
<1>1. /\ \A i \in 1 .. Len(r) : (r \o s)[i] = r[i] /\ i \in 1 .. Len(r \o s)
      /\ \A k \in 1 .. Len(r \o s) :
           k \in 1 .. Len(r) \/ (k - Len(r) \in 1 .. Len(s) /\ (r \o s)[k] = s[k - Len(r)])
      /\ \A k, l \in 1 .. Len(r \o s) : k - Len(r) = l - Len(r) => k = l
  BY Concatenation
<1>2. SUFFICES ASSUME NEW k \in 1 .. Len(r \o s), NEW l \in 1 .. Len(r \o s), (r \o s)[k] = (r \o s)[l]
               PROVE  k = l
  BY DEF Once
<1>3. CASE k \in 1 .. Len(r) /\ l \in 1 .. Len(r)  BY <1>1, <1>2, <1>3 DEF Once
<1>4. ASSUME NEW p \in 1 .. Len(r), NEW q \in 1 .. Len(r \o s), q - Len(r) \in 1 .. Len(s),
             (r \o s)[q] = s[q - Len(r)], (r \o s)[p] = (r \o s)[q]
      PROVE  FALSE
  <2>1. Has(r, (r \o s)[q])  BY <1>1, <1>4 DEF Has
  <2>2. Has(s, (r \o s)[q])  BY <1>4 DEF Has
  <2> QED  BY <2>1, <2>2
<1>5. CASE k \in 1 .. Len(r) /\ l \notin 1 .. Len(r)  BY <1>1, <1>2, <1>4, <1>5
<1>6. CASE k \notin 1 .. Len(r) /\ l \in 1 .. Len(r)  BY <1>1, <1>2, <1>4, <1>6
<1>7. CASE k \notin 1 .. Len(r) /\ l \notin 1 .. Len(r)
  <2>1. k - Len(r) \in 1 .. Len(s) /\ l - Len(r) \in 1 .. Len(s) /\ s[k - Len(r)] = s[l - Len(r)]
    BY <1>1, <1>2, <1>7
  <2>2. k - Len(r) = l - Len(r)  BY <2>1 DEF Once
  <2> QED  BY <2>2, <1>1
<1> QED  BY <1>3, <1>5, <1>6, <1>7

-----------------------------------------------------------------------------
(* Messages move between places.                                            *)

\* A step takes the messages of M from the places A to the place b.
Moves(M, A, b) ==
  /\ b \notin A
  /\ \A m \in M : \E n \in A : Here(n, m)
  /\ \A n \in A : \A m : Here(n, m)' <=> Here(n, m) /\ m \notin M
  /\ \A m : Here(b, m)' <=> Here(b, m) \/ m \in M
  /\ \A n, m : n \notin A /\ n # b => (Here(n, m)' <=> Here(n, m))

\* A step leaves every message where it is.
Rests == \A n, m : Here(n, m)' <=> Here(n, m)

\* The places one by one.
LEMMA HereIs ==
  ASSUME NEW m
  PROVE  /\ Here("channel", m) <=> Has(produceChannel, m)
         /\ Here("map", m) <=> \E t \in Waiting : Has(buffered[t], m)
         /\ Here("batch", m) <=> Has(batch, m)
         /\ Here("failing", m) <=> Has(failing, m)
         /\ Here("queued", m) <=> Has(queued, m)
         /\ Here("reports", m) <=> Has(reports, m)
         /\ Here("events", m) <=> Has(eventCh, m)
         /\ Here("inflight", m) <=> m \in inflight
         /\ Here("leftOut", m) <=> m \in leftOut
         /\ Here("received", m) <=> m \in received
BY DEF Here

LEMMA HereNext ==
  ASSUME NEW m
  PROVE  /\ Here("channel", m)' <=> Has(produceChannel', m)
         /\ Here("map", m)' <=> \E t \in Waiting' : Has(buffered'[t], m)
         /\ Here("batch", m)' <=> Has(batch', m)
         /\ Here("failing", m)' <=> Has(failing', m)
         /\ Here("queued", m)' <=> Has(queued', m)
         /\ Here("reports", m)' <=> Has(reports', m)
         /\ Here("events", m)' <=> Has(eventCh', m)
         /\ Here("inflight", m)' <=> m \in inflight'
         /\ Here("leftOut", m)' <=> m \in leftOut'
         /\ Here("received", m)' <=> m \in received'
BY DEF Here

\* There are no other places.
LEMMA HereOnly ==
  ASSUME NEW n, NEW m,
         n \notin {"channel", "map", "batch", "failing", "queued", "reports", "events", "inflight", "leftOut",
                   "received"}
  PROVE  ~Here(n, m) /\ ~Here(n, m)'
BY DEF Here

\* A message that moves is in its new place only.
LEMMA MovedIsThere ==
  ASSUME OnePlace, NEW M, NEW A, NEW b, Moves(M, A, b), NEW m \in M, NEW n
  PROVE  Here(n, m)' <=> n = b
<1>1. PICK a \in A : Here(a, m)  BY DEF Moves
<1>2. CASE n \in A  BY <1>2 DEF Moves
<1>3. CASE n = b  BY <1>3 DEF Moves
<1>4. CASE n \notin A /\ n # b
  <2>1. ~Here(n, m)  BY <1>1, <1>4 DEF OnePlace
  <2> QED  BY <2>1, <1>4 DEF Moves
<1> QED  BY <1>2, <1>3, <1>4

\* The others stay.
LEMMA OthersStay ==
  ASSUME NEW M, NEW A, NEW b, Moves(M, A, b), NEW m, m \notin M, NEW n
  PROVE  Here(n, m)' <=> Here(n, m)
<1>2. CASE n \in A  BY <1>2 DEF Moves
<1>3. CASE n = b  BY <1>3 DEF Moves
<1>4. CASE n \notin A /\ n # b  BY <1>4 DEF Moves
<1> QED  BY <1>2, <1>3, <1>4

\* A move keeps each message in one place.
LEMMA MovesOnePlace ==
  ASSUME OnePlace, NEW M, NEW A, NEW b, Moves(M, A, b), written' = written, polling' = polling
  PROVE  OnePlace'
<1>1. ASSUME NEW m, NEW n, NEW o, Here(n, m)', Here(o, m)'  PROVE n = o
  <2>1. CASE m \in M
    <3>1. n = b  BY <2>1, <1>1, MovedIsThere
    <3>2. o = b  BY <2>1, <1>1, MovedIsThere
    <3> QED  BY <3>1, <3>2
  <2>2. CASE m \notin M
    <3>1. Here(n, m)  BY <2>2, <1>1, OthersStay
    <3>2. Here(o, m)  BY <2>2, <1>1, OthersStay
    <3> QED  BY <3>1, <3>2 DEF OnePlace
  <2> QED  BY <2>1, <2>2
<1>2. ASSUME NEW m, NEW n, Here(n, m)'  PROVE Has(written', m)
  <2>1. CASE m \in M
    <3>1. PICK a \in A : Here(a, m)  BY <2>1 DEF Moves
    <3> QED  BY <3>1 DEF OnePlace
  <2>2. CASE m \notin M
    <3>1. Here(n, m)  BY <2>2, <1>2, OthersStay
    <3> QED  BY <3>1 DEF OnePlace
  <2> QED  BY <2>1, <2>2
<1>3. ASSUME NEW m, Lost(m)'  PROVE Lost(m)
  <2>1. m \notin M
    <3>1. ~Here(b, m)'  BY <1>3 DEF Lost
    <3> QED  BY <3>1 DEF Moves
  <2>2. ASSUME NEW n  PROVE ~Here(n, m)
    <3>1. ~Here(n, m)'  BY <1>3 DEF Lost
    <3> QED  BY <3>1, <2>1, OthersStay
  <2>3. Has(written, m)  BY <1>3 DEF Lost
  <2> QED  BY <2>2, <2>3 DEF Lost
<1>4. ASSUME NEW m, NEW o, Lost(m)', Lost(o)'  PROVE ~polling' /\ m = o
  <2>1. Lost(m) /\ Lost(o)  BY <1>4, <1>3
  <2> QED  BY <2>1 DEF OnePlace
<1> QED  BY <1>1, <1>2, <1>4 DEF OnePlace

\* ... and so does a step that moves none.
LEMMA RestsOnePlace ==
  ASSUME OnePlace, Rests, written' = written, polling' => polling
  PROVE  OnePlace'
<1>1. ASSUME NEW m, NEW n, NEW o, Here(n, m)', Here(o, m)'  PROVE n = o
  BY <1>1 DEF OnePlace, Rests
<1>2. ASSUME NEW m, NEW n, Here(n, m)'  PROVE Has(written', m)
  BY <1>2 DEF OnePlace, Rests
<1>3. ASSUME NEW m, Lost(m)'  PROVE Lost(m)
  BY <1>3 DEF Lost, Rests
<1>4. ASSUME NEW m, NEW o, Lost(m)', Lost(o)'  PROVE ~polling' /\ m = o
  <2>1. Lost(m) /\ Lost(o)  BY <1>4, <1>3
  <2> QED  BY <2>1 DEF OnePlace
<1> QED  BY <1>1, <1>2, <1>4 DEF OnePlace

\* A place that a step does not touch.
LEMMA Untouched ==
  ASSUME NEW m
  PROVE  /\ produceChannel' = produceChannel => (Here("channel", m)' <=> Here("channel", m))
         /\ buffered' = buffered /\ Waiting' = Waiting => (Here("map", m)' <=> Here("map", m))
         /\ batch' = batch => (Here("batch", m)' <=> Here("batch", m))
         /\ failing' = failing => (Here("failing", m)' <=> Here("failing", m))
         /\ queued' = queued => (Here("queued", m)' <=> Here("queued", m))
         /\ reports' = reports => (Here("reports", m)' <=> Here("reports", m))
         /\ eventCh' = eventCh => (Here("events", m)' <=> Here("events", m))
         /\ inflight' = inflight => (Here("inflight", m)' <=> Here("inflight", m))
         /\ leftOut' = leftOut => (Here("leftOut", m)' <=> Here("leftOut", m))
         /\ received' = received => (Here("received", m)' <=> Here("received", m))
<1>1. buffered' = buffered /\ Waiting' = Waiting => (Here("map", m)' <=> Here("map", m))
  BY HereIs, HereNext
<1>2. /\ produceChannel' = produceChannel => (Here("channel", m)' <=> Here("channel", m))
      /\ batch' = batch => (Here("batch", m)' <=> Here("batch", m))
      /\ failing' = failing => (Here("failing", m)' <=> Here("failing", m))
  BY HereIs, HereNext
<1>3. /\ queued' = queued => (Here("queued", m)' <=> Here("queued", m))
      /\ reports' = reports => (Here("reports", m)' <=> Here("reports", m))
      /\ eventCh' = eventCh => (Here("events", m)' <=> Here("events", m))
  BY HereIs, HereNext
<1>4. /\ inflight' = inflight => (Here("inflight", m)' <=> Here("inflight", m))
      /\ leftOut' = leftOut => (Here("leftOut", m)' <=> Here("leftOut", m))
      /\ received' = received => (Here("received", m)' <=> Here("received", m))
  BY HereIs, HereNext
<1> QED  BY <1>1, <1>2, <1>3, <1>4

\* A step does not touch the place n.
Still(n) ==
  /\ n = "channel" => produceChannel' = produceChannel
  /\ n = "map" => buffered' = buffered /\ Waiting' = Waiting
  /\ n = "batch" => batch' = batch
  /\ n = "failing" => failing' = failing
  /\ n = "queued" => queued' = queued
  /\ n = "reports" => reports' = reports
  /\ n = "events" => eventCh' = eventCh
  /\ n = "inflight" => inflight' = inflight
  /\ n = "leftOut" => leftOut' = leftOut
  /\ n = "received" => received' = received

LEMMA StillThere ==
  ASSUME NEW n, Still(n), NEW m
  PROVE  Here(n, m)' <=> Here(n, m)
<1>1. CASE n \notin {"channel", "map", "batch", "failing", "queued", "reports", "events", "inflight", "leftOut",
                     "received"}
  BY <1>1, HereOnly
<1>2. CASE n = "channel"  BY <1>2, Untouched DEF Still
<1>3. CASE n = "map"  BY <1>3, Untouched DEF Still
<1>4. CASE n = "batch"  BY <1>4, Untouched DEF Still
<1>5. CASE n = "failing"  BY <1>5, Untouched DEF Still
<1>6. CASE n = "queued"  BY <1>6, Untouched DEF Still
<1>7. CASE n = "reports"  BY <1>7, Untouched DEF Still
<1>8. CASE n = "events"  BY <1>8, Untouched DEF Still
<1>9. CASE n = "inflight"  BY <1>9, Untouched DEF Still
<1>10. CASE n = "leftOut"  BY <1>10, Untouched DEF Still
<1>11. CASE n = "received"  BY <1>11, Untouched DEF Still
<1> QED  BY <1>1, <1>2, <1>3, <1>4, <1>5, <1>6, <1>7, <1>8, <1>9, <1>10, <1>11

\* A step after the batch producer's map: it touches neither what is written, the
\* channel, the map, the call in progress nor what librdkafka has taken.
Downstream ==
  /\ produceChannel' = produceChannel /\ written' = written /\ taken' = taken
  /\ buffered' = buffered /\ bufferedCnt' = bufferedCnt /\ batch' = batch
  /\ bpc' = bpc /\ topicsLeft' = topicsLeft

LEMMA DownstreamKeeps ==
  ASSUME BatchInv, Downstream
  PROVE  Waiting' = Waiting /\ Counts' /\ ByTopic' /\ InOrder'
<1>1. Waiting' = Waiting  BY DEF Downstream, Waiting
<1>2. Gathered' = Gathered  BY DEF Downstream, Gathered
<1>3. Counts'  BY <1>2 DEF BatchInv, Counts, Downstream
<1>4. ByTopic'  BY <1>1 DEF BatchInv, ByTopic, Downstream
<1>5. InOrder'
  <2>1. InOrder  BY DEF BatchInv
  <2> QED  BY <1>1, <2>1 DEF InOrder, Downstream
<1> QED  BY <1>1, <1>3, <1>4, <1>5

\* One message goes from the place a to the place b.
LEMMA MoveOne ==
  ASSUME NEW h, NEW a, NEW b, a # b, Here(a, h), ~Here(a, h)',
         \A m : m # h => (Here(a, m)' <=> Here(a, m)),
         \A m : Here(b, m)' <=> m = h \/ Here(b, m),
         \A n : n # a /\ n # b => Still(n)
  PROVE  Moves({h}, {a}, b)
<1>1. \A m \in {h} : \E n \in {a} : Here(n, m)  OBVIOUS
<1>2. ASSUME NEW n \in {a}, NEW m  PROVE Here(n, m)' <=> Here(n, m) /\ m \notin {h}
  <2>1. n = a  BY <1>2
  <2>2. CASE m = h  BY <2>1, <2>2
  <2>3. CASE m # h  BY <2>1, <2>3
  <2> QED  BY <2>2, <2>3
<1>3. \A m : Here(b, m)' <=> Here(b, m) \/ m \in {h}  OBVIOUS
<1>4. ASSUME NEW n, NEW m, n \notin {a}, n # b  PROVE Here(n, m)' <=> Here(n, m)
  <2>1. Still(n)  BY <1>4
  <2> QED  BY <2>1, StillThere
<1>5. b \notin {a}  OBVIOUS
<1> QED  BY <1>1, <1>2, <1>3, <1>4, <1>5 DEF Moves

-----------------------------------------------------------------------------
(* The application reads its events.                                        *)
LEMMA ReadEventsKeeps ==
  ASSUME BatchInv, ReadEvents
  PROVE  BatchInv'
<1>0. eventCh \in Seq(Msgs) /\ eventCh # <<>> /\ Once(eventCh)
  BY DEF BatchInv, Types, NoDoubles, ReadEvents
<1>h. PICK h : h = Head(eventCh)  OBVIOUS
<1>1. /\ Tail(eventCh) \in Seq(Msgs) /\ Len(Tail(eventCh)) = Len(eventCh) - 1 /\ Len(eventCh) \in Nat
      /\ Has(eventCh, h) /\ \A m : Has(eventCh, m) <=> m = h \/ Has(Tail(eventCh), m)
  BY <1>0, <1>h, HasTail
<1>2. Once(Tail(eventCh)) /\ ~Has(Tail(eventCh), h)  BY <1>0, <1>h, OnceTail
<1>3. Downstream  BY DEF ReadEvents, Downstream, chans, batcher
<1>4. Waiting' = Waiting /\ Counts' /\ ByTopic' /\ InOrder'  BY <1>3, DownstreamKeeps
<1>5. /\ failing' = failing /\ queued' = queued /\ reports' = reports /\ inflight' = inflight
      /\ leftOut' = leftOut /\ received' = received \cup {h} /\ polling' = polling
      /\ closePc' = closePc /\ isClosed' = isClosed /\ channelClosed' = channelClosed /\ eventsClosed' = eventsClosed
      /\ eventCh' = Tail(eventCh)
  BY <1>h DEF ReadEvents, chans, batcher, rkafka
<1>6. Types'  BY <1>1, <1>3, <1>5 DEF BatchInv, Types, Downstream
<1>7. Phases'  BY <1>3, <1>5 DEF BatchInv, Phases, Downstream
<1>8. Limits'
  <2>1. InQueue' = InQueue  BY <1>5 DEF InQueue
  <2>2. Len(eventCh) - 1 <= EventsSize
    <3>1. Len(eventCh) <= EventsSize /\ EventsSize \in Nat  BY BatchConstants DEF BatchInv, Limits
    <3> QED  BY <3>1, <1>1, SMT
  <2> QED  BY <2>1, <2>2, <1>1, <1>3, <1>5 DEF BatchInv, Limits, Downstream
<1>9. OnePlace'
  <2>1. Here("events", h) /\ ~Here("events", h)'  BY <1>1, <1>2, <1>5, HereIs, HereNext
  <2>2. \A m : m # h => (Here("events", m)' <=> Here("events", m))  BY <1>1, <1>5, HereIs, HereNext
  <2>3. \A m : Here("received", m)' <=> m = h \/ Here("received", m)  BY <1>5, HereIs, HereNext
  <2>4. \A n : n # "events" /\ n # "received" => Still(n)  BY <1>3, <1>4, <1>5 DEF Still, Downstream
  <2>5. Moves({h}, {"events"}, "received")  BY <2>1, <2>2, <2>3, <2>4, MoveOne
  <2> QED  BY <2>5, <1>3, <1>5, MovesOnePlace DEF BatchInv, Downstream
<1>10. NoDoubles'  BY <1>2, <1>3, <1>4, <1>5 DEF BatchInv, NoDoubles, Downstream
<1> QED  BY <1>4, <1>6, <1>7, <1>8, <1>9, <1>10 DEF BatchInv

-----------------------------------------------------------------------------
(* The poller.                                                              *)

\* The queue of librdkafka has as many messages as are in its parts.
LEMMA QueueLength ==
  ASSUME BatchInv
  PROVE  /\ Len(queued) \in Nat /\ Cardinality(inflight) \in Nat /\ Len(reports) \in Nat /\ QueueMax \in Nat
         /\ Len(queued) + Cardinality(inflight) + Len(reports) <= QueueMax
         /\ InQueue \in Nat /\ InQueue = Len(queued) + Cardinality(inflight) + Len(reports)
<1>1. Len(queued) \in Nat /\ Len(reports) \in Nat  BY SMT DEF BatchInv, Types
<1>2. Cardinality(inflight) \in Nat  BY FS_CardinalityType DEF BatchInv, Types
<1>3. InQueue = Len(queued) + Cardinality(inflight) + Len(reports)  BY DEF InQueue
<1>4. InQueue \in Nat  BY <1>1, <1>2, <1>3, SMT
<1> QED  BY <1>1, <1>2, <1>3, <1>4, BatchConstants DEF BatchInv, Limits, InQueue

LEMMA PollReportKeeps ==
  ASSUME BatchInv, PollReport
  PROVE  BatchInv'
<1>0. reports \in Seq(Msgs) /\ reports # <<>> /\ Once(reports) /\ eventCh \in Seq(Msgs) /\ Once(eventCh)
  BY DEF BatchInv, Types, NoDoubles, PollReport
<1>h. PICK h : h = Head(reports)  OBVIOUS
<1>1. /\ h \in Msgs /\ Tail(reports) \in Seq(Msgs) /\ Len(Tail(reports)) = Len(reports) - 1 /\ Len(reports) \in Nat
      /\ Has(reports, h) /\ \A m : Has(reports, m) <=> m = h \/ Has(Tail(reports), m)
  BY <1>0, <1>h, HasTail
<1>2. Once(Tail(reports)) /\ ~Has(Tail(reports), h)  BY <1>0, <1>h, OnceTail
<1>3. Downstream  BY DEF PollReport, Downstream, chans, batcher, bhist
<1>4. Waiting' = Waiting /\ Counts' /\ ByTopic' /\ InOrder'  BY <1>3, DownstreamKeeps
<1>5. /\ failing' = failing /\ queued' = queued /\ reports' = Tail(reports) /\ inflight' = inflight
      /\ leftOut' = leftOut /\ received' = received /\ polling' = polling
      /\ closePc' = closePc /\ isClosed' = isClosed /\ channelClosed' = channelClosed /\ eventsClosed' = eventsClosed
      /\ eventCh' = Append(eventCh, h) /\ Len(eventCh) < EventsSize
  BY <1>h DEF PollReport, chans, batcher, bhist
<1>a. /\ Append(eventCh, h) \in Seq(Msgs) /\ Len(Append(eventCh, h)) = Len(eventCh) + 1 /\ Len(eventCh) \in Nat
      /\ \A m : Has(Append(eventCh, h), m) <=> m = h \/ Has(eventCh, m)
  BY <1>0, <1>1, HasAppend
<1>b. ~Has(eventCh, h)
  <2>1. Here("reports", h)  BY <1>1, HereIs
  <2>2. ~Here("events", h)  BY <2>1 DEF BatchInv, OnePlace
  <2> QED  BY <2>2, HereIs
<1>c. Once(Append(eventCh, h))  BY <1>0, <1>1, <1>b, OnceAppend
<1>6. Types'  BY <1>1, <1>3, <1>5, <1>a DEF BatchInv, Types, Downstream
<1>7. Phases'  BY <1>3, <1>5 DEF BatchInv, Phases, Downstream
<1>8. Limits'
  <2>1. Len(eventCh) + 1 <= EventsSize
    <3>1. Len(eventCh) < EventsSize /\ EventsSize \in Nat  BY <1>5, BatchConstants
    <3> QED  BY <3>1, <1>a, SMT
  <2>2. InQueue' <= QueueMax
    <3>1. InQueue' = Len(queued) + Cardinality(inflight) + (Len(reports) - 1)  BY <1>1, <1>5 DEF InQueue
    <3> QED  BY <3>1, <1>1, QueueLength, SMT
  <2> QED  BY <2>1, <2>2, <1>a, <1>3, <1>5 DEF BatchInv, Limits, Downstream
<1>9. OnePlace'
  <2>1. Here("reports", h) /\ ~Here("reports", h)'  BY <1>1, <1>2, <1>5, HereIs, HereNext
  <2>2. \A m : m # h => (Here("reports", m)' <=> Here("reports", m))  BY <1>1, <1>5, HereIs, HereNext
  <2>3. \A m : Here("events", m)' <=> m = h \/ Here("events", m)  BY <1>a, <1>5, HereIs, HereNext
  <2>4. \A n : n # "reports" /\ n # "events" => Still(n)  BY <1>3, <1>4, <1>5 DEF Still, Downstream
  <2>5. Moves({h}, {"reports"}, "events")  BY <2>1, <2>2, <2>3, <2>4, MoveOne
  <2> QED  BY <2>5, <1>3, <1>5, MovesOnePlace DEF BatchInv, Downstream
<1>10. NoDoubles'  BY <1>2, <1>3, <1>4, <1>5, <1>c DEF BatchInv, NoDoubles, Downstream
<1> QED  BY <1>4, <1>6, <1>7, <1>8, <1>9, <1>10 DEF BatchInv

LEMMA PollerStopsKeeps ==
  ASSUME BatchInv, PollerStops
  PROVE  BatchInv'
<1>3. Downstream  BY DEF PollerStops, Downstream, chans, batcher, bhist
<1>4. Waiting' = Waiting /\ Counts' /\ ByTopic' /\ InOrder'  BY <1>3, DownstreamKeeps
<1>5. /\ failing' = failing /\ queued' = queued /\ inflight' = inflight /\ eventCh' = eventCh
      /\ leftOut' = leftOut /\ received' = received /\ polling /\ polling' = FALSE
      /\ closePc' = closePc /\ isClosed' = isClosed /\ channelClosed' = channelClosed /\ eventsClosed' = eventsClosed
  BY DEF PollerStops, chans, batcher, bhist
<1>7. Phases'  BY <1>3, <1>5 DEF BatchInv, Phases, Downstream
<1>8. CASE reports' = reports
  <2>1. Types'  BY <1>3, <1>5, <1>8 DEF BatchInv, Types, Downstream
  <2>2. Limits'
    <3>1. InQueue' = InQueue  BY <1>5, <1>8 DEF InQueue
    <3> QED  BY <3>1, <1>3, <1>5 DEF BatchInv, Limits, Downstream
  <2>3. OnePlace'
    <3>1. \A n : Still(n)  BY <1>3, <1>4, <1>5, <1>8 DEF Still, Downstream
    <3>2. Rests  BY <3>1, StillThere DEF Rests
    <3> QED  BY <3>2, <1>3, <1>5, RestsOnePlace DEF BatchInv, Downstream
  <2>4. NoDoubles'  BY <1>3, <1>4, <1>5, <1>8 DEF BatchInv, NoDoubles, Downstream
  <2> QED  BY <2>1, <2>2, <2>3, <2>4, <1>4, <1>7 DEF BatchInv
<1>9. CASE reports # <<>> /\ reports' = Tail(reports)
  <2>0. reports \in Seq(Msgs) /\ Once(reports)  BY DEF BatchInv, Types, NoDoubles
  <2>h. PICK h : h = Head(reports)  OBVIOUS
  <2>a. /\ h \in Msgs /\ Tail(reports) \in Seq(Msgs) /\ Len(Tail(reports)) = Len(reports) - 1 /\ Len(reports) \in Nat
        /\ Has(reports, h) /\ \A m : Has(reports, m) <=> m = h \/ Has(Tail(reports), m)
    BY <2>0, <2>h, <1>9, HasTail
  <2>b. Once(Tail(reports)) /\ ~Has(Tail(reports), h)  BY <2>0, <2>h, <1>9, OnceTail
  <2>1. Types'  BY <1>3, <1>5, <1>9, <2>a DEF BatchInv, Types, Downstream
  <2>2. Limits'
    <3>1. InQueue' = Len(queued) + Cardinality(inflight) + (Len(reports) - 1)  BY <2>a, <1>5, <1>9 DEF InQueue
    <3>2. InQueue' <= QueueMax  BY <3>1, QueueLength, SMT
    <3> QED  BY <3>2, <1>3, <1>5 DEF BatchInv, Limits, Downstream
  <2>3. OnePlace'
    <3>1. \A n : n # "reports" => Still(n)  BY <1>3, <1>4, <1>5 DEF Still, Downstream
    <3>2. \A m : Here("reports", m) <=> m = h \/ Here("reports", m)'  BY <2>a, <1>9, HereIs, HereNext
    <3>3. ASSUME NEW n, NEW m, m # h  PROVE Here(n, m)' <=> Here(n, m)
      <4>1. CASE n = "reports"  BY <4>1, <3>2, <3>3
      <4>2. CASE n # "reports"  BY <4>2, <3>1, StillThere
      <4> QED  BY <4>1, <4>2
    <3>4. ASSUME NEW n, NEW m, Here(n, m)'  PROVE Here(n, m)
      <4>1. CASE n = "reports"  BY <4>1, <3>2, <3>4
      <4>2. CASE n # "reports"  BY <4>2, <3>1, <3>4, StillThere
      <4> QED  BY <4>1, <4>2
    <3>5. ASSUME NEW m, Lost(m)'  PROVE m = h
      <4>1. SUFFICES ASSUME m # h  PROVE FALSE  OBVIOUS
      <4>2. \A n : ~Here(n, m)  BY <3>3, <3>5, <4>1 DEF Lost
      <4>3. Has(written, m)  BY <3>5, <1>3 DEF Lost, Downstream
      <4>4. Lost(m)  BY <4>2, <4>3 DEF Lost
      <4> QED  BY <4>4, <1>5 DEF BatchInv, OnePlace
    <3>6. ASSUME NEW m, NEW o, Lost(m)', Lost(o)'  PROVE m = o  BY <3>5, <3>6
    <3>7. ASSUME NEW m, NEW n, Here(n, m)'  PROVE Has(written', m)
      BY <3>4, <3>7, <1>3 DEF BatchInv, OnePlace, Downstream
    <3>8. ASSUME NEW m, NEW n, NEW o, Here(n, m)', Here(o, m)'  PROVE n = o
      BY <3>4, <3>8 DEF BatchInv, OnePlace
    <3> QED  BY <3>6, <3>7, <3>8, <1>5 DEF OnePlace
  <2>4. NoDoubles'  BY <2>b, <1>3, <1>4, <1>5, <1>9 DEF BatchInv, NoDoubles, Downstream
  <2> QED  BY <2>1, <2>2, <2>3, <2>4, <1>4, <1>7 DEF BatchInv
<1> QED  BY <1>8, <1>9 DEF PollerStops

-----------------------------------------------------------------------------
(* librdkafka.                                                              *)
LEMMA RkSendKeeps ==
  ASSUME BatchInv, RkSend
  PROVE  BatchInv'
<1>0. queued \in Seq(Msgs) /\ queued # <<>> /\ Once(queued)  BY DEF BatchInv, Types, NoDoubles, RkSend
<1>h. PICK h : h = Head(queued)  OBVIOUS
<1>1. /\ h \in Msgs /\ Tail(queued) \in Seq(Msgs) /\ Len(Tail(queued)) = Len(queued) - 1 /\ Len(queued) \in Nat
      /\ Has(queued, h) /\ \A m : Has(queued, m) <=> m = h \/ Has(Tail(queued), m)
  BY <1>0, <1>h, HasTail
<1>2. Once(Tail(queued)) /\ ~Has(Tail(queued), h)  BY <1>0, <1>h, OnceTail
<1>3. Downstream  BY DEF RkSend, Downstream, chans, batcher, bhist
<1>4. Waiting' = Waiting /\ Counts' /\ ByTopic' /\ InOrder'  BY <1>3, DownstreamKeeps
<1>5. /\ failing' = failing /\ queued' = Tail(queued) /\ reports' = reports /\ inflight' = inflight \cup {h}
      /\ leftOut' = leftOut /\ received' = received /\ polling' = polling
      /\ closePc' = closePc /\ isClosed' = isClosed /\ channelClosed' = channelClosed /\ eventsClosed' = eventsClosed
      /\ eventCh' = eventCh
  BY <1>h DEF RkSend, chans, batcher, bhist
<1>b. h \notin inflight
  <2>1. Here("queued", h)  BY <1>1, HereIs
  <2>2. ~Here("inflight", h)  BY <2>1 DEF BatchInv, OnePlace
  <2> QED  BY <2>2, HereIs
<1>c. IsFiniteSet(inflight \cup {h}) /\ Cardinality(inflight \cup {h}) = Cardinality(inflight) + 1
  BY <1>b, FS_AddElement DEF BatchInv, Types
<1>6. Types'  BY <1>1, <1>3, <1>5, <1>c DEF BatchInv, Types, Downstream
<1>7. Phases'  BY <1>3, <1>5 DEF BatchInv, Phases, Downstream
<1>8. Limits'
  <2>1. InQueue' = (Len(queued) - 1) + (Cardinality(inflight) + 1) + Len(reports)  BY <1>1, <1>5, <1>c DEF InQueue
  <2>2. InQueue' <= QueueMax  BY <2>1, QueueLength, SMT
  <2> QED  BY <2>2, <1>3, <1>5 DEF BatchInv, Limits, Downstream
<1>9. OnePlace'
  <2>1. Here("queued", h) /\ ~Here("queued", h)'  BY <1>1, <1>2, <1>5, HereIs, HereNext
  <2>2. \A m : m # h => (Here("queued", m)' <=> Here("queued", m))  BY <1>1, <1>5, HereIs, HereNext
  <2>3. \A m : Here("inflight", m)' <=> m = h \/ Here("inflight", m)  BY <1>5, HereIs, HereNext
  <2>4. \A n : n # "queued" /\ n # "inflight" => Still(n)  BY <1>3, <1>4, <1>5 DEF Still, Downstream
  <2>5. Moves({h}, {"queued"}, "inflight")  BY <2>1, <2>2, <2>3, <2>4, MoveOne
  <2> QED  BY <2>5, <1>3, <1>5, MovesOnePlace DEF BatchInv, Downstream
<1>10. NoDoubles'  BY <1>2, <1>3, <1>4, <1>5 DEF BatchInv, NoDoubles, Downstream
<1> QED  BY <1>4, <1>6, <1>7, <1>8, <1>9, <1>10 DEF BatchInv

LEMMA RkReportKeeps ==
  ASSUME BatchInv, NEW h \in Msgs, RkReport(h)
  PROVE  BatchInv'
<1>0. reports \in Seq(Msgs) /\ Once(reports)  BY DEF BatchInv, Types, NoDoubles
<1>3. Downstream  BY DEF RkReport, Downstream, chans, batcher, bhist
<1>4. Waiting' = Waiting /\ Counts' /\ ByTopic' /\ InOrder'  BY <1>3, DownstreamKeeps
<1>5. /\ failing' = failing /\ queued' = queued /\ reports' = Append(reports, h) /\ inflight' = inflight \ {h}
      /\ leftOut' = leftOut /\ received' = received /\ polling' = polling
      /\ closePc' = closePc /\ isClosed' = isClosed /\ channelClosed' = channelClosed /\ eventsClosed' = eventsClosed
      /\ eventCh' = eventCh /\ h \in inflight
  BY DEF RkReport, chans, batcher, bhist
<1>a. /\ Append(reports, h) \in Seq(Msgs) /\ Len(Append(reports, h)) = Len(reports) + 1
      /\ \A m : Has(Append(reports, h), m) <=> m = h \/ Has(reports, m)
  BY <1>0, HasAppend
<1>b. ~Has(reports, h)
  <2>1. Here("inflight", h)  BY <1>5, HereIs
  <2>2. ~Here("reports", h)  BY <2>1 DEF BatchInv, OnePlace
  <2> QED  BY <2>2, HereIs
<1>c. Once(Append(reports, h))  BY <1>0, <1>b, OnceAppend
<1>d. IsFiniteSet(inflight \ {h}) /\ Cardinality(inflight \ {h}) = Cardinality(inflight) - 1
  BY <1>5, FS_RemoveElement DEF BatchInv, Types
<1>6. Types'
  <2>1. inflight' \subseteq Msgs  BY <1>5 DEF BatchInv, Types
  <2> QED  BY <2>1, <1>3, <1>5, <1>a, <1>d DEF BatchInv, Types, Downstream
<1>7. Phases'  BY <1>3, <1>5 DEF BatchInv, Phases, Downstream
<1>8. Limits'
  <2>1. InQueue' = Len(queued) + (Cardinality(inflight) - 1) + (Len(reports) + 1)  BY <1>5, <1>a, <1>d DEF InQueue
  <2>2. InQueue' <= QueueMax  BY <2>1, QueueLength, SMT
  <2> QED  BY <2>2, <1>3, <1>5 DEF BatchInv, Limits, Downstream
<1>9. OnePlace'
  <2>1. Here("inflight", h) /\ ~Here("inflight", h)'  BY <1>5, HereIs, HereNext
  <2>2. \A m : m # h => (Here("inflight", m)' <=> Here("inflight", m))  BY <1>5, HereIs, HereNext
  <2>3. \A m : Here("reports", m)' <=> m = h \/ Here("reports", m)  BY <1>a, <1>5, HereIs, HereNext
  <2>4. \A n : n # "inflight" /\ n # "reports" => Still(n)  BY <1>3, <1>4, <1>5 DEF Still, Downstream
  <2>5. Moves({h}, {"inflight"}, "reports")  BY <2>1, <2>2, <2>3, <2>4, MoveOne
  <2> QED  BY <2>5, <1>3, <1>5, MovesOnePlace DEF BatchInv, Downstream
<1>10. NoDoubles'  BY <1>c, <1>3, <1>4, <1>5 DEF BatchInv, NoDoubles, Downstream
<1> QED  BY <1>4, <1>6, <1>7, <1>8, <1>9, <1>10 DEF BatchInv

\* The messages of a set in some order.
LEMMA EachOnce ==
  ASSUME NEW S, IsFiniteSet(S), NEW f \in InSomeOrder(S)
  PROVE  f \in Seq(S) /\ Len(f) = Cardinality(S) /\ Once(f) /\ \A m : Has(f, m) <=> m \in S
<1>1. PICK n : n = Cardinality(S) /\ n \in Nat  BY FS_CardinalityType
<1>2. f \in [1 .. n -> S] /\ \A i, j \in 1 .. n : f[i] = f[j] => i = j
  <2>1. f \in [1 .. n -> S] /\ \A i, j \in DOMAIN f : f[i] = f[j] => i = j  BY <1>1 DEF InSomeOrder
  <2>2. DOMAIN f = 1 .. n  BY <2>1
  <2> QED  BY <2>1, <2>2
<1>3. f \in Seq(S) /\ Len(f) = n  BY <1>1, <1>2, SMT
<1>4. Once(f)  BY <1>2, <1>3 DEF Once
<1>5. f \in Injection(1 .. n, S)  BY <1>2 DEF Injection, IsInjective
<1>6. Cardinality(1 .. n) = n
  <2>1. 1 \in Int /\ n \in Int /\ (IF 1 > n THEN 0 ELSE n - 1 + 1) = n  BY <1>1, SMT
  <2> QED  BY <2>1, FS_Interval
<1>7. f \in Surjection(1 .. n, S)  BY <1>1, <1>5, <1>6, FS_Injection
<1>8. \A m \in S : \E i \in 1 .. n : f[i] = m  BY <1>7 DEF Surjection
<1>9. \A i \in 1 .. n : f[i] \in S  BY <1>2
<1> QED  BY <1>1, <1>3, <1>4, <1>8, <1>9 DEF Has

\* What Purge() takes from the queue, w, and from the messages in flight, f.
LEMMA PurgeTakes ==
  ASSUME BatchInv, NEW flags, Purge(flags)
  PROVE  \E w, f, sent :
           /\ w \in Seq(Msgs) /\ Once(w) /\ queued' \in Seq(Msgs) /\ Once(queued')
           /\ \A m : Has(w, m) => Has(queued, m)
           /\ \A m : Has(queued', m) <=> Has(queued, m) /\ ~Has(w, m)
           /\ Len(queued') + Len(w) = Len(queued)
           /\ f \subseteq inflight /\ IsFiniteSet(f) /\ inflight' = inflight \ f /\ IsFiniteSet(inflight')
           /\ Cardinality(inflight') + Cardinality(f) = Cardinality(inflight)
           /\ sent \in Seq(Msgs) /\ Len(sent) = Cardinality(f) /\ Once(sent) /\ \A m : Has(sent, m) <=> m \in f
           /\ reports' = (reports \o w) \o sent
<1>1. PICK w : w = IF "queue" \in flags THEN queued ELSE <<>>  OBVIOUS
<1>2. PICK f : f = IF "inflight" \in flags THEN inflight ELSE {}  OBVIOUS
<1>3. /\ queued' = (IF "queue" \in flags THEN <<>> ELSE queued) /\ inflight' = inflight \ f
      /\ \E sent \in InSomeOrder(f) : reports' = (reports \o w) \o sent
  BY <1>1, <1>2 DEF Purge
<1>4. PICK sent \in InSomeOrder(f) : reports' = (reports \o w) \o sent  BY <1>3
<1>5. /\ queued \in Seq(Msgs) /\ Once(queued) /\ inflight \subseteq Msgs /\ IsFiniteSet(inflight)
      /\ <<>> \in Seq(Msgs) /\ Len(<<>>) = 0
  <2>1. <<>> \in Seq(Msgs) /\ Len(<<>>) = 0  BY SMT
  <2> QED  BY <2>1 DEF BatchInv, Types, NoDoubles
<1>6. Len(queued) \in Nat /\ Cardinality(inflight) \in Nat  BY QueueLength
<1>7. /\ w \in Seq(Msgs) /\ Once(w) /\ queued' \in Seq(Msgs) /\ Once(queued')
      /\ \A m : Has(w, m) => Has(queued, m)
      /\ \A m : Has(queued', m) <=> Has(queued, m) /\ ~Has(w, m)
      /\ Len(queued') + Len(w) = Len(queued)
  <2>1. CASE "queue" \in flags
    <3>1. w = queued /\ queued' = <<>>  BY <2>1, <1>1, <1>3
    <3>2. 0 + Len(queued) = Len(queued)  BY <1>6, SMT
    <3> QED  BY <3>1, <3>2, <1>5, HasEmpty
  <2>2. CASE "queue" \notin flags
    <3>1. w = <<>> /\ queued' = queued  BY <2>2, <1>1, <1>3
    <3>2. Len(queued) + 0 = Len(queued)  BY <1>6, SMT
    <3> QED  BY <3>1, <3>2, <1>5, HasEmpty
  <2> QED  BY <2>1, <2>2
<1>8. /\ f \subseteq inflight /\ IsFiniteSet(f) /\ IsFiniteSet(inflight')
      /\ Cardinality(inflight') + Cardinality(f) = Cardinality(inflight)
  <2>0. IsFiniteSet({}) /\ Cardinality({}) = 0  BY FS_EmptySet
  <2>1. CASE "inflight" \in flags
    <3>1. f = inflight /\ inflight' = {}  BY <2>1, <1>2, <1>3
    <3>2. 0 + Cardinality(inflight) = Cardinality(inflight)  BY <1>6, SMT
    <3> QED  BY <3>1, <3>2, <1>5, <2>0
  <2>2. CASE "inflight" \notin flags
    <3>1. f = {} /\ inflight' = inflight  BY <2>2, <1>2, <1>3
    <3>2. Cardinality(inflight) + 0 = Cardinality(inflight)  BY <1>6, SMT
    <3> QED  BY <3>1, <3>2, <1>5, <2>0
  <2> QED  BY <2>1, <2>2
<1>9. sent \in Seq(f) /\ Len(sent) = Cardinality(f) /\ Once(sent) /\ \A m : Has(sent, m) <=> m \in f
  BY <1>8, EachOnce
<1>10. sent \in Seq(Msgs)
  <2>1. f \subseteq Msgs  BY <1>5, <1>8
  <2> QED  BY <1>9, <2>1, SMT
<1> QED  BY <1>3, <1>4, <1>7, <1>8, <1>9, <1>10

LEMMA PurgeKeeps ==
  ASSUME BatchInv, NEW flags, Purge(flags)
  PROVE  BatchInv'
<1>1. PICK w, f, sent :
           /\ w \in Seq(Msgs) /\ Once(w) /\ queued' \in Seq(Msgs) /\ Once(queued')
           /\ \A m : Has(w, m) => Has(queued, m)
           /\ \A m : Has(queued', m) <=> Has(queued, m) /\ ~Has(w, m)
           /\ Len(queued') + Len(w) = Len(queued)
           /\ f \subseteq inflight /\ IsFiniteSet(f) /\ inflight' = inflight \ f /\ IsFiniteSet(inflight')
           /\ Cardinality(inflight') + Cardinality(f) = Cardinality(inflight)
           /\ sent \in Seq(Msgs) /\ Len(sent) = Cardinality(f) /\ Once(sent) /\ \A m : Has(sent, m) <=> m \in f
           /\ reports' = (reports \o w) \o sent
  BY PurgeTakes
<1>2. reports \in Seq(Msgs) /\ Once(reports) /\ OnePlace  BY DEF BatchInv, Types, NoDoubles
<1>a. w \in Seq(Msgs) /\ sent \in Seq(Msgs)  BY <1>1
<1>3. Downstream  BY DEF Purge, Downstream, chans, batcher, bhist
<1>4. Waiting' = Waiting /\ Counts' /\ ByTopic' /\ InOrder'  BY <1>3, DownstreamKeeps
<1>5. /\ failing' = failing /\ leftOut' = leftOut /\ received' = received /\ polling' = polling
      /\ closePc' = closePc /\ isClosed' = isClosed /\ channelClosed' = channelClosed /\ eventsClosed' = eventsClosed
      /\ eventCh' = eventCh
  BY DEF Purge, chans, batcher, bhist
<1>6. /\ reports \o w \in Seq(Msgs) /\ Len(reports \o w) = Len(reports) + Len(w) /\ Len(w) \in Nat
      /\ \A m : Has(reports \o w, m) <=> Has(reports, m) \/ Has(w, m)
  BY <1>2, <1>a, HasConcat
<1>7. /\ reports' \in Seq(Msgs) /\ Len(reports') = Len(reports \o w) + Len(sent) /\ Len(sent) \in Nat
      /\ \A m : Has(reports', m) <=> Has(reports \o w, m) \/ Has(sent, m)
  <2>1. PICK r : r = reports \o w  OBVIOUS
  <2>2. r \in Seq(Msgs) /\ reports' = r \o sent  BY <2>1, <1>6, <1>1
  <2>3. /\ r \o sent \in Seq(Msgs) /\ Len(r \o sent) = Len(r) + Len(sent) /\ Len(sent) \in Nat
        /\ \A m : Has(r \o sent, m) <=> Has(r, m) \/ Has(sent, m)
    BY <2>2, <1>a, HasConcat
  <2> QED  BY <2>1, <2>2, <2>3
<1>8. \A m : Here("reports", m)' <=> Here("reports", m) \/ Has(w, m) \/ m \in f
  BY <1>1, <1>6, <1>7, HereIs, HereNext
<1>9. \A m : /\ Has(w, m) => Here("queued", m)
             /\ m \in f => Here("inflight", m)
             /\ Here("queued", m)' <=> Here("queued", m) /\ ~Has(w, m)
             /\ Here("inflight", m)' <=> Here("inflight", m) /\ m \notin f
  BY <1>1, HereIs, HereNext
<1>10. \A m : /\ Here("queued", m) => ~Here("inflight", m) /\ ~Here("reports", m)
              /\ Here("inflight", m) => ~Here("reports", m)
  BY <1>2 DEF OnePlace
<1>11. OnePlace'
  <2>1. PICK M : M = {m \in Msgs : Has(w, m)} \cup f  OBVIOUS
  <2>2. \A m : m \in M <=> Has(w, m) \/ m \in f
    <3>1. \A m : Has(w, m) => m \in Msgs
      <4>1. \A i \in 1 .. Len(w) : w[i] \in Msgs  BY <1>1, SMT
      <4> QED  BY <4>1 DEF Has
    <3> QED  BY <2>1, <3>1
  <2>3. \A m \in M : \E n \in {"queued", "inflight"} : Here(n, m)  BY <2>2, <1>9
  <2>4. ASSUME NEW n \in {"queued", "inflight"}, NEW m  PROVE Here(n, m)' <=> Here(n, m) /\ m \notin M
    <3>1. CASE n = "queued"  BY <3>1, <2>2, <1>9, <1>10
    <3>2. CASE n = "inflight"  BY <3>2, <2>2, <1>9, <1>10
    <3> QED  BY <3>1, <3>2, <2>4
  <2>5. \A m : Here("reports", m)' <=> Here("reports", m) \/ m \in M  BY <1>8, <2>2
  <2>6. ASSUME NEW n, NEW m, n \notin {"queued", "inflight"}, n # "reports"  PROVE Here(n, m)' <=> Here(n, m)
    <3>1. Still(n)  BY <2>6, <1>3, <1>4, <1>5 DEF Still, Downstream
    <3> QED  BY <3>1, StillThere
  <2>7. "reports" \notin {"queued", "inflight"}  OBVIOUS
  <2>8. Moves(M, {"queued", "inflight"}, "reports")  BY <2>3, <2>4, <2>5, <2>6, <2>7 DEF Moves
  <2> QED  BY <2>8, <1>2, <1>3, <1>5, MovesOnePlace DEF Downstream
<1>12. Once(reports')
  <2>1. PICK r : r = reports \o w  OBVIOUS
  <2>2. \A m : ~(Has(reports, m) /\ Has(w, m))  BY <1>9, <1>10, HereIs
  <2>3. Once(r)  BY <1>1, <1>2, <2>1, <2>2, OnceConcat
  <2>4. \A m : ~(Has(r, m) /\ Has(sent, m))  BY <1>1, <1>6, <1>9, <1>10, <2>1, HereIs
  <2>5. r \in Seq(Msgs)  BY <1>6, <2>1
  <2>6. Once(r \o sent)  BY <1>1, <2>3, <2>4, <2>5, OnceConcat
  <2> QED  BY <1>1, <2>1, <2>6
<1>13. NoDoubles'  BY <1>1, <1>3, <1>4, <1>5, <1>12 DEF BatchInv, NoDoubles, Downstream
<1>14. Types'
  <2>1. inflight' \subseteq Msgs  BY <1>1 DEF BatchInv, Types
  <2> QED  BY <2>1, <1>1, <1>3, <1>5, <1>7 DEF BatchInv, Types, Downstream
<1>15. Phases'  BY <1>3, <1>5 DEF BatchInv, Phases, Downstream
<1>16. Limits'
  <2>1. InQueue' = Len(queued') + Cardinality(inflight') + ((Len(reports) + Len(w)) + Cardinality(f))
    BY <1>1, <1>6, <1>7 DEF InQueue
  <2>2. Len(queued') \in Nat  BY <1>1, SMT
  <2>3. Cardinality(inflight') \in Nat /\ Cardinality(f) \in Nat  BY <1>1, FS_CardinalityType
  <2>4. Len(queued') + Len(w) = Len(queued) /\ Cardinality(inflight') + Cardinality(f) = Cardinality(inflight)
    BY <1>1
  <2>5. /\ Len(w) \in Nat /\ Len(queued) \in Nat /\ Cardinality(inflight) \in Nat /\ Len(reports) \in Nat
        /\ QueueMax \in Nat /\ Len(queued) + Cardinality(inflight) + Len(reports) <= QueueMax
    BY <1>6, QueueLength
  <2>a. PICK q, i, c, k : q = Len(queued') /\ i = Cardinality(inflight') /\ c = Cardinality(f) /\ k = InQueue'  OBVIOUS
  <2>b. PICK o, g, r, l : o = Len(queued) /\ g = Cardinality(inflight) /\ r = Len(reports) /\ l = Len(w)  OBVIOUS
  <2>c. /\ q \in Nat /\ i \in Nat /\ c \in Nat /\ o \in Nat /\ g \in Nat /\ r \in Nat /\ l \in Nat /\ QueueMax \in Nat
        /\ k = q + i + ((r + l) + c) /\ q + l = o /\ i + c = g /\ o + g + r <= QueueMax
    BY <2>1, <2>2, <2>3, <2>4, <2>5, <2>a, <2>b
  <2>d. k <= QueueMax  BY ONLY <2>c, SMT
  <2>6. InQueue' <= QueueMax  BY <2>a, <2>d
  <2> QED  BY <2>6, <1>3, <1>5 DEF BatchInv, Limits, Downstream
<1> QED  BY <1>4, <1>11, <1>13, <1>14, <1>15, <1>16 DEF BatchInv

-----------------------------------------------------------------------------
(* The batch producer between its calls.                                    *)
LEMMA SendBackKeeps ==
  ASSUME BatchInv, SendBack
  PROVE  BatchInv'
<1>0. failing \in Seq(Msgs) /\ failing # <<>> /\ Once(failing) /\ eventCh \in Seq(Msgs) /\ Once(eventCh)
  BY DEF BatchInv, Types, NoDoubles, SendBack
<1>h. PICK h : h = Head(failing)  OBVIOUS
<1>1. /\ h \in Msgs /\ Tail(failing) \in Seq(Msgs)
      /\ Has(failing, h) /\ \A m : Has(failing, m) <=> m = h \/ Has(Tail(failing), m)
  BY <1>0, <1>h, HasTail
<1>2. Once(Tail(failing)) /\ ~Has(Tail(failing), h)  BY <1>0, <1>h, OnceTail
<1>3. Downstream  BY DEF SendBack, Downstream, chans, bhist
<1>4. Waiting' = Waiting /\ Counts' /\ ByTopic' /\ InOrder'  BY <1>3, DownstreamKeeps
<1>5. /\ failing' = Tail(failing) /\ queued' = queued /\ reports' = reports /\ inflight' = inflight
      /\ leftOut' = leftOut /\ received' = received /\ polling' = polling
      /\ closePc' = closePc /\ isClosed' = isClosed /\ channelClosed' = channelClosed /\ eventsClosed' = eventsClosed
      /\ eventCh' = Append(eventCh, h) /\ Len(eventCh) < EventsSize /\ bpc = "fail"
  BY <1>h DEF SendBack, chans, rkafka, bhist
<1>a. /\ Append(eventCh, h) \in Seq(Msgs) /\ Len(Append(eventCh, h)) = Len(eventCh) + 1 /\ Len(eventCh) \in Nat
      /\ \A m : Has(Append(eventCh, h), m) <=> m = h \/ Has(eventCh, m)
  BY <1>0, <1>1, HasAppend
<1>b. ~Has(eventCh, h)
  <2>1. Here("failing", h)  BY <1>1, HereIs
  <2>2. ~Here("events", h)  BY <2>1 DEF BatchInv, OnePlace
  <2> QED  BY <2>2, HereIs
<1>c. Once(Append(eventCh, h))  BY <1>0, <1>1, <1>b, OnceAppend
<1>6. Types'  BY <1>1, <1>3, <1>5, <1>a DEF BatchInv, Types, Downstream
<1>7. Phases'  BY <1>3, <1>5 DEF BatchInv, Phases, Downstream
<1>8. Limits'
  <2>1. Len(eventCh) + 1 <= EventsSize
    <3>1. Len(eventCh) < EventsSize /\ EventsSize \in Nat  BY <1>5, BatchConstants
    <3> QED  BY <3>1, <1>a, SMT
  <2>2. InQueue' = InQueue  BY <1>5 DEF InQueue
  <2> QED  BY <2>1, <2>2, <1>a, <1>3, <1>5 DEF BatchInv, Limits, Downstream
<1>9. OnePlace'
  <2>1. Here("failing", h) /\ ~Here("failing", h)'  BY <1>1, <1>2, <1>5, HereIs, HereNext
  <2>2. \A m : m # h => (Here("failing", m)' <=> Here("failing", m))  BY <1>1, <1>5, HereIs, HereNext
  <2>3. \A m : Here("events", m)' <=> m = h \/ Here("events", m)  BY <1>a, <1>5, HereIs, HereNext
  <2>4. \A n : n # "failing" /\ n # "events" => Still(n)  BY <1>3, <1>4, <1>5 DEF Still, Downstream
  <2>5. Moves({h}, {"failing"}, "events")  BY <2>1, <2>2, <2>3, <2>4, MoveOne
  <2> QED  BY <2>5, <1>3, <1>5, MovesOnePlace DEF BatchInv, Downstream
<1>10. NoDoubles'  BY <1>2, <1>3, <1>4, <1>5, <1>c DEF BatchInv, NoDoubles, Downstream
<1> QED  BY <1>4, <1>6, <1>7, <1>8, <1>9, <1>10 DEF BatchInv

\* No message is touched: a step of Close(), or the batch producer goes on.
Turns ==
  /\ produceChannel' = produceChannel /\ written' = written /\ taken' = taken
  /\ buffered' = buffered /\ bufferedCnt' = bufferedCnt /\ batch' = batch /\ failing' = failing
  /\ queued' = queued /\ reports' = reports /\ inflight' = inflight /\ eventCh' = eventCh
  /\ leftOut' = leftOut /\ received' = received /\ polling' = polling

\* ... and the topics that wait are the same, but for those without messages.
LEMMA TurnsKeeps ==
  ASSUME BatchInv, Turns, Waiting' \subseteq Waiting, topicsLeft' \subseteq topicsLeft \/ batch = <<>>,
         \A t \in Waiting : buffered[t] # <<>> => t \in Waiting'
  PROVE  Limits' /\ OnePlace' /\ NoDoubles' /\ ByTopic' /\ InOrder' /\ Gathered' = Gathered
<1>1. Limits'
  <2>1. InQueue' = InQueue  BY DEF InQueue, Turns
  <2> QED  BY <2>1 DEF BatchInv, Limits, Turns
<1>2. OnePlace'
  <2>1. \A n : n # "map" => Still(n)  BY DEF Still, Turns
  <2>2. ASSUME NEW m  PROVE Here("map", m)' <=> Here("map", m)
    <3>1. (\E t \in Waiting' : Has(buffered[t], m)) <=> \E t \in Waiting : Has(buffered[t], m)  BY HasEmpty
    <3> QED  BY <3>1, HereIs, HereNext DEF Turns
  <2>3. Rests
    <3>1. SUFFICES ASSUME NEW n, NEW m  PROVE Here(n, m)' <=> Here(n, m)  BY DEF Rests
    <3>2. CASE n = "map"  BY <3>2, <2>2
    <3>3. CASE n # "map"  BY <3>3, <2>1, StillThere
    <3> QED  BY <3>2, <3>3
  <2> QED  BY <2>3, RestsOnePlace DEF BatchInv, Turns
<1>3. NoDoubles'  BY DEF BatchInv, NoDoubles, Turns
<1>4. ByTopic'
  <2>1. \A t \in Waiting' : \A m : Has(buffered'[t], m) => TopicOf[m] = t  BY DEF BatchInv, ByTopic, Turns
  <2>2. \A m : Has(batch', m) => TopicOf[m] \notin topicsLeft'  BY HasEmpty DEF BatchInv, ByTopic, Turns
  <2> QED  BY <2>1, <2>2 DEF ByTopic
<1>5. InOrder'
  <2>1. InOrder  BY DEF BatchInv
  <2> QED  BY <2>1 DEF InOrder, Turns
<1>6. Gathered' = Gathered  BY DEF Gathered, Turns
<1> QED  BY <1>1, <1>2, <1>3, <1>4, <1>5, <1>6

LEMMA BatchReturnsKeeps ==
  ASSUME BatchInv, BatchReturns \/ SendBackDone
  PROVE  BatchInv'
<1>1. Turns  BY DEF BatchReturns, SendBackDone, Turns, chans, rkafka, bhist
<1>2. /\ bpc \in {"call", "fail"} /\ bpc' = "topics" /\ topicsLeft' = topicsLeft /\ batch = <<>> /\ failing = <<>>
      /\ isClosed' = isClosed /\ channelClosed' = channelClosed /\ eventsClosed' = eventsClosed /\ closePc' = closePc
  BY DEF BatchReturns, SendBackDone, BGoto, chans, BatchInv, Phases
<1>3. Waiting' = Waiting  BY <1>2 DEF Waiting
<1>4. Limits' /\ OnePlace' /\ NoDoubles' /\ ByTopic' /\ InOrder' /\ Gathered' = Gathered
  BY <1>1, <1>2, <1>3, TurnsKeeps
<1>5. Types'  BY <1>1, <1>2 DEF BatchInv, Types, Turns
<1>6. Phases'  BY <1>1, <1>2 DEF BatchInv, Phases, Turns
<1>7. Counts'  BY <1>1, <1>2, <1>4 DEF BatchInv, Counts, Turns
<1> QED  BY <1>4, <1>5, <1>6, <1>7 DEF BatchInv

LEMMA RangeEndsKeeps ==
  ASSUME BatchInv, RangeEnds
  PROVE  BatchInv'
<1>1. Turns  BY DEF RangeEnds, Turns, chans, rkafka, bhist
<1>2. /\ bpc = "range" /\ bpc' = "done" /\ topicsLeft' = topicsLeft /\ channelClosed /\ produceChannel = <<>>
      /\ isClosed' = isClosed /\ channelClosed' = channelClosed /\ eventsClosed' = eventsClosed /\ closePc' = closePc
  BY DEF RangeEnds, BGoto, chans
<1>3. Waiting' = Waiting  BY <1>2 DEF Waiting
<1>4. Limits' /\ OnePlace' /\ NoDoubles' /\ ByTopic' /\ InOrder' /\ Gathered' = Gathered
  BY <1>1, <1>2, <1>3, TurnsKeeps
<1>5. Types'  BY <1>1, <1>2 DEF BatchInv, Types, Turns
<1>6. Phases'  BY <1>1, <1>2 DEF BatchInv, Phases, Turns
<1>7. Counts'  BY <1>1, <1>2, <1>4 DEF BatchInv, Counts, Turns
<1> QED  BY <1>4, <1>5, <1>6, <1>7 DEF BatchInv

LEMMA SelectDefaultKeeps ==
  ASSUME BatchInv, SelectDefault
  PROVE  BatchInv'
<1>1. Turns  BY DEF SelectDefault, Turns, chans, rkafka, bhist
<1>2. /\ bpc = "select" /\ bpc' = "topics" /\ topicsLeft' = {t \in Topics : buffered[t] # <<>>} /\ batch = <<>>
      /\ isClosed' = isClosed /\ channelClosed' = channelClosed /\ eventsClosed' = eventsClosed /\ closePc' = closePc
  BY DEF SelectDefault, BGoto, chans, BatchInv, Phases
<1>3. Waiting = Topics /\ Waiting' = {t \in Topics : buffered[t] # <<>>}  BY <1>2 DEF Waiting
<1>4. Limits' /\ OnePlace' /\ NoDoubles' /\ ByTopic' /\ InOrder' /\ Gathered' = Gathered
  BY <1>1, <1>2, <1>3, TurnsKeeps
<1>5. Types'
  <2>1. topicsLeft' \subseteq Topics  BY <1>2
  <2> QED  BY <1>1, <1>2, <2>1 DEF BatchInv, Types, Turns
<1>6. Phases'  BY <1>1, <1>2 DEF BatchInv, Phases, Turns
<1>7. Counts'  BY <1>1, <1>2, <1>4 DEF BatchInv, Counts, Turns
<1> QED  BY <1>4, <1>5, <1>6, <1>7 DEF BatchInv

-----------------------------------------------------------------------------
(* Close().                                                                 *)
LEMMA CloseKeeps ==
  ASSUME BatchInv, CloseTerm \/ CloseChannel \/ CloseJoin \/ CloseDestroy
  PROVE  BatchInv'
<1>1. Turns /\ bpc' = bpc /\ topicsLeft' = topicsLeft
  <2>1. CASE CloseTerm  BY <2>1 DEF CloseTerm, Turns, batcher, rkafka, bhist
  <2>2. CASE CloseChannel  BY <2>2 DEF CloseChannel, Turns, batcher, rkafka, bhist
  <2>3. CASE CloseJoin  BY <2>3 DEF CloseJoin, Turns, batcher, rkafka, bhist
  <2>4. CASE CloseDestroy  BY <2>4 DEF CloseDestroy, Turns, chans, batcher, bhist
  <2> QED  BY <2>1, <2>2, <2>3, <2>4
<1>3. Waiting' = Waiting  BY <1>1 DEF Waiting
<1>4. Limits' /\ OnePlace' /\ NoDoubles' /\ ByTopic' /\ InOrder' /\ Gathered' = Gathered
  BY <1>1, <1>3, TurnsKeeps
<1>5. Types'  BY <1>1 DEF BatchInv, Types, Turns
<1>6. Phases'
  <2>0. Phases  BY DEF BatchInv
  <2>1. CASE CloseTerm  BY <1>1, <2>0, <2>1 DEF CloseTerm, Phases, Turns
  <2>2. CASE CloseChannel
    <3>1. /\ closePc # "open" /\ isClosed' = isClosed /\ channelClosed' = TRUE /\ closePc' = "join"
          /\ eventsClosed' = eventsClosed
      BY <2>2 DEF CloseChannel
    <3>2. isClosed  BY <3>1, <2>0 DEF Phases
    <3> QED  BY <1>1, <2>0, <3>1, <3>2 DEF Phases, Turns
  <2>3. CASE CloseJoin
    <3>1. /\ closePc # "open" /\ isClosed' = isClosed /\ channelClosed' = channelClosed /\ closePc' = "destroy"
          /\ ~polling /\ bpc = "done"
      BY <2>3 DEF CloseJoin
    <3>2. isClosed  BY <3>1, <2>0 DEF Phases
    <3> QED  BY <1>1, <2>0, <3>1, <3>2 DEF Phases, Turns
  <2>4. CASE CloseDestroy
    <3>1. /\ closePc # "open" /\ isClosed' = isClosed /\ channelClosed' = channelClosed /\ closePc' = "closed"
          /\ eventsClosed' = eventsClosed
      BY <2>4 DEF CloseDestroy, chans
    <3>2. isClosed  BY <3>1, <2>0 DEF Phases
    <3> QED  BY <1>1, <2>0, <3>1, <3>2 DEF Phases, Turns
  <2> QED  BY <2>1, <2>2, <2>3, <2>4
<1>7. Counts'  BY <1>1, <1>4 DEF BatchInv, Counts, Turns
<1> QED  BY <1>4, <1>5, <1>6, <1>7 DEF BatchInv

-----------------------------------------------------------------------------
(* The map is made anew.                                                    *)
LEMMA ResetKeeps ==
  ASSUME BatchInv, Reset
  PROVE  BatchInv'
<1>1. /\ produceChannel' = produceChannel /\ written' = written /\ taken' = taken /\ batch' = batch
      /\ failing' = failing /\ queued' = queued /\ reports' = reports /\ inflight' = inflight /\ eventCh' = eventCh
      /\ leftOut' = leftOut /\ received' = received /\ polling' = polling
      /\ isClosed' = isClosed /\ channelClosed' = channelClosed /\ eventsClosed' = eventsClosed /\ closePc' = closePc
      /\ bpc = "topics" /\ bpc' = "range" /\ topicsLeft = {} /\ topicsLeft' = {}
      /\ buffered' = NoneBuffered /\ bufferedCnt' = 0
  BY DEF Reset, BGoto, chans, rkafka, bhist
<1>2. buffered' \in [Topics -> Seq(Msgs)] /\ \A t \in Topics : buffered'[t] = <<>>
  <2>1. <<>> \in Seq(Msgs)  BY SMT
  <2> QED  BY <1>1, <2>1 DEF NoneBuffered
<1>3. Waiting = {} /\ Waiting' = {}  BY <1>1 DEF Waiting
<1>4. Types'
  <2>1. 0 \in Nat /\ topicsLeft' \subseteq Topics  BY <1>1, SMT
  <2> QED  BY <1>1, <1>2, <2>1 DEF BatchInv, Types
<1>5. Phases'  BY <1>1, <1>2 DEF BatchInv, Phases
<1>6. Counts'
  <2>1. Gathered' = {}
    <3>1. Len(<<>>) = 0 /\ 1 .. 0 = {}  BY SMT
    <3>2. \A t \in Topics : {t} \X (1 .. Len(buffered'[t])) = {}
      <4>1. \A t \in Topics : 1 .. Len(buffered'[t]) = {}  BY <3>1, <1>2
      <4> QED  BY <4>1, SMT
    <3> QED  BY <3>2 DEF Gathered
  <2>2. IsFiniteSet({}) /\ Cardinality({}) = 0  BY FS_EmptySet
  <2>3. 0 <= (IF BatchSize = 1 THEN 2 ELSE BatchSize)  BY BatchConstants, SMT
  <2> QED  BY <2>1, <2>2, <2>3, <1>1 DEF Counts
<1>6a. InQueue' = InQueue  BY <1>1 DEF InQueue
<1>7. Limits'  BY <1>1, <1>6a DEF BatchInv, Limits
<1>8. OnePlace'
  <2>1. \A n : n # "map" => Still(n)  BY <1>1 DEF Still
  <2>2. \A m : Here("map", m)' <=> Here("map", m)  BY <1>3, HereIs, HereNext
  <2>3. Rests
    <3>1. SUFFICES ASSUME NEW n, NEW m  PROVE Here(n, m)' <=> Here(n, m)  BY DEF Rests
    <3>2. CASE n = "map"  BY <3>2, <2>2
    <3>3. CASE n # "map"  BY <3>3, <2>1, StillThere
    <3> QED  BY <3>2, <3>3
  <2> QED  BY <2>3, <1>1, RestsOnePlace DEF BatchInv
<1>9. NoDoubles'  BY <1>1, <1>3 DEF BatchInv, NoDoubles
<1>10. ByTopic'  BY <1>1, <1>3 DEF BatchInv, ByTopic
<1>11. InOrder'
  <2>1. InOrder  BY DEF BatchInv
  <2> QED  BY <2>1, <1>1, <1>3 DEF InOrder
<1> QED  BY <1>4, <1>5, <1>6, <1>7, <1>8, <1>9, <1>10, <1>11 DEF BatchInv

-----------------------------------------------------------------------------
(* The messages of a topic are handed to produceBatch().                    *)
LEMMA ProduceBatchKeeps ==
  ASSUME BatchInv, NEW u \in Topics, ProduceBatch(u)
  PROVE  BatchInv'
<1>1. /\ produceChannel' = produceChannel /\ written' = written /\ taken' = taken
      /\ buffered' = buffered /\ bufferedCnt' = bufferedCnt
      /\ queued' = queued /\ reports' = reports /\ inflight' = inflight /\ eventCh' = eventCh
      /\ leftOut' = leftOut /\ received' = received /\ polling' = polling
      /\ isClosed' = isClosed /\ channelClosed' = channelClosed /\ eventsClosed' = eventsClosed /\ closePc' = closePc
      /\ bpc = "topics" /\ u \in topicsLeft /\ topicsLeft' = topicsLeft \ {u}
  BY DEF ProduceBatch, chans, rkafka, bhist
<1>2. batch = <<>> /\ failing = <<>>  BY <1>1 DEF BatchInv, Phases
<1>3. \/ bpc' = "call" /\ batch' = buffered[u] /\ failing' = <<>>
      \/ bpc' = "fail" /\ failing' = buffered[u] /\ batch' = <<>>
  BY <1>2 DEF ProduceBatch, BGoto
<1>4. Waiting = topicsLeft /\ Waiting' = topicsLeft \ {u} /\ u \in Waiting  BY <1>1, <1>3 DEF Waiting
<1>5. /\ buffered[u] \in Seq(Msgs) /\ Once(buffered[u]) /\ Sorted(written, buffered[u])
      /\ \A m : Has(buffered[u], m) => TopicOf[m] = u
      /\ Precedes(written, buffered[u], produceChannel) /\ Precedes(written, taken[u], buffered[u])
  BY <1>4 DEF BatchInv, Types, NoDoubles, ByTopic, InOrder
<1>e. <<>> \in Seq(Msgs)  BY SMT
<1>6. Types'
  <2>1. topicsLeft' \subseteq Topics  BY <1>1 DEF BatchInv, Types
  <2>2. batch' \in Seq(Msgs) /\ failing' \in Seq(Msgs) /\ bpc' \in {"call", "fail"}  BY <1>3, <1>5, <1>e
  <2> QED  BY <1>1, <2>1, <2>2 DEF BatchInv, Types
<1>7. Phases'  BY <1>1, <1>3 DEF BatchInv, Phases
<1>8. Counts'
  <2>1. Gathered' = Gathered  BY <1>1 DEF Gathered
  <2>2. bpc' # "range" /\ bpc' # "select"  BY <1>3
  <2> QED  BY <2>1, <2>2, <1>1 DEF BatchInv, Counts
<1>9. Limits'
  <2>1. InQueue' = InQueue  BY <1>1 DEF InQueue
  <2> QED  BY <2>1, <1>1 DEF BatchInv, Limits
<1>10. NoDoubles'
  <2>1. Once(batch') /\ Once(failing')  BY <1>3, <1>5, HasEmpty
  <2> QED  BY <2>1, <1>1, <1>4 DEF BatchInv, NoDoubles
<1>11. ByTopic'
  <2>1. \A m : Has(batch', m) => TopicOf[m] \notin topicsLeft'
    <3>1. \A m : Has(batch', m) => TopicOf[m] = u  BY <1>3, <1>5, HasEmpty
    <3> QED  BY <3>1, <1>1
  <2>2. \A t \in Waiting' : \A m : Has(buffered'[t], m) => TopicOf[m] = t  BY <1>1, <1>4 DEF BatchInv, ByTopic
  <2> QED  BY <2>1, <2>2 DEF ByTopic
<1>12. InOrder'
  <2>1. InOrder  BY DEF BatchInv
  <2>2. Sorted(written', batch')  BY <1>1, <1>3, <1>5, HasEmpty
  <2>3. Precedes(written', batch', produceChannel')  BY <1>1, <1>3, <1>5, HasEmpty DEF Precedes
  <2>4. ASSUME NEW a, NEW m, Has(batch', m), Has(taken'[TopicOf[m]], a)  PROVE Ahead(written', a, m)
    <3>1. batch' = buffered[u]  BY <2>4, <1>3, HasEmpty
    <3>2. TopicOf[m] = u  BY <3>1, <2>4, <1>5
    <3> QED  BY <3>1, <3>2, <2>4, <1>1, <1>5 DEF Precedes
  <2>5. Waiting' \subseteq Waiting  BY <1>4
  <2> QED  BY <2>1, <2>2, <2>3, <2>4, <2>5, <1>1 DEF InOrder
<1>13. OnePlace'
  <2>1. PICK M : M = {m \in Msgs : Has(buffered[u], m)}  OBVIOUS
  <2>2. \A m : m \in M <=> Has(buffered[u], m)
    <3>1. \A i \in 1 .. Len(buffered[u]) : buffered[u][i] \in Msgs  BY <1>5, SMT
    <3> QED  BY <2>1, <3>1 DEF Has
  <2>3. \A m \in M : \E n \in {"map"} : Here(n, m)  BY <2>2, <1>4, HereIs
  <2>4. ASSUME NEW n \in {"map"}, NEW m  PROVE Here(n, m)' <=> Here(n, m) /\ m \notin M
    <3>1. Here("map", m)' <=> \E t \in topicsLeft \ {u} : Has(buffered[t], m)  BY <1>1, <1>4, HereNext
    <3>2. Here("map", m) <=> \E t \in topicsLeft : Has(buffered[t], m)  BY <1>4, HereIs
    <3>3. \A t \in topicsLeft : Has(buffered[t], m) => TopicOf[m] = t  BY <1>4 DEF BatchInv, ByTopic
    <3>4. n = "map"  BY <2>4
    <3> QED  BY <3>1, <3>2, <3>3, <3>4, <2>2, <1>1
  <2>5. ASSUME NEW b, NEW c, {b, c} = {"batch", "failing"},
               \A m : Here(b, m)' <=> Here(b, m) \/ m \in M, Still(c)
        PROVE  Moves(M, {"map"}, b)
    <3>1. b \notin {"map"} /\ \A n : n # b /\ n # c => n # "batch" /\ n # "failing"  BY <2>5
    <3>2. ASSUME NEW n, NEW m, n \notin {"map"}, n # b  PROVE Here(n, m)' <=> Here(n, m)
      <4>1. CASE n = c  BY <4>1, <2>5, StillThere
      <4>2. CASE n # c
        <5>1. n # "batch" /\ n # "failing" /\ n # "map"  BY <4>2, <3>1, <3>2
        <5>2. Still(n)  BY <5>1, <1>1 DEF Still
        <5> QED  BY <5>2, StillThere
      <4> QED  BY <4>1, <4>2
    <3> QED  BY <3>1, <3>2, <2>3, <2>4, <2>5 DEF Moves
  <2>6. \E b : Moves(M, {"map"}, b)
    <3>1. CASE bpc' = "call" /\ batch' = buffered[u] /\ failing' = <<>>
      <4>1. Still("failing")  BY <3>1, <1>2 DEF Still
      <4>2. \A m : Here("batch", m)' <=> Here("batch", m) \/ m \in M  BY <3>1, <1>2, <2>2, HasEmpty, HereIs, HereNext
      <4>3. {"batch", "failing"} = {"batch", "failing"}  OBVIOUS
      <4> QED  BY <4>1, <4>2, <4>3, <2>5
    <3>2. CASE bpc' = "fail" /\ failing' = buffered[u] /\ batch' = <<>>
      <4>1. Still("batch")  BY <3>2, <1>2 DEF Still
      <4>2. \A m : Here("failing", m)' <=> Here("failing", m) \/ m \in M
        BY <3>2, <1>2, <2>2, HasEmpty, HereIs, HereNext
      <4>3. {"failing", "batch"} = {"batch", "failing"}  OBVIOUS
      <4> QED  BY <4>1, <4>2, <4>3, <2>5
    <3> QED  BY <3>1, <3>2, <1>3
  <2>7. PICK b : Moves(M, {"map"}, b)  BY <2>6
  <2> QED  BY <2>7, <1>1, MovesOnePlace DEF BatchInv
<1> QED  BY <1>6, <1>7, <1>8, <1>9, <1>10, <1>11, <1>12, <1>13 DEF BatchInv

-----------------------------------------------------------------------------
(* A message is gathered.                                                   *)

\* While messages are gathered, the map is all there is to hand over.
LEMMA WholeMap ==
  ASSUME BatchInv, bpc \in {"range", "select"}
  PROVE  /\ topicsLeft = {} /\ batch = <<>> /\ failing = <<>> /\ Waiting \subseteq Topics
         /\ \A t \in Topics : buffered[t] # <<>> => t \in Waiting
         /\ \A t \in Topics : /\ Once(buffered[t]) /\ Sorted(written, buffered[t])
                              /\ \A m : Has(buffered[t], m) => TopicOf[m] = t
                              /\ Precedes(written, buffered[t], produceChannel)
                              /\ Precedes(written, taken[t], buffered[t])
         /\ \A m : Here("map", m) <=> \E t \in Topics : Has(buffered[t], m)
<1>1. topicsLeft = {} /\ batch = <<>> /\ failing = <<>>  BY DEF BatchInv, Phases
<1>2. Waiting \subseteq Topics /\ \A t \in Topics : buffered[t] # <<>> => t \in Waiting
  <2>1. CASE bpc = "select"  BY <2>1 DEF Waiting
  <2>2. CASE bpc = "range"  BY <2>2, <1>1 DEF Waiting, BatchInv, Phases
  <2> QED  BY <2>1, <2>2
<1>3. ASSUME NEW t \in Topics
      PROVE  /\ Once(buffered[t]) /\ Sorted(written, buffered[t])
             /\ \A m : Has(buffered[t], m) => TopicOf[m] = t
             /\ Precedes(written, buffered[t], produceChannel)
             /\ Precedes(written, taken[t], buffered[t])
  <2>1. CASE t \in Waiting  BY <2>1 DEF BatchInv, NoDoubles, ByTopic, InOrder
  <2>2. CASE buffered[t] = <<>>  BY <2>2, HasEmpty DEF Precedes
  <2> QED  BY <2>1, <2>2, <1>2
<1>4. \A m : Here("map", m) <=> \E t \in Topics : Has(buffered[t], m)
  BY <1>2, HasEmpty, HereIs
<1> QED  BY <1>1, <1>2, <1>3, <1>4

\* The map has one message more.
LEMMA GatheredOneMore ==
  ASSUME NEW T \in Topics, buffered \in [Topics -> Seq(Msgs)], NEW x \in Msgs,
         buffered' = [buffered EXCEPT ![T] = Append(buffered[T], x)], IsFiniteSet(Gathered)
  PROVE  IsFiniteSet(Gathered') /\ Cardinality(Gathered') = Cardinality(Gathered) + 1
<1>1. PICK n : n = Len(buffered[T])  OBVIOUS
<1>2. /\ n \in Nat /\ buffered'[T] = Append(buffered[T], x) /\ Len(buffered'[T]) = n + 1
      /\ \A t \in Topics : t # T => buffered'[t] = buffered[t]
  <2>1. buffered[T] \in Seq(Msgs)  OBVIOUS
  <2>2. n \in Nat /\ Len(Append(buffered[T], x)) = n + 1  BY <1>1, <2>1, HasAppend
  <2> QED  BY <2>2
<1>3. \A t, i : <<t, i>> \in Gathered <=> t \in Topics /\ i \in 1 .. Len(buffered[t])  BY SMT DEF Gathered
<1>4. \A t, i : <<t, i>> \in Gathered' <=> t \in Topics /\ i \in 1 .. Len(buffered'[t])  BY SMT DEF Gathered
<1>5. \A p \in Gathered : \E t, i : p = <<t, i>>  BY SMT DEF Gathered
<1>6. \A p \in Gathered' : \E t, i : p = <<t, i>>  BY SMT DEF Gathered
<1>7. \A i : i \in 1 .. n + 1 <=> i = n + 1 \/ i \in 1 .. n  BY <1>2, SMT
<1>8. ASSUME NEW t, NEW i  PROVE <<t, i>> \in Gathered' <=> <<t, i>> \in Gathered \cup {<<T, n + 1>>}
  <2>1. <<t, i>> \in {<<T, n + 1>>} <=> t = T /\ i = n + 1  BY SMT
  <2>2. CASE t = T
    <3>1. <<t, i>> \in Gathered' <=> i \in 1 .. n + 1  BY <2>2, <1>2, <1>4
    <3>2. <<t, i>> \in Gathered <=> i \in 1 .. n  BY <2>2, <1>1, <1>3
    <3> QED  BY <3>1, <3>2, <2>1, <2>2, <1>7
  <2>3. CASE t # T
    <3>1. <<t, i>> \in Gathered' <=> <<t, i>> \in Gathered  BY <2>3, <1>2, <1>3, <1>4
    <3> QED  BY <3>1, <2>1, <2>3
  <2> QED  BY <2>2, <2>3
<1>9. Gathered' = Gathered \cup {<<T, n + 1>>}
  <2>1. ASSUME NEW p, p \in Gathered'  PROVE p \in Gathered \cup {<<T, n + 1>>}
    <3>1. PICK t, i : p = <<t, i>>  BY <2>1, <1>6
    <3> QED  BY <3>1, <2>1, <1>8
  <2>2. ASSUME NEW p, p \in Gathered  PROVE p \in Gathered'
    <3>1. PICK t, i : p = <<t, i>>  BY <2>2, <1>5
    <3> QED  BY <3>1, <2>2, <1>8
  <2>3. <<T, n + 1>> \in Gathered'  BY <1>8
  <2> QED  BY <2>1, <2>2, <2>3
<1>10. <<T, n + 1>> \notin Gathered
  <2>1. n + 1 \notin 1 .. n  BY <1>2, SMT
  <2> QED  BY <2>1, <1>1, <1>3
<1> QED  BY <1>9, <1>10, FS_AddElement

LEMMA GatherKeeps ==
  ASSUME BatchInv, Gather
  PROVE  BatchInv'
<1>0. produceChannel \in Seq(Msgs) /\ produceChannel # <<>> /\ Once(produceChannel)
      /\ Sorted(written, produceChannel) /\ bpc \in {"range", "select"}
  BY DEF BatchInv, Types, NoDoubles, InOrder, Gather
<1>h. PICK h : h = Head(produceChannel)  OBVIOUS
<1>1. /\ h \in Msgs /\ Tail(produceChannel) \in Seq(Msgs) /\ Len(Tail(produceChannel)) = Len(produceChannel) - 1
      /\ Len(produceChannel) \in Nat
      /\ Has(produceChannel, h) /\ \A m : Has(produceChannel, m) <=> m = h \/ Has(Tail(produceChannel), m)
  BY <1>0, <1>h, HasTail
<1>2. Once(Tail(produceChannel)) /\ ~Has(Tail(produceChannel), h)  BY <1>0, <1>h, OnceTail
<1>3. Sorted(written, Tail(produceChannel)) /\ \A m : Has(Tail(produceChannel), m) => Ahead(written, h, m)
  BY <1>0, <1>h, SortedTail
<1>T. PICK T : T = TopicOf[h]  OBVIOUS
<1>4. T \in Topics  BY <1>1, <1>T DEF Topics
<1>5. /\ produceChannel' = Tail(produceChannel) /\ written' = written /\ taken' = taken
      /\ buffered' = [buffered EXCEPT ![T] = Append(buffered[T], h)] /\ bufferedCnt' = bufferedCnt + 1
      /\ batch' = batch /\ failing' = failing
      /\ queued' = queued /\ reports' = reports /\ inflight' = inflight /\ eventCh' = eventCh
      /\ leftOut' = leftOut /\ received' = received /\ polling' = polling
      /\ isClosed' = isClosed /\ channelClosed' = channelClosed /\ eventsClosed' = eventsClosed /\ closePc' = closePc
      /\ \/ bpc = "select" /\ bpc' = "topics" /\ topicsLeft' = {t \in Topics : buffered'[t] # <<>>}
         \/ bpc' = "select" /\ topicsLeft' = topicsLeft /\ ~(bpc = "select" /\ bufferedCnt' >= BatchSize)
  BY <1>h, <1>T DEF Gather, BGoto, rkafka, bhist
<1>6. /\ topicsLeft = {} /\ batch = <<>> /\ failing = <<>> /\ Waiting \subseteq Topics
      /\ \A t \in Topics : buffered[t] # <<>> => t \in Waiting
      /\ \A t \in Topics : /\ Once(buffered[t]) /\ Sorted(written, buffered[t])
                           /\ \A m : Has(buffered[t], m) => TopicOf[m] = t
                           /\ Precedes(written, buffered[t], produceChannel)
                           /\ Precedes(written, taken[t], buffered[t])
      /\ \A m : Here("map", m) <=> \E t \in Topics : Has(buffered[t], m)
  BY <1>0, WholeMap
<1>7. /\ buffered \in [Topics -> Seq(Msgs)] /\ buffered[T] \in Seq(Msgs)
      /\ buffered'[T] = Append(buffered[T], h) /\ \A t \in Topics : t # T => buffered'[t] = buffered[t]
  BY <1>4, <1>5 DEF BatchInv, Types
<1>8. Append(buffered[T], h) \in Seq(Msgs) /\ \A m : Has(buffered'[T], m) <=> m = h \/ Has(buffered[T], m)
  <2>1. h \in Msgs /\ buffered[T] \in Seq(Msgs)  BY <1>1, <1>7
  <2>2. /\ Append(buffered[T], h) \in Seq(Msgs)
        /\ \A m : Has(Append(buffered[T], h), m) <=> m = h \/ Has(buffered[T], m)
    BY <2>1, HasAppend
  <2> QED  BY <2>2, <1>7
<1>9. \A t \in Topics : \A m : Has(buffered'[t], m) <=> (t = T /\ m = h) \/ Has(buffered[t], m)  BY <1>7, <1>8
<1>10. Waiting' \subseteq Topics /\ \A t \in Topics : buffered'[t] # <<>> => t \in Waiting'
  BY <1>5 DEF Waiting
<1>11. \A m : Here("map", m)' <=> \E t \in Topics : Has(buffered'[t], m)  BY <1>10, HasEmpty, HereNext
<1>12. ~Has(buffered[T], h)
  <2>1. Here("channel", h)  BY <1>1, HereIs
  <2>2. ~Here("map", h)  BY <2>1 DEF BatchInv, OnePlace
  <2> QED  BY <2>2, <1>4, <1>6
<1>13. Types'
  <2>1. buffered' \in [Topics -> Seq(Msgs)]  BY <1>4, <1>5, <1>7, <1>8
  <2>2. topicsLeft' \subseteq Topics /\ bpc' \in {"select", "topics"}  BY <1>5, <1>6
  <2>3. bufferedCnt' \in Nat
    <3>1. bufferedCnt \in Nat  BY DEF BatchInv, Types
    <3> QED  BY <3>1, <1>5, SMT
  <2> QED  BY <2>1, <2>2, <2>3, <1>1, <1>5 DEF BatchInv, Types
<1>14. Phases'
  <2>1. bpc' # "range" /\ bpc' # "done" /\ bpc # "done" /\ (bpc' = "select" => topicsLeft' = {})  BY <1>0, <1>5, <1>6
  <2> QED  BY <2>1, <1>5, <1>6 DEF BatchInv, Phases
<1>15. Counts'
  <2>1. IsFiniteSet(Gathered') /\ Cardinality(Gathered') = Cardinality(Gathered) + 1
    BY <1>1, <1>4, <1>5, <1>7, GatheredOneMore DEF BatchInv, Counts
  <2>2. bufferedCnt' = Cardinality(Gathered')  BY <2>1, <1>5 DEF BatchInv, Counts
  <2>3. bpc' # "range"  BY <1>5
  <2>4. PICK c, d : c = bufferedCnt /\ d = bufferedCnt'  OBVIOUS
  <2>5. c \in Nat /\ d = c + 1 /\ BatchSize \in Nat \ {0}  BY <2>4, <1>5, BatchConstants DEF BatchInv, Types
  <2>6. c = 0 \/ c = 1 \/ c < BatchSize  BY <2>4, <1>0 DEF BatchInv, Counts
  <2>7. d <= (IF BatchSize = 1 THEN 2 ELSE BatchSize)  BY ONLY <2>5, <2>6, SMT
  <2>8. bpc' = "select" => d = 1 \/ d < BatchSize
    <3>1. CASE bpc = "range"
      <4>1. c = 0  BY <3>1, <2>4 DEF BatchInv, Counts
      <4>2. d = 1  BY ONLY <4>1, <2>5, SMT
      <4> QED  BY <4>2
    <3>2. CASE bpc = "select"
      <4>1. ~(d >= BatchSize) => d < BatchSize  BY ONLY <2>5, SMT
      <4> QED  BY <4>1, <3>2, <2>4, <1>5
    <3> QED  BY <3>1, <3>2, <1>0
  <2> QED  BY <2>1, <2>2, <2>3, <2>4, <2>7, <2>8 DEF Counts
<1>16. Limits'
  <2>1. InQueue' = InQueue  BY <1>5 DEF InQueue
  <2>2. Len(produceChannel) - 1 <= ChannelSize
    <3>1. Len(produceChannel) <= ChannelSize /\ ChannelSize \in Nat  BY BatchConstants DEF BatchInv, Limits
    <3> QED  BY <3>1, <1>1, SMT
  <2> QED  BY <2>1, <2>2, <1>1, <1>5 DEF BatchInv, Limits
<1>17. OnePlace'
  <2>1. Here("channel", h) /\ ~Here("channel", h)'  BY <1>1, <1>2, <1>5, HereIs, HereNext
  <2>2. \A m : m # h => (Here("channel", m)' <=> Here("channel", m))  BY <1>1, <1>5, HereIs, HereNext
  <2>3. \A m : Here("map", m)' <=> m = h \/ Here("map", m)  BY <1>4, <1>6, <1>9, <1>11
  <2>4. \A n : n # "channel" /\ n # "map" => Still(n)  BY <1>5 DEF Still
  <2>5. Moves({h}, {"channel"}, "map")  BY <2>1, <2>2, <2>3, <2>4, MoveOne
  <2> QED  BY <2>5, <1>5, MovesOnePlace DEF BatchInv
<1>18. NoDoubles'
  <2>1. Once(Append(buffered[T], h))  BY <1>1, <1>4, <1>6, <1>7, <1>12, OnceAppend
  <2>2. \A t \in Topics : Once(buffered'[t])  BY <2>1, <1>6, <1>7
  <2> QED  BY <2>2, <1>2, <1>5, <1>10 DEF BatchInv, NoDoubles
<1>19. ByTopic'
  <2>1. \A t \in Topics : \A m : Has(buffered'[t], m) => TopicOf[m] = t  BY <1>6, <1>9, <1>T
  <2> QED  BY <2>1, <1>5, <1>6, <1>10, HasEmpty DEF ByTopic
<1>20. InOrder'
  <2>1. \A t \in Topics : Sorted(written, buffered'[t])
    <3>1. \A m : Has(buffered[T], m) => Ahead(written, m, h)  BY <1>1, <1>4, <1>6 DEF Precedes
    <3>2. Sorted(written, Append(buffered[T], h))  BY <3>1, <1>1, <1>4, <1>6, <1>7, SortedAppend
    <3> QED  BY <3>2, <1>6, <1>7
  <2>2. ASSUME NEW t \in Topics  PROVE Precedes(written, buffered'[t], produceChannel')
    <3>1. SUFFICES ASSUME NEW a, NEW b, Has(buffered'[t], a), Has(produceChannel', b)  PROVE Ahead(written, a, b)
      BY DEF Precedes
    <3>2. Has(Tail(produceChannel), b) /\ Has(produceChannel, b)  BY <3>1, <1>1, <1>5
    <3>3. CASE a = h  BY <3>2, <3>3, <1>3
    <3>4. CASE Has(buffered[t], a)  BY <3>2, <3>4, <1>6 DEF Precedes
    <3> QED  BY <3>1, <3>3, <3>4, <1>9
  <2>3. \A t \in Topics : Precedes(written, taken[t], produceChannel')
    <3>1. \A t \in Topics : Precedes(written, taken[t], produceChannel)  BY DEF BatchInv, InOrder
    <3> QED  BY <3>1, <1>1, <1>5 DEF Precedes
  <2>4. ASSUME NEW t \in Topics  PROVE Precedes(written, taken[t], buffered'[t])
    <3>1. SUFFICES ASSUME NEW a, NEW b, Has(taken[t], a), Has(buffered'[t], b)  PROVE Ahead(written, a, b)
      BY DEF Precedes
    <3>2. CASE b = h
      <4>1. Precedes(written, taken[t], produceChannel)  BY DEF BatchInv, InOrder
      <4> QED  BY <4>1, <3>1, <3>2, <1>1 DEF Precedes
    <3>3. CASE Has(buffered[t], b)  BY <3>1, <3>3, <1>6 DEF Precedes
    <3> QED  BY <3>1, <3>2, <3>3, <1>9
  <2>5. Sorted(written', batch') /\ Precedes(written', batch', produceChannel')
    BY <1>5, <1>6, HasEmpty DEF Precedes
  <2>6. \A a, m : Has(batch', m) /\ Has(taken'[TopicOf[m]], a) => Ahead(written', a, m)  BY <1>5, <1>6, HasEmpty
  <2>7. \A t \in Topics : Sorted(written, taken[t]) /\ \A m : Has(taken[t], m) => Has(written, m)
    BY DEF BatchInv, InOrder
  <2> QED  BY <2>1, <2>2, <2>3, <2>4, <2>5, <2>6, <2>7, <1>3, <1>5, <1>10 DEF InOrder
<1> QED  BY <1>13, <1>14, <1>15, <1>16, <1>17, <1>18, <1>19, <1>20 DEF BatchInv

-----------------------------------------------------------------------------
(* librdkafka takes a message of the batch, or leaves it out.               *)
LEMMA TakeMessageKeeps ==
  ASSUME BatchInv, TakeMessage
  PROVE  BatchInv'
<1>0. /\ batch \in Seq(Msgs) /\ batch # <<>> /\ Once(batch) /\ Sorted(written, batch) /\ queued \in Seq(Msgs)
      /\ Once(queued) /\ bpc = "call"
  BY DEF BatchInv, Types, NoDoubles, InOrder, TakeMessage
<1>h. PICK h : h = Head(batch)  OBVIOUS
<1>1. /\ h \in Msgs /\ Tail(batch) \in Seq(Msgs)
      /\ Has(batch, h) /\ \A m : Has(batch, m) <=> m = h \/ Has(Tail(batch), m)
  BY <1>0, <1>h, HasTail
<1>2. Once(Tail(batch)) /\ ~Has(Tail(batch), h)  BY <1>0, <1>h, OnceTail
<1>3. Sorted(written, Tail(batch)) /\ \A m : Has(Tail(batch), m) => Ahead(written, h, m)
  BY <1>0, <1>h, SortedTail
<1>T. PICK T : T = TopicOf[h]  OBVIOUS
<1>4. T \in Topics  BY <1>1, <1>T DEF Topics
<1>5. /\ produceChannel' = produceChannel /\ written' = written /\ batch' = Tail(batch)
      /\ buffered' = buffered /\ bufferedCnt' = bufferedCnt /\ failing' = failing
      /\ reports' = reports /\ inflight' = inflight /\ eventCh' = eventCh
      /\ received' = received /\ polling' = polling /\ bpc' = bpc /\ topicsLeft' = topicsLeft
      /\ isClosed' = isClosed /\ channelClosed' = channelClosed /\ eventsClosed' = eventsClosed /\ closePc' = closePc
  BY DEF TakeMessage, chans
<1>6. \/ leftOut' = leftOut \cup {h} /\ queued' = queued /\ taken' = taken
      \/ /\ InQueue < QueueMax /\ queued' = Append(queued, h) /\ leftOut' = leftOut
         /\ taken' = [taken EXCEPT ![T] = Append(taken[T], h)]
  BY <1>h, <1>T DEF TakeMessage
<1>7. Waiting' = Waiting /\ Waiting = topicsLeft /\ Waiting \subseteq Topics
  BY <1>0, <1>5 DEF Waiting, BatchInv, Types
<1>8. Here("batch", h) /\ ~Has(queued, h) /\ Has(written, h)
  <2>1. Here("batch", h)  BY <1>1, HereIs
  <2>2. ~Here("queued", h) /\ Has(written, h)  BY <2>1 DEF BatchInv, OnePlace
  <2> QED  BY <2>1, <2>2, HereIs
<1>9. /\ Append(queued, h) \in Seq(Msgs) /\ Len(Append(queued, h)) = Len(queued) + 1
      /\ \A m : Has(Append(queued, h), m) <=> m = h \/ Has(queued, m)
  BY <1>0, <1>1, HasAppend
<1>10. Once(Append(queued, h))  BY <1>0, <1>1, <1>8, OnceAppend
<1>11. taken \in [Topics -> Seq(Msgs)] /\ taken[T] \in Seq(Msgs)  BY <1>4 DEF BatchInv, Types
<1>12. /\ Append(taken[T], h) \in Seq(Msgs)
       /\ \A m : Has(Append(taken[T], h), m) <=> m = h \/ Has(taken[T], m)
  <2>1. h \in Msgs /\ taken[T] \in Seq(Msgs)  BY <1>1, <1>11
  <2> QED  BY <2>1, HasAppend
<1>13. /\ \A t \in Topics : t # T => taken'[t] = taken[t]
       /\ taken'[T] = taken[T] \/ taken'[T] = Append(taken[T], h)
       /\ taken' \in [Topics -> Seq(Msgs)]
  BY <1>4, <1>6, <1>11, <1>12
<1>14. \A t \in Topics : \A m : Has(taken'[t], m) => (t = T /\ m = h) \/ Has(taken[t], m)  BY <1>12, <1>13
<1>15. Types'
  <2>1. queued' \in Seq(Msgs)  BY <1>0, <1>6, <1>9
  <2> QED  BY <2>1, <1>1, <1>5, <1>13 DEF BatchInv, Types
<1>16. Phases'  BY <1>0, <1>5 DEF BatchInv, Phases
<1>17. Counts'
  <2>1. Gathered' = Gathered  BY <1>5 DEF Gathered
  <2> QED  BY <2>1, <1>5 DEF BatchInv, Counts
<1>18. Limits'
  <2>1. InQueue' <= QueueMax
    <3>1. CASE queued' = queued
      <4>1. InQueue' = InQueue  BY <3>1, <1>5 DEF InQueue
      <4> QED  BY <4>1 DEF BatchInv, Limits
    <3>2. CASE InQueue < QueueMax /\ queued' = Append(queued, h)
      <4>1. InQueue' = (Len(queued) + 1) + Cardinality(inflight) + Len(reports)  BY <3>2, <1>5, <1>9 DEF InQueue
      <4> QED  BY <4>1, <3>2, QueueLength, SMT
    <3> QED  BY <3>1, <3>2, <1>6
  <2> QED  BY <2>1, <1>5 DEF BatchInv, Limits
<1>19. OnePlace'
  <2>1. Here("batch", h) /\ ~Here("batch", h)'  BY <1>2, <1>5, <1>8, HereNext
  <2>2. \A m : m # h => (Here("batch", m)' <=> Here("batch", m))  BY <1>1, <1>5, HereIs, HereNext
  <2>3. \E b : Moves({h}, {"batch"}, b)
    <3>1. CASE leftOut' = leftOut \cup {h} /\ queued' = queued
      <4>1. \A m : Here("leftOut", m)' <=> m = h \/ Here("leftOut", m)  BY <3>1, HereIs, HereNext
      <4>2. \A n : n # "batch" /\ n # "leftOut" => Still(n)  BY <3>1, <1>5, <1>7 DEF Still
      <4>3. Moves({h}, {"batch"}, "leftOut")  BY <2>1, <2>2, <4>1, <4>2, MoveOne
      <4> QED  BY <4>3
    <3>2. CASE queued' = Append(queued, h) /\ leftOut' = leftOut
      <4>1. \A m : Here("queued", m)' <=> m = h \/ Here("queued", m)  BY <3>2, <1>9, HereIs, HereNext
      <4>2. \A n : n # "batch" /\ n # "queued" => Still(n)  BY <3>2, <1>5, <1>7 DEF Still
      <4>3. Moves({h}, {"batch"}, "queued")  BY <2>1, <2>2, <4>1, <4>2, MoveOne
      <4> QED  BY <4>3
    <3> QED  BY <3>1, <3>2, <1>6
  <2>4. PICK b : Moves({h}, {"batch"}, b)  BY <2>3
  <2> QED  BY <2>4, <1>5, MovesOnePlace DEF BatchInv
<1>20. NoDoubles'
  <2>1. Once(queued')  BY <1>0, <1>6, <1>10
  <2> QED  BY <2>1, <1>2, <1>5, <1>7 DEF BatchInv, NoDoubles
<1>21. ByTopic /\ InOrder  BY DEF BatchInv
<1>22. ByTopic'
  <2>1. \A m : Has(batch', m) => TopicOf[m] \notin topicsLeft'  BY <1>1, <1>5, <1>21 DEF ByTopic
  <2>2. \A t \in Waiting' : \A m : Has(buffered'[t], m) => TopicOf[m] = t  BY <1>5, <1>7, <1>21 DEF ByTopic
  <2> QED  BY <2>1, <2>2 DEF ByTopic
<1>23. InOrder'
  <2>1. \A t \in Topics : Sorted(written, taken'[t])
    <3>1. \A m : Has(taken[T], m) => Ahead(written, m, h)  BY <1>1, <1>T, <1>21 DEF InOrder
    <3>2. Sorted(written, taken[T])  BY <1>4, <1>21 DEF InOrder
    <3>3. Sorted(written, Append(taken[T], h))  BY <3>1, <3>2, <1>1, <1>11, SortedAppend
    <3>4. \A t \in Topics : Sorted(written, taken[t])  BY <1>21 DEF InOrder
    <3> QED  BY <3>3, <3>4, <1>13
  <2>2. Precedes(written, batch', produceChannel)
    <3>1. Precedes(written, batch, produceChannel)  BY <1>21 DEF InOrder
    <3> QED  BY <3>1, <1>1, <1>5 DEF Precedes
  <2>3. ASSUME NEW t \in Topics  PROVE Precedes(written, taken'[t], produceChannel)
    <3>1. Precedes(written, batch, produceChannel) /\ Precedes(written, taken[t], produceChannel)
      BY <1>21 DEF InOrder
    <3> QED  BY <3>1, <1>1, <1>14 DEF Precedes
  <2>4. ASSUME NEW t \in Waiting  PROVE Precedes(written, taken'[t], buffered[t])
    <3>1. t # T  BY <1>1, <1>7, <1>T, <1>21 DEF ByTopic
    <3>2. taken'[t] = taken[t]  BY <3>1, <1>7, <1>13
    <3> QED  BY <3>2, <1>21 DEF InOrder
  <2>5. ASSUME NEW a, NEW m, Has(batch', m), Has(taken'[TopicOf[m]], a)  PROVE Ahead(written, a, m)
    <3>1. Has(Tail(batch), m) /\ Has(batch, m)  BY <2>5, <1>1, <1>5
    <3>2. m \in Msgs
      <4>1. \A i \in 1 .. Len(batch) : batch[i] \in Msgs  BY <1>0, SMT
      <4> QED  BY <4>1, <3>1 DEF Has
    <3>3. TopicOf[m] \in Topics  BY <3>2 DEF Topics
    <3>4. CASE a = h  BY <3>1, <3>4, <1>3
    <3>5. CASE Has(taken[TopicOf[m]], a)  BY <3>1, <3>5, <1>21 DEF InOrder
    <3> QED  BY <3>3, <3>4, <3>5, <2>5, <1>14
  <2>6. \A t \in Topics : \A m : Has(taken'[t], m) => Has(written, m)  BY <1>8, <1>14, <1>21 DEF InOrder
  <2>7. /\ Sorted(written, produceChannel)
        /\ \A t \in Waiting : Sorted(written, buffered[t]) /\ Precedes(written, buffered[t], produceChannel)
    BY <1>21 DEF InOrder
  <2> QED  BY <2>1, <2>2, <2>3, <2>4, <2>5, <2>6, <2>7, <1>3, <1>5, <1>7 DEF InOrder
<1> QED  BY <1>15, <1>16, <1>17, <1>18, <1>19, <1>20, <1>22, <1>23 DEF BatchInv

-----------------------------------------------------------------------------
(* The application writes a message.                                        *)

\* What is ahead stays ahead when a message is written, and all is ahead of that one.
LEMMA AheadGrows ==
  ASSUME NEW w \in Seq(Msgs), NEW x \in Msgs
  PROVE  /\ \A a, b : Ahead(w, a, b) => Ahead(Append(w, x), a, b)
         /\ \A a : Has(w, a) => Ahead(Append(w, x), a, x)
         /\ \A s : Sorted(w, s) => Sorted(Append(w, x), s)
<1>1. /\ \A i \in 1 .. Len(w) : Append(w, x)[i] = w[i] /\ i \in 1 .. Len(Append(w, x)) /\ i < Len(w) + 1
      /\ Append(w, x)[Len(w) + 1] = x /\ Len(w) + 1 \in 1 .. Len(Append(w, x))
  BY SMT
<1>2. ASSUME NEW a, NEW b, Ahead(w, a, b)  PROVE Ahead(Append(w, x), a, b)
  <2>1. PICK k, l \in 1 .. Len(w) : k < l /\ w[k] = a /\ w[l] = b  BY <1>2 DEF Ahead
  <2>2. /\ k \in 1 .. Len(Append(w, x)) /\ l \in 1 .. Len(Append(w, x))
        /\ Append(w, x)[k] = a /\ Append(w, x)[l] = b
    BY <2>1, <1>1
  <2> QED  BY <2>1, <2>2 DEF Ahead
<1>3. ASSUME NEW a, Has(w, a)  PROVE Ahead(Append(w, x), a, x)
  <2>1. PICK i \in 1 .. Len(w) : w[i] = a  BY <1>3 DEF Has
  <2>2. i \in 1 .. Len(Append(w, x)) /\ Append(w, x)[i] = a /\ i < Len(w) + 1  BY <2>1, <1>1
  <2> QED  BY <2>2, <1>1 DEF Ahead
<1> QED  BY <1>2, <1>3 DEF Sorted

LEMMA WriteKeeps ==
  ASSUME BatchInv, NEW x \in Msgs, Write(x)
  PROVE  BatchInv'
<1>0. /\ produceChannel \in Seq(Msgs) /\ Once(produceChannel) /\ written \in Seq(Msgs) /\ Once(written)
      /\ OnePlace /\ InOrder
  BY DEF BatchInv, Types, NoDoubles
<1>1. /\ produceChannel' = Append(produceChannel, x) /\ written' = Append(written, x) /\ taken' = taken
      /\ buffered' = buffered /\ bufferedCnt' = bufferedCnt /\ batch' = batch /\ failing' = failing
      /\ queued' = queued /\ reports' = reports /\ inflight' = inflight /\ eventCh' = eventCh
      /\ leftOut' = leftOut /\ received' = received /\ polling' = polling /\ bpc' = bpc /\ topicsLeft' = topicsLeft
      /\ isClosed' = isClosed /\ channelClosed' = channelClosed /\ eventsClosed' = eventsClosed /\ closePc' = closePc
      /\ ~isClosed /\ Len(produceChannel) < ChannelSize
  BY DEF Write, batcher, rkafka
<1>2. ~Has(written, x)  BY DEF Write, Has
<1>3. /\ Append(produceChannel, x) \in Seq(Msgs) /\ Len(Append(produceChannel, x)) = Len(produceChannel) + 1
      /\ Len(produceChannel) \in Nat
      /\ \A m : Has(Append(produceChannel, x), m) <=> m = x \/ Has(produceChannel, m)
  BY <1>0, HasAppend
<1>4. Append(written, x) \in Seq(Msgs) /\ \A m : Has(Append(written, x), m) <=> m = x \/ Has(written, m)
  <2>1. written \in Seq(Msgs)  BY <1>0
  <2> QED  BY <2>1, HasAppend
<1>5. \A n : ~Here(n, x)  BY <1>0, <1>2 DEF OnePlace
<1>6. Waiting' = Waiting  BY <1>1 DEF Waiting
<1>7. Types'  BY <1>1, <1>3, <1>4 DEF BatchInv, Types
<1>8. Phases'
  <2>1. bpc # "done"  BY <1>1 DEF BatchInv, Phases
  <2> QED  BY <2>1, <1>1 DEF BatchInv, Phases
<1>9. Counts'
  <2>1. Gathered' = Gathered  BY <1>1 DEF Gathered
  <2> QED  BY <2>1, <1>1 DEF BatchInv, Counts
<1>10. Limits'
  <2>1. InQueue' = InQueue  BY <1>1 DEF InQueue
  <2>2. Len(produceChannel) + 1 <= ChannelSize
    <3>1. Len(produceChannel) < ChannelSize /\ ChannelSize \in Nat  BY <1>1, BatchConstants
    <3> QED  BY <3>1, <1>3, SMT
  <2> QED  BY <2>1, <2>2, <1>1, <1>3 DEF BatchInv, Limits
<1>11. OnePlace'
  <2>1. \A n : n # "channel" => Still(n)  BY <1>1, <1>6 DEF Still
  <2>2. \A m : Here("channel", m)' <=> m = x \/ Here("channel", m)  BY <1>1, <1>3, HereIs, HereNext
  <2>3. ASSUME NEW n, NEW m  PROVE Here(n, m)' <=> (n = "channel" /\ m = x) \/ Here(n, m)
    <3>1. CASE n = "channel"  BY <3>1, <2>2
    <3>2. CASE n # "channel"  BY <3>2, <2>1, StillThere
    <3> QED  BY <3>1, <3>2
  <2>4. ASSUME NEW m, NEW n, NEW o, Here(n, m)', Here(o, m)'  PROVE n = o
    <3>1. CASE m = x  BY <3>1, <2>3, <2>4, <1>5
    <3>2. CASE m # x  BY <3>2, <2>3, <2>4, <1>0 DEF OnePlace
    <3> QED  BY <3>1, <3>2
  <2>5. ASSUME NEW m, NEW n, Here(n, m)'  PROVE Has(written', m)
    <3>1. CASE m = x  BY <3>1, <1>1, <1>4
    <3>2. CASE m # x
      <4>1. Has(written, m)  BY <3>2, <2>3, <2>5, <1>0 DEF OnePlace
      <4> QED  BY <4>1, <1>1, <1>4
    <3> QED  BY <3>1, <3>2
  <2>6. ASSUME NEW m, Lost(m)'  PROVE Lost(m)
    <3>1. \A n : ~Here(n, m)' /\ ~Here(n, m)  BY <2>3, <2>6 DEF Lost
    <3>2. m # x  BY <2>2, <3>1
    <3>3. Has(written, m)  BY <3>2, <2>6, <1>1, <1>4 DEF Lost
    <3> QED  BY <3>1, <3>3 DEF Lost
  <2>7. ASSUME NEW m, NEW o, Lost(m)', Lost(o)'  PROVE ~polling' /\ m = o
    BY <2>6, <2>7, <1>0, <1>1 DEF OnePlace
  <2> QED  BY <2>4, <2>5, <2>7 DEF OnePlace
<1>12. NoDoubles'
  <2>1. ~Has(produceChannel, x)  BY <1>5, HereIs
  <2>2. Once(Append(produceChannel, x))  BY <1>0, <2>1, OnceAppend
  <2>3. Once(Append(written, x))  BY <1>0, <1>2, OnceAppend
  <2> QED  BY <2>2, <2>3, <1>1, <1>6 DEF BatchInv, NoDoubles
<1>13. ByTopic'  BY <1>1, <1>6 DEF BatchInv, ByTopic
<1>14. InOrder'
  <2>1. PICK w : w = Append(written, x)  OBVIOUS
  <2>2. /\ \A a, b : Ahead(written, a, b) => Ahead(w, a, b)
        /\ \A a : Has(written, a) => Ahead(w, a, x)
        /\ \A s : Sorted(written, s) => Sorted(w, s)
    <3>1. written \in Seq(Msgs)  BY <1>0
    <3> QED  BY <3>1, <2>1, AheadGrows
  <2>3. Sorted(w, produceChannel')
    <3>1. Sorted(w, produceChannel)  BY <2>2, <1>0 DEF InOrder
    <3>2. \A m : Has(produceChannel, m) => Ahead(w, m, x)
      <4>1. \A m : Has(produceChannel, m) => Has(written, m)  BY <1>0, HereIs DEF OnePlace
      <4> QED  BY <4>1, <2>2
    <3>3. Sorted(w, Append(produceChannel, x))  BY <3>1, <3>2, <1>0, SortedAppend
    <3> QED  BY <3>3, <1>1
  <2>4. ASSUME NEW r, Precedes(written, r, produceChannel), \A m : Has(r, m) => Has(written, m)
        PROVE  Precedes(w, r, produceChannel')
    BY <2>2, <2>4, <1>1, <1>3 DEF Precedes
  <2>5. \A m : Has(batch, m) => Has(written, m)  BY <1>0, HereIs DEF OnePlace
  <2>6. \A t \in Waiting : \A m : Has(buffered[t], m) => Has(written, m)
    <3>1. \A m : Here("map", m) => Has(written, m)  BY <1>0 DEF OnePlace
    <3> QED  BY <3>1, HereIs
  <2>7. \A t \in Topics : \A m : Has(taken[t], m) => Has(written, m)  BY <1>0 DEF InOrder
  <2>8. Precedes(w, batch, produceChannel')  BY <2>4, <2>5, <1>0 DEF InOrder
  <2>9. \A t \in Waiting : Precedes(w, buffered[t], produceChannel')  BY <2>4, <2>6, <1>0 DEF InOrder
  <2>10. \A t \in Topics : Precedes(w, taken[t], produceChannel')  BY <2>4, <2>7, <1>0 DEF InOrder
  <2>11. \A t \in Waiting : Precedes(w, taken[t], buffered[t])  BY <2>2, <1>0 DEF InOrder, Precedes
  <2>12. \A a, m : Has(batch, m) /\ Has(taken[TopicOf[m]], a) => Ahead(w, a, m)  BY <2>2, <1>0 DEF InOrder
  <2>13. \A t \in Topics : \A m : Has(taken[t], m) => Has(w, m)  BY <2>1, <2>7, <1>4
  <2>14. /\ Sorted(w, batch)
         /\ \A t \in Waiting : Sorted(w, buffered[t])
         /\ \A t \in Topics : Sorted(w, taken[t])
    BY <2>2, <1>0 DEF InOrder
  <2>15. written' = w  BY <2>1, <1>1
  <2> QED
    BY <2>3, <2>8, <2>9, <2>10, <2>11, <2>12, <2>13, <2>14, <2>15, <1>1, <1>6 DEF InOrder
<1> QED  BY <1>7, <1>8, <1>9, <1>10, <1>11, <1>12, <1>13, <1>14 DEF BatchInv

-----------------------------------------------------------------------------
(* The invariant holds.                                                     *)
LEMMA BatchInvInit == BInit => BatchInv
<1> SUFFICES ASSUME BInit  PROVE BatchInv  OBVIOUS
<1>e. <<>> \in Seq(Msgs) /\ Len(<<>>) = 0 /\ 0 \in Nat /\ 1 .. 0 = {}  BY SMT
<1>1. /\ produceChannel = <<>> /\ written = <<>> /\ batch = <<>> /\ failing = <<>> /\ queued = <<>>
      /\ reports = <<>> /\ eventCh = <<>> /\ inflight = {} /\ leftOut = {} /\ received = {}
      /\ bpc = "range" /\ topicsLeft = {} /\ bufferedCnt = 0 /\ closePc = "open" /\ eventsClosed = FALSE
      /\ channelClosed = FALSE /\ isClosed = FALSE
  BY DEF BInit
<1>2. /\ buffered \in [Topics -> Seq(Msgs)] /\ taken \in [Topics -> Seq(Msgs)]
      /\ \A t \in Topics : buffered[t] = <<>> /\ taken[t] = <<>>
  BY <1>e DEF BInit, NoneBuffered
<1>3. Waiting = {}  BY <1>1 DEF Waiting
<1>4. IsFiniteSet({}) /\ Cardinality({}) = 0  BY FS_EmptySet
<1>5. Types  BY <1>e, <1>1, <1>2, <1>4 DEF Types
<1>6. Phases  BY <1>1, <1>2 DEF Phases
<1>7. Counts
  <2>1. Gathered = {}
    <3>1. \A t \in Topics : 1 .. Len(buffered[t]) = {}  BY <1>e, <1>2
    <3>2. \A t \in Topics : {t} \X (1 .. Len(buffered[t])) = {}  BY <3>1, SMT
    <3> QED  BY <3>2 DEF Gathered
  <2>2. 0 <= (IF BatchSize = 1 THEN 2 ELSE BatchSize)  BY BatchConstants, SMT
  <2> QED  BY <2>1, <2>2, <1>1, <1>4 DEF Counts
<1>8. Limits
  <2>1. 0 <= ChannelSize /\ 0 <= EventsSize /\ 0 + 0 + 0 <= QueueMax  BY BatchConstants, SMT
  <2> QED  BY <2>1, <1>e, <1>1, <1>4 DEF Limits, InQueue
<1>9. OnePlace
  <2>1. \A n, m : ~Here(n, m)  BY <1>1, <1>3, HasEmpty DEF Here
  <2>2. \A m : ~Lost(m)  BY <1>1, HasEmpty DEF Lost
  <2> QED  BY <2>1, <2>2 DEF OnePlace
<1>10. NoDoubles  BY <1>1, <1>3, HasEmpty DEF NoDoubles
<1>11. ByTopic  BY <1>1, <1>3, HasEmpty DEF ByTopic
<1>12. InOrder
  <2>1. \A t \in Topics : Sorted(written, taken[t]) /\ \A m : ~Has(taken[t], m)  BY <1>2, HasEmpty
  <2> QED  BY <2>1, <1>1, <1>3, HasEmpty DEF InOrder, Precedes
<1> QED  BY <1>5, <1>6, <1>7, <1>8, <1>9, <1>10, <1>11, <1>12 DEF BatchInv

LEMMA BatchInvNext == BatchInv /\ [BNext]_bvars => BatchInv'
<1> SUFFICES ASSUME BatchInv, [BNext]_bvars  PROVE BatchInv'  OBVIOUS
<1>1. CASE UNCHANGED bvars
  <2>1. Turns /\ bpc' = bpc /\ topicsLeft' = topicsLeft
    BY <1>1 DEF bvars, chans, batcher, rkafka, bhist, Turns
  <2>2. /\ isClosed' = isClosed /\ channelClosed' = channelClosed /\ eventsClosed' = eventsClosed
        /\ closePc' = closePc
    BY <1>1 DEF bvars, chans
  <2>3. Waiting' = Waiting  BY <2>1 DEF Waiting
  <2>4. Limits' /\ OnePlace' /\ NoDoubles' /\ ByTopic' /\ InOrder' /\ Gathered' = Gathered
    BY <2>1, <2>3, TurnsKeeps
  <2>5. Types'  BY <2>1 DEF BatchInv, Types, Turns
  <2>6. Phases'  BY <2>1, <2>2 DEF BatchInv, Phases, Turns
  <2>7. Counts'  BY <2>1, <2>4 DEF BatchInv, Counts, Turns
  <2> QED  BY <2>4, <2>5, <2>6, <2>7 DEF BatchInv
<1>2. ASSUME NEW m \in Msgs, Write(m) \/ RkReport(m)  PROVE BatchInv'
  BY <1>2, WriteKeeps, RkReportKeeps
<1>3. CASE ReadEvents  BY <1>3, ReadEventsKeeps
<1>4. CASE Batcher
  <2>1. ASSUME NEW t \in Topics, ProduceBatch(t)  PROVE BatchInv'  BY <2>1, ProduceBatchKeeps
  <2>2. CASE Gather \/ SelectDefault \/ RangeEnds  BY <2>2, GatherKeeps, SelectDefaultKeeps, RangeEndsKeeps
  <2>3. CASE TakeMessage \/ SendBack \/ Reset  BY <2>3, TakeMessageKeeps, SendBackKeeps, ResetKeeps
  <2>4. CASE BatchReturns \/ SendBackDone  BY <2>4, BatchReturnsKeeps
  <2> QED  BY <1>4, <2>1, <2>2, <2>3, <2>4 DEF Batcher
<1>5. CASE PollReport \/ PollerStops  BY <1>5, PollReportKeeps, PollerStopsKeeps
<1>6. CASE RkSend  BY <1>6, RkSendKeeps
<1>7. ASSUME NEW flags \in SUBSET {"queue", "inflight"}, Purge(flags)  PROVE BatchInv'  BY <1>7, PurgeKeeps
<1>8. CASE CloseTerm \/ Closer  BY <1>8, CloseKeeps DEF Closer
<1> QED  BY <1>1, <1>2, <1>3, <1>4, <1>5, <1>6, <1>7, <1>8 DEF BNext

LEMMA BatchInvHolds == BSpec => []BatchInv
<1>1. BInit => BatchInv  BY BatchInvInit
<1>2. BatchInv /\ [BNext]_bvars => BatchInv'  BY BatchInvNext
<1> QED  BY <1>1, <1>2, PTL DEF BSpec

\* The messages of a topic reach librdkafka in the order they were written to
\* ProduceChannel(), over all batches: channelBatchProducer() gathers them in the order
\* it reads them and hands a topic's batch over before it reads on.
THEOREM TopicsInOrder == BSpec => []TopicOrder
<1>1. BatchInv => TopicOrder
  <2> SUFFICES ASSUME BatchInv  PROVE TopicOrder  OBVIOUS
  <2>1. \A t \in Topics : Sorted(written, taken[t])  BY DEF BatchInv, InOrder
  <2> QED  BY <2>1 DEF TopicOrder, Sorted, Ahead
<1> QED  BY <1>1, BatchInvHolds, PTL

\* The names of the places.
LEMMA PlaceNames ==
  ASSUME NEW m, NEW p \in Places(m)
  PROVE  \/ \E n \in {"channel", "batch", "failing", "queued", "reports", "events"} :
              \E i \in At(Lines[n], m) : p = <<"line", n, i>>
         \/ \E t \in Waiting : \E i \in At(buffered[t], m) : p = <<"map", t, i>>
         \/ \E n \in {"inflight", "leftOut", "received"} : m \in Sets[n] /\ p = <<"set", n, 0>>
<1>1. DOMAIN Lines = {"channel", "batch", "failing", "queued", "reports", "events"}  BY SMT DEF Lines
<1>2. DOMAIN Sets = {"inflight", "leftOut", "received"}  BY SMT DEF Sets
<1>3. \/ p \in UNION {{<<"line", n, i>> : i \in At(Lines[n], m)} : n \in DOMAIN Lines}
      \/ p \in UNION {{<<"map", t, i>> : i \in At(buffered[t], m)} : t \in Waiting}
      \/ p \in {<<"set", n, 0>> : n \in {n \in DOMAIN Sets : m \in Sets[n]}}
  BY DEF Places
<1>4. CASE p \in UNION {{<<"line", n, i>> : i \in At(Lines[n], m)} : n \in DOMAIN Lines}
  <2>1. PICK n \in DOMAIN Lines : p \in {<<"line", n, i>> : i \in At(Lines[n], m)}  BY <1>4
  <2> QED  BY <2>1, <1>1
<1>5. CASE p \in UNION {{<<"map", t, i>> : i \in At(buffered[t], m)} : t \in Waiting}
  <2>1. PICK t \in Waiting : p \in {<<"map", t, i>> : i \in At(buffered[t], m)}  BY <1>5
  <2> QED  BY <2>1
<1>6. CASE p \in {<<"set", n, 0>> : n \in {n \in DOMAIN Sets : m \in Sets[n]}}  BY <1>6, <1>2
<1> QED  BY <1>3, <1>4, <1>5, <1>6

\* Where a message is found there it is.
LEMMA PlaceIsHere ==
  ASSUME NEW m, NEW n \in {"channel", "batch", "failing", "queued", "reports", "events"}, NEW i \in At(Lines[n], m)
  PROVE  /\ Here(n, m) /\ i \in 1 .. Len(Lines[n]) /\ Lines[n][i] = m
<1>1. i \in 1 .. Len(Lines[n]) /\ Lines[n][i] = m  BY DEF At
<1>2. Has(Lines[n], m)  BY <1>1 DEF Has
<1>3. CASE n = "channel"
  <2>1. Lines[n] = produceChannel  BY <1>3 DEF Lines
  <2> QED  BY <2>1, <1>1, <1>2, <1>3, HereIs
<1>4. CASE n = "batch"
  <2>1. Lines[n] = batch  BY <1>4 DEF Lines
  <2> QED  BY <2>1, <1>1, <1>2, <1>4, HereIs
<1>5. CASE n = "failing"
  <2>1. Lines[n] = failing  BY <1>5 DEF Lines
  <2> QED  BY <2>1, <1>1, <1>2, <1>5, HereIs
<1>6. CASE n = "queued"
  <2>1. Lines[n] = queued  BY <1>6 DEF Lines
  <2> QED  BY <2>1, <1>1, <1>2, <1>6, HereIs
<1>7. CASE n = "reports"
  <2>1. Lines[n] = reports  BY <1>7 DEF Lines
  <2> QED  BY <2>1, <1>1, <1>2, <1>7, HereIs
<1>8. CASE n = "events"
  <2>1. Lines[n] = eventCh  BY <1>8 DEF Lines
  <2> QED  BY <2>1, <1>1, <1>2, <1>8, HereIs
<1> QED  BY <1>3, <1>4, <1>5, <1>6, <1>7, <1>8

LEMMA MapIsHere ==
  ASSUME NEW m, NEW t \in Waiting, NEW i \in At(buffered[t], m)
  PROVE  Here("map", m) /\ i \in 1 .. Len(buffered[t]) /\ buffered[t][i] = m
<1>1. i \in 1 .. Len(buffered[t]) /\ buffered[t][i] = m  BY DEF At
<1>2. Has(buffered[t], m)  BY <1>1 DEF Has
<1> QED  BY <1>1, <1>2, HereIs

LEMMA SetIsHere ==
  ASSUME NEW m, NEW n \in {"inflight", "leftOut", "received"}, m \in Sets[n]
  PROVE  Here(n, m)
<1>1. CASE n = "inflight"
  <2>1. Sets[n] = inflight  BY <1>1 DEF Sets
  <2> QED  BY <2>1, <1>1, HereIs
<1>2. CASE n = "leftOut"
  <2>1. Sets[n] = leftOut  BY <1>2 DEF Sets
  <2> QED  BY <2>1, <1>2, HereIs
<1>3. CASE n = "received"
  <2>1. Sets[n] = received  BY <1>3 DEF Sets
  <2> QED  BY <2>1, <1>3, HereIs
<1> QED  BY <1>1, <1>2, <1>3

\* ... and the other way round.
LEMMA HereHasPlace ==
  ASSUME NEW m, NEW n, Here(n, m)
  PROVE  Places(m) # {}
<1>0. ASSUME NEW l \in {"channel", "batch", "failing", "queued", "reports", "events"}, Has(Lines[l], m)
      PROVE  Places(m) # {}
  <2>1. PICK i \in 1 .. Len(Lines[l]) : Lines[l][i] = m  BY <1>0 DEF Has
  <2>2. i \in At(Lines[l], m)  BY <2>1 DEF At
  <2>3. DOMAIN Lines = {"channel", "batch", "failing", "queued", "reports", "events"}  BY SMT DEF Lines
  <2>4. <<"line", l, i>> \in {<<"line", l, k>> : k \in At(Lines[l], m)}  BY <2>2
  <2>5. <<"line", l, i>> \in UNION {{<<"line", o, k>> : k \in At(Lines[o], m)} : o \in DOMAIN Lines}
    BY <2>3, <2>4
  <2>6. <<"line", l, i>> \in Places(m)  BY <2>5 DEF Places
  <2> QED  BY <2>6
<1>s. ASSUME NEW l \in {"inflight", "leftOut", "received"}, m \in Sets[l]
      PROVE  Places(m) # {}
  <2>1. DOMAIN Sets = {"inflight", "leftOut", "received"}  BY SMT DEF Sets
  <2>2. <<"set", l, 0>> \in Places(m)  BY <2>1, <1>s DEF Places
  <2> QED  BY <2>2
<1>1. CASE Has(produceChannel, m)
  <2>1. Lines["channel"] = produceChannel  BY DEF Lines
  <2> QED  BY <2>1, <1>1, <1>0
<1>2. CASE Has(batch, m)
  <2>1. Lines["batch"] = batch  BY DEF Lines
  <2> QED  BY <2>1, <1>2, <1>0
<1>3. CASE Has(failing, m)
  <2>1. Lines["failing"] = failing  BY DEF Lines
  <2> QED  BY <2>1, <1>3, <1>0
<1>4. CASE Has(queued, m)
  <2>1. Lines["queued"] = queued  BY DEF Lines
  <2> QED  BY <2>1, <1>4, <1>0
<1>5. CASE Has(reports, m)
  <2>1. Lines["reports"] = reports  BY DEF Lines
  <2> QED  BY <2>1, <1>5, <1>0
<1>6. CASE Has(eventCh, m)
  <2>1. Lines["events"] = eventCh  BY DEF Lines
  <2> QED  BY <2>1, <1>6, <1>0
<1>7. CASE m \in inflight
  <2>1. Sets["inflight"] = inflight  BY DEF Sets
  <2> QED  BY <2>1, <1>7, <1>s
<1>8. CASE m \in leftOut
  <2>1. Sets["leftOut"] = leftOut  BY DEF Sets
  <2> QED  BY <2>1, <1>8, <1>s
<1>9. CASE m \in received
  <2>1. Sets["received"] = received  BY DEF Sets
  <2> QED  BY <2>1, <1>9, <1>s
<1>10. CASE \E t \in Waiting : Has(buffered[t], m)
  <2>1. PICK t \in Waiting : Has(buffered[t], m)  BY <1>10
  <2>2. PICK i \in 1 .. Len(buffered[t]) : buffered[t][i] = m  BY <2>1 DEF Has
  <2>3. i \in At(buffered[t], m)  BY <2>2 DEF At
  <2>4. <<"map", t, i>> \in {<<"map", t, k>> : k \in At(buffered[t], m)}  BY <2>3
  <2>5. <<"map", t, i>> \in UNION {{<<"map", u, k>> : k \in At(buffered[u], m)} : u \in Waiting}  BY <2>4
  <2>6. <<"map", t, i>> \in Places(m)  BY <2>5 DEF Places
  <2> QED  BY <2>6
<1> QED  BY <1>1, <1>2, <1>3, <1>4, <1>5, <1>6, <1>7, <1>8, <1>9, <1>10 DEF Here

\* A message has one place.
LEMMA OnlyPlace ==
  ASSUME BatchInv, NEW m, NEW p \in Places(m), NEW q \in Places(m)
  PROVE  p = q
<1>0. \A n, o : Here(n, m) /\ Here(o, m) => n = o  BY DEF BatchInv, OnePlace
<1>q. \/ \E o \in {"channel", "batch", "failing", "queued", "reports", "events"} :
           \E j \in At(Lines[o], m) : q = <<"line", o, j>>
      \/ \E t \in Waiting : \E j \in At(buffered[t], m) : q = <<"map", t, j>>
      \/ \E o \in {"inflight", "leftOut", "received"} : m \in Sets[o] /\ q = <<"set", o, 0>>
  BY ONLY q \in Places(m), PlaceNames
<1>1. CASE \E n \in {"channel", "batch", "failing", "queued", "reports", "events"} :
             \E i \in At(Lines[n], m) : p = <<"line", n, i>>
  <2>1. PICK n \in {"channel", "batch", "failing", "queued", "reports", "events"} :
          \E i \in At(Lines[n], m) : p = <<"line", n, i>>
    BY <1>1
  <2>2. PICK i \in At(Lines[n], m) : p = <<"line", n, i>>  BY <2>1
  <2>3. Here(n, m) /\ i \in 1 .. Len(Lines[n]) /\ Lines[n][i] = m  BY <2>2, PlaceIsHere
  <2>4. ~\E t \in Waiting : \E j \in At(buffered[t], m) : q = <<"map", t, j>>
    <3>1. ~Here("map", m)  BY <1>0, <2>1, <2>3
    <3> QED  BY <3>1, MapIsHere
  <2>5. ~\E o \in {"inflight", "leftOut", "received"} : m \in Sets[o] /\ q = <<"set", o, 0>>
    <3>1. \A o \in {"inflight", "leftOut", "received"} : ~Here(o, m)  BY <1>0, <2>1, <2>3
    <3> QED  BY <3>1, SetIsHere
  <2>6. PICK o \in {"channel", "batch", "failing", "queued", "reports", "events"} :
          \E j \in At(Lines[o], m) : q = <<"line", o, j>>
    BY <2>4, <2>5, <1>q
  <2>7. PICK j \in At(Lines[o], m) : q = <<"line", o, j>>  BY <2>6
  <2>8. Here(o, m) /\ j \in 1 .. Len(Lines[o]) /\ Lines[o][j] = m  BY <2>7, PlaceIsHere
  <2>9. n = o  BY <1>0, <2>3, <2>8
  <2>10. Once(Lines[n])
    <3>1. CASE n = "channel"  BY <3>1 DEF Lines, BatchInv, NoDoubles
    <3>2. CASE n = "batch"  BY <3>2 DEF Lines, BatchInv, NoDoubles
    <3>3. CASE n = "failing"  BY <3>3 DEF Lines, BatchInv, NoDoubles
    <3>4. CASE n = "queued"  BY <3>4 DEF Lines, BatchInv, NoDoubles
    <3>5. CASE n = "reports"  BY <3>5 DEF Lines, BatchInv, NoDoubles
    <3>6. CASE n = "events"  BY <3>6 DEF Lines, BatchInv, NoDoubles
    <3> QED  BY <3>1, <3>2, <3>3, <3>4, <3>5, <3>6
  <2>11. i = j  BY <2>3, <2>8, <2>9, <2>10 DEF Once
  <2> QED  BY <2>2, <2>7, <2>9, <2>11
<1>2. CASE \E t \in Waiting : \E i \in At(buffered[t], m) : p = <<"map", t, i>>
  <2>1. PICK t \in Waiting : \E i \in At(buffered[t], m) : p = <<"map", t, i>>  BY <1>2
  <2>2. PICK i \in At(buffered[t], m) : p = <<"map", t, i>>  BY <2>1
  <2>3. Here("map", m) /\ i \in 1 .. Len(buffered[t]) /\ buffered[t][i] = m  BY <2>2, MapIsHere
  <2>4. ~\E n \in {"channel", "batch", "failing", "queued", "reports", "events"} :
           \E j \in At(Lines[n], m) : q = <<"line", n, j>>
    <3>1. \A n \in {"channel", "batch", "failing", "queued", "reports", "events"} : ~Here(n, m)  BY <1>0, <2>3
    <3> QED  BY <3>1, PlaceIsHere
  <2>5. ~\E o \in {"inflight", "leftOut", "received"} : m \in Sets[o] /\ q = <<"set", o, 0>>
    <3>1. \A o \in {"inflight", "leftOut", "received"} : ~Here(o, m)  BY <1>0, <2>3
    <3> QED  BY <3>1, SetIsHere
  <2>6. PICK u \in Waiting : \E j \in At(buffered[u], m) : q = <<"map", u, j>>  BY <2>4, <2>5, <1>q
  <2>7. PICK j \in At(buffered[u], m) : q = <<"map", u, j>>  BY <2>6
  <2>8. j \in 1 .. Len(buffered[u]) /\ buffered[u][j] = m  BY <2>7, MapIsHere
  <2>9. t = u
    <3>1. Has(buffered[t], m) /\ Has(buffered[u], m)  BY <2>3, <2>8 DEF Has
    <3> QED  BY <3>1 DEF BatchInv, ByTopic
  <2>10. Once(buffered[t])  BY DEF BatchInv, NoDoubles
  <2>11. i = j  BY <2>3, <2>8, <2>9, <2>10 DEF Once
  <2> QED  BY <2>2, <2>7, <2>9, <2>11
<1>3. CASE \E n \in {"inflight", "leftOut", "received"} : m \in Sets[n] /\ p = <<"set", n, 0>>
  <2>1. PICK n \in {"inflight", "leftOut", "received"} : m \in Sets[n] /\ p = <<"set", n, 0>>  BY <1>3
  <2>2. Here(n, m)  BY <2>1, SetIsHere
  <2>3. ~\E o \in {"channel", "batch", "failing", "queued", "reports", "events"} :
           \E j \in At(Lines[o], m) : q = <<"line", o, j>>
    <3>1. \A o \in {"channel", "batch", "failing", "queued", "reports", "events"} : ~Here(o, m)
      BY <1>0, <2>1, <2>2
    <3> QED  BY <3>1, PlaceIsHere
  <2>4. ~\E t \in Waiting : \E j \in At(buffered[t], m) : q = <<"map", t, j>>
    <3>1. ~Here("map", m)  BY <1>0, <2>1, <2>2
    <3> QED  BY <3>1, MapIsHere
  <2>5. PICK o \in {"inflight", "leftOut", "received"} : m \in Sets[o] /\ q = <<"set", o, 0>>
    BY <2>3, <2>4, <1>q
  <2>6. Here(o, m)  BY <2>5, SetIsHere
  <2>7. n = o  BY <1>0, <2>2, <2>6
  <2> QED  BY <2>1, <2>5, <2>7
<1> QED  BY <1>1, <1>2, <1>3, PlaceNames

LEMMA AccountedFor == BatchInv => Accounted
<1> SUFFICES ASSUME BatchInv  PROVE Accounted  OBVIOUS
<1>1. BTypeOK  BY DEF BatchInv, Types, Counts, Limits, BTypeOK
<1>2. CloseDrains
  <2> SUFFICES ASSUME eventsClosed  PROVE /\ produceChannel = <<>> /\ batch = <<>> /\ failing = <<>>
                                          /\ \A t \in Waiting : buffered[t] = <<>>
                                          /\ bpc = "done" /\ ~polling
    BY DEF CloseDrains
  <2>1. bpc = "done" /\ ~polling  BY DEF BatchInv, Phases
  <2>2. produceChannel = <<>> /\ batch = <<>> /\ failing = <<>> /\ topicsLeft = {}  BY <2>1 DEF BatchInv, Phases
  <2>3. Waiting = {}  BY <2>1, <2>2 DEF Waiting
  <2> QED  BY <2>1, <2>2, <2>3
<1>3. InOnePlace
  <2>1. \A i \in 1 .. Len(written) : \A p, q \in Places(written[i]) : p = q  BY OnlyPlace
  <2>2. ASSUME NEW i \in 1 .. Len(written), NEW j \in 1 .. Len(written),
               Places(written[i]) = {}, Places(written[j]) = {}
        PROVE  ~polling /\ i = j
    <3>1. Lost(written[i]) /\ Lost(written[j])
      <4>1. Has(written, written[i]) /\ Has(written, written[j])  BY DEF Has
      <4>2. \A n : ~Here(n, written[i]) /\ ~Here(n, written[j])  BY <2>2, HereHasPlace
      <4> QED  BY <4>1, <4>2 DEF Lost
    <3>2. ~polling /\ written[i] = written[j]  BY <3>1 DEF BatchInv, OnePlace
    <3> QED  BY <3>2 DEF BatchInv, NoDoubles, Once
  <2> QED  BY <2>1, <2>2 DEF InOnePlace
<1> QED  BY <1>1, <1>2, <1>3 DEF Accounted

\* Every message written to ProduceChannel() is in one place until the application has
\* received it, but for the report the poller drops when Close() stops it; channels,
\* librdkafka's queue and batches keep to their limits; and when Close() closes the events
\* channel nothing is left in the batch producer.
THEOREM AllAccounted == BSpec => []Accounted
BY AccountedFor, BatchInvHolds, PTL

=============================================================================
