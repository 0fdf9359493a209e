------------------------------ MODULE MapProofs -----------------------------
(***************************************************************************)
(* The two maps that goroutines share, for any number of goroutines.       *)
(*                                                                         *)
(* The cgo map, for every width of its counter: the ids of outstanding     *)
(* entries are unique, as long as no entry lives through IdMod - 1 later   *)
(* puts. The inductive invariant adds to the two properties of CgoMap that *)
(* an id is determined by its age, so that different ages mean different   *)
(* ids.                                                                    *)
(*                                                                         *)
(* The LRU cache, for any keys and any capacity: its maps and its list     *)
(* stay coherent, it implements BoundedCache, and what Put() evicts is not *)
(* newer than what stays.                                                  *)
(***************************************************************************)
EXTENDS CgoMap, LRUOrder, FiniteSetTheorems, TLAPS

\* cgoPut hands out a non-zero machine word (handle.go:262-265).
LEMMA CgoNextType ==
  ASSUME NEW n \in Ids
  PROVE  CgoNext(n) \in Ids /\ CgoNext(n) # 0
BY IdModAssumption DEF CgoNext, UintptrInc, Ids

\* One more cgoPut makes every id one older.
LEMMA IdAges ==
  ASSUME NEW n \in Ids \ {0}, NEW a \in 0 .. Lifetime - 1
  PROVE  IdAtAge(n, a) = IdAtAge(CgoNext(n), a + 1)
BY IdModAssumption, LifetimeAssumption DEF CgoNext, UintptrInc, Ids, IdAtAge

\* The newest id has age 0.
LEMMA NewestId ==
  ASSUME NEW n \in Ids \ {0}
  PROVE  IdAtAge(n, 0) = n
BY IdModAssumption DEF IdAtAge, Ids

\* Within the allowed lifetime, different ages mean different ids.
LEMMA IdInjective ==
  ASSUME NEW n \in Ids \ {0}, NEW a \in 0 .. Lifetime, NEW b \in 0 .. Lifetime,
         IdAtAge(n, a) = IdAtAge(n, b)
  PROVE  a = b
BY IdModAssumption, LifetimeAssumption DEF IdAtAge, Ids

LEMMA InitIInv == MapInit => IInv
BY IdModAssumption, LifetimeAssumption
   DEF MapInit, IInv, MapTypeOK, LookupFindsOwn, NoLeak, AgeDeterminesId, AgesDistinct,
       Outstanding, Ids

LEMMA PutIInv ==
  ASSUME IInv, NEW o \in Objs, cgoPut(o)
  PROVE  IInv'
<1> DEFINE id == CgoNext(cgoidNext)
<1>1. id \in Ids /\ id # 0
  BY CgoNextType DEF IInv, MapTypeOK
<1>2. Outstanding' = Outstanding \cup {o}
  BY <1>1 DEF IInv, MapTypeOK, cgoPut, Outstanding
<1>3. MapTypeOK'
  <2>1. cgoidNext' \in Ids /\ held' \in [Objs -> Ids]
    BY <1>1 DEF IInv, MapTypeOK, cgoPut
  <2>2. DOMAIN cgomap' \subseteq Ids /\ \A i \in DOMAIN cgomap' : cgomap'[i] \in Objs
    BY <1>1 DEF IInv, MapTypeOK, cgoPut, CgoStore
  <2>3. age' \in [Objs -> 0 .. Lifetime]
    BY LifetimeAssumption DEF IInv, MapTypeOK, cgoPut
  <2> QED BY <2>1, <2>2, <2>3 DEF MapTypeOK
<1>4. AgesDistinct'
  BY <1>2 DEF IInv, MapTypeOK, cgoPut, AgesDistinct, Outstanding
<1>5. AgeDeterminesId'
  <2> SUFFICES ASSUME NEW p \in Outstanding'
               PROVE  cgoidNext' # 0 /\ held'[p] = IdAtAge(cgoidNext', age'[p])
    BY DEF AgeDeterminesId
  <2>1. CASE p = o
    BY <1>1, <2>1, NewestId DEF IInv, MapTypeOK, cgoPut
  <2>2. CASE p # o
    <3>1. p \in Outstanding /\ age[p] \in 0 .. Lifetime - 1 /\ cgoidNext \in Ids \ {0}
      BY <1>2, <2>2, LifetimeAssumption
         DEF IInv, MapTypeOK, cgoPut, Outstanding, AgeDeterminesId
    <3>2. held'[p] = held[p] /\ age'[p] = age[p] + 1 /\ cgoidNext' = id
      BY <2>2, <3>1 DEF IInv, MapTypeOK, cgoPut, Outstanding
    <3> QED BY <1>1, <3>1, <3>2, IdAges DEF IInv, AgeDeterminesId
  <2> QED BY <2>1, <2>2
<1>6. \A p \in Outstanding : held[p] # id
  <2> SUFFICES ASSUME NEW p \in Outstanding, held[p] = id PROVE FALSE
    OBVIOUS
  <2>1. p # o /\ p \in Outstanding' /\ o \in Outstanding' /\ p \in Objs
    BY <1>2 DEF cgoPut, Outstanding
  <2>2. IdAtAge(cgoidNext', age'[p]) = IdAtAge(cgoidNext', age'[o])
    BY <1>5, <2>1 DEF AgeDeterminesId, cgoPut, IInv, MapTypeOK
  <2>3. age'[p] = age'[o]
    BY <1>1, <1>3, <2>1, <2>2, IdInjective DEF cgoPut, MapTypeOK
  <2> QED BY <1>4, <2>1, <2>3 DEF AgesDistinct
<1>7. LookupFindsOwn'
  BY <1>1, <1>2, <1>6
     DEF IInv, MapTypeOK, cgoPut, LookupFindsOwn, CgoFound, CgoStore, Outstanding
<1>8. NoLeak'
  BY <1>1, <1>2 DEF IInv, MapTypeOK, cgoPut, NoLeak, CgoStore, Outstanding
<1> QED BY <1>3, <1>4, <1>5, <1>7, <1>8 DEF IInv

LEMMA GetIInv ==
  ASSUME IInv, NEW o \in Objs, cgoGet(o)
  PROVE  IInv'
<1>1. Outstanding' = Outstanding \ {o} /\ held[o] # 0
  BY DEF IInv, MapTypeOK, cgoGet, Outstanding
<1>2. MapTypeOK'
  <2>1. 0 \in Ids /\ 0 \in 0 .. Lifetime
    BY IdModAssumption, LifetimeAssumption DEF Ids
  <2> QED BY <2>1, <1>1 DEF IInv, MapTypeOK, cgoGet, CgoForget
<1>3. \A p \in Outstanding' : p # o /\ held'[p] = held[p] /\ age'[p] = age[p]
                              /\ held[p] # held[o]
  BY <1>1 DEF IInv, MapTypeOK, cgoGet, Outstanding, LookupFindsOwn
<1>4. AgesDistinct' /\ AgeDeterminesId'
  BY <1>1, <1>3 DEF IInv, cgoGet, AgesDistinct, AgeDeterminesId
<1>5. LookupFindsOwn'
  BY <1>1, <1>3 DEF IInv, cgoGet, LookupFindsOwn, CgoFound, CgoForget
<1>6. NoLeak'
  BY <1>1, <1>3 DEF IInv, MapTypeOK, cgoGet, NoLeak, CgoForget, LookupFindsOwn, CgoFound,
                    Outstanding
<1> QED BY <1>2, <1>4, <1>5, <1>6 DEF IInv

\* The invariant is inductive.
THEOREM CgoInvariant == MapSpec => []IInv
<1>1. IInv /\ [MapNext]_mapVars => IInv'
  <2> SUFFICES ASSUME IInv, [MapNext]_mapVars PROVE IInv'
    OBVIOUS
  <2>1. CASE UNCHANGED mapVars
    BY <2>1 DEF mapVars, IInv, MapTypeOK, LookupFindsOwn, NoLeak, AgeDeterminesId,
                AgesDistinct, Outstanding
  <2>2. CASE MapNext
    BY <2>2, PutIInv, GetIInv DEF MapNext
  <2> QED BY <2>1, <2>2
<1> QED BY <1>1, InitIInv, PTL DEF MapSpec

\* For every width of uintptr, an id handed out by cgoPut leads cgoGet back to
\* the object it was handed out for (handle.go:254-287), provided fewer than
\* IdMod - 1 ids are handed out during the life of an entry.
THEOREM CgoLookup == MapSpec => []LookupFindsOwn
BY CgoInvariant, PTL DEF IInv

\* For every width of uintptr, the cgo map holds exactly the outstanding
\* objects: cgoGet's delete (handle.go:283) leaves nothing behind.
THEOREM CgoNoLeak == MapSpec => []NoLeak
BY CgoInvariant, PTL DEF IInv

-----------------------------------------------------------------------------
(* The LRU cache: what the operations do to a list without duplicates.     *)
Distinct(s) == \A i, j \in 1 .. Len(s) : i # j => s[i] # s[j]

\* x is on the list t exactly if it is on s, or is e.
SameExcept(t, s, e) == \A x : x # e => (IsIn(t, x) <=> IsIn(s, x))

LEMMA WithoutIsSeq ==
  ASSUME NEW S, NEW s \in Seq(S), NEW i \in 1 .. Len(s)
  PROVE  /\ WithoutPlace(s, i) \in Seq(S)
         /\ Len(WithoutPlace(s, i)) = Len(s) - 1
         /\ \A j \in 1 .. Len(s) - 1 : WithoutPlace(s, i)[j] = IF j < i THEN s[j] ELSE s[j + 1]
BY DEF WithoutPlace

LEMMA PushIsSeq ==
  ASSUME NEW S, NEW s \in Seq(S), NEW e \in S
  PROVE  /\ PushFront(s, e) \in Seq(S)
         /\ Len(PushFront(s, e)) = Len(s) + 1
         /\ \A j \in 1 .. Len(s) + 1 : PushFront(s, e)[j] = IF j = 1 THEN e ELSE s[j - 1]
BY DEF PushFront

LEMMA WithoutFacts ==
  ASSUME NEW S, NEW s \in Seq(S), Distinct(s), NEW i \in 1 .. Len(s)
  PROVE  /\ Distinct(WithoutPlace(s, i))
         /\ ~IsIn(WithoutPlace(s, i), s[i])
         /\ SameExcept(WithoutPlace(s, i), s, s[i])
<1> DEFINE t == WithoutPlace(s, i)
<1>1. /\ Len(t) = Len(s) - 1 /\ Len(s) \in Nat
      /\ \A j \in 1 .. Len(s) - 1 : t[j] = IF j < i THEN s[j] ELSE s[j + 1]
  BY WithoutIsSeq
<1> HIDE DEF t
<1>2. Distinct(t)
  BY <1>1 DEF Distinct
<1>3. ~IsIn(t, s[i])
  BY <1>1 DEF IsIn, Distinct
<1>4. ASSUME NEW x, x # s[i] PROVE IsIn(t, x) <=> IsIn(s, x)
  <2>1. ASSUME NEW j \in 1 .. Len(t), t[j] = x PROVE IsIn(s, x)
    BY <1>1, <2>1 DEF IsIn
  <2>2. ASSUME NEW j \in 1 .. Len(s), s[j] = x PROVE IsIn(t, x)
    <3>1. CASE j < i
      BY <1>1, <2>2, <3>1 DEF IsIn
    <3>2. CASE j > i
      <4>1. j - 1 \in 1 .. Len(t) /\ t[j - 1] = x
        BY <1>1, <2>2, <3>2
      <4> QED BY <4>1 DEF IsIn
    <3> QED BY <1>4, <2>2, <3>1, <3>2
  <2> QED BY <2>1, <2>2 DEF IsIn
<1> QED BY <1>2, <1>3, <1>4 DEF SameExcept, t

LEMMA PushFacts ==
  ASSUME NEW S, NEW s \in Seq(S), Distinct(s), NEW e \in S, ~IsIn(s, e)
  PROVE  Distinct(PushFront(s, e)) /\ IsIn(PushFront(s, e), e) /\ SameExcept(PushFront(s, e), s, e)
<1> DEFINE t == PushFront(s, e)
<1>0. Len(s) \in Nat
  OBVIOUS
<1>1. /\ Len(t) = Len(s) + 1
      /\ \A j \in 1 .. Len(s) + 1 : t[j] = IF j = 1 THEN e ELSE s[j - 1]
  BY <1>0 DEF PushFront
<1> HIDE DEF t
<1>2. ASSUME NEW i \in 1 .. Len(t), NEW j \in 1 .. Len(t), i < j PROVE t[i] # t[j]
  <2>1. j - 1 \in 1 .. Len(s) /\ t[j] = s[j - 1]
    BY <1>0, <1>1, <1>2
  <2>2. CASE i = 1
    BY <1>0, <1>1, <2>1, <2>2 DEF IsIn
  <2>3. CASE i # 1
    <3>1. i - 1 \in 1 .. Len(s) /\ t[i] = s[i - 1] /\ i - 1 # j - 1
      BY <1>0, <1>1, <1>2, <2>3
    <3> QED BY <2>1, <3>1 DEF Distinct
  <2> QED BY <2>2, <2>3
<1>5. Distinct(t)
  BY <1>0, <1>1, <1>2 DEF Distinct
<1>3. IsIn(t, e)
  BY <1>0, <1>1 DEF IsIn
<1>4. ASSUME NEW x, x # e PROVE IsIn(t, x) <=> IsIn(s, x)
  <2>1. ASSUME NEW j \in 1 .. Len(t), t[j] = x PROVE IsIn(s, x)
    <3>1. j - 1 \in 1 .. Len(s) /\ s[j - 1] = x
      BY <1>0, <1>1, <1>4, <2>1
    <3> QED BY <3>1 DEF IsIn
  <2>2. ASSUME NEW j \in 1 .. Len(s), s[j] = x PROVE IsIn(t, x)
    <3>1. j + 1 \in 1 .. Len(t) /\ t[j + 1] = x
      BY <1>0, <1>1, <2>2
    <3> QED BY <3>1 DEF IsIn
  <2> QED BY <2>1, <2>2 DEF IsIn
<1> QED BY <1>5, <1>3, <1>4 DEF SameExcept, t

LEMMA RemoveFacts ==
  ASSUME NEW S, NEW s \in Seq(S), Distinct(s), NEW e
  PROVE  /\ ListRemove(s, e) \in Seq(S)
         /\ Distinct(ListRemove(s, e))
         /\ ~IsIn(ListRemove(s, e), e) /\ SameExcept(ListRemove(s, e), s, e)
         /\ Len(ListRemove(s, e)) = IF IsIn(s, e) THEN Len(s) - 1 ELSE Len(s)
<1>1. CASE IsIn(s, e)
  <2>1. PICK i : i = Place(s, e)
    OBVIOUS
  <2>2. i \in 1 .. Len(s) /\ s[i] = e
    BY <1>1, <2>1 DEF Place, IsIn
  <2>3. ListRemove(s, e) = WithoutPlace(s, i)
    BY <1>1, <2>1 DEF ListRemove
  <2>4. WithoutPlace(s, i) \in Seq(S) /\ Len(WithoutPlace(s, i)) = Len(s) - 1
    BY <2>2, WithoutIsSeq
  <2>5. /\ Distinct(WithoutPlace(s, i)) /\ ~IsIn(WithoutPlace(s, i), e)
        /\ SameExcept(WithoutPlace(s, i), s, e)
    BY <2>2, WithoutFacts
  <2> QED BY <1>1, <2>3, <2>4, <2>5, Zenon
<1>2. CASE ~IsIn(s, e)
  BY <1>2 DEF ListRemove, SameExcept
<1> QED BY <1>1, <1>2

LEMMA MoveFacts ==
  ASSUME NEW S, NEW s \in Seq(S), Distinct(s), NEW e
  PROVE  /\ MoveToFront(s, e) \in Seq(S)
         /\ Distinct(MoveToFront(s, e))
         /\ \A x : IsIn(MoveToFront(s, e), x) <=> IsIn(s, x)
         /\ Len(MoveToFront(s, e)) = Len(s)
<1>1. CASE IsIn(s, e)
  <2>1. PICK t : t = ListRemove(s, e)
    OBVIOUS
  <2>2. /\ t \in Seq(S) /\ Distinct(t) /\ ~IsIn(t, e) /\ SameExcept(t, s, e)
        /\ Len(t) = Len(s) - 1 /\ Len(s) \in Nat
    BY <1>1, <2>1, RemoveFacts
  <2>3. e \in S
    BY <1>1 DEF IsIn
  <2>4. MoveToFront(s, e) = PushFront(t, e)
    BY <1>1, <2>1 DEF MoveToFront
  <2>5. PushFront(t, e) \in Seq(S) /\ Len(PushFront(t, e)) = Len(s)
    BY <2>2, <2>3, PushIsSeq
  <2>6. Distinct(PushFront(t, e)) /\ IsIn(PushFront(t, e), e) /\ SameExcept(PushFront(t, e), t, e)
    BY <2>2, <2>3, PushFacts
  <2>7. \A x : IsIn(PushFront(t, e), x) <=> IsIn(s, x)
    BY <1>1, <2>2, <2>6, Zenon DEF SameExcept
  <2> QED BY <2>4, <2>5, <2>6, <2>7, Zenon
<1>2. CASE ~IsIn(s, e)
  BY <1>2 DEF MoveToFront
<1> QED BY <1>1, <1>2

-----------------------------------------------------------------------------
(* Coherent, said of the list as a set.                                    *)

Listed == \A x : IsIn(lruKeys, x) <=> Mapped(x)

Keyed == \A k \in DOMAIN lruElements : lruElements[k].key = k

LEMMA CoherentParts == ASSUME Coherent PROVE Keyed /\ Listed /\ Distinct(lruKeys)
<1>1. Keyed
  BY DEF Coherent, Keyed
<1>2. ASSUME NEW x, IsIn(lruKeys, x) PROVE Mapped(x)
  <2>1. PICK i \in 1 .. Len(lruKeys) : lruKeys[i] = x
    BY <1>2 DEF IsIn
  <2>2. x.key \in DOMAIN lruElements /\ x = lruElements[x.key]
    BY <2>1 DEF Coherent
  <2> QED BY <2>2, Zenon DEF Mapped
<1>3. ASSUME NEW x, Mapped(x) PROVE IsIn(lruKeys, x)
  BY <1>3, Zenon DEF Coherent, Mapped
<1> QED BY <1>1, <1>2, <1>3 DEF Listed, Coherent, Distinct

LEMMA CoherentFrom ==
  ASSUME DOMAIN entries' = DOMAIN lruElements', Keyed', Listed', Distinct(lruKeys'), Len(lruKeys') <= Capacity
  PROVE  Coherent'
<1>1. \A k \in DOMAIN lruElements' : lruElements'[k].key = k /\ IsIn(lruKeys', lruElements'[k])
  BY Zenon DEF Keyed, Listed, Mapped
<1>2. ASSUME NEW i \in 1 .. Len(lruKeys')
      PROVE  lruKeys'[i].key \in DOMAIN lruElements' /\ lruKeys'[i] = lruElements'[lruKeys'[i].key]
  <2>1. IsIn(lruKeys', lruKeys'[i])
    BY DEF IsIn
  <2>2. PICK k \in DOMAIN lruElements' : lruElements'[k] = lruKeys'[i]
    BY <2>1 DEF Listed, Mapped
  <2>3. lruKeys'[i].key = k
    BY <2>2 DEF Keyed
  <2> QED BY <2>2, <2>3
<1> QED BY <1>1, <1>2 DEF Coherent, Distinct

CacheInv == TypeOK /\ Coherent

LEMMA Facts ==
  ASSUME CacheInv
  PROVE  /\ TypeOK /\ lruKeys \in Seq(Element) /\ Len(lruKeys) \in Nat
         /\ DOMAIN entries = DOMAIN lruElements /\ Keyed /\ Listed
         /\ Distinct(lruKeys) /\ Len(lruKeys) <= Capacity
<1>1. TypeOK /\ Coherent
  BY DEF CacheInv
<1>2. lruKeys \in Seq(Element)
  BY <1>1 DEF TypeOK
<1>3. Len(lruKeys) \in Nat
  BY <1>2
<1> QED BY <1>1, <1>2, <1>3, CoherentParts, Zenon DEF Coherent

\* A step that only reorders the list.
LEMMA Reorder ==
  ASSUME CacheInv, NEW e, lruKeys' = MoveToFront(lruKeys, e) \/ lruKeys' = lruKeys,
         DOMAIN entries' = DOMAIN entries, lruElements' = lruElements
  PROVE  lruKeys' \in Seq(Element) /\ Coherent'
<1>1. /\ lruKeys' \in Seq(Element) /\ Distinct(lruKeys') /\ Len(lruKeys') = Len(lruKeys)
      /\ \A x : IsIn(lruKeys', x) <=> IsIn(lruKeys, x)
  BY Facts, MoveFacts
<1>2. Keyed' /\ Listed'
  BY <1>1, Facts, Zenon DEF Keyed, Listed, Mapped
<1>3. Len(lruKeys') <= Capacity
  BY <1>1, Facts
<1> QED BY <1>1, <1>2, <1>3, Facts, CoherentFrom, Zenon

(* Go maps from keys to the elements made with them.                       *)

Holds(f, x) == \E k \in DOMAIN f : f[k] = x

KeyedMap(f) == \A k \in DOMAIN f : f[k].key = k

LEMMA DropFacts ==
  ASSUME NEW f, KeyedMap(f), NEW k
  PROVE  /\ DOMAIN Drop(f, {k}) = DOMAIN f \ {k} /\ KeyedMap(Drop(f, {k}))
         /\ \A x : Holds(Drop(f, {k}), x) <=> Holds(f, x) /\ x.key # k
<1>1. DOMAIN Drop(f, {k}) = DOMAIN f \ {k} /\ \A j \in DOMAIN f \ {k} : Drop(f, {k})[j] = f[j]
  BY DEF Drop
<1>2. KeyedMap(Drop(f, {k}))
  BY <1>1 DEF KeyedMap
<1>3. \A x : Holds(Drop(f, {k}), x) <=> Holds(f, x) /\ x.key # k
  BY <1>1, Zenon DEF Holds, KeyedMap
<1> QED BY <1>1, <1>2, <1>3

LEMMA InsertFacts ==
  ASSUME NEW f, KeyedMap(f), NEW k, k \notin DOMAIN f, NEW e, e.key = k
  PROVE  /\ DOMAIN Insert(f, k, e) = DOMAIN f \cup {k} /\ KeyedMap(Insert(f, k, e))
         /\ \A x : Holds(Insert(f, k, e), x) <=> Holds(f, x) \/ x = e
<1>1. /\ DOMAIN Insert(f, k, e) = DOMAIN f \cup {k} /\ Insert(f, k, e)[k] = e
      /\ \A j \in DOMAIN f : Insert(f, k, e)[j] = f[j]
  BY DEF Insert
<1>2. KeyedMap(Insert(f, k, e))
  BY <1>1 DEF KeyedMap
<1>3. \A x : Holds(Insert(f, k, e), x) <=> Holds(f, x) \/ x = e
  BY <1>1, Zenon DEF Holds
<1> QED BY <1>1, <1>2, <1>3

\* The cache after Put() has made room.
LEMMA MadeRoom ==
  ASSUME CacheInv
  PROVE  /\ RoomFor(lruKeys) \in Seq(Element) /\ Distinct(RoomFor(lruKeys))
         /\ Len(RoomFor(lruKeys)) + 1 <= Capacity
         /\ KeyedMap(Drop(lruElements, Evicted))
         /\ DOMAIN Drop(lruElements, Evicted) = DOMAIN lruElements \ Evicted
         /\ \A x : IsIn(RoomFor(lruKeys), x) <=> Holds(Drop(lruElements, Evicted), x)
<1>0. /\ lruKeys \in Seq(Element) /\ Len(lruKeys) \in Nat /\ Distinct(lruKeys)
      /\ Len(lruKeys) <= Capacity /\ Capacity \in Nat /\ Capacity > 0
      /\ KeyedMap(lruElements) /\ \A x : IsIn(lruKeys, x) <=> Holds(lruElements, x)
  BY Facts, LRUAssumption DEF Keyed, KeyedMap, Listed, Mapped, Holds
<1>1. CASE Len(lruKeys) = Capacity
  <2>1. PICK n : n = Len(lruKeys)
    OBVIOUS
  <2>2. PICK b : b = lruKeys[n]
    OBVIOUS
  <2>3. n \in 1 .. Len(lruKeys) /\ RoomFor(lruKeys) = WithoutPlace(lruKeys, n) /\ Evicted = {b.key}
    BY <1>0, <1>1, <2>1, <2>2 DEF RoomFor, Evicted, Full
  <2>4. WithoutPlace(lruKeys, n) \in Seq(Element) /\ Len(WithoutPlace(lruKeys, n)) = Capacity - 1
    BY <1>0, <1>1, <2>3, WithoutIsSeq
  <2>5. /\ Distinct(WithoutPlace(lruKeys, n)) /\ ~IsIn(WithoutPlace(lruKeys, n), b)
        /\ \A x : x # b => (IsIn(WithoutPlace(lruKeys, n), x) <=> IsIn(lruKeys, x))
    BY <1>0, <2>2, <2>3, WithoutFacts DEF SameExcept
  <2>6. /\ DOMAIN Drop(lruElements, {b.key}) = DOMAIN lruElements \ {b.key}
        /\ KeyedMap(Drop(lruElements, {b.key}))
        /\ \A x : Holds(Drop(lruElements, {b.key}), x) <=> Holds(lruElements, x) /\ x.key # b.key
    BY <1>0, DropFacts
  <2>7. \A x : Holds(lruElements, x) /\ x.key = b.key => x = b
    <3>1. IsIn(lruKeys, b)
      BY <2>2, <2>3 DEF IsIn
    <3>2. PICK k \in DOMAIN lruElements : lruElements[k] = b
      BY <1>0, <3>1 DEF Holds
    <3>3. b.key = k
      BY <1>0, <3>2 DEF KeyedMap
    <3>4. ASSUME NEW j \in DOMAIN lruElements, lruElements[j].key = b.key PROVE lruElements[j] = b
      BY <1>0, <3>2, <3>3, <3>4 DEF KeyedMap
    <3> QED BY <3>4, Zenon DEF Holds
  <2>8. \A x : IsIn(WithoutPlace(lruKeys, n), x) <=> Holds(Drop(lruElements, {b.key}), x)
    BY <1>0, <2>5, <2>6, <2>7, Zenon
  <2>9. Len(WithoutPlace(lruKeys, n)) + 1 <= Capacity
    BY <1>0, <2>4
  <2> QED BY <2>3, <2>4, <2>5, <2>6, <2>8, <2>9, Zenon
<1>2. CASE Len(lruKeys) # Capacity
  <2>1. RoomFor(lruKeys) = lruKeys /\ Evicted = {}
    BY <1>2 DEF RoomFor, Evicted, Full
  <2>2. DOMAIN Drop(lruElements, {}) = DOMAIN lruElements /\ \A j \in DOMAIN lruElements : Drop(lruElements, {})[j] = lruElements[j]
    BY DEF Drop
  <2>3. KeyedMap(Drop(lruElements, {})) /\ \A x : Holds(Drop(lruElements, {}), x) <=> Holds(lruElements, x)
    BY <1>0, <2>2, Zenon DEF KeyedMap, Holds
  <2>4. Len(lruKeys) + 1 <= Capacity
    BY <1>0, <1>2
  <2> QED BY <1>0, <2>1, <2>2, <2>3, <2>4
<1> QED BY <1>1, <1>2

-----------------------------------------------------------------------------
(* The steps.                                                              *)

LEMMA InitCacheInv == Init => CacheInv
<1> SUFFICES ASSUME Init PROVE CacheInv
  OBVIOUS
<1>1. TypeOK
  BY DEF Init, TypeOK
<1>2. Coherent
  BY LRUAssumption DEF Init, Coherent, IsIn
<1> QED BY <1>1, <1>2 DEF CacheInv

LEMMA GetKeeps == ASSUME CacheInv, NEW t \in Goroutines, NEW k \in Keys, Get(t, k) PROVE CacheInv'
<1>1. TypeOK'
  BY Facts DEF Get, TypeOK
<1>2. Coherent'
  BY Reorder DEF Get
<1> QED BY <1>1, <1>2 DEF CacheInv

LEMMA TouchKeeps == ASSUME CacheInv, NEW t \in Goroutines, Touch(t) PROVE CacheInv'
<1>1. lruKeys' \in Seq(Element) /\ Coherent'
  BY Reorder DEF Touch
<1>2. TypeOK'
  BY <1>1, Facts DEF Touch, TypeOK
<1> QED BY <1>1, <1>2 DEF CacheInv

LEMMA PutExistingKeeps ==
  ASSUME CacheInv, NEW t \in Goroutines, NEW k \in Keys, NEW v \in Values, PutExisting(t, k, v) PROVE CacheInv'
<1>1. /\ DOMAIN entries' = DOMAIN entries /\ \A x \in DOMAIN entries : entries'[x] \in {v, entries[x]}
      /\ UNCHANGED <<lruElements, pc, element, key>>
  BY DEF PutExisting, Insert
<1>2. lruKeys' = MoveToFront(lruKeys, lruElements[k]) \/ lruKeys' = lruKeys
  BY DEF PutExisting
<1>3. lruKeys' \in Seq(Element) /\ Coherent'
  BY <1>1, <1>2, Reorder
<1>4. TypeOK'
  BY <1>1, <1>3, Facts DEF TypeOK
<1> QED BY <1>3, <1>4 DEF CacheInv

LEMMA PutNewKeeps ==
  ASSUME CacheInv, NEW t \in Goroutines, NEW k \in Keys, NEW v \in Values, PutNew(t, k, v) PROVE CacheInv'
<1>1. PICK e \in Element : /\ e.key = k /\ Fresh(e)
                           /\ lruKeys' = PushFront(RoomFor(lruKeys), e)
                           /\ lruElements' = Insert(Drop(lruElements, Evicted), k, e)
  BY DEF PutNew
<1>2. /\ k \notin DOMAIN entries /\ entries' = Insert(Drop(entries, Evicted), k, v)
      /\ UNCHANGED <<pc, element, key>>
  BY DEF PutNew
<1>3. PICK s : s = RoomFor(lruKeys)
  OBVIOUS
<1>4. PICK f : f = Drop(lruElements, Evicted)
  OBVIOUS
<1>5. /\ s \in Seq(Element) /\ Distinct(s) /\ Len(s) + 1 <= Capacity /\ KeyedMap(f)
      /\ DOMAIN f = DOMAIN lruElements \ Evicted /\ \A x : IsIn(s, x) <=> Holds(f, x)
  BY <1>3, <1>4, MadeRoom
<1>6. k \notin DOMAIN f /\ ~IsIn(s, e)
  <2>1. k \notin DOMAIN lruElements
    BY <1>2, Facts
  <2>2. k \notin DOMAIN f
    BY <1>5, <2>1
  <2>3. ~Holds(f, e)
    BY <1>1, <1>5, <2>2 DEF Holds, KeyedMap
  <2> QED BY <1>5, <2>2, <2>3
<1>7. /\ DOMAIN lruElements' = DOMAIN f \cup {k} /\ KeyedMap(lruElements')
      /\ \A x : Holds(lruElements', x) <=> Holds(f, x) \/ x = e
  BY <1>1, <1>4, <1>5, <1>6, InsertFacts
<1>8. lruKeys' \in Seq(Element) /\ Len(lruKeys') = Len(s) + 1
  BY <1>1, <1>3, <1>5, PushIsSeq
<1>9. Distinct(lruKeys') /\ IsIn(lruKeys', e) /\ SameExcept(lruKeys', s, e)
  BY <1>1, <1>3, <1>5, <1>6, PushFacts
<1>10. Keyed' /\ Listed'
  BY <1>5, <1>7, <1>9, Zenon DEF Keyed, KeyedMap, Listed, Mapped, Holds, SameExcept
<1>11. /\ DOMAIN entries' = (DOMAIN entries \ Evicted) \cup {k} /\ entries'[k] = v
       /\ \A x \in DOMAIN entries \ Evicted : x # k => entries'[x] = entries[x]
  BY <1>2 DEF Insert, Drop
<1>12. DOMAIN entries' = DOMAIN lruElements'
  BY <1>5, <1>7, <1>11, Facts
<1>13. Coherent'
  BY <1>5, <1>8, <1>9, <1>10, <1>12, CoherentFrom
<1>14. TypeOK'
  <2>1. lruElements'[k] = e /\ \A x \in DOMAIN f : lruElements'[x] = lruElements[x]
    BY <1>1, <1>4, <1>6 DEF Insert, Drop
  <2>2. DOMAIN lruElements' \subseteq Keys /\ \A x \in DOMAIN lruElements' : lruElements'[x] \in Element
    BY <1>5, <1>7, <2>1, Facts DEF TypeOK
  <2>3. DOMAIN entries' \subseteq Keys /\ \A x \in DOMAIN entries' : entries'[x] \in Values
    BY <1>11, Facts DEF TypeOK
  <2> QED BY <1>2, <1>8, <2>2, <2>3, Facts DEF TypeOK
<1> QED BY <1>13, <1>14 DEF CacheInv

LEMMA DeleteKeeps == ASSUME CacheInv, NEW t \in Goroutines, NEW k \in Keys, Delete(t, k) PROVE CacheInv'
<1>1. TypeOK'
  BY Facts DEF Delete, TypeOK
<1>2. Coherent'
  BY Reorder DEF Delete
<1> QED BY <1>1, <1>2 DEF CacheInv

LEMMA DeleteEntryKeeps == ASSUME CacheInv, NEW t \in Goroutines, DeleteEntry(t) PROVE CacheInv'
<1>1. PICK k : k = key[t]
  OBVIOUS
<1>2. /\ lruKeys' = IF k \in DOMAIN lruElements THEN ListRemove(lruKeys, lruElements[k]) ELSE lruKeys
      /\ lruElements' = Drop(lruElements, {k}) /\ entries' = Drop(entries, {k})
  BY <1>1 DEF DeleteEntry
<1>3. /\ lruKeys \in Seq(Element) /\ Len(lruKeys) \in Nat /\ Distinct(lruKeys) /\ Len(lruKeys) <= Capacity
      /\ KeyedMap(lruElements) /\ \A x : IsIn(lruKeys, x) <=> Holds(lruElements, x)
      /\ DOMAIN entries = DOMAIN lruElements
  BY Facts, Zenon DEF Keyed, KeyedMap, Listed, Mapped, Holds
<1>4. /\ DOMAIN lruElements' = DOMAIN lruElements \ {k} /\ KeyedMap(lruElements')
      /\ \A x : Holds(lruElements', x) <=> Holds(lruElements, x) /\ x.key # k
  BY <1>2, <1>3, DropFacts
<1>5. /\ lruKeys' \in Seq(Element) /\ Distinct(lruKeys') /\ Len(lruKeys') <= Capacity
      /\ \A x : IsIn(lruKeys', x) <=> Holds(lruElements', x)
  <2>1. CASE k \in DOMAIN lruElements
    <3>1. PICK e : e = lruElements[k]
      OBVIOUS
    <3>2. /\ lruKeys' \in Seq(Element) /\ Distinct(lruKeys') /\ ~IsIn(lruKeys', e)
          /\ SameExcept(lruKeys', lruKeys, e)
          /\ Len(lruKeys') = IF IsIn(lruKeys, e) THEN Len(lruKeys) - 1 ELSE Len(lruKeys)
      BY <1>2, <1>3, <2>1, <3>1, RemoveFacts
    <3>3. Len(lruKeys') <= Capacity
      BY <1>3, <3>2, LRUAssumption, SMTT(30)
    <3>4. \A x : Holds(lruElements, x) => (x.key # k <=> x # e)
      BY <1>3, <2>1, <3>1, Zenon DEF Holds, KeyedMap
    <3>5. \A x : IsIn(lruKeys', x) <=> Holds(lruElements', x)
      BY <1>3, <1>4, <3>2, <3>4, Zenon DEF SameExcept
    <3> QED BY <3>2, <3>3, <3>5
  <2>2. CASE k \notin DOMAIN lruElements
    <3>1. \A x : Holds(lruElements, x) => x.key # k
      BY <1>3, <2>2, Zenon DEF Holds, KeyedMap
    <3> QED BY <1>2, <1>3, <1>4, <2>2, <3>1
  <2> QED BY <2>1, <2>2
<1>6. Keyed' /\ Listed'
  BY <1>4, <1>5, Zenon DEF Keyed, KeyedMap, Listed, Mapped, Holds
<1>7. DOMAIN entries' = DOMAIN entries \ {k} /\ \A x \in DOMAIN entries \ {k} : entries'[x] = entries[x]
  BY <1>2 DEF Drop
<1>8. Coherent'
  BY <1>3, <1>4, <1>5, <1>6, <1>7, CoherentFrom
<1>9. TypeOK'
  <2>1. \A x \in DOMAIN lruElements \ {k} : lruElements'[x] = lruElements[x]
    BY <1>2 DEF Drop
  <2>2. pc' \in [Goroutines -> {"idle", "get", "delete"}] /\ key' \in [Goroutines -> Keys \cup {None}]
    BY Facts DEF DeleteEntry, TypeOK
  <2> QED BY <1>4, <1>5, <1>7, <2>1, <2>2, Facts DEF DeleteEntry, TypeOK
<1> QED BY <1>8, <1>9 DEF CacheInv

LEMMA ClearKeeps == ASSUME CacheInv, NEW t \in Goroutines, Clear(t) PROVE CacheInv'
<1>1. lruKeys' = <<>>
  <2>1. \A i \in 1 .. Len(lruKeys) : Mapped(lruKeys[i])
    BY Facts DEF Listed, IsIn
  <2>2. Unlisted(lruKeys) = <<>>
    BY <2>1, Zenon DEF Unlisted
  <2> QED BY <2>2 DEF Clear
<1>2. DOMAIN entries' = {} /\ DOMAIN lruElements' = {} /\ UNCHANGED <<pc, element, key>>
  BY DEF Clear, Drop
<1>3. Coherent'
  BY <1>1, <1>2, LRUAssumption DEF Coherent, IsIn
<1>4. TypeOK'
  BY <1>1, <1>2, Facts DEF TypeOK
<1> QED BY <1>3, <1>4 DEF CacheInv

LEMMA NextCacheInv == ASSUME CacheInv, [Next]_vars PROVE CacheInv'
<1>1. ASSUME NEW t \in Goroutines, Step(t) PROVE CacheInv'
  BY <1>1, GetKeeps, DeleteKeeps, PutNewKeeps, PutExistingKeeps, TouchKeeps, DeleteEntryKeeps, ClearKeeps
  DEF Step, Put
<1>2. CASE UNCHANGED vars
  BY <1>2 DEF vars, CacheInv, TypeOK, Coherent, IsIn
<1> QED BY <1>1, <1>2 DEF Next

\* The maps and the list of the cache hold the same keys, and never more than
\* its capacity, however the two critical sections of Get() and Delete() of
\* several goroutines interleave.
THEOREM CacheStaysCoherent == Spec => []Coherent
<1>1. CacheInv => Coherent
  BY DEF CacheInv
<1> QED BY <1>1, InitCacheInv, NextCacheInv, PTL DEF Spec

-----------------------------------------------------------------------------
(* The cache implements BoundedCache: the list is as long as the map is    *)
(* large, so Put() evicts exactly when the capacity is reached.            *)

LEMMA CountIsLen == ASSUME CacheInv PROVE Cardinality(DOMAIN entries) = Len(lruKeys)
<1> DEFINE f == [i \in 1 .. Len(lruKeys) |-> lruKeys[i].key]
<1>1. /\ Len(lruKeys) \in Nat /\ DOMAIN entries = DOMAIN lruElements /\ Distinct(lruKeys)
      /\ Coherent
  BY Facts, Zenon DEF CacheInv
<1>2. f \in [1 .. Len(lruKeys) -> DOMAIN entries]
  BY <1>1 DEF Coherent
<1>3. ASSUME NEW i \in 1 .. Len(lruKeys), NEW j \in 1 .. Len(lruKeys), f[i] = f[j] PROVE i = j
  <2>1. lruKeys[i] = lruElements[f[i]] /\ lruKeys[j] = lruElements[f[j]]
    BY <1>1 DEF Coherent
  <2> QED BY <1>1, <1>3, <2>1, Zenon DEF Distinct
<1>4. ASSUME NEW k \in DOMAIN entries PROVE \E i \in 1 .. Len(lruKeys) : f[i] = k
  <2>1. lruElements[k].key = k /\ IsIn(lruKeys, lruElements[k])
    BY <1>1, Zenon DEF Coherent
  <2>2. PICK i \in 1 .. Len(lruKeys) : lruKeys[i] = lruElements[k]
    BY <2>1, Zenon DEF IsIn
  <2> QED BY <2>1, <2>2
<1>5. f \in Bijection(1 .. Len(lruKeys), DOMAIN entries)
  BY <1>2, <1>3, <1>4 DEF Bijection, Injection, Surjection, IsInjective
<1>6. ExistsBijection(1 .. Len(lruKeys), DOMAIN entries)
  BY <1>5, Zenon DEF ExistsBijection
<1> QED BY <1>1, <1>6, FS_CountingElements, Zenon

LEMMA SameCount == \A S : BC!Cardinality(S) = Cardinality(S)
BY Zenon DEF BC!Cardinality, Cardinality

\* The key that makes room is one of the cache.
LEMMA EvictedIsThere == ASSUME CacheInv, Full(lruKeys) PROVE \E x \in DOMAIN entries : Evicted = {x}
<1>1. Len(lruKeys) \in 1 .. Len(lruKeys)
  BY Facts, LRUAssumption DEF Full
<1>2. lruKeys[Len(lruKeys)].key \in DOMAIN entries
  BY <1>1, Zenon DEF CacheInv, Coherent
<1> QED BY <1>2, Zenon DEF Evicted

\* entries is made anew by every step that changes it.
IsMap == entries = [x \in DOMAIN entries |-> entries[x]]

LEMMA MapsAreMade == ASSUME NEW f, NEW k, NEW v, NEW S, NEW g, g \in {Insert(f, k, v), Drop(f, S)}
                     PROVE g = [x \in DOMAIN g |-> g[x]]
BY DEF Insert, Drop

LEMMA NextIsMap == ASSUME IsMap, [Next]_vars PROVE IsMap'
<1>1. CASE UNCHANGED entries
  BY <1>1 DEF IsMap
<1>2. CASE \E f, k, v, S : entries' \in {Insert(f, k, v), Drop(f, S)}
  <2>1. PICK f, k, v, S : entries' \in {Insert(f, k, v), Drop(f, S)}
    BY <1>2
  <2>2. PICK g : g = entries'
    OBVIOUS
  <2>3. g = [x \in DOMAIN g |-> g[x]]
    BY <2>1, <2>2, MapsAreMade, Zenon
  <2> QED BY <2>2, <2>3, Zenon DEF IsMap
<1>3. ASSUME NEW t \in Goroutines, NEW k \in Keys, NEW v \in Values, PutNew(t, k, v) \/ PutExisting(t, k, v) PROVE IsMap'
  BY <1>2, <1>3, Zenon DEF PutNew, PutExisting
<1>4. ASSUME NEW t \in Goroutines, DeleteEntry(t) \/ Clear(t) PROVE IsMap'
  BY <1>2, <1>4, Zenon DEF DeleteEntry, Clear
<1>5. ASSUME NEW t \in Goroutines, Touch(t) \/ \E k \in Keys : Get(t, k) \/ Delete(t, k) PROVE IsMap'
  BY <1>1, <1>5, Zenon DEF Get, Delete, Touch
<1>6. CASE UNCHANGED vars
  BY <1>1, <1>6, Zenon DEF vars
<1> QED BY <1>3, <1>4, <1>5, <1>6, Zenon DEF Next, Step, Put

LEMMA StepImplements == ASSUME CacheInv, IsMap, [Next]_vars PROVE [BC!BCNext]_entries
<1>1. ASSUME NEW t \in Goroutines, NEW k \in Keys, NEW v \in Values, PutNew(t, k, v)
      PROVE  BC!Store(k, v)
  <2>1. k \notin DOMAIN entries /\ entries' = Insert(Drop(entries, Evicted), k, v)
    BY <1>1 DEF PutNew
  <2>2. CASE Full(lruKeys)
    <3>1. PICK x \in DOMAIN entries : Evicted = {x}
      BY <2>2, EvictedIsThere
    <3>2. Cardinality(DOMAIN entries) = Capacity
      BY <2>2, CountIsLen DEF Full
    <3> QED BY <2>1, <3>1, <3>2, SameCount, Zenon DEF BC!Store, BC!Insert, BC!Drop, Insert, Drop
  <2>3. CASE ~Full(lruKeys)
    <3>1. Cardinality(DOMAIN entries) < Capacity
      BY <2>3, CountIsLen, Facts, LRUAssumption DEF Full
    <3>2. Insert(Drop(entries, {}), k, v) = Insert(entries, k, v)
      BY DEF Insert, Drop
    <3>3. Evicted = {}
      BY <2>3, Zenon DEF Evicted
    <3> QED BY <2>1, <3>1, <3>2, <3>3, SameCount, Zenon DEF BC!Store, BC!Insert, Insert
  <2> QED BY <2>2, <2>3
<1>2. ASSUME NEW t \in Goroutines, NEW k \in Keys, NEW v \in Values, PutExisting(t, k, v)
      PROVE  BC!Store(k, v)
  BY <1>2, Zenon DEF PutExisting, BC!Store, BC!Insert, Insert
<1>3. ASSUME NEW t \in Goroutines, DeleteEntry(t) PROVE BC!BCNext \/ UNCHANGED entries
  <2>1. entries' = Drop(entries, {key[t]})
    BY <1>3, Zenon DEF DeleteEntry
  <2>2. CASE key[t] \in DOMAIN entries
    BY <2>1, <2>2, Zenon DEF BC!BCNext, BC!Remove, BC!Drop, Drop
  <2>3. CASE key[t] \notin DOMAIN entries
    <3>1. PICK k : k = key[t]
      OBVIOUS
    <3>2. entries' = Drop(entries, {k}) /\ k \notin DOMAIN entries
      BY <2>1, <2>3, <3>1
    <3>3. entries = [x \in DOMAIN entries |-> entries[x]]
      BY Zenon DEF IsMap
    <3>4. DOMAIN entries \ {k} = DOMAIN entries
      BY <3>2
    <3>5. entries' = [x \in DOMAIN entries |-> entries[x]]
      BY <3>2, <3>4, Zenon DEF Drop
    <3> QED BY <3>3, <3>5
  <2> QED BY <2>2, <2>3
<1>4. ASSUME NEW t \in Goroutines, Clear(t) PROVE BC!BCNext
  BY <1>4, Zenon DEF Clear, BC!BCNext, BC!Remove, BC!Drop, Drop
<1>5. ASSUME NEW t \in Goroutines, NEW k \in Keys, Get(t, k) \/ Delete(t, k) PROVE UNCHANGED entries
  BY <1>5 DEF Get, Delete
<1>6. ASSUME NEW t \in Goroutines, Touch(t) PROVE UNCHANGED entries
  BY <1>6 DEF Touch
<1>7. ASSUME NEW t \in Goroutines, Step(t) PROVE BC!BCNext \/ UNCHANGED entries
  BY <1>7, <1>1, <1>2, <1>3, <1>4, <1>5, <1>6, Zenon DEF Step, Put, BC!BCNext
<1>8. CASE UNCHANGED vars
  BY <1>8 DEF vars
<1> QED BY <1>7, <1>8 DEF Next

\* To its callers the cache is a map of at most Capacity entries that forgets
\* one of them, and only when Put() adds a key to a full one: for any number of
\* keys and goroutines and any capacity.
THEOREM CacheImplements == Spec => ImplementsBoundedCache
<1>1. Init => BC!BCInit
  BY DEF Init, BC!BCInit
<1>2. CacheInv /\ IsMap /\ [Next]_vars => [BC!BCNext]_entries
  BY StepImplements
<1>3. Init => IsMap
  BY DEF Init, IsMap
<1> QED BY <1>1, <1>2, <1>3, NextIsMap, InitCacheInv, NextCacheInv, PTL DEF Spec, ImplementsBoundedCache, BC!BCSpec

-----------------------------------------------------------------------------
(* The order of the list: where the history of LRUOrder says that k is     *)
(* newer than j, k is ahead of j.                                          *)

OnList(s, j) == \E b \in 1 .. Len(s) : s[b].key = j

Ahead(s, k, j) == \E a, b \in 1 .. Len(s) : a < b /\ s[a].key = k /\ s[b].key = j

\* Nothing is newer than a key in use.
Settled == /\ \A k, j \in Keys : <<k, j>> \in newer => j \notin InUse
           /\ \A t \in Goroutines : \A j \in before[t] : j \notin InUse

InOrder == \A k, j \in Keys : <<k, j>> \in newer /\ k \in DOMAIN entries /\ j \in DOMAIN entries => Ahead(lruKeys, k, j)

\* A Get() whose element has left the list will not move its key to the front:
\* the key is there already, as a Put() has brought it back.
Overtaken(t) == \A j \in before[t] :
  pc[t] = "get" /\ ~IsIn(lruKeys, element[t]) /\ element[t].key \in DOMAIN entries /\ j \in DOMAIN entries =>
    Ahead(lruKeys, element[t].key, j)

OrderInv == /\ before \in [Goroutines -> SUBSET Keys]
            /\ Settled /\ InOrder /\ \A t \in Goroutines : Overtaken(t)

LEMMA AheadWithout ==
  ASSUME NEW S, NEW s \in Seq(S), NEW i \in 1 .. Len(s), NEW j, s[i].key # j
  PROVE  /\ OnList(s, j) => OnList(WithoutPlace(s, i), j)
         /\ \A k : k # s[i].key /\ Ahead(s, k, j) => Ahead(WithoutPlace(s, i), k, j)
<1> DEFINE t == WithoutPlace(s, i)
           At(a) == IF a < i THEN a ELSE a - 1
<1>1. /\ Len(t) = Len(s) - 1 /\ Len(s) \in Nat
      /\ \A b \in 1 .. Len(s) - 1 : t[b] = IF b < i THEN s[b] ELSE s[b + 1]
  BY WithoutIsSeq
<1>2. \A a \in 1 .. Len(s) : a # i => At(a) \in 1 .. Len(t) /\ t[At(a)] = s[a]
  BY <1>1
<1>3. \A a, b \in 1 .. Len(s) : a # i /\ b # i /\ a < b => At(a) < At(b)
  OBVIOUS
<1> HIDE DEF t, At
<1>4. ASSUME OnList(s, j) PROVE OnList(t, j)
  BY <1>2, <1>4, Zenon DEF OnList
<1>5. ASSUME NEW k, k # s[i].key, Ahead(s, k, j) PROVE Ahead(t, k, j)
  <2>1. PICK a \in 1 .. Len(s), b \in 1 .. Len(s) : a < b /\ s[a].key = k /\ s[b].key = j
    BY <1>5, Zenon DEF Ahead
  <2>2. a # i /\ b # i
    BY <1>5, <2>1
  <2> QED BY <1>2, <1>3, <2>1, <2>2, Zenon DEF Ahead
<1> QED BY <1>4, <1>5 DEF t

LEMMA AheadPush ==
  ASSUME NEW S, NEW s \in Seq(S), NEW e \in S, NEW j
  PROVE  /\ \A k : Ahead(s, k, j) => Ahead(PushFront(s, e), k, j)
         /\ OnList(s, j) => Ahead(PushFront(s, e), e.key, j)
<1> DEFINE t == PushFront(s, e)
<1>0. Len(s) \in Nat
  OBVIOUS
<1>1. /\ Len(t) = Len(s) + 1
      /\ \A b \in 1 .. Len(s) + 1 : t[b] = IF b = 1 THEN e ELSE s[b - 1]
  BY <1>0 DEF PushFront
<1> HIDE DEF t
<1>2. 1 \in 1 .. Len(t) /\ t[1] = e
  BY <1>0, <1>1
<1>3. \A a \in 1 .. Len(s) : a + 1 \in 1 .. Len(t) /\ t[a + 1] = s[a] /\ 1 < a + 1
  BY <1>0, <1>1
<1>4. \A a, b \in 1 .. Len(s) : a < b => a + 1 < b + 1
  OBVIOUS
<1>5. ASSUME NEW k, Ahead(s, k, j) PROVE Ahead(t, k, j)
  BY <1>3, <1>4, <1>5, Zenon DEF Ahead
<1>6. ASSUME OnList(s, j) PROVE Ahead(t, e.key, j)
  BY <1>2, <1>3, <1>6, Zenon DEF Ahead, OnList
<1> QED BY <1>5, <1>6 DEF t

LEMMA AheadMove ==
  ASSUME NEW S, NEW s \in Seq(S), Distinct(s), NEW e, IsIn(s, e), NEW j, e.key # j
  PROVE  /\ \A k : Ahead(s, k, j) => Ahead(MoveToFront(s, e), k, j)
         /\ OnList(s, j) => Ahead(MoveToFront(s, e), e.key, j)
<1>1. PICK i : i = Place(s, e)
  OBVIOUS
<1>2. i \in 1 .. Len(s) /\ s[i] = e
  BY <1>1 DEF Place, IsIn
<1>3. PICK t : t = WithoutPlace(s, i)
  OBVIOUS
<1>4. MoveToFront(s, e) = PushFront(t, e)
  BY <1>1, <1>3, Zenon DEF MoveToFront, ListRemove
<1>5. t \in Seq(S) /\ e \in S
  BY <1>2, <1>3, WithoutIsSeq
<1>6. OnList(s, j) => OnList(t, j)
  BY <1>2, <1>3, AheadWithout, Zenon
<1>7. \A k : k # e.key /\ Ahead(s, k, j) => Ahead(t, k, j)
  BY <1>2, <1>3, AheadWithout, Zenon
<1>8. /\ \A k : Ahead(t, k, j) => Ahead(PushFront(t, e), k, j)
      /\ OnList(t, j) => Ahead(PushFront(t, e), e.key, j)
  BY <1>5, AheadPush, Zenon
<1>9. \A k : Ahead(s, k, j) => OnList(s, j)
  BY Zenon DEF Ahead, OnList
<1> QED BY <1>4, <1>6, <1>7, <1>8, <1>9, Zenon

LEMMA KeysAreListed == ASSUME CacheInv PROVE \A j \in DOMAIN entries : OnList(lruKeys, j)
<1> SUFFICES ASSUME NEW j \in DOMAIN entries PROVE OnList(lruKeys, j)
  OBVIOUS
<1>1. lruElements[j].key = j /\ IsIn(lruKeys, lruElements[j])
  BY Facts, Zenon DEF CacheInv, Coherent
<1> QED BY <1>1, Zenon DEF IsIn, OnList

LEMMA InUseIs == \A j : j \in InUse <=> \E t \in Goroutines : pc[t] = "get" /\ element[t].key = j
BY Zenon DEF InUse

LEMMA ForgetIs == ASSUME NEW k PROVE \A a, b : <<a, b>> \in Forget(k) <=> <<a, b>> \in newer /\ b # k
BY DEF Forget

\* An element leaves the list only with its key.
LEMMA ListedWithKey ==
  ASSUME CacheInv, CacheInv', \A k \in DOMAIN lruElements \cap DOMAIN lruElements' : lruElements'[k] = lruElements[k],
         NEW x, IsIn(lruKeys, x), x.key \in DOMAIN entries'
  PROVE  IsIn(lruKeys', x)
<1>1. PICK k \in DOMAIN lruElements : lruElements[k] = x
  BY Facts, Zenon DEF Listed, Mapped
<1>2. x.key = k
  BY <1>1, Facts, Zenon DEF Keyed
<1>3. DOMAIN entries' = DOMAIN lruElements' /\ \A j \in DOMAIN lruElements' : IsIn(lruKeys', lruElements'[j])
  BY Zenon DEF CacheInv, Coherent
<1> QED BY <1>1, <1>2, <1>3, Zenon

-----------------------------------------------------------------------------
(* What the steps do to the order.                                         *)

\* Put() brings its key to the front and keeps the others in order.
PutOrders(k) == \A a, j \in DOMAIN entries' : j # k =>
                  /\ Ahead(lruKeys', k, j)
                  /\ a # k /\ Ahead(lruKeys, a, j) => Ahead(lruKeys', a, j)

LEMMA PutNewOrder ==
  ASSUME CacheInv, NEW t \in Goroutines, NEW k \in Keys, NEW v \in Values, PutNew(t, k, v)
  PROVE  /\ PutOrders(k) /\ DOMAIN entries' \subseteq DOMAIN entries \cup {k}
         /\ \A x \in DOMAIN lruElements \cap DOMAIN lruElements' : lruElements'[x] = lruElements[x]
<1>1. PICK e \in Element : /\ e.key = k /\ lruKeys' = PushFront(RoomFor(lruKeys), e)
                           /\ lruElements' = Insert(Drop(lruElements, Evicted), k, e)
  BY Zenon DEF PutNew
<1>2. k \notin DOMAIN lruElements /\ entries' = Insert(Drop(entries, Evicted), k, v)
  BY Facts, Zenon DEF PutNew
<1>3. DOMAIN entries' = (DOMAIN entries \ Evicted) \cup {k}
  BY <1>2 DEF Insert, Drop
<1>4. \A x \in DOMAIN lruElements \cap DOMAIN lruElements' : lruElements'[x] = lruElements[x]
  BY <1>1, <1>2 DEF Insert, Drop
<1>5. PICK s : s = RoomFor(lruKeys)
  OBVIOUS
<1>6. s \in Seq(Element)
  BY <1>5, MadeRoom
<1>7. ASSUME NEW j \in DOMAIN entries, j \notin Evicted
      PROVE  OnList(s, j) /\ \A a : a \notin Evicted /\ Ahead(lruKeys, a, j) => Ahead(s, a, j)
  <2>0. OnList(lruKeys, j) /\ lruKeys \in Seq(Element)
    BY KeysAreListed, Facts, Zenon
  <2>1. CASE Full(lruKeys)
    <3>1. PICK n : n = Len(lruKeys)
      OBVIOUS
    <3>2. n \in 1 .. Len(lruKeys)
      BY <2>1, <3>1, Facts, LRUAssumption DEF Full
    <3>3. s = WithoutPlace(lruKeys, n) /\ Evicted = {lruKeys[n].key}
      BY <1>5, <2>1, <3>1, Zenon DEF RoomFor, Evicted
    <3>4. lruKeys[n].key # j
      BY <1>7, <3>3, Zenon
    <3> QED BY <2>0, <3>2, <3>3, <3>4, AheadWithout, Zenon
  <2>2. CASE ~Full(lruKeys)
    <3>1. s = lruKeys
      BY <1>5, <2>2, Zenon DEF RoomFor
    <3> QED BY <2>0, <3>1, Zenon
  <2> QED BY <2>1, <2>2
<1>8. ASSUME NEW a \in DOMAIN entries', NEW j \in DOMAIN entries', j # k
      PROVE  /\ Ahead(lruKeys', k, j)
             /\ a # k /\ Ahead(lruKeys, a, j) => Ahead(lruKeys', a, j)
  <2>1. j \in DOMAIN entries /\ j \notin Evicted /\ (a # k => a \notin Evicted)
    BY <1>3, <1>8, Zenon
  <2>2. OnList(s, j) /\ (a # k /\ Ahead(lruKeys, a, j) => Ahead(s, a, j))
    BY <1>7, <2>1, Zenon
  <2>3. /\ \A x : Ahead(s, x, j) => Ahead(PushFront(s, e), x, j)
        /\ OnList(s, j) => Ahead(PushFront(s, e), e.key, j)
    BY <1>6, AheadPush, Zenon
  <2> QED BY <1>1, <1>5, <2>2, <2>3, Zenon
<1> QED BY <1>3, <1>4, <1>8, Zenon DEF PutOrders

LEMMA PutExistingOrder ==
  ASSUME CacheInv, NEW t \in Goroutines, NEW k \in Keys, NEW v \in Values, PutExisting(t, k, v)
  PROVE  /\ PutOrders(k) /\ DOMAIN entries' \subseteq DOMAIN entries \cup {k}
         /\ \A x \in DOMAIN lruElements \cap DOMAIN lruElements' : lruElements'[x] = lruElements[x]
<1>1. DOMAIN entries' = DOMAIN entries /\ UNCHANGED lruElements
  BY DEF PutExisting, Insert
<1>2. PICK e : e = lruElements[k]
  OBVIOUS
<1>3. k \in DOMAIN lruElements /\ e.key = k /\ IsIn(lruKeys, e) /\ Distinct(lruKeys) /\ lruKeys \in Seq(Element)
  BY <1>2, Facts, Zenon DEF PutExisting, CacheInv, Coherent
<1>4. lruKeys' = MoveToFront(lruKeys, e)
  BY <1>2, <1>3, Zenon DEF PutExisting
<1>5. ASSUME NEW j \in DOMAIN entries, j # k
      PROVE  Ahead(lruKeys', k, j) /\ \A a : Ahead(lruKeys, a, j) => Ahead(lruKeys', a, j)
  BY <1>3, <1>4, <1>5, KeysAreListed, AheadMove, Zenon
<1> QED BY <1>1, <1>5, Zenon DEF PutOrders

LEMMA DeleteEntryOrder ==
  ASSUME CacheInv, NEW t \in Goroutines, DeleteEntry(t)
  PROVE  /\ \A a, j \in DOMAIN entries' : Ahead(lruKeys, a, j) => Ahead(lruKeys', a, j)
         /\ DOMAIN entries' \subseteq DOMAIN entries
         /\ \A x \in DOMAIN lruElements \cap DOMAIN lruElements' : lruElements'[x] = lruElements[x]
<1>1. PICK k : k = key[t]
  OBVIOUS
<1>2. /\ lruKeys' = IF k \in DOMAIN lruElements THEN ListRemove(lruKeys, lruElements[k]) ELSE lruKeys
      /\ lruElements' = Drop(lruElements, {k}) /\ entries' = Drop(entries, {k})
  BY <1>1 DEF DeleteEntry
<1>3. /\ DOMAIN entries' = DOMAIN entries \ {k}
      /\ \A x \in DOMAIN lruElements \cap DOMAIN lruElements' : lruElements'[x] = lruElements[x]
  BY <1>2 DEF Drop
<1>4. ASSUME NEW a \in DOMAIN entries', NEW j \in DOMAIN entries', Ahead(lruKeys, a, j) PROVE Ahead(lruKeys', a, j)
  <2>1. a # k /\ j # k
    BY <1>3, Zenon
  <2>2. CASE k \in DOMAIN lruElements
    <3>1. PICK e : e = lruElements[k]
      OBVIOUS
    <3>2. e.key = k /\ IsIn(lruKeys, e) /\ lruKeys \in Seq(Element)
      BY <2>2, <3>1, Facts, Zenon DEF CacheInv, Coherent
    <3>3. PICK i : i = Place(lruKeys, e)
      OBVIOUS
    <3>4. i \in 1 .. Len(lruKeys) /\ lruKeys[i] = e
      BY <3>2, <3>3 DEF Place, IsIn
    <3>5. lruKeys' = WithoutPlace(lruKeys, i)
      BY <1>2, <2>2, <3>1, <3>2, <3>3, Zenon DEF ListRemove
    <3> QED BY <1>4, <2>1, <3>2, <3>4, <3>5, AheadWithout, Zenon
  <2>3. CASE k \notin DOMAIN lruElements
    BY <1>2, <1>4, <2>3, Zenon
  <2> QED BY <2>2, <2>3
<1> QED BY <1>3, <1>4, Zenon

-----------------------------------------------------------------------------
(* OrderInv is inductive, given CacheInv.                                      *)

LEMMA OrderFacts ==
  ASSUME OrderInv
  PROVE  /\ before \in [Goroutines -> SUBSET Keys]
         /\ \A k, j \in Keys : <<k, j>> \in newer => j \notin InUse
         /\ \A t \in Goroutines : \A j \in before[t] : j \in Keys /\ j \notin InUse
         /\ InOrder /\ \A t \in Goroutines : Overtaken(t)
BY Zenon DEF OrderInv, Settled

LEMMA HGetOrder == ASSUME CacheInv, CacheInv', OrderInv, NEW t \in Goroutines, NEW k \in Keys, HGet(t, k) PROVE OrderInv'
<1>1. /\ pc[t] = "idle" /\ k \in DOMAIN lruElements /\ UNCHANGED <<entries, lruElements, lruKeys>>
      /\ pc' = [pc EXCEPT ![t] = "get"] /\ element' = [element EXCEPT ![t] = lruElements[k]]
      /\ newer' = Forget(k)
      /\ before' = [u \in Goroutines |-> IF u = t THEN Keys \ (InUse \cup {k}) ELSE before[u] \ {k}]
  BY Zenon DEF HGet, Get
<1>2. /\ pc'[t] = "get" /\ element'[t] = lruElements[k]
      /\ \A u \in Goroutines : u # t => pc'[u] = pc[u] /\ element'[u] = element[u]
  BY <1>1, Facts, Zenon DEF TypeOK
<1>3. lruElements[k].key = k /\ IsIn(lruKeys, lruElements[k])
  BY <1>1, Zenon DEF CacheInv, Coherent
<1>4. \A j : j \in InUse' => j \in InUse \/ j = k
  <2>1. \A j : j \in InUse' => \E u \in Goroutines : pc'[u] = "get" /\ element'[u].key = j
    BY Zenon DEF InUse
  <2>2. ASSUME NEW u \in Goroutines, u # t, pc'[u] = "get" PROVE element'[u].key \in InUse
    <3>1. pc[u] = "get" /\ element'[u] = element[u]
      BY <1>2, <2>2, Zenon
    <3>2. element[u].key \in InUse
      BY <3>1, InUseIs, Zenon
    <3> QED BY <3>1, <3>2, Zenon
  <2>3. element'[t].key = k
    BY <1>2, <1>3, Zenon
  <2> QED BY <2>1, <2>2, <2>3, Zenon
<1>5. /\ before'[t] = Keys \ (InUse \cup {k})
      /\ \A u \in Goroutines : u # t => before'[u] = before[u] \ {k}
  BY <1>1, Zenon
<1>6. before' \in [Goroutines -> SUBSET Keys]
  <2>1. \A u \in Goroutines : (IF u = t THEN Keys \ (InUse \cup {k}) ELSE before[u] \ {k}) \in SUBSET Keys
    BY OrderFacts, Zenon
  <2> QED BY <1>1, <2>1, Zenon
<1>7. \A a, b : <<a, b>> \in newer' => <<a, b>> \in newer /\ b # k
  BY <1>1, ForgetIs, Zenon
<1>8. Settled'
  <2>1. \A a, b \in Keys : <<a, b>> \in newer' => b \notin InUse'
    BY <1>4, <1>7, OrderFacts, Zenon
  <2>2. ASSUME NEW u \in Goroutines, NEW j \in before'[u] PROVE j \notin InUse'
    <3>1. j \notin InUse /\ j # k
      BY <1>5, OrderFacts, Zenon
    <3> QED BY <1>4, <3>1, Zenon
  <2> QED BY <2>1, <2>2, Zenon DEF Settled
<1>9. InOrder'
  BY <1>1, <1>7, OrderFacts, Zenon DEF InOrder
<1>10. ASSUME NEW u \in Goroutines PROVE Overtaken(u)'
  <2>1. CASE u = t
    BY <1>1, <1>2, <1>3, <2>1, Zenon DEF Overtaken
  <2>2. CASE u # t
    BY <1>1, <1>2, <1>5, <2>2, OrderFacts, Zenon DEF Overtaken
  <2> QED BY <2>1, <2>2
<1> QED BY <1>6, <1>8, <1>9, <1>10, Zenon DEF OrderInv

LEMMA HTouchOrder == ASSUME CacheInv, CacheInv', OrderInv, NEW t \in Goroutines, HTouch(t) PROVE OrderInv'
<1>1. PICK e : e = element[t]
  OBVIOUS
<1>2. /\ pc[t] = "get" /\ lruKeys' = MoveToFront(lruKeys, e) /\ UNCHANGED <<entries, lruElements>>
      /\ pc' = [pc EXCEPT ![t] = "idle"] /\ element' = [element EXCEPT ![t] = None]
      /\ newer' = newer \cup {<<e.key, j>> : j \in before[t]}
      /\ before' = [before EXCEPT ![t] = {}]
  BY <1>1, Zenon DEF HTouch, Touch
<1>3. /\ pc'[t] = "idle"
      /\ \A u \in Goroutines : u # t => pc'[u] = pc[u] /\ element'[u] = element[u]
  BY <1>2, Facts, Zenon DEF TypeOK
<1>4. e.key \in InUse
  BY <1>1, <1>2, InUseIs, Zenon
<1>5. \A j : j \in InUse' => j \in InUse
  <2>1. pc'[t] # "get"
    BY <1>3
  <2> QED BY <1>3, <2>1, Zenon DEF InUse
<1>6. /\ before' \in [Goroutines -> SUBSET Keys] /\ before'[t] = {}
      /\ \A u \in Goroutines : u # t => before'[u] = before[u]
  BY <1>2, OrderFacts
<1>7. \A a, b : <<a, b>> \in newer' => <<a, b>> \in newer \/ (a = e.key /\ b \in before[t])
  BY <1>2
<1>8. Settled'
  BY <1>5, <1>6, <1>7, OrderFacts, Zenon DEF Settled
<1>9. lruKeys \in Seq(Element) /\ Distinct(lruKeys) /\ DOMAIN entries \subseteq Keys
  BY Facts, Zenon DEF TypeOK
<1>10. ASSUME NEW j, j \notin InUse, NEW a, Ahead(lruKeys, a, j) PROVE Ahead(lruKeys', a, j)
  <2>1. CASE IsIn(lruKeys, e)
    <3>1. e.key # j
      BY <1>4, <1>10, Zenon
    <3>2. \A k : Ahead(lruKeys, k, j) => Ahead(MoveToFront(lruKeys, e), k, j)
      BY <1>9, <2>1, <3>1, AheadMove, Zenon
    <3> QED BY <1>2, <1>10, <3>2, Zenon
  <2>2. CASE ~IsIn(lruKeys, e)
    BY <1>2, <1>10, <2>2, Zenon DEF MoveToFront
  <2> QED BY <2>1, <2>2
<1>11. ASSUME NEW j \in before[t], e.key \in DOMAIN entries, j \in DOMAIN entries PROVE Ahead(lruKeys', e.key, j)
  <2>1. CASE IsIn(lruKeys, e)
    <3>1. e.key # j /\ OnList(lruKeys, j)
      BY <1>4, <1>11, OrderFacts, KeysAreListed, Zenon
    <3>2. OnList(lruKeys, j) => Ahead(MoveToFront(lruKeys, e), e.key, j)
      BY <1>9, <2>1, <3>1, AheadMove, Zenon
    <3> QED BY <1>2, <3>1, <3>2, Zenon
  <2>2. CASE ~IsIn(lruKeys, e)
    <3>1. Ahead(lruKeys, e.key, j)
      BY <1>1, <1>2, <1>11, <2>2, OrderFacts, Zenon DEF Overtaken
    <3> QED BY <1>10, <3>1, OrderFacts, Zenon
  <2> QED BY <2>1, <2>2
<1>12. InOrder'
  <2>1. ASSUME NEW k \in Keys, NEW j \in Keys, <<k, j>> \in newer, k \in DOMAIN entries, j \in DOMAIN entries
        PROVE  Ahead(lruKeys', k, j)
    <3>1. Ahead(lruKeys, k, j) /\ j \notin InUse
      BY <2>1, OrderFacts, Zenon DEF InOrder
    <3> QED BY <1>10, <3>1, Zenon
  <2> QED BY <1>2, <1>7, <1>11, <2>1, Zenon DEF InOrder
<1>13. ASSUME NEW u \in Goroutines PROVE Overtaken(u)'
  <2>1. CASE u = t
    BY <1>6, <2>1, Zenon DEF Overtaken
  <2>2. CASE u # t
    <3>1. \A x : IsIn(lruKeys', x) <=> IsIn(lruKeys, x)
      BY <1>2, <1>9, MoveFacts, Zenon
    <3>2. \A j \in before[u] : j \notin InUse
      BY OrderFacts, Zenon
    <3>3. Overtaken(u)
      BY OrderFacts
    <3> QED BY <1>2, <1>3, <1>6, <1>10, <2>2, <3>1, <3>2, <3>3, Zenon DEF Overtaken
  <2> QED BY <2>1, <2>2
<1> QED BY <1>6, <1>8, <1>12, <1>13, Zenon DEF OrderInv

LEMMA HPutOrder ==
  ASSUME CacheInv, CacheInv', OrderInv, NEW t \in Goroutines, NEW k \in Keys, NEW v \in Values, HPut(t, k, v)
  PROVE  OrderInv'
<1>1. /\ newer' = (Forget(k) \cup {<<k, j>> : j \in Keys \ (InUse \cup {k})}) \ Gone
      /\ before' = [u \in Goroutines |-> before[u] \ {k}] /\ Put(t, k, v)
  BY Zenon DEF HPut
<1>2. UNCHANGED <<pc, element>>
  BY <1>1, Zenon DEF Put, PutNew, PutExisting
<1>3. /\ PutOrders(k) /\ DOMAIN entries' \subseteq DOMAIN entries \cup {k}
      /\ \A x \in DOMAIN lruElements \cap DOMAIN lruElements' : lruElements'[x] = lruElements[x]
  BY <1>1, PutNewOrder, PutExistingOrder, Zenon DEF Put
<1>4. InUse' = InUse
  BY <1>2, Zenon DEF InUse
<1>5. \A a, b : <<a, b>> \in newer' => b # k /\ (<<a, b>> \in newer \/ (a = k /\ b \notin InUse))
  BY <1>1 DEF Forget
<1>6. before' \in [Goroutines -> SUBSET Keys] /\ \A u \in Goroutines : before'[u] = before[u] \ {k}
  <2>1. \A u \in Goroutines : before[u] \ {k} \in SUBSET Keys
    BY OrderFacts, Zenon
  <2> QED BY <1>1, <2>1, Zenon
<1>7. Settled'
  BY <1>4, <1>5, <1>6, OrderFacts, Zenon DEF Settled
<1>8. InOrder'
  <2> SUFFICES ASSUME NEW a \in Keys, NEW j \in Keys, <<a, j>> \in newer', a \in DOMAIN entries', j \in DOMAIN entries'
               PROVE  Ahead(lruKeys', a, j)
    BY Zenon DEF InOrder
  <2>1. CASE a = k
    BY <1>3, <1>5, <2>1, Zenon DEF PutOrders
  <2>2. CASE a # k
    <3>1. j # k /\ a \in DOMAIN entries /\ j \in DOMAIN entries /\ <<a, j>> \in newer
      BY <1>3, <1>5, <2>2, Zenon
    <3>2. Ahead(lruKeys, a, j)
      BY <3>1, OrderFacts, Zenon DEF InOrder
    <3> QED BY <1>3, <2>2, <3>1, <3>2, Zenon DEF PutOrders
  <2> QED BY <2>1, <2>2
<1>9. ASSUME NEW u \in Goroutines PROVE Overtaken(u)'
  <2>1. PICK e : e = element[u]
    OBVIOUS
  <2>2. ASSUME NEW j \in before[u], j # k, pc[u] = "get", ~IsIn(lruKeys', e), e.key \in DOMAIN entries', j \in DOMAIN entries'
        PROVE  Ahead(lruKeys', e.key, j)
    <3>1. CASE e.key = k
      BY <1>3, <2>2, <3>1, Zenon DEF PutOrders
    <3>2. CASE e.key # k
      <4>1. ~IsIn(lruKeys, e)
        BY <1>3, <2>2, ListedWithKey, Zenon
      <4>2. e.key \in DOMAIN entries /\ j \in DOMAIN entries
        BY <1>3, <2>2, <3>2, Zenon
      <4>3. Ahead(lruKeys, e.key, j)
        BY <2>1, <2>2, <4>1, <4>2, OrderFacts, Zenon DEF Overtaken
      <4> QED BY <1>3, <2>2, <3>2, <4>3, Zenon DEF PutOrders
    <3> QED BY <3>1, <3>2
  <2> QED BY <1>2, <1>6, <2>1, <2>2, Zenon DEF Overtaken
<1> QED BY <1>6, <1>7, <1>8, <1>9, Zenon DEF OrderInv

LEMMA HOtherOrder == ASSUME CacheInv, CacheInv', OrderInv, NEW t \in Goroutines, HOther(t) PROVE OrderInv'
<1>1. newer' \subseteq newer /\ UNCHANGED before /\ (Clear(t) \/ DeleteEntry(t) \/ \E k \in Keys : Delete(t, k))
  BY Zenon DEF HOther
<1>2. UNCHANGED element /\ \A u \in Goroutines : pc'[u] = "get" => pc[u] = "get"
  <2>1. \A x : x = "delete" \/ x = "idle" => x # "get"
    OBVIOUS
  <2> QED BY <1>1, <2>1, Facts, Zenon DEF Clear, DeleteEntry, Delete, TypeOK
<1>3. /\ \A a, j \in DOMAIN entries' : Ahead(lruKeys, a, j) => Ahead(lruKeys', a, j)
      /\ DOMAIN entries' \subseteq DOMAIN entries
      /\ \A x \in DOMAIN lruElements \cap DOMAIN lruElements' : lruElements'[x] = lruElements[x]
  <2>1. ASSUME Clear(t) PROVE DOMAIN entries' = {} /\ DOMAIN lruElements' = {}
    BY <2>1 DEF Clear, Drop
  <2>2. CASE Clear(t)
    BY <2>1, <2>2, Zenon
  <2>3. CASE DeleteEntry(t)
    BY <2>3, DeleteEntryOrder, Zenon
  <2>4. CASE \E k \in Keys : Delete(t, k)
    BY <2>4, Zenon DEF Delete
  <2> QED BY <1>1, <2>2, <2>3, <2>4
<1>4. Settled'
  <2>1. \A j : j \in InUse' => j \in InUse
    BY <1>2, Zenon DEF InUse
  <2> QED BY <1>1, <2>1, OrderFacts, Zenon DEF Settled
<1>5. InOrder'
  BY <1>1, <1>3, OrderFacts, Zenon DEF InOrder
<1>6. ASSUME NEW u \in Goroutines PROVE Overtaken(u)'
  <2>1. PICK e : e = element[u]
    OBVIOUS
  <2>2. ASSUME NEW j \in before[u], pc[u] = "get", ~IsIn(lruKeys', e), e.key \in DOMAIN entries', j \in DOMAIN entries'
        PROVE  Ahead(lruKeys', e.key, j)
    <3>1. ~IsIn(lruKeys, e)
      BY <1>3, <2>2, ListedWithKey, Zenon
    <3>2. Ahead(lruKeys, e.key, j)
      BY <1>3, <2>1, <2>2, <3>1, OrderFacts, Zenon DEF Overtaken
    <3> QED BY <1>3, <2>2, <3>2, Zenon
  <2> QED BY <1>1, <1>2, <2>1, <2>2, Zenon DEF Overtaken
<1> QED BY <1>1, <1>4, <1>5, <1>6, OrderFacts, Zenon DEF OrderInv

LEMMA HNextIsNext == HNext => Next
BY Zenon DEF HNext, HGet, HTouch, HPut, HOther, Next, Step

LEMMA NextOrder == ASSUME CacheInv, OrderInv, [HNext]_hvars PROVE CacheInv' /\ OrderInv'
<1>1. CacheInv'
  <2>1. [Next]_vars
    BY HNextIsNext, Zenon DEF hvars, vars
  <2> QED BY <2>1, NextCacheInv
<1>2. CASE HNext
  BY <1>1, <1>2, HGetOrder, HTouchOrder, HPutOrder, HOtherOrder, Zenon DEF HNext
<1>3. CASE UNCHANGED hvars
  <2>1. InUse' = InUse
    BY <1>3, Zenon DEF hvars, InUse
  <2> QED BY <1>1, <1>3, <2>1, Zenon DEF hvars, OrderInv, Settled, InOrder, Overtaken
<1> QED BY <1>1, <1>2, <1>3

\* The last element of the list is ahead of none.
LEMMA LastIsLast ==
  ASSUME CacheInv, Full(lruKeys), NEW k \in Evicted, NEW j PROVE ~Ahead(lruKeys, k, j)
<1>1. Len(lruKeys) \in Nat /\ Len(lruKeys) # 0 /\ k = lruKeys[Len(lruKeys)].key
  BY Facts, LRUAssumption DEF Full, Evicted
<1>2. ASSUME NEW a \in 1 .. Len(lruKeys), lruKeys[a].key = k PROVE a = Len(lruKeys)
  <2>1. Len(lruKeys) \in 1 .. Len(lruKeys)
    BY <1>1
  <2>2. lruKeys[a] = lruElements[k] /\ lruKeys[Len(lruKeys)] = lruElements[k]
    BY <1>1, <1>2, <2>1, Zenon DEF CacheInv, Coherent
  <2> QED BY <1>2, <2>1, <2>2, Facts, Zenon DEF Distinct
<1>3. \A b \in 1 .. Len(lruKeys) : ~(Len(lruKeys) < b)
  BY <1>1
<1> QED BY <1>2, <1>3, Zenon DEF Ahead

LEMMA StepEvicts ==
  ASSUME CacheInv, OrderInv, HNext, NEW k \in DOMAIN entries \ DOMAIN entries',
         DOMAIN entries' \ DOMAIN entries # {}, NEW j \in DOMAIN entries \cap DOMAIN entries'
  PROVE  <<k, j>> \notin newer
<1>1. PICK t \in Goroutines, i \in Keys, v \in Values : PutNew(t, i, v)
  <2>1. ASSUME NEW t \in Goroutines, NEW i \in Keys, NEW v \in Values, PutExisting(t, i, v)
        PROVE  DOMAIN entries' = DOMAIN entries
    BY <2>1 DEF PutExisting, Insert
  <2>2. ASSUME NEW t \in Goroutines, Clear(t) \/ DeleteEntry(t) PROVE DOMAIN entries' \subseteq DOMAIN entries
    BY <2>2 DEF Clear, DeleteEntry, Drop
  <2>3. ASSUME NEW t \in Goroutines, NEW i \in Keys, Delete(t, i) \/ Get(t, i) PROVE entries' = entries
    BY <2>3, Zenon DEF Delete, Get
  <2>4. ASSUME NEW t \in Goroutines, Touch(t) PROVE entries' = entries
    BY <2>4, Zenon DEF Touch
  <2> QED BY <2>1, <2>2, <2>3, <2>4, Zenon DEF HNext, HGet, HPut, HTouch, HOther, Put
<1>2. DOMAIN entries' = (DOMAIN entries \ Evicted) \cup {i}
  BY <1>1 DEF PutNew, Insert, Drop
<1>3. k \in Evicted
  BY <1>2, Zenon
<1>4. Full(lruKeys)
  BY <1>3, Zenon DEF Evicted
<1>5. ~Ahead(lruKeys, k, j)
  BY <1>3, <1>4, LastIsLast, Zenon
<1>6. k \in Keys /\ j \in Keys
  BY Facts, Zenon DEF TypeOK
<1> QED BY <1>5, <1>6, OrderFacts, Zenon DEF InOrder

\* The entry that Put() evicts is no newer than one that stays, however the two
\* halves of Get() interleave with the calls of other goroutines, and also when
\* the element a Get() is about to move has left the list meanwhile.
THEOREM CacheEvictsOldest == HSpec => EvictsOldest
<1>1. HInit => CacheInv /\ OrderInv
  <2> SUFFICES ASSUME HInit PROVE CacheInv /\ OrderInv
    OBVIOUS
  <2>1. CacheInv
    BY InitCacheInv DEF HInit
  <2>2. newer = {} /\ before = [t \in Goroutines |-> {}]
    BY DEF HInit
  <2>3. before \in [Goroutines -> SUBSET Keys] /\ \A t \in Goroutines : before[t] = {}
    BY <2>2
  <2> QED BY <2>1, <2>2, <2>3, Zenon DEF OrderInv, Settled, InOrder, Overtaken
<1>2. CacheInv /\ OrderInv /\ [HNext]_hvars => CacheInv' /\ OrderInv'
  BY NextOrder
<1>3. CacheInv /\ OrderInv /\ [HNext]_hvars =>
        [\A k \in DOMAIN entries \ DOMAIN entries' :
           DOMAIN entries' \ DOMAIN entries # {} =>
             \A j \in DOMAIN entries \cap DOMAIN entries' : <<k, j>> \notin newer]_hvars
  BY StepEvicts, Zenon
<1> QED BY <1>1, <1>2, <1>3, PTL DEF HSpec, EvictsOldest
=============================================================================
