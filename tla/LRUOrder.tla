------------------------------ MODULE LRUOrder ------------------------------
(***************************************************************************)
(* Which entry LRUCache evicts, told from outside by two history           *)
(* variables. A use of a key is a Put() or a Get() that finds it; a Get()  *)
(* lasts from its look-up to the end of its second critical section.       *)
(***************************************************************************)
EXTENDS LRUCache

VARIABLES
  newer,   \* <<k, j>>: a use of k began and ended after all uses of j had ended
  before   \* of the Get() of a goroutine: the keys whose uses all ended before it

hvars == <<entries, lruElements, lruKeys, pc, element, key, newer, before>>

HInit == Init /\ newer = {} /\ before = [t \in Goroutines |-> {}]

InUse == {element[t].key : t \in {u \in Goroutines : pc[u] = "get"}}

\* A use of k begins: it is no longer older than any other key.
Forget(k) == {p \in newer : p[2] # k}

Gone == {p \in newer : p[1] \in DOMAIN entries \ DOMAIN entries'}

HGet(t, k) ==
  /\ Get(t, k)
  /\ newer' = Forget(k)
  /\ before' = [u \in Goroutines |-> IF u = t THEN Keys \ (InUse \cup {k}) ELSE before[u] \ {k}]

HTouch(t) ==
  /\ Touch(t)
  /\ newer' = newer \cup {<<element[t].key, j>> : j \in before[t]}
  /\ before' = [before EXCEPT ![t] = {}]

HPut(t, k, v) ==
  /\ Put(t, k, v)
  /\ newer' = (Forget(k) \cup {<<k, j>> : j \in Keys \ (InUse \cup {k})}) \ Gone
  /\ before' = [u \in Goroutines |-> before[u] \ {k}]

HOther(t) ==
  /\ Clear(t) \/ DeleteEntry(t) \/ \E k \in Keys : Delete(t, k)
  /\ newer' = newer \ Gone
  /\ UNCHANGED before

HNext == \E t \in Goroutines :
           \/ \E k \in Keys : HGet(t, k)
           \/ \E k \in Keys, v \in Values : HPut(t, k, v)
           \/ HTouch(t) \/ HOther(t)

HSpec == HInit /\ [][HNext]_hvars

\* The entry that makes room for a new key is no newer than one that stays:
\* Get() keeps an entry in the cache although it moves the element to the front
\* only later, when it may have left the list (lrucache.go:74-77, 93-100).
EvictsOldest ==
  [][\A k \in DOMAIN entries \ DOMAIN entries' :
       DOMAIN entries' \ DOMAIN entries # {} =>
         \A j \in DOMAIN entries \cap DOMAIN entries' : <<k, j>> \notin newer]_hvars
=============================================================================
