------------------------------ MODULE LRUCache ------------------------------
(***************************************************************************)
(* schemaregistry/cache/lrucache.go: a cache shared by goroutines. Get()   *)
(* and Delete() look under the read lock, let go of it, and change the     *)
(* cache under the write lock; everything between taking a lock and        *)
(* releasing it is one step.                                               *)
(***************************************************************************)
EXTENDS Naturals, Sequences

CONSTANTS
  Keys,
  Values,
  Goroutines,   \* callers of the cache
  Addresses,    \* where list elements can be allocated
  Capacity,
  None          \* no element, no key

ASSUME LRUAssumption == Capacity \in Nat \ {0} /\ None \notin Keys

VARIABLES
  entries,      \* key -> value
  lruElements,  \* key -> *list.Element
  lruKeys,      \* the list, most recently used first
  pc,           \* where a goroutine is: "idle", "get" or "delete"
  element,      \* the local of Get()
  key           \* the parameter of Delete()

vars == <<entries, lruElements, lruKeys, pc, element, key>>

-----------------------------------------------------------------------------
(* container/list. A *list.Element is its address and the key it was made  *)
(* with. An address is used again only when nobody holds the element.      *)

Element == [key : Keys, at : Addresses]

IsIn(s, e) == \E i \in 1 .. Len(s) : s[i] = e

Place(s, e) == CHOOSE i \in 1 .. Len(s) : s[i] = e

WithoutPlace(s, i) == [j \in 1 .. Len(s) - 1 |-> IF j < i THEN s[j] ELSE s[j + 1]]

\* Removing or moving an element that has left the list does nothing.
ListRemove(s, e) == IF IsIn(s, e) THEN WithoutPlace(s, Place(s, e)) ELSE s

PushFront(s, e) == [j \in 1 .. Len(s) + 1 |-> IF j = 1 THEN e ELSE s[j - 1]]

MoveToFront(s, e) == IF IsIn(s, e) THEN PushFront(ListRemove(s, e), e) ELSE s

Fresh(e) == ~IsIn(lruKeys, e) /\ \A t \in Goroutines : element[t] # e

(* Go maps. *)

Insert(f, k, v) == [x \in DOMAIN f \cup {k} |-> IF x = k THEN v ELSE f[x]]

Drop(f, S) == [x \in DOMAIN f \ S |-> f[x]]

-----------------------------------------------------------------------------
Init ==
  /\ entries = [k \in {} |-> None]
  /\ lruElements = [k \in {} |-> None]
  /\ lruKeys = <<>>
  /\ pc = [t \in Goroutines |-> "idle"]
  /\ element = [t \in Goroutines |-> None]
  /\ key = [t \in Goroutines |-> None]

\* Get() under the read lock; a miss returns.
Get(t, k) ==
  /\ pc[t] = "idle"
  /\ k \in DOMAIN entries \cap DOMAIN lruElements
  /\ pc' = [pc EXCEPT ![t] = "get"]
  /\ element' = [element EXCEPT ![t] = lruElements[k]]
  /\ UNCHANGED <<entries, lruElements, lruKeys, key>>

\* Get() under the write lock, with the element it saw before.
Touch(t) ==
  /\ pc[t] = "get"
  /\ lruKeys' = MoveToFront(lruKeys, element[t])
  /\ pc' = [pc EXCEPT ![t] = "idle"]
  /\ element' = [element EXCEPT ![t] = None]
  /\ UNCHANGED <<entries, lruElements, key>>

\* Mutant: room is made one entry too early.
FullEarly(s) == Len(s) + 1 = Capacity

Full(s) == Len(s) = Capacity

\* The key that makes room.
Evicted == IF Full(lruKeys) THEN {lruKeys[Len(lruKeys)].key} ELSE {}

RoomFor(s) == IF Full(s) THEN WithoutPlace(s, Len(s)) ELSE s

PutNew(t, k, v) ==
  /\ pc[t] = "idle"
  /\ k \notin DOMAIN entries
  /\ \E e \in Element :
       /\ e.key = k /\ Fresh(e)
       /\ lruKeys' = PushFront(RoomFor(lruKeys), e)
       /\ lruElements' = Insert(Drop(lruElements, Evicted), k, e)
  /\ entries' = Insert(Drop(entries, Evicted), k, v)
  /\ UNCHANGED <<pc, element, key>>

\* Mutant: replacing a value is no use of the key.
PutExistingStays(t, k, v) ==
  /\ pc[t] = "idle"
  /\ k \in DOMAIN entries
  /\ entries' = Insert(entries, k, v)
  /\ UNCHANGED <<lruElements, lruKeys, pc, element, key>>

PutExisting(t, k, v) ==
  /\ pc[t] = "idle"
  /\ k \in DOMAIN entries
  /\ lruKeys' = IF k \in DOMAIN lruElements THEN MoveToFront(lruKeys, lruElements[k]) ELSE lruKeys
  /\ entries' = Insert(entries, k, v)
  /\ UNCHANGED <<lruElements, pc, element, key>>

Put(t, k, v) == PutNew(t, k, v) \/ PutExisting(t, k, v)

\* Delete() under the read lock; a key that is not there returns.
Delete(t, k) ==
  /\ pc[t] = "idle"
  /\ k \in DOMAIN entries
  /\ pc' = [pc EXCEPT ![t] = "delete"]
  /\ key' = [key EXCEPT ![t] = k]
  /\ UNCHANGED <<entries, lruElements, lruKeys, element>>

\* Delete() under the write lock.
DeleteEntry(t) ==
  LET k == key[t] IN
  /\ pc[t] = "delete"
  /\ lruKeys' = IF k \in DOMAIN lruElements THEN ListRemove(lruKeys, lruElements[k]) ELSE lruKeys
  /\ lruElements' = Drop(lruElements, {k})
  /\ entries' = Drop(entries, {k})
  /\ pc' = [pc EXCEPT ![t] = "idle"]
  /\ key' = [key EXCEPT ![t] = None]
  /\ UNCHANGED element

Mapped(e) == \E k \in DOMAIN lruElements : lruElements[k] = e

\* What is left of the list when the elements of the map are removed: nothing,
\* unless the list has elements that are not in the map.
Unlisted(s) == IF \A i \in 1 .. Len(s) : Mapped(s[i]) THEN <<>> ELSE SelectSeq(s, LAMBDA e : ~Mapped(e))

Clear(t) ==
  /\ pc[t] = "idle"
  /\ lruKeys' = Unlisted(lruKeys)
  /\ lruElements' = Drop(lruElements, DOMAIN lruElements)
  /\ entries' = Drop(entries, DOMAIN entries)
  /\ UNCHANGED <<pc, element, key>>

Step(t) ==
  \/ \E k \in Keys : Get(t, k) \/ Delete(t, k)
  \/ \E k \in Keys, v \in Values : Put(t, k, v)
  \/ Touch(t) \/ DeleteEntry(t) \/ Clear(t)

Next == \E t \in Goroutines : Step(t)

Spec == Init /\ [][Next]_vars

-----------------------------------------------------------------------------
\* Types: among them, that a Get() remembers an element, never the nil of a key
\* that is not there (lrucache.go:66-74).
TypeOK ==
  /\ DOMAIN entries \subseteq Keys /\ \A k \in DOMAIN entries : entries[k] \in Values
  /\ DOMAIN lruElements \subseteq Keys /\ \A k \in DOMAIN lruElements : lruElements[k] \in Element
  /\ lruKeys \in Seq(Element)
  /\ pc \in [Goroutines -> {"idle", "get", "delete"}]
  /\ element \in [Goroutines -> Element \cup {None}]
  /\ key \in [Goroutines -> Keys \cup {None}]

\* The two maps and the list hold the same keys, each once, and never more than
\* the capacity, also when Get() and Delete() act on what they saw before they
\* took the write lock (lrucache.go:66-82, 118-132).
Coherent ==
  /\ DOMAIN entries = DOMAIN lruElements
  /\ \A k \in DOMAIN lruElements : lruElements[k].key = k /\ IsIn(lruKeys, lruElements[k])
  /\ \A i \in 1 .. Len(lruKeys) : /\ lruKeys[i].key \in DOMAIN lruElements
                                  /\ lruKeys[i] = lruElements[lruKeys[i].key]
  /\ \A i, j \in 1 .. Len(lruKeys) : i # j => lruKeys[i] # lruKeys[j]
  /\ Len(lruKeys) <= Capacity

BC == INSTANCE BoundedCache WITH contents <- entries

\* To its callers the cache is a map that forgets one entry at a time, and only
\* when Put() needs the room (lrucache.go:92-101).
ImplementsBoundedCache == BC!BCSpec
=============================================================================
