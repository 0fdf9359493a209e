---------------------------- MODULE BoundedCache ----------------------------
(***************************************************************************)
(* What the interface of schemaregistry/cache/cache.go promises of a cache *)
(* of limited capacity, whatever its eviction order: a map that forgets    *)
(* one entry, and only to make room for a new key.                         *)
(***************************************************************************)
EXTENDS Naturals, FiniteSets

CONSTANTS Keys, Values, Capacity

VARIABLE contents

Insert(f, k, v) == [x \in DOMAIN f \cup {k} |-> IF x = k THEN v ELSE f[x]]

Drop(f, S) == [x \in DOMAIN f \ S |-> f[x]]

BCInit == DOMAIN contents = {}

Store(k, v) ==
  \/ /\ k \in DOMAIN contents \/ Cardinality(DOMAIN contents) < Capacity
     /\ contents' = Insert(contents, k, v)
  \/ /\ k \notin DOMAIN contents /\ Cardinality(DOMAIN contents) = Capacity
     /\ \E x \in DOMAIN contents : contents' = Insert(Drop(contents, {x}), k, v)

Remove(S) == contents' = Drop(contents, S)

BCNext ==
  \/ \E k \in Keys, v \in Values : Store(k, v)
  \/ \E k \in DOMAIN contents : Remove({k})
  \/ Remove(DOMAIN contents)

BCSpec == BCInit /\ [][BCNext]_contents
=============================================================================
