------------------------------- MODULE CgoIds -------------------------------
(***************************************************************************)
(* cgoPut and cgoGet of kafka/handle.go as operators on the id counter and *)
(* the map: CgoMap studies the map by itself, Producer uses it.            *)
(***************************************************************************)
EXTENDS Naturals

CONSTANT IdMod   \* number of values of a uintptr (2^32 or 2^64 in the program)

\* 0 and at least one usable id.
ASSUME IdModAssumption == IdMod \in Nat /\ IdMod >= 2

Ids == 0 .. IdMod - 1

\* h.cgoidNext++ on an unsigned machine word.
UintptrInc(n) == IF n + 1 = IdMod THEN 0 ELSE n + 1

\* Mutation: the counter is narrower than the pointer it fills.
CgoNextNarrow(n) == (n % 2) + 1

\* The id cgoPut hands out when the counter stands at n.
CgoNext(n) == IF UintptrInc(n) = 0 THEN UintptrInc(UintptrInc(n)) ELSE UintptrInc(n)

\* h.cgomap[cgoid] = cg
CgoStore(map, id, cg) == [i \in DOMAIN map \cup {id} |-> IF i = id THEN cg ELSE map[i]]

\* Whether cgoGet finds an object: id 0 is refused before the map is looked at.
CgoFound(map, id) == id # 0 /\ id \in DOMAIN map

\* The map after cgoGet(id): the entry, if there is one, is gone.
CgoForget(map, id) == [i \in (IF id = 0 THEN DOMAIN map ELSE DOMAIN map \ {id}) |-> map[i]]

=============================================================================
