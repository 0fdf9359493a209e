------------------------------ MODULE MCMaps --------------------------------
(***************************************************************************)
(* The two maps of the library that goroutines share, each with a state of *)
(* its own: the cgo map of a handle and the LRU cache of the registry      *)
(* clients.                                                                *)
(***************************************************************************)
EXTENDS CgoMap, LRUOrder, TLC

VARIABLE use

Symmetry == Permutations(Keys) \cup Permutations(Goroutines) \cup Permutations(Addresses)

MCInit == MapInit /\ HInit /\ use \in {"cgo", "lru"}

Cgo == use = "cgo" /\ MapNext /\ UNCHANGED <<hvars, use>>
Lru == use = "lru" /\ HNext /\ UNCHANGED <<mapVars, use>>

MCSpec == MCInit /\ [][Cgo \/ Lru]_<<mapVars, hvars, use>>
=============================================================================
