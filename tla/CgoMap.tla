------------------------------- MODULE CgoMap -------------------------------
(***************************************************************************)
(* The map that carries Go state through C (kafka/handle.go).  A Go object *)
(* (here: the delivery channel and opaque of a message) may not be passed  *)
(* to librdkafka as a pointer, so cgoPut stores it under a fresh id, the   *)
(* id travels through C as the message's _private pointer, and cgoGet      *)
(* looks the object up and forgets it.  Both hold cgoLock throughout, so   *)
(* each is one step.                                                       *)
(*                                                                         *)
(* The id counter is a uintptr: it wraps around and skips 0, the value     *)
(* that means "no id".  The source carries a FIXME on whether the ids stay *)
(* unique; this module says exactly when they do.                          *)
(***************************************************************************)
EXTENDS CgoIds

CONSTANTS
  Objs,      \* the Go objects handed to cgoPut
  Lifetime   \* how many later calls of cgoPut an entry may live through

\* The environment assumption under which the ids are unique: an entry is
\* collected before the counter has gone once round the IdMod - 1 ids.
ASSUME LifetimeAssumption == Lifetime \in Nat /\ Lifetime < IdMod - 1

-----------------------------------------------------------------------------
VARIABLES
  cgoidNext,   \* the counter
  cgomap,      \* id -> object
  held,        \* held[o]: the id under which o is outstanding, or 0
  age          \* age[o]: calls of cgoPut since o was put (ghost)

mapVars == <<cgoidNext, cgomap, held, age>>

Outstanding == {o \in Objs : held[o] # 0}

\* Types; the map is from ids to objects.
MapTypeOK ==
  /\ cgoidNext \in Ids
  /\ DOMAIN cgomap \subseteq Ids
  /\ \A i \in DOMAIN cgomap : cgomap[i] \in Objs
  /\ held \in [Objs -> Ids]
  /\ age \in [Objs -> 0 .. Lifetime]

MapInit ==
  /\ cgoidNext = 0
  /\ cgomap = [i \in {} |-> i]
  /\ held = [o \in Objs |-> 0]
  /\ age = [o \in Objs |-> 0]

cgoPut(o) ==
  /\ o \notin Outstanding
  /\ \A p \in Outstanding : age[p] < Lifetime
  /\ cgoidNext' = CgoNext(cgoidNext)
  /\ cgomap' = CgoStore(cgomap, CgoNext(cgoidNext), o)
  /\ held' = [held EXCEPT ![o] = CgoNext(cgoidNext)]
  /\ age' = [p \in Objs |-> IF p = o THEN 0
                            ELSE IF p \in Outstanding THEN age[p] + 1
                            ELSE age[p]]

\* Whoever was given the id brings it back, once.
cgoGet(o) ==
  /\ o \in Outstanding
  /\ cgomap' = CgoForget(cgomap, held[o])
  /\ held' = [held EXCEPT ![o] = 0]
  /\ age' = [age EXCEPT ![o] = 0]
  /\ UNCHANGED cgoidNext

MapNext == \E o \in Objs : cgoPut(o) \/ cgoGet(o)

MapSpec == MapInit /\ [][MapNext]_mapVars

-----------------------------------------------------------------------------
\* The id of every outstanding object still leads to that object: cgoGet will
\* find it, and find nobody else's ("returns a unique id for the added entry",
\* handle.go:254).  It takes a wrap of the counter and an entry that outlived
\* it to break this, which is what the FIXME at handle.go:257 is afraid of.
LookupFindsOwn ==
  \A o \in Outstanding : CgoFound(cgomap, held[o]) /\ cgomap[held[o]] = o

\* Nothing stays behind in the map: every entry belongs to an outstanding
\* object, so a long-running producer does not grow it without bound.
NoLeak == \A i \in DOMAIN cgomap : cgomap[i] \in Outstanding /\ held[cgomap[i]] = i

-----------------------------------------------------------------------------
\* An id as a function of its age: the counter's value that many cgoPuts ago.
IdAtAge(n, a) == IF a < n THEN n - a ELSE n + (IdMod - 1) - a

\* Ages tell ids apart: the reason why LookupFindsOwn is inductive.
AgeDeterminesId ==
  \A o \in Outstanding : cgoidNext # 0 /\ held[o] = IdAtAge(cgoidNext, age[o])

AgesDistinct == \A o, p \in Outstanding : o # p => age[o] # age[p]

\* The inductive invariant of cgoPut and cgoGet: ids are told apart by their ages.
IInv == MapTypeOK /\ LookupFindsOwn /\ NoLeak /\ AgeDeterminesId /\ AgesDistinct
=============================================================================
