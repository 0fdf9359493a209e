--------------------------- MODULE RegistryProofs ---------------------------
(***************************************************************************)
(* Two goroutines never ask the registry for the same answer, and a cached *)
(* answer goes stale only by the races that StaleOnlyByRace names, for any *)
(* number of goroutines, subjects and schemas and any size of the caches.  *)
(***************************************************************************)
EXTENDS RegistryClient, TLAPS

USE Zenon

-----------------------------------------------------------------------------
(* The inductive invariant.                                                *)

Four == {"info", "version", "schema", "id"}

\* What a lookup asks for: its cache and the form of its key.
LookupOK(q) ==
  /\ q.c \in Caches /\ (q.op = "getID" => q.c = "info")
  /\ q.c \in Four => q.key[1] = q.subject
  /\ q.c = "info" => q.op \in {"register", "getID"} /\ q.key = <<q.subject, q.key[2]>>
  /\ q.c = "id" => q.op = "byID" /\ q.key = <<q.subject, q.key[2]>>
  /\ q.c = "version" => q.op = "getVersion" /\ q.key = <<q.subject, q.key[2], FALSE>>
  /\ q.c = "schema" => q.op = "metadata" /\ q.key = <<q.subject, q.key[2], FALSE>>
  /\ q.c \notin Four => q.op \in {"byGUID", "latest", "withMetadata"}

\* Caches to be emptied for a subject, and those that are.
Clearing(todo, cleared) ==
  \/ todo = <<"info", "version", "schema", "id">> /\ cleared = {}
  \/ todo = <<"version", "schema", "id">> /\ cleared = {"info"}
  \/ todo = <<"schema", "id">> /\ cleared = {"info", "version"}
  \/ todo = <<"id">> /\ cleared = {"info", "version", "schema"}

\* Where a goroutine is, and its call.
CallOK(t) ==
  /\ pc[t] # "idle" => scheme = "http"
  /\ pc[t] \in {"missed", "asking"} => LookupOK(call[t])
  /\ pc[t] = "clearing" =>
       /\ DOMAIN call[t] = {"op", "subject", "perm", "todo", "cleared"}
       /\ call[t].op = "clear" \/ (call[t].op = "deleteSubject" /\ Clearing(call[t].todo, call[t].cleared))
  /\ pc[t] \in {"nested", "version"} =>
       /\ call[t].op = "deleteVersion"
       /\ DOMAIN call[t] = {"op", "subject", "version", "perm", "found", "ids", "cleared"}
       /\ call[t].cleared = {"version", "info", "id"}
       /\ \A f \in call[t].found : f[1] = call[t].subject
  /\ pc[t] = "deleting" => call[t].op \in {"deleteSubject", "deleteVersion"} /\ Four \subseteq call[t].cleared

\* The locks that a goroutine holds.
Owns(t, c) == (pc[t] = "asking" /\ call[t].c = c) \/ (pc[t] = "nested" /\ c = "version")

LocksOK ==
  /\ DOMAIN lock = Caches /\ \A c \in Caches : lock[c] \in Goroutines \cup {Nobody}
  /\ \A t \in Goroutines, c \in Caches : lock[c] = t <=> Owns(t, c)

Pcs == {"idle", "missed", "asking", "clearing", "nested", "version", "deleting"}

Shapes ==
  /\ scheme \in {"mock", "http"} /\ modern \in BOOLEAN /\ (scheme = "http" => use # "associations")
  /\ DOMAIN cache = Caches /\ pc \in [Goroutines -> Pcs] /\ DOMAIN call = Goroutines
  /\ LocksOK
  /\ scheme = "mock" => \A c \in Caches : DOMAIN cache[c] = {}
  /\ \A t \in Goroutines : CallOK(t)

Missed(t) == pc[t] = "asking" => ~Hit(call[t])

\* The registry's maps of registrations, versions and ids agree.
RegFields == {"infos", "ids", "guids", "versions", "config", "counter", "bySubject", "byType", "byResource"}

InfoOK(r, k) ==
  /\ k = <<k[1], k[2]>> /\ DOMAIN r.infos[k] = {"id", "guid", "deleted"}
  /\ r.infos[k].deleted \in BOOLEAN /\ r.infos[k].deleted = r.versions[k].deleted
  /\ DOMAIN r.versions[k] = {"version", "deleted"}
  /\ <<k[1], r.infos[k].id>> \in DOMAIN r.ids /\ r.ids[<<k[1], r.infos[k].id>>] = k[2]

IdOK(r, k) ==
  /\ k = <<k[1], k[2]>> /\ k[2] \in 1 .. r.counter
  /\ <<k[1], r.ids[k]>> \in DOMAIN r.infos /\ r.infos[<<k[1], r.ids[k]>>].id = k[2]

RegOK(r) ==
  /\ DOMAIN r = RegFields /\ r.counter \in Nat
  /\ DOMAIN r.infos = DOMAIN r.versions
  /\ \A k \in DOMAIN r.infos : InfoOK(r, k)
  /\ \A k \in DOMAIN r.ids : IdOK(r, k)

\* The form of the keys, and the ids of cached registrations: nobody registers a
\* schema while its registration is cached.
KeyOK(c, k) ==
  /\ c \in {"info", "id"} => k = <<k[1], k[2]>>
  /\ c \in {"version", "schema"} => k = <<k[1], k[2], FALSE>>

KeysOK == \A c \in Four : \A k \in DOMAIN cache[c] : KeyOK(c, k)

InfoIds == \A k \in DOMAIN cache["info"] : k \in DOMAIN reg.infos => reg.infos[k].id = cache["info"][k].id

\* A cached answer of a subject that a delete has passed will be stale: it is one
\* that raced with it.
Raced(c, k) == <<c, k>> \in raced

SubjectGone(t) ==
  pc[t] \in {"clearing", "deleting"} /\ call[t].op = "deleteSubject" =>
    \A c \in Four : c \in call[t].cleared => \A k \in DOMAIN cache[c] : k[1] = call[t].subject => Raced(c, k)

HasSchema(t, sc) == pc[t] = "nested" /\ \E f \in call[t].found : f[2] = sc

VersionGone(t) ==
  pc[t] \in {"nested", "version", "deleting"} /\ call[t].op = "deleteVersion" =>
    /\ \A k \in DOMAIN cache["version"] :
         k[1] = call[t].subject /\ cache["version"][k] = call[t].version =>
           Raced("version", k) \/ (pc[t] = "nested" /\ k \in call[t].found)
    /\ \A k \in DOMAIN cache["info"] : k[1] = call[t].subject => Raced("info", k) \/ HasSchema(t, k[2])
    /\ \A k \in DOMAIN cache["id"] :
         k[1] = call[t].subject =>
           Raced("id", k) \/ HasSchema(t, cache["id"][k]) \/ (pc[t] = "nested" /\ k[2] \in call[t].ids)
    /\ pc[t] = "deleting" => \A k \in DOMAIN cache["schema"] :
         k[1] = call[t].subject /\ k[2] = call[t].version => Raced("schema", k)

RInv ==
  /\ Shapes /\ \A t \in Goroutines : Missed(t)
  /\ scheme = "http" => /\ RegOK(reg) /\ KeysOK /\ InfoIds /\ StaleOnlyByRace
                        /\ \A t \in Goroutines : SubjectGone(t) /\ VersionGone(t)

-----------------------------------------------------------------------------
(* Maps.                                                                   *)

LEMMA EmptyFacts == DOMAIN <<>> = {}
BY SMT

LEMMA PutFacts ==
  ASSUME NEW f, NEW k, NEW v
  PROVE  /\ DOMAIN Put(f, k, v) = DOMAIN f \cup {k} /\ Put(f, k, v)[k] = v
         /\ \A x : x \in DOMAIN Put(f, k, v) <=> x \in DOMAIN f \/ x = k
         /\ \A x \in DOMAIN f : x # k => Put(f, k, v)[x] = f[x]
BY DEF Put

LEMMA WithoutFacts ==
  ASSUME NEW f, NEW S
  PROVE  /\ DOMAIN Without(f, S) = DOMAIN f \ S
         /\ \A x : x \in DOMAIN Without(f, S) <=> x \in DOMAIN f /\ x \notin S
         /\ \A x \in DOMAIN f : x \notin S => Without(f, S)[x] = f[x]
BY DEF Without

LEMMA NotThird == ASSUME NEW k, k = <<k[1], k[2], FALSE>> PROVE ~k[3]
<1>1. <<k[1], k[2], FALSE>>[3] = FALSE
  OBVIOUS
<1> QED BY <1>1

\* f has no other entries than g.
Sub(f, g) == DOMAIN f \subseteq DOMAIN g /\ \A x \in DOMAIN f : f[x] = g[x]

LEMMA SubWithout == ASSUME NEW f, NEW S PROVE Sub(Without(f, S), f)
BY WithoutFacts DEF Sub

LEMMA SubEmpty == ASSUME NEW f PROVE Sub(<<>>, f)
BY EmptyFacts DEF Sub

LEMMA CachePutFacts ==
  ASSUME NEW f, NEW k, NEW v, NEW g \in CachePut(f, k, v)
  PROVE  /\ k \in DOMAIN g /\ g[k] = v
         /\ \A x \in DOMAIN g : x # k => x \in DOMAIN f /\ g[x] = f[x]
<1>1. CASE g = Put(f, k, v)
  <2>1. /\ g[k] = v /\ \A x : x \in DOMAIN g <=> x \in DOMAIN f \/ x = k
        /\ \A x \in DOMAIN f : x # k => g[x] = f[x]
    BY <1>1 DEF Put
  <2> QED BY <2>1
<1>2. ASSUME NEW x \in DOMAIN f, g = Put(Without(f, {x}), k, v)
      PROVE  /\ k \in DOMAIN g /\ g[k] = v
             /\ \A y \in DOMAIN g : y # k => y \in DOMAIN f /\ g[y] = f[y]
  <2>0. PICK w : w = Without(f, {x})
    OBVIOUS
  <2>1. /\ \A y : y \in DOMAIN w <=> y \in DOMAIN f /\ y \notin {x}
        /\ \A y \in DOMAIN f : y \notin {x} => w[y] = f[y]
    BY <2>0, WithoutFacts
  <2>2. /\ g[k] = v /\ \A y : y \in DOMAIN g <=> y \in DOMAIN w \/ y = k
        /\ \A y \in DOMAIN w : y # k => g[y] = w[y]
    BY <1>2, <2>0 DEF Put
  <2> QED BY <2>1, <2>2
<1> QED BY <1>1, <1>2 DEF CachePut

-----------------------------------------------------------------------------
(* The registry.                                                           *)

CurrentIn(r, c, k, v) ==
  /\ c = "info" => Registered(r, k[1], k[2]) /\ r.infos[k].id = v.id
  /\ c = "version" => k[3] \/ (<<k[1], k[2]>> \in Live(r, k[1]) /\ r.versions[<<k[1], k[2]>>].version = v)
  /\ c = "schema" => k[3] \/ (<<k[1], v.schema>> \in Live(r, k[1]) /\ r.versions[<<k[1], v.schema>>].version = k[2])
  /\ c = "id" => k \in DOMAIN r.ids /\ r.ids[k] = v

Entry(c, k) == Raced(c, k) \/ CurrentIn(reg, c, k, cache[c][k])

LEMMA StaleParts == StaleOnlyByRace <=> \A c \in Four : \A k \in DOMAIN cache[c] : Entry(c, k)
<1>1. ASSUME NEW c \in Four, NEW k PROVE Current(c, k, cache[c][k]) <=> CurrentIn(reg, c, k, cache[c][k])
  <2>1. CASE c = "info"
    BY <2>1 DEF Current, CurrentIn
  <2>2. CASE c = "version"
    BY <2>2 DEF Current, CurrentIn
  <2>3. CASE c = "schema"
    BY <2>3 DEF Current, CurrentIn
  <2>4. CASE c = "id"
    BY <2>4 DEF Current, CurrentIn
  <2> QED BY <2>1, <2>2, <2>3, <2>4 DEF Four
<1> QED BY <1>1 DEF StaleOnlyByRace, Entry, Raced, Four

LEMMA StaleNext == (\A c \in Four : \A k \in DOMAIN cache'[c] : Entry(c, k)') => StaleOnlyByRace'
<1>1. ASSUME NEW c \in Four, NEW k PROVE CurrentIn(reg', c, k, cache'[c][k]) => Current(c, k, cache[c][k])'
  <2>1. CASE c = "info"
    BY <2>1 DEF Current, CurrentIn
  <2>2. CASE c = "version"
    BY <2>2 DEF Current, CurrentIn
  <2>3. CASE c = "schema"
    BY <2>3 DEF Current, CurrentIn
  <2>4. CASE c = "id"
    BY <2>4 DEF Current, CurrentIn
  <2> QED BY <2>1, <2>2, <2>3, <2>4 DEF Four
<1> QED BY <1>1 DEF StaleOnlyByRace, Entry, Raced, Four

\* n has what r has, and the schema sc of the subject s.
Grown(r, n, s, sc) ==
  /\ DOMAIN n.infos \subseteq DOMAIN r.infos \cup {<<s, sc>>}
  /\ Registered(r, s, sc) => n.infos = r.infos /\ n.versions = r.versions
  /\ \A k \in DOMAIN r.infos :
       /\ k \in DOMAIN n.infos
       /\ k # <<s, sc>> => n.infos[k] = r.infos[k] /\ n.versions[k] = r.versions[k]
  /\ \A k \in DOMAIN r.ids : k \in DOMAIN n.ids /\ n.ids[k] = r.ids[k]

\* n has what r has but the registrations in K, which are deleted or marked so.
Shrunk(r, n, K) ==
  /\ \A k \in DOMAIN r.infos : k \notin K =>
       k \in DOMAIN n.infos /\ n.infos[k] = r.infos[k] /\ n.versions[k] = r.versions[k]
  /\ \A k \in DOMAIN n.infos : k \in DOMAIN r.infos /\ n.infos[k].id = r.infos[k].id
  /\ \A k \in DOMAIN r.ids : <<k[1], r.ids[k]>> \notin K => k \in DOMAIN n.ids /\ n.ids[k] = r.ids[k]

LEMMA LiveIs ==
  ASSUME NEW r, NEW s, NEW sc
  PROVE  <<s, sc>> \in Live(r, s) <=> <<s, sc>> \in DOMAIN r.versions /\ ~r.versions[<<s, sc>>].deleted
BY SMT DEF Live

\* What is registered is live, and so are the answers to lookups.
LEMMA RegisteredLive ==
  ASSUME NEW r, RegOK(r), NEW s, NEW sc PROVE Registered(r, s, sc) <=> <<s, sc>> \in Live(r, s)
<1>1. <<s, sc>> \in DOMAIN r.infos => r.infos[<<s, sc>>].deleted = r.versions[<<s, sc>>].deleted
  BY DEF RegOK, InfoOK
<1> QED BY <1>1, LiveIs DEF Registered, RegOK

\* The registration that an answer is about.
Owner(c, k, v) == IF c = "schema" THEN <<k[1], v.schema>> ELSE IF c = "id" THEN <<k[1], v>> ELSE <<k[1], k[2]>>

Same(r, n, j) == j \in DOMAIN n.infos /\ n.infos[j] = r.infos[j] /\ n.versions[j] = r.versions[j]

LEMMA KeepsCurrent ==
  ASSUME NEW r, NEW n, RegOK(r), RegOK(n), NEW c \in Four, NEW k, NEW v, KeyOK(c, k), CurrentIn(r, c, k, v),
         c # "id" => Same(r, n, Owner(c, k, v)), c = "id" => k \in DOMAIN n.ids /\ n.ids[k] = r.ids[k]
  PROVE  CurrentIn(n, c, k, v)
<1>1. DOMAIN n.infos = DOMAIN n.versions
  BY DEF RegOK
<1>2. CASE c = "info"
  <2>1. Owner(c, k, v) = k /\ k = <<k[1], k[2]>>
    BY <1>2 DEF Owner, KeyOK
  <2>2. Same(r, n, k) /\ k \in DOMAIN r.infos /\ ~r.infos[k].deleted /\ r.infos[k].id = v.id
    BY <1>2, <2>1 DEF CurrentIn, Registered
  <2>3. <<k[1], k[2]>> \in DOMAIN n.infos /\ ~n.infos[<<k[1], k[2]>>].deleted /\ n.infos[k].id = v.id
    BY <2>1, <2>2 DEF Same
  <2> QED BY <1>2, <2>3 DEF CurrentIn, Registered
<1>3. CASE c = "version"
  <2>1. CASE k[3]
    BY <1>3, <2>1 DEF CurrentIn
  <2>2. CASE ~k[3]
    <3>1. /\ Same(r, n, <<k[1], k[2]>>) /\ <<k[1], k[2]>> \in Live(r, k[1])
          /\ r.versions[<<k[1], k[2]>>].version = v
      BY <1>3, <2>2 DEF CurrentIn, Owner
    <3>2. ~r.versions[<<k[1], k[2]>>].deleted
      BY <3>1, LiveIs
    <3>3. /\ <<k[1], k[2]>> \in DOMAIN n.versions /\ ~n.versions[<<k[1], k[2]>>].deleted
          /\ n.versions[<<k[1], k[2]>>].version = v
      BY <1>1, <3>1, <3>2 DEF Same
    <3>4. <<k[1], k[2]>> \in Live(n, k[1])
      BY <3>3, LiveIs
    <3> QED BY <1>3, <3>3, <3>4 DEF CurrentIn
  <2> QED BY <2>1, <2>2
<1>4. CASE c = "schema"
  <2>1. CASE k[3]
    BY <1>4, <2>1 DEF CurrentIn
  <2>2. CASE ~k[3]
    <3>1. /\ Same(r, n, <<k[1], v.schema>>) /\ <<k[1], v.schema>> \in Live(r, k[1])
          /\ r.versions[<<k[1], v.schema>>].version = k[2]
      BY <1>4, <2>2 DEF CurrentIn, Owner
    <3>2. ~r.versions[<<k[1], v.schema>>].deleted
      BY <3>1, LiveIs
    <3>3. /\ <<k[1], v.schema>> \in DOMAIN n.versions /\ ~n.versions[<<k[1], v.schema>>].deleted
          /\ n.versions[<<k[1], v.schema>>].version = k[2]
      BY <1>1, <3>1, <3>2 DEF Same
    <3>4. <<k[1], v.schema>> \in Live(n, k[1])
      BY <3>3, LiveIs
    <3> QED BY <1>4, <3>3, <3>4 DEF CurrentIn
  <2> QED BY <2>1, <2>2
<1>5. CASE c = "id"
  BY <1>5 DEF CurrentIn
<1> QED BY <1>2, <1>3, <1>4, <1>5 DEF Four

\* The owner of a current answer is registered.
LEMMA OwnerRegistered ==
  ASSUME NEW r, RegOK(r), NEW c \in Four, c # "id", NEW k, NEW v, KeyOK(c, k), CurrentIn(r, c, k, v),
         NEW j, j = Owner(c, k, v)
  PROVE  j = <<j[1], j[2]>> /\ j[1] = k[1] /\ Registered(r, j[1], j[2]) /\ j \in DOMAIN r.infos
<1>1. CASE c = "info"
  <2>1. j = <<k[1], k[2]>> /\ Registered(r, k[1], k[2])
    BY <1>1 DEF Owner, CurrentIn
  <2>2. j[1] = k[1] /\ j[2] = k[2]
    BY <2>1, SMT
  <2> QED BY <2>1, <2>2 DEF Registered
<1>2. CASE c = "version"
  <2>1. k = <<k[1], k[2], FALSE>>
    BY <1>2 DEF KeyOK
  <2>2. ~k[3]
    BY <2>1, NotThird
  <2>3. j = <<k[1], k[2]>> /\ <<k[1], k[2]>> \in Live(r, k[1])
    BY <1>2, <2>2 DEF Owner, CurrentIn
  <2>4. j[1] = k[1] /\ j[2] = k[2]
    BY <2>3, SMT
  <2>5. Registered(r, k[1], k[2])
    BY <2>3, RegisteredLive
  <2> QED BY <2>3, <2>4, <2>5 DEF Registered
<1>3. CASE c = "schema"
  <2>1. k = <<k[1], k[2], FALSE>>
    BY <1>3 DEF KeyOK
  <2>2. ~k[3]
    BY <2>1, NotThird
  <2>3. j = <<k[1], v.schema>> /\ <<k[1], v.schema>> \in Live(r, k[1])
    BY <1>3, <2>2 DEF Owner, CurrentIn
  <2>4. j[1] = k[1] /\ j[2] = v.schema
    BY <2>3, SMT
  <2>5. Registered(r, k[1], v.schema)
    BY <2>3, RegisteredLive
  <2> QED BY <2>3, <2>4, <2>5 DEF Registered
<1> QED BY <1>1, <1>2, <1>3 DEF Four

LEMMA GrownCurrent ==
  ASSUME NEW r, NEW n, RegOK(r), RegOK(n), NEW s, NEW sc, Grown(r, n, s, sc), NEW c \in Four, NEW k, NEW v,
         KeyOK(c, k), CurrentIn(r, c, k, v)
  PROVE  CurrentIn(n, c, k, v)
<1>1. CASE c = "id"
  <2>1. k \in DOMAIN n.ids /\ n.ids[k] = r.ids[k]
    BY <1>1 DEF CurrentIn, Grown
  <2> QED BY <1>1, <2>1, KeepsCurrent
<1>2. CASE c # "id"
  <2>1. PICK j : j = Owner(c, k, v)
    OBVIOUS
  <2>2. j = <<j[1], j[2]>> /\ j[1] = k[1] /\ Registered(r, j[1], j[2]) /\ j \in DOMAIN r.infos
    BY ONLY RegOK(r), c \in Four, <1>2, KeyOK(c, k), CurrentIn(r, c, k, v), <2>1, OwnerRegistered
  <2>3. Same(r, n, j)
    <3>1. CASE j = <<s, sc>>
      <4>1. Registered(r, s, sc)
        BY <2>2, <3>1 DEF Registered
      <4> QED BY <2>2, <4>1 DEF Grown, Same
    <3>2. CASE j # <<s, sc>>
      BY <2>2, <3>2 DEF Grown, Same
    <3> QED BY <3>1, <3>2
  <2> QED BY <1>2, <2>1, <2>3, KeepsCurrent
<1> QED BY <1>1, <1>2

LEMMA ShrunkCurrent ==
  ASSUME NEW r, NEW n, RegOK(r), RegOK(n), NEW K, Shrunk(r, n, K), NEW c \in Four, NEW k, NEW v,
         KeyOK(c, k), CurrentIn(r, c, k, v), Owner(c, k, v) \notin K
  PROVE  CurrentIn(n, c, k, v)
<1>1. CASE c = "id"
  <2>1. k \in DOMAIN r.ids /\ r.ids[k] = v /\ <<k[1], v>> \notin K
    BY <1>1 DEF CurrentIn, Owner
  <2>2. k \in DOMAIN n.ids /\ n.ids[k] = r.ids[k]
    BY <2>1 DEF Shrunk
  <2> QED BY <1>1, <2>2, KeepsCurrent
<1>2. CASE c # "id"
  <2>1. PICK j : j = Owner(c, k, v)
    OBVIOUS
  <2>2. j \in DOMAIN r.infos /\ j \notin K
    BY <1>2, <2>1, OwnerRegistered
  <2>3. Same(r, n, j)
    BY <2>2 DEF Shrunk, Same
  <2> QED BY <1>2, <2>1, <2>3, KeepsCurrent
<1> QED BY <1>1, <1>2

-----------------------------------------------------------------------------
(* The registry's operations.                                              *)

Outcome == {"reg", "ok", "val"}

MetadataFields == {"schema", "id", "guid", "subject", "version"}

\* A registry with a registration and its version written, and an id that is its own.
Wrote(r, n, s, sc, v, id, guid) ==
  /\ DOMAIN n = RegFields /\ n.counter \in Nat /\ r.counter <= n.counter /\ id \in 1 .. n.counter
  /\ n.versions = Put(r.versions, <<s, sc>>, [version |-> v, deleted |-> FALSE])
  /\ n.infos = Put(r.infos, <<s, sc>>, [id |-> id, guid |-> guid, deleted |-> FALSE])
  /\ \/ n.ids = r.ids /\ <<s, id>> \in DOMAIN r.ids /\ r.ids[<<s, id>>] = sc
     \/ n.ids = Put(r.ids, <<s, id>>, sc) /\ id > r.counter /\ <<s, sc>> \notin DOMAIN r.infos

LEMMA RegisterWrites ==
  ASSUME NEW r, RegOK(r), NEW s, NEW sc, ~Registered(r, s, sc), NEW v, NEW id, NEW guid, NEW n,
         Wrote(r, n, s, sc, v, id, guid)
  PROVE  RegOK(n) /\ Grown(r, n, s, sc) /\ Registered(n, s, sc) /\ n.infos[<<s, sc>>].id = id
<1> USE DEF Wrote
<1> DEFINE j == <<s, sc>>
           i == <<s, id>>
<1>0. j[1] = s /\ j[2] = sc /\ i[1] = s /\ i[2] = id
  OBVIOUS
<1> HIDE DEF j, i
<1>1. /\ DOMAIN n.infos = DOMAIN r.infos \cup {j} /\ n.infos[j] = [id |-> id, guid |-> guid, deleted |-> FALSE]
      /\ \A k \in DOMAIN r.infos : k # j => n.infos[k] = r.infos[k]
  BY DEF j, Put
<1>2. /\ DOMAIN n.versions = DOMAIN r.versions \cup {j} /\ n.versions[j] = [version |-> v, deleted |-> FALSE]
      /\ \A k \in DOMAIN r.versions : k # j => n.versions[k] = r.versions[k]
  BY DEF j, Put
<1>3. /\ \A k \in DOMAIN r.ids : k[2] # id \/ r.ids[k] = sc \/ k # i
      /\ i \in DOMAIN n.ids /\ n.ids[i] = sc
      /\ \A k \in DOMAIN r.ids : k \in DOMAIN n.ids /\ n.ids[k] = r.ids[k]
      /\ \A k \in DOMAIN n.ids : k = i \/ (k \in DOMAIN r.ids /\ n.ids[k] = r.ids[k])
  <2>1. CASE n.ids = r.ids /\ <<s, id>> \in DOMAIN r.ids /\ r.ids[<<s, id>>] = sc
    BY <2>1 DEF i
  <2>2. CASE n.ids = Put(r.ids, <<s, id>>, sc) /\ id > r.counter /\ <<s, sc>> \notin DOMAIN r.infos
    <3>1. i \notin DOMAIN r.ids
      <4>1. i \in DOMAIN r.ids => id \in 1 .. r.counter
        BY <1>0 DEF RegOK, IdOK
      <4>2. r.counter \in Nat
        BY DEF RegOK
      <4> QED BY <2>2, <4>1, <4>2, SMT
    <3>2. /\ DOMAIN n.ids = DOMAIN r.ids \cup {i} /\ n.ids[i] = sc
          /\ \A k \in DOMAIN r.ids : k # i => n.ids[k] = r.ids[k]
      BY <2>2 DEF i, Put
    <3> QED BY <3>1, <3>2
  <2> QED BY <2>1, <2>2
<1>4. ASSUME NEW k \in DOMAIN r.ids, k # i PROVE <<k[1], r.ids[k]>> # j
  <2> SUFFICES ASSUME <<k[1], r.ids[k]>> = j PROVE FALSE
    OBVIOUS
  <2>1. k = <<k[1], k[2]>> /\ j \in DOMAIN r.infos /\ r.infos[j].id = k[2]
    BY DEF RegOK, IdOK
  <2>2. k[1] = s /\ r.ids[k] = sc
    BY DEF j
  <2>3. i \in DOMAIN r.ids /\ r.ids[i] = sc
    BY <2>1 DEF i, j
  <2>4. <<i[1], r.ids[i]>> = j /\ r.infos[<<i[1], r.ids[i]>>].id = i[2]
    BY <1>0, <2>3 DEF RegOK, IdOK, j
  <2>5. k[2] = id
    BY <1>0, <2>1, <2>4
  <2> QED BY <1>4, <2>1, <2>2, <2>5 DEF i
<1>5. \A k \in DOMAIN n.infos : InfoOK(n, k)
  <2>1. InfoOK(n, j)
    <3>1. j = <<j[1], j[2]>>
      BY DEF j
    <3>2. DOMAIN n.infos[j] = {"id", "guid", "deleted"} /\ n.infos[j].deleted = FALSE /\ n.infos[j].id = id
      BY ONLY <1>1, SMT
    <3>4. DOMAIN n.versions[j] = {"version", "deleted"} /\ n.versions[j].deleted = FALSE
      BY ONLY <1>2, SMT
    <3>3. <<j[1], n.infos[j].id>> = i /\ n.ids[i] = j[2]
      BY <1>0, <1>3, <3>2 DEF i
    <3> QED BY <1>3, <3>1, <3>2, <3>3, <3>4 DEF InfoOK
  <2>2. ASSUME NEW k \in DOMAIN r.infos, k # j PROVE InfoOK(n, k)
    <3>1. InfoOK(r, k) /\ k \in DOMAIN r.versions
      BY <2>2 DEF RegOK
    <3>2. n.infos[k] = r.infos[k] /\ n.versions[k] = r.versions[k]
      BY <1>1, <1>2, <2>2, <3>1
    <3>3. <<k[1], n.infos[k].id>> \in DOMAIN n.ids /\ n.ids[<<k[1], n.infos[k].id>>] = k[2]
      BY <1>3, <3>1, <3>2 DEF InfoOK
    <3> QED BY <3>1, <3>2, <3>3 DEF InfoOK
  <2> QED BY <1>1, <2>1, <2>2
<1>6. \A k \in DOMAIN n.ids : IdOK(n, k)
  <2>1. IdOK(n, i)
    <3>1. n.infos[j].id = id
      BY <1>1, SMT
    <3>2. <<i[1], n.ids[i]>> = j
      BY <1>0, <1>3 DEF j
    <3>3. i = <<i[1], i[2]>>
      BY DEF i
    <3> QED BY <1>0, <1>1, <3>1, <3>2, <3>3 DEF IdOK
  <2>2. ASSUME NEW k \in DOMAIN r.ids, k # i, n.ids[k] = r.ids[k] PROVE IdOK(n, k)
    <3>1. IdOK(r, k) /\ <<k[1], r.ids[k]>> # j
      BY <1>4, <2>2 DEF RegOK
    <3>2. <<k[1], n.ids[k]>> \in DOMAIN n.infos /\ n.infos[<<k[1], n.ids[k]>>].id = k[2]
      BY <1>1, <2>2, <3>1 DEF IdOK
    <3>3. k[2] \in 1 .. n.counter
      <4>1. r.counter \in Nat /\ k[2] \in 1 .. r.counter
        BY <3>1 DEF RegOK, IdOK
      <4> QED BY <4>1, SMT
    <3> QED BY <3>1, <3>2, <3>3 DEF IdOK
  <2> QED BY <1>3, <2>1, <2>2
<1>7. RegOK(n)
  <2>1. DOMAIN r.infos = DOMAIN r.versions
    BY DEF RegOK
  <2> QED BY <1>1, <1>2, <1>5, <1>6, <2>1 DEF RegOK
<1>8. Registered(n, s, sc) /\ n.infos[<<s, sc>>].id = id
  <2>1. n.infos[j].deleted = FALSE /\ n.infos[j].id = id
    BY <1>1, SMT
  <2> QED BY <1>1, <2>1 DEF Registered, j
<1>9. Grown(r, n, s, sc)
  <2>1. DOMAIN r.infos = DOMAIN r.versions
    BY DEF RegOK
  <2> QED BY <1>1, <1>2, <1>3, <2>1 DEF Grown, j
<1> QED BY <1>7, <1>8, <1>9

LEMMA RegisterFacts ==
  ASSUME NEW r, RegOK(r), NEW s, NEW sc, NEW o \in RegisterFullResponse(r, s, sc)
  PROVE  /\ RegOK(o.reg) /\ Grown(r, o.reg, s, sc) /\ Registered(o.reg, s, sc)
         /\ DOMAIN o = Outcome /\ DOMAIN o.val = MetadataFields /\ o.val.id = o.reg.infos[<<s, sc>>].id
<1>1. CASE Registered(r, s, sc)
  <2>1. o = Ok(r, Metadata(sc, r.infos[<<s, sc>>].id, r.infos[<<s, sc>>].guid, "", 0))
    BY <1>1 DEF RegisterFullResponse
  <2>2. o.reg = r
    BY <2>1 DEF Ok
  <2>3. Grown(r, r, s, sc)
    BY DEF Grown
  <2>4. DOMAIN o = Outcome /\ DOMAIN o.val = MetadataFields /\ o.val.id = r.infos[<<s, sc>>].id
    BY ONLY <2>1 DEF Ok, Metadata, Outcome, MetadataFields
  <2> QED BY <1>1, <2>2, <2>3, <2>4
<1>2. CASE ~Registered(r, s, sc)
  <2>0. DOMAIN r = RegFields /\ r.counter \in Nat
    BY DEF RegOK
  <2>1. PICK x \in getIDFromRegistry(r, s, sc) :
          o = Ok([x.reg EXCEPT !.infos = Put(@, <<s, sc>>, [id |-> x.id, guid |-> x.guid, deleted |-> FALSE])],
                 Metadata(sc, x.id, x.guid, "", 0))
    BY <1>2 DEF RegisterFullResponse
  <2>2. PICK v : generateVersion(r, s, sc) =
                   [r EXCEPT !.versions = Put(r.versions, <<s, sc>>, [version |-> v, deleted |-> FALSE])]
    BY <2>0 DEF generateVersion
  <2>3. PICK w : w = generateVersion(r, s, sc)
    OBVIOUS
  <2>4. /\ DOMAIN w = RegFields /\ w.versions = Put(r.versions, <<s, sc>>, [version |-> v, deleted |-> FALSE])
        /\ w.infos = r.infos /\ w.ids = r.ids /\ w.counter = r.counter
    BY <2>0, <2>2, <2>3 DEF RegFields
  <2>5. CASE IdsOf(r, s, sc) = {}
    <3>1. PICK m : m = r.counter + 1
      OBVIOUS
    <3>2. x = [reg |-> [w EXCEPT !.counter = m, !.ids = Put(w.ids, <<s, m>>, sc), !.guids = Put(w.guids, m, sc)],
               id |-> m, guid |-> m]
      <4>1. x \in {[reg |-> [generateVersion(r, s, sc) EXCEPT
                               !.counter = r.counter + 1,
                               !.ids = Put(generateVersion(r, s, sc).ids, <<s, r.counter + 1>>, sc),
                               !.guids = Put(generateVersion(r, s, sc).guids, r.counter + 1, sc)],
                     id |-> r.counter + 1, guid |-> r.counter + 1]}
        BY ONLY x \in getIDFromRegistry(r, s, sc), <2>5, SMT DEF getIDFromRegistry
      <4> QED BY <2>3, <3>1, <4>1
    <3>3. /\ DOMAIN x.reg = RegFields /\ x.reg.versions = w.versions /\ x.reg.infos = w.infos
          /\ x.reg.ids = Put(r.ids, <<s, m>>, sc) /\ x.reg.counter = m /\ x.id = m /\ x.guid = m
      BY <2>4, <3>2 DEF RegFields
    <3>4. /\ DOMAIN o.reg = RegFields /\ o.reg.versions = w.versions
          /\ o.reg.infos = Put(r.infos, <<s, sc>>, [id |-> m, guid |-> m, deleted |-> FALSE])
          /\ o.reg.ids = Put(r.ids, <<s, m>>, sc) /\ o.reg.counter = m
      BY <2>1, <2>4, <3>3 DEF Ok, RegFields
    <3>5. m \in Nat /\ r.counter <= m /\ m \in 1 .. m /\ m > r.counter
      BY <2>0, <3>1, SMT
    <3>6. <<s, sc>> \notin DOMAIN r.infos
      <4> SUFFICES ASSUME <<s, sc>> \in DOMAIN r.infos PROVE FALSE
        OBVIOUS
      <4>1. PICK id : id = r.infos[<<s, sc>>].id
        OBVIOUS
      <4>2. <<s, id>> \in DOMAIN r.ids /\ r.ids[<<s, id>>] = sc
        BY <4>1 DEF RegOK, InfoOK
      <4>3. <<s, id>> \in {y \in DOMAIN r.ids : y[1] = s /\ r.ids[y] = sc}
        BY <4>2
      <4>4. id \in IdsOf(r, s, sc)
        <5>1. <<s, id>>[2] = id
          OBVIOUS
        <5> QED BY <4>3, <5>1 DEF IdsOf
      <4> QED BY <2>5, <4>4
    <3>7. RegOK(o.reg) /\ Grown(r, o.reg, s, sc) /\ Registered(o.reg, s, sc) /\ o.reg.infos[<<s, sc>>].id = m
      <4>1. Wrote(r, o.reg, s, sc, v, m, m)
        BY <2>4, <3>4, <3>5, <3>6 DEF Wrote
      <4> QED BY ONLY RegOK(r), <1>2, <4>1, RegisterWrites, SMT
    <3>8. DOMAIN o = Outcome /\ DOMAIN o.val = MetadataFields /\ o.val.id = m
      BY ONLY <2>1, <3>3 DEF Ok, Metadata, Outcome, MetadataFields
    <3> QED BY <3>7, <3>8
  <2>6. CASE IdsOf(r, s, sc) # {}
    <3>1. PICK i \in IdsOf(r, s, sc), g \in GuidsOf(r, sc) : x = [reg |-> w, id |-> i, guid |-> g]
      <4>1. x \in {[reg |-> generateVersion(r, s, sc), id |-> i, guid |-> g] : i \in IdsOf(r, s, sc), g \in GuidsOf(r, sc)}
        BY ONLY x \in getIDFromRegistry(r, s, sc), <2>6, SMT DEF getIDFromRegistry
      <4> QED BY ONLY <2>3, <4>1, SMT
    <3>2. <<s, i>> \in DOMAIN r.ids /\ r.ids[<<s, i>>] = sc /\ i \in 1 .. r.counter
      <4>1. PICK y \in DOMAIN r.ids : y[1] = s /\ r.ids[y] = sc /\ i = y[2]
        BY DEF IdsOf
      <4>2. y = <<y[1], y[2]>> /\ y[2] \in 1 .. r.counter
        BY DEF RegOK, IdOK
      <4> QED BY <4>1, <4>2
    <3>3. x.reg = w /\ x.id = i /\ x.guid = g
      BY <3>1
    <3>4. /\ DOMAIN o.reg = RegFields /\ o.reg.versions = w.versions
          /\ o.reg.infos = Put(r.infos, <<s, sc>>, [id |-> i, guid |-> g, deleted |-> FALSE])
          /\ o.reg.ids = r.ids /\ o.reg.counter = r.counter
      BY <2>1, <2>4, <3>3 DEF Ok, RegFields
    <3>5. r.counter <= r.counter
      BY <2>0, SMT
    <3>6. RegOK(o.reg) /\ Grown(r, o.reg, s, sc) /\ Registered(o.reg, s, sc) /\ o.reg.infos[<<s, sc>>].id = i
      <4>1. Wrote(r, o.reg, s, sc, v, i, g)
        BY <2>0, <2>4, <3>2, <3>4, <3>5 DEF Wrote
      <4> QED BY ONLY RegOK(r), <1>2, <4>1, RegisterWrites, SMT
    <3>7. DOMAIN o = Outcome /\ DOMAIN o.val = MetadataFields /\ o.val.id = i
      BY ONLY <2>1, <3>3 DEF Ok, Metadata, Outcome, MetadataFields
    <3> QED BY <3>6, <3>7
  <2> QED BY <2>5, <2>6
<1> QED BY <1>1, <1>2

\* A map from which the entries of K are dropped, or in which they are marked.
Cut(f, g, K, perm) ==
  /\ perm => DOMAIN g = DOMAIN f \ K
  /\ ~perm => DOMAIN g = DOMAIN f
  /\ \A k \in DOMAIN g : k \notin K => g[k] = f[k]
  /\ \A k \in DOMAIN g : k \in K => g[k] = [f[k] EXCEPT !.deleted = TRUE]

\* A registry from which the registrations K are deleted.
Deleted(r, n, K, perm) ==
  /\ K \in SUBSET DOMAIN r.infos /\ DOMAIN n = RegFields /\ n.counter = r.counter
  /\ Cut(r.infos, n.infos, K, perm) /\ Cut(r.versions, n.versions, K, perm)
  /\ \A k \in DOMAIN n.ids : k \in DOMAIN r.ids /\ n.ids[k] = r.ids[k]
  /\ \A k \in DOMAIN r.ids : k \in DOMAIN n.ids <=> ~perm \/ <<k[1], r.ids[k]>> \notin K

LEMMA DeleteWrites ==
  ASSUME NEW r, RegOK(r), NEW K, NEW perm, NEW n, Deleted(r, n, K, perm)
  PROVE  RegOK(n) /\ Shrunk(r, n, K)
<1> USE DEF Deleted
<1>1. DOMAIN r.infos = DOMAIN r.versions /\ DOMAIN n.infos = DOMAIN n.versions
  BY DEF RegOK, Cut
<1>2. ASSUME NEW k \in DOMAIN n.infos
      PROVE  /\ k \in DOMAIN r.infos /\ n.infos[k].id = r.infos[k].id /\ InfoOK(n, k)
             /\ k \in K => ~perm
  <2>1. k \in DOMAIN r.infos /\ InfoOK(r, k) /\ (k \in K => ~perm)
    BY DEF RegOK, Cut
  <2>2. <<k[1], r.infos[k].id>> \in DOMAIN n.ids /\ n.ids[<<k[1], r.infos[k].id>>] = k[2]
    <3>1. PICK i : i = <<k[1], r.infos[k].id>>
      OBVIOUS
    <3>2. i \in DOMAIN r.ids /\ r.ids[i] = k[2] /\ i[1] = k[1] /\ k = <<k[1], k[2]>>
      BY <2>1, <3>1 DEF InfoOK
    <3>3. <<i[1], r.ids[i]>> = k
      BY <3>2
    <3>4. i \in DOMAIN n.ids
      BY <2>1, <3>2, <3>3
    <3> QED BY <3>1, <3>2, <3>4
  <2>3. CASE k \notin K
    <3>1. n.infos[k] = r.infos[k] /\ n.versions[k] = r.versions[k]
      BY <1>1, <1>2, <2>3 DEF Cut
    <3> QED BY <2>1, <2>2, <2>3, <3>1 DEF InfoOK
  <2>4. CASE k \in K
    <3>1. n.infos[k] = [r.infos[k] EXCEPT !.deleted = TRUE] /\ n.versions[k] = [r.versions[k] EXCEPT !.deleted = TRUE]
      BY <1>1, <1>2, <2>4 DEF Cut
    <3>2. DOMAIN r.infos[k] = {"id", "guid", "deleted"} /\ DOMAIN r.versions[k] = {"version", "deleted"}
      BY <2>1 DEF InfoOK
    <3>3. /\ DOMAIN n.infos[k] = {"id", "guid", "deleted"} /\ DOMAIN n.versions[k] = {"version", "deleted"}
          /\ n.infos[k].deleted = TRUE /\ n.versions[k].deleted = TRUE /\ n.infos[k].id = r.infos[k].id
      BY <3>1, <3>2
    <3> QED BY <2>1, <2>2, <3>3 DEF InfoOK
  <2> QED BY <2>3, <2>4
<1>3. ASSUME NEW k \in DOMAIN n.ids PROVE IdOK(n, k)
  <2>1. k \in DOMAIN r.ids /\ n.ids[k] = r.ids[k] /\ IdOK(r, k) /\ (~perm \/ <<k[1], r.ids[k]>> \notin K)
    BY DEF RegOK
  <2>2. PICK j : j = <<k[1], r.ids[k]>>
    OBVIOUS
  <2>3. j \in DOMAIN r.infos /\ r.infos[j].id = k[2] /\ (~perm \/ j \notin K)
    BY <2>1, <2>2 DEF IdOK
  <2>4. j \in DOMAIN n.infos
    BY <2>3 DEF Cut
  <2>5. n.infos[j].id = k[2]
    BY <1>2, <2>3, <2>4
  <2> QED BY <2>1, <2>2, <2>4, <2>5 DEF IdOK
<1>4. RegOK(n)
  BY <1>1, <1>2, <1>3 DEF RegOK
<1>5. ASSUME NEW k \in DOMAIN r.infos, k \notin K
      PROVE  k \in DOMAIN n.infos /\ n.infos[k] = r.infos[k] /\ n.versions[k] = r.versions[k]
  BY <1>1, <1>5 DEF Cut
<1>6. Shrunk(r, n, K)
  BY <1>2, <1>5 DEF Shrunk
<1> QED BY <1>4, <1>6

LEMMA CutInfos ==
  ASSUME NEW r, DOMAIN r = RegFields, NEW K, NEW perm, NEW n, n = deleteMetadata(r, K, perm)
  PROVE  /\ DOMAIN n = RegFields /\ n.versions = r.versions /\ n.ids = r.ids /\ n.counter = r.counter
         /\ Cut(r.infos, n.infos, K, perm)
<1>1. CASE perm
  <2>1. n = [r EXCEPT !.infos = Without(r.infos, K)]
    BY <1>1 DEF deleteMetadata
  <2>2. /\ DOMAIN n = RegFields /\ n.versions = r.versions /\ n.ids = r.ids /\ n.counter = r.counter
        /\ n.infos = Without(r.infos, K)
    BY <2>1 DEF RegFields
  <2> QED BY <1>1, <2>2 DEF Cut, Without
<1>2. CASE ~perm
  <2>1. n = [r EXCEPT !.infos = [k \in DOMAIN r.infos |->
                                   IF k \in K THEN [r.infos[k] EXCEPT !.deleted = TRUE] ELSE r.infos[k]]]
    BY <1>2 DEF deleteMetadata
  <2>2. /\ DOMAIN n = RegFields /\ n.versions = r.versions /\ n.ids = r.ids /\ n.counter = r.counter
        /\ n.infos = [k \in DOMAIN r.infos |-> IF k \in K THEN [r.infos[k] EXCEPT !.deleted = TRUE] ELSE r.infos[k]]
    BY <2>1 DEF RegFields
  <2> QED BY <1>2, <2>2 DEF Cut
<1> QED BY <1>1, <1>2

LEMMA CutVersions ==
  ASSUME NEW r, DOMAIN r = RegFields, NEW K, NEW perm, NEW n, n = deleteVersion(r, K, perm)
  PROVE  /\ DOMAIN n = RegFields /\ n.infos = r.infos /\ n.ids = r.ids /\ n.counter = r.counter
         /\ Cut(r.versions, n.versions, K, perm)
<1>1. CASE perm
  <2>1. n = [r EXCEPT !.versions = Without(r.versions, K)]
    BY <1>1 DEF deleteVersion
  <2>2. /\ DOMAIN n = RegFields /\ n.infos = r.infos /\ n.ids = r.ids /\ n.counter = r.counter
        /\ n.versions = Without(r.versions, K)
    BY <2>1 DEF RegFields
  <2> QED BY <1>1, <2>2 DEF Cut, Without
<1>2. CASE ~perm
  <2>1. n = [r EXCEPT !.versions = [k \in DOMAIN r.versions |->
                                      IF k \in K THEN [r.versions[k] EXCEPT !.deleted = TRUE] ELSE r.versions[k]]]
    BY <1>2 DEF deleteVersion
  <2>2. /\ DOMAIN n = RegFields /\ n.infos = r.infos /\ n.ids = r.ids /\ n.counter = r.counter
        /\ n.versions = [k \in DOMAIN r.versions |-> IF k \in K THEN [r.versions[k] EXCEPT !.deleted = TRUE]
                                                      ELSE r.versions[k]]
    BY <2>1 DEF RegFields
  <2> QED BY <1>2, <2>2 DEF Cut
<1> QED BY <1>1, <1>2

LEMMA DeleteSubjectFacts ==
  ASSUME NEW r, RegOK(r), NEW s, NEW perm, NEW o \in DeleteSubject(r, s, perm)
  PROVE  RegOK(o.reg) /\ Shrunk(r, o.reg, {k \in DOMAIN r.infos : k[1] = s})
<1> DEFINE S == {k \in DOMAIN r.infos : k[1] = s}
           K == {k \in DOMAIN r.infos : k[1] = s /\ (~r.infos[k].deleted \/ perm)}
           V == {k \in DOMAIN r.versions : k[1] = s /\ (~r.versions[k].deleted \/ perm)}
           I == IF perm THEN {k \in DOMAIN r.ids : k[1] = s} ELSE {}
<1>0. DOMAIN r = RegFields /\ DOMAIN r.infos = DOMAIN r.versions
  BY DEF RegOK
<1>1. CASE o = Fail(r, {})
  <2>1. o.reg = r
    BY <1>1 DEF Fail
  <2>2. Shrunk(r, r, S)
    BY DEF Shrunk
  <2> QED BY <2>1, <2>2
<1>2. CASE o = deleteSubject(r, s, perm)
  <2>1. K = V
    <3>1. ASSUME NEW k \in DOMAIN r.infos PROVE r.infos[k].deleted = r.versions[k].deleted
      BY DEF RegOK, InfoOK
    <3> QED BY <1>0, <3>1
  <2>2. PICK a : a = deleteMetadata(r, K, perm)
    OBVIOUS
  <2>3. PICK b : b = deleteVersion(a, V, perm)
    OBVIOUS
  <2>4. o.reg = [deleteInfo(b, I) EXCEPT !.config = Without(deleteInfo(b, I).config, {s})]
    BY <1>2, <2>2, <2>3 DEF deleteSubject, Ok
  <2>5. /\ DOMAIN a = RegFields /\ a.versions = r.versions /\ a.ids = r.ids /\ a.counter = r.counter
        /\ Cut(r.infos, a.infos, K, perm)
    BY ONLY <1>0, <2>2, CutInfos, SMT
  <2>6. /\ DOMAIN b = RegFields /\ b.infos = a.infos /\ b.ids = a.ids /\ b.counter = a.counter
        /\ Cut(a.versions, b.versions, V, perm)
    BY ONLY <2>3, <2>5, CutVersions, SMT
  <2>7. PICK d : d = deleteInfo(b, I)
    OBVIOUS
  <2>8. /\ DOMAIN d = RegFields /\ d.infos = b.infos /\ d.versions = b.versions /\ d.counter = b.counter
        /\ d.ids = Without(b.ids, I)
    BY <2>6, <2>7 DEF deleteInfo, RegFields
  <2>9. /\ DOMAIN o.reg = RegFields /\ o.reg.infos = d.infos /\ o.reg.versions = d.versions
        /\ o.reg.counter = d.counter /\ o.reg.ids = d.ids
    BY <2>4, <2>7, <2>8 DEF RegFields
  <2>10. o.reg.ids = Without(r.ids, I) /\ o.reg.counter = r.counter
    BY <2>5, <2>6, <2>8, <2>9
  <2>11. Cut(r.infos, o.reg.infos, K, perm) /\ Cut(r.versions, o.reg.versions, K, perm)
    BY <2>1, <2>5, <2>6, <2>8, <2>9
  <2>12. \A k \in DOMAIN o.reg.ids : k \in DOMAIN r.ids /\ o.reg.ids[k] = r.ids[k]
    BY <2>10 DEF Without
  <2>13. ASSUME NEW k \in DOMAIN r.ids PROVE k \in DOMAIN o.reg.ids <=> ~perm \/ <<k[1], r.ids[k]>> \notin K
    <3>1. k \in DOMAIN o.reg.ids <=> k \notin I
      BY <2>10 DEF Without
    <3>2. PICK j : j = <<k[1], r.ids[k]>>
      OBVIOUS
    <3>3. j \in DOMAIN r.infos /\ j[1] = k[1]
      BY <3>2 DEF RegOK, IdOK
    <3> QED BY <3>1, <3>2, <3>3
  <2>14. RegOK(o.reg) /\ Shrunk(r, o.reg, K)
    <3> HIDE DEF K, V, I, S
    <3>1. K \in SUBSET DOMAIN r.infos
      BY DEF K
    <3>2. Deleted(r, o.reg, K, perm)
      BY <2>9, <2>10, <2>11, <2>12, <2>13, <3>1 DEF Deleted
    <3> QED BY ONLY RegOK(r), <3>2, DeleteWrites, SMT
  <2>15. Shrunk(r, o.reg, S)
    BY <2>14 DEF Shrunk
  <2> QED BY <2>14, <2>15
<1> QED BY <1>1, <1>2 DEF DeleteSubject

HasVersion(r, s, v) == {k \in DOMAIN r.infos : k[1] = s /\ r.versions[k].version = v}

LEMMA DeleteVersionFacts ==
  ASSUME NEW r, RegOK(r), NEW s, NEW v, NEW perm, NEW o \in DeleteSubjectVersion(r, s, v, perm)
  PROVE  RegOK(o.reg) /\ Shrunk(r, o.reg, HasVersion(r, s, v))
<1> DEFINE K == {k \in DOMAIN r.versions : k[1] = s /\ r.versions[k].version = v}
           J == K \cap DOMAIN r.infos
           I == IF perm THEN {<<s, r.infos[k].id>> : k \in J} ELSE {}
<1>0. DOMAIN r = RegFields /\ DOMAIN r.infos = DOMAIN r.versions
  BY DEF RegOK
<1>1. K = HasVersion(r, s, v)
  BY <1>0 DEF HasVersion
<1>2. J = K
  BY <1>0
<1>3. PICK a : a = deleteVersion(r, K, perm)
  OBVIOUS
<1>4. PICK b : b = deleteMetadata(a, J, perm)
  OBVIOUS
<1>5. o.reg = deleteInfo(b, I)
  <2>1. o = Ok(deleteInfo(deleteMetadata(deleteVersion(r, K, perm), J, perm), I), v)
    BY DEF DeleteSubjectVersion
  <2> HIDE DEF K, J, I
  <2> QED BY ONLY <1>3, <1>4, <2>1, SMT DEF Ok
<1>6. /\ DOMAIN a = RegFields /\ a.infos = r.infos /\ a.ids = r.ids /\ a.counter = r.counter
      /\ Cut(r.versions, a.versions, K, perm)
  BY ONLY <1>0, <1>3, CutVersions, SMT
<1>7. /\ DOMAIN b = RegFields /\ b.versions = a.versions /\ b.ids = a.ids /\ b.counter = a.counter
      /\ Cut(a.infos, b.infos, J, perm)
  BY ONLY <1>4, <1>6, CutInfos, SMT
<1>8. /\ DOMAIN o.reg = RegFields /\ o.reg.infos = b.infos /\ o.reg.versions = b.versions /\ o.reg.counter = b.counter
      /\ o.reg.ids = Without(b.ids, I)
  BY <1>5, <1>7 DEF deleteInfo, RegFields
<1>9. o.reg.ids = Without(r.ids, I) /\ o.reg.counter = r.counter
  BY <1>6, <1>7, <1>8
<1>10. Cut(r.infos, o.reg.infos, K, perm) /\ Cut(r.versions, o.reg.versions, K, perm)
  <2> HIDE DEF K, J, I
  <2> QED BY <1>2, <1>6, <1>7, <1>8
<1>11. \A k \in DOMAIN o.reg.ids : k \in DOMAIN r.ids /\ o.reg.ids[k] = r.ids[k]
  BY <1>9 DEF Without
<1>12. ASSUME NEW k \in DOMAIN r.ids PROVE k \in DOMAIN o.reg.ids <=> ~perm \/ <<k[1], r.ids[k]>> \notin K
  <2>1. k \in DOMAIN o.reg.ids <=> k \notin I
    BY <1>9 DEF Without
  <2>2. PICK j : j = <<k[1], r.ids[k]>>
    OBVIOUS
  <2>3. j \in DOMAIN r.infos /\ j[1] = k[1] /\ j[2] = r.ids[k] /\ r.infos[j].id = k[2] /\ k = <<k[1], k[2]>>
    BY <2>2 DEF RegOK, IdOK
  <2>4. ASSUME j \in K PROVE perm => k \in I
    <3>1. k = <<s, r.infos[j].id>>
      BY <2>3, <2>4
    <3>2. j \in J
      BY <1>2, <2>4
    <3> QED BY <3>1, <3>2
  <2>5. ASSUME perm, k \in I PROVE j \in K
    <3>1. PICK m \in J : k = <<s, r.infos[m].id>>
      BY <2>5
    <3>2. m \in DOMAIN r.infos /\ m[1] = s /\ m = <<m[1], m[2]>> /\ r.ids[<<m[1], r.infos[m].id>>] = m[2]
      BY <1>0 DEF RegOK, InfoOK
    <3>3. r.ids[k] = m[2] /\ k[1] = m[1]
      BY <3>1, <3>2
    <3>4. j = m
      BY <2>2, <3>2, <3>3
    <3> QED BY <3>4
  <2> QED BY <2>1, <2>2, <2>4, <2>5
<1> HIDE DEF K, J, I
<1>13. K \in SUBSET DOMAIN r.infos
  BY <1>0 DEF K
<1>14. RegOK(o.reg) /\ Shrunk(r, o.reg, K)
  <2>1. Deleted(r, o.reg, K, perm)
    BY <1>8, <1>9, <1>10, <1>11, <1>12, <1>13 DEF Deleted
  <2> QED BY ONLY RegOK(r), <2>1, DeleteWrites, SMT
<1> QED BY <1>1, <1>14

-----------------------------------------------------------------------------
(* What the registry answers to a lookup.                                  *)

LEMMA OkFacts ==
  ASSUME NEW r, NEW v, NEW o, o = Ok(r, v)
  PROVE  DOMAIN o = Outcome /\ o.reg = r /\ o.val = v
BY SMT DEF Ok, Outcome

LEMMA FailFacts ==
  ASSUME NEW r, NEW v, NEW o, o = Fail(r, v)
  PROVE  o.reg = r /\ ~o.ok
<1>1. o.reg = r
  BY SMT DEF Fail
<1>2. o.ok = FALSE
  BY DEF Fail
<1> QED BY <1>1, <1>2

LEMMA MetadataFacts ==
  ASSUME NEW sc, NEW id, NEW g, NEW s, NEW v, NEW m, m = Metadata(sc, id, g, s, v)
  PROVE  DOMAIN m = MetadataFields /\ m.schema = sc /\ m.id = id
BY SMT DEF Metadata, MetadataFields

LEMMA AnswerRegister ==
  ASSUME NEW r, RegOK(r), NEW q, LookupOK(q), q.op = "register", NEW o \in Answer(r, q)
  PROVE  RegOK(o.reg) /\ Grown(r, o.reg, q.key[1], q.key[2]) /\ CurrentIn(o.reg, "info", q.key, o.val)
<1>1. PICK x \in RegisterFullResponse(r, q.key[1], q.key[2]) :
        o = IF modern THEN Versioned(x, q.key[1], q.key[2]) ELSE x
  BY DEF Answer
<1>2. /\ RegOK(x.reg) /\ Grown(r, x.reg, q.key[1], q.key[2]) /\ Registered(x.reg, q.key[1], q.key[2])
      /\ DOMAIN x = Outcome /\ DOMAIN x.val = MetadataFields /\ x.val.id = x.reg.infos[<<q.key[1], q.key[2]>>].id
  BY ONLY RegOK(r), x \in RegisterFullResponse(r, q.key[1], q.key[2]), RegisterFacts, SMT
<1>6. o.reg = x.reg /\ o.val.id = x.val.id
  <2>1. CASE modern
    <3>1. o = Versioned(x, q.key[1], q.key[2])
      BY <1>1, <2>1
    <3> QED BY ONLY <1>2, <3>1 DEF Versioned, Outcome, MetadataFields
  <2>2. CASE ~modern
    BY <1>1, <2>2
  <2> QED BY <2>1, <2>2
<1>7. q.key = <<q.key[1], q.key[2]>>
  BY DEF LookupOK, Caches, Four
<1>8. o.reg.infos[q.key].id = o.val.id
  BY <1>2, <1>6, <1>7
<1> QED BY <1>2, <1>6, <1>8 DEF CurrentIn

LEMMA AnswerGetID ==
  ASSUME NEW r, RegOK(r), NEW q, LookupOK(q), q.op = "getID", NEW o \in Answer(r, q)
  PROVE  o.reg = r /\ (o.ok => CurrentIn(o.reg, "info", q.key, o.val))
<1>1. PICK x \in GetIDFullResponse(r, q.key[1], q.key[2]) : o = Versioned(x, q.key[1], q.key[2])
  BY DEF Answer
<1>2. q.key = <<q.key[1], q.key[2]>>
  BY DEF LookupOK, Caches, Four
<1>3. CASE Registered(r, q.key[1], q.key[2])
  <2>1. PICK j : j = <<q.key[1], q.key[2]>>
    OBVIOUS
  <2>2. x = Ok(r, Metadata(q.key[2], r.infos[j].id, r.infos[j].guid, "", 0))
    BY <1>3, <2>1 DEF GetIDFullResponse
  <2>3. DOMAIN x = Outcome /\ x.reg = r /\ DOMAIN x.val = MetadataFields /\ x.val.id = r.infos[j].id
    BY ONLY <2>2 DEF Ok, Metadata, Outcome, MetadataFields
  <2>5. o.reg = r /\ o.val.id = r.infos[j].id
    BY ONLY <1>1, <2>3 DEF Versioned, Outcome, MetadataFields
  <2>6. o.reg.infos[q.key].id = o.val.id
    BY <1>2, <2>1, <2>5
  <2> QED BY <1>3, <2>5, <2>6 DEF CurrentIn
<1>4. CASE ~Registered(r, q.key[1], q.key[2])
  <2>1. x = Fail(r, NoMetadata)
    BY <1>4 DEF GetIDFullResponse
  <2>2. o = x
    <3>1. ~x.ok
      BY ONLY <2>1, FailFacts
    <3> QED BY <1>1, <3>1 DEF Versioned
  <2>3. o.reg = r /\ ~o.ok
    BY ONLY <2>1, <2>2, FailFacts
  <2> QED BY <2>3
<1> QED BY <1>3, <1>4

LEMMA AnswerById ==
  ASSUME NEW r, RegOK(r), NEW q, LookupOK(q), q.op = "byID", NEW o \in Answer(r, q)
  PROVE  o.reg = r /\ (o.ok => CurrentIn(o.reg, "id", q.key, o.val))
<1>1. o \in GetBySubjectAndID(r, q.key[1], q.key[2])
  BY DEF Answer
<1>2. q.key = <<q.key[1], q.key[2]>>
  BY DEF LookupOK, Caches, Four
<1>3. CASE q.key \in DOMAIN r.ids
  <2>1. o = Ok(r, r.ids[q.key])
    BY <1>1, <1>2, <1>3 DEF GetBySubjectAndID
  <2>2. o.reg = r /\ o.val = r.ids[q.key]
    BY ONLY <2>1, OkFacts, SMT
  <2> QED BY <1>3, <2>2 DEF CurrentIn
<1>4. CASE q.key \notin DOMAIN r.ids
  <2>1. o = Fail(r, "")
    BY <1>1, <1>2, <1>4 DEF GetBySubjectAndID
  <2>2. o.reg = r /\ ~o.ok
    BY ONLY <2>1, FailFacts
  <2> QED BY <2>2
<1> QED BY <1>3, <1>4

LEMMA AnswerVersion ==
  ASSUME NEW r, RegOK(r), NEW q, LookupOK(q), q.op = "getVersion", NEW o \in Answer(r, q)
  PROVE  o.reg = r /\ (o.ok => CurrentIn(o.reg, "version", q.key, o.val))
<1>1. o \in GetVersionIncludeDeleted(r, q.key[1], q.key[2], q.key[3])
  BY DEF Answer
<1>2. CASE <<q.key[1], q.key[2]>> \in Live(r, q.key[1])
  <2>1. o = Ok(r, r.versions[<<q.key[1], q.key[2]>>].version)
    BY <1>1, <1>2 DEF GetVersionIncludeDeleted
  <2>2. o.reg = r /\ o.val = r.versions[<<q.key[1], q.key[2]>>].version
    BY ONLY <2>1, OkFacts, SMT
  <2> QED BY <1>2, <2>2 DEF CurrentIn
<1>3. CASE <<q.key[1], q.key[2]>> \notin Live(r, q.key[1])
  <2>1. o = Fail(r, -1)
    BY <1>1, <1>3 DEF GetVersionIncludeDeleted
  <2>2. o.reg = r /\ ~o.ok
    BY ONLY <2>1, FailFacts
  <2> QED BY <2>2
<1> QED BY <1>2, <1>3

Found(r, s, v, del) ==
  {k \in DOMAIN r.versions : k[1] = s /\ r.versions[k].version = v /\ (~r.versions[k].deleted \/ del)}

LEMMA MetadataIs ==
  ASSUME NEW r, NEW s, NEW v, NEW del, NEW o \in GetSchemaMetadataIncludeDeleted(r, s, v, del)
  PROVE  \/ o = Fail(r, NoMetadata)
         \/ \E k \in Found(r, s, v, del) : \E i, g : o = Ok(r, Metadata(k[2], i, g, s, v))
<1> DEFINE Of(k) == {Ok(r, Metadata(k[2], i, g, s, v)) : i \in IdsOf(r, s, k[2]), g \in GuidsOf(r, k[2])}
<1>1. o \in UNION {Of(k) : k \in Found(r, s, v, del)} \/ o = Fail(r, NoMetadata)
  BY SMT DEF GetSchemaMetadataIncludeDeleted, Found
<1> HIDE DEF Of
<1>2. CASE o \in UNION {Of(k) : k \in Found(r, s, v, del)}
  <2>1. PICK S \in {Of(k) : k \in Found(r, s, v, del)} : o \in S
    BY <1>2
  <2>2. PICK k \in Found(r, s, v, del) : o \in Of(k)
    BY <2>1
  <2>3. \E i, g : o = Ok(r, Metadata(k[2], i, g, s, v))
    BY ONLY <2>2, SMT DEF Of
  <2> QED BY <2>3
<1> QED BY <1>1, <1>2

LEMMA MetadataReg ==
  ASSUME NEW r, NEW s, NEW v, NEW del, NEW o \in GetSchemaMetadataIncludeDeleted(r, s, v, del)
  PROVE  o.reg = r
<1>0. \/ o = Fail(r, NoMetadata)
      \/ \E k \in Found(r, s, v, del) : \E i, g : o = Ok(r, Metadata(k[2], i, g, s, v))
  BY ONLY o \in GetSchemaMetadataIncludeDeleted(r, s, v, del), MetadataIs, SMT
<1>1. o = Fail(r, NoMetadata) \/ \E m : o = Ok(r, m)
  BY <1>0
<1>2. CASE o = Fail(r, NoMetadata)
  BY ONLY <1>2, FailFacts
<1>3. CASE \E m : o = Ok(r, m)
  BY ONLY <1>3, OkFacts, SMT
<1> QED BY <1>1, <1>2, <1>3

LEMMA MetadataOutcome ==
  ASSUME NEW r, RegOK(r), NEW s, NEW v, NEW del, ~del, NEW o \in GetSchemaMetadataIncludeDeleted(r, s, v, del), o.ok
  PROVE  <<s, o.val.schema>> \in Live(r, s) /\ r.versions[<<s, o.val.schema>>].version = v
<1>1. o # Fail(r, NoMetadata)
  BY FailFacts
<1>0. PICK k \in Found(r, s, v, del) : \E i, g : o = Ok(r, Metadata(k[2], i, g, s, v))
  <2>1. \/ o = Fail(r, NoMetadata)
        \/ \E k \in Found(r, s, v, del) : \E i, g : o = Ok(r, Metadata(k[2], i, g, s, v))
    BY ONLY o \in GetSchemaMetadataIncludeDeleted(r, s, v, del), MetadataIs, SMT
  <2> QED BY <1>1, <2>1
<1>2. k \in DOMAIN r.versions /\ k[1] = s /\ r.versions[k].version = v /\ ~r.versions[k].deleted
  BY DEF Found
<1>3. k = <<s, k[2]>>
  BY <1>2 DEF RegOK, InfoOK
<1>7. PICK i, g : o = Ok(r, Metadata(k[2], i, g, s, v))
  BY ONLY <1>0
<1>4. o.val = Metadata(k[2], i, g, s, v)
  BY ONLY <1>7, OkFacts, SMT
<1>5. o.val.schema = k[2]
  BY ONLY <1>4, MetadataFacts, SMT
<1>6. <<s, k[2]>> \in Live(r, s) /\ r.versions[<<s, k[2]>>].version = v
  BY <1>2, <1>3, LiveIs
<1> QED BY <1>5, <1>6

LEMMA AnswerMetadata ==
  ASSUME NEW r, RegOK(r), NEW q, LookupOK(q), q.op = "metadata", NEW o \in Answer(r, q)
  PROVE  o.reg = r /\ (o.ok => CurrentIn(o.reg, "schema", q.key, o.val))
<1>1. o \in GetSchemaMetadataIncludeDeleted(r, q.key[1], q.key[2], q.key[3])
  BY DEF Answer
<1>2. ~q.key[3]
  <2>1. q.key = <<q.subject, q.key[2], FALSE>>
    BY DEF LookupOK, Caches, Four
  <2>2. <<q.subject, q.key[2], FALSE>>[3] = FALSE
    OBVIOUS
  <2> QED BY <2>1, <2>2
<1>3. /\ o.reg = r
      /\ o.ok => /\ <<q.key[1], o.val.schema>> \in Live(r, q.key[1])
                 /\ r.versions[<<q.key[1], o.val.schema>>].version = q.key[2]
  <2>1. o.reg = r
    BY ONLY <1>1, MetadataReg
  <2>2. o.ok => /\ <<q.key[1], o.val.schema>> \in Live(r, q.key[1])
                /\ r.versions[<<q.key[1], o.val.schema>>].version = q.key[2]
    BY ONLY RegOK(r), <1>1, <1>2, MetadataOutcome
  <2> QED BY <2>1, <2>2
<1> QED BY <1>3 DEF CurrentIn

\* A lookup of another cache.
LEMMA AnswerOther ==
  ASSUME NEW r, RegOK(r), NEW q, q.op \in {"byGUID", "latest", "withMetadata"}, NEW o \in Answer(r, q)
  PROVE  o.reg = r
<1>1. CASE q.op = "byGUID"
  <2>1. o \in GetByGUID(r, q.key)
    BY <1>1 DEF Answer
  <2>2. (\E v : o = Ok(r, v)) \/ o = Fail(r, "")
    BY <2>1 DEF GetByGUID
  <2>3. CASE \E v : o = Ok(r, v)
    BY ONLY <2>3, OkFacts, SMT
  <2>4. CASE o = Fail(r, "")
    BY ONLY <2>4, FailFacts
  <2> QED BY <2>2, <2>3, <2>4
<1>2. CASE q.op = "latest"
  <2>1. o \in GetLatestSchemaMetadata(r, q.key)
    BY <1>2 DEF Answer
  <2>2. o = Fail(r, NoMetadata) \/ \E v : o \in GetSchemaMetadataIncludeDeleted(r, q.key, v, FALSE)
    BY <2>1 DEF GetLatestSchemaMetadata
  <2>3. CASE o = Fail(r, NoMetadata)
    BY ONLY <2>3, FailFacts
  <2>4. ASSUME NEW v, o \in GetSchemaMetadataIncludeDeleted(r, q.key, v, FALSE) PROVE o.reg = r
    <3>1. PICK d : d = FALSE
      OBVIOUS
    <3>2. o \in GetSchemaMetadataIncludeDeleted(r, q.key, v, d)
      BY <2>4, <3>1
    <3> QED BY ONLY <3>2, MetadataReg
  <2> QED BY <2>2, <2>3, <2>4
<1>3. CASE q.op = "withMetadata"
  <2>1. o \in GetLatestWithMetadata(r, q.key[1], q.key[2], q.key[3])
    BY <1>3 DEF Answer
  <2>2. (\E v : o = Ok(r, v)) \/ o = Fail(r, NoMetadata)
    BY <2>1 DEF GetLatestWithMetadata
  <2> QED BY ONLY <2>2, SMT DEF Ok, Fail
<1> QED BY <1>1, <1>2, <1>3

LEMMA AnswerFacts ==
  ASSUME NEW r, RegOK(r), NEW q, LookupOK(q), NEW o \in Answer(r, q)
  PROVE  /\ RegOK(o.reg)
         /\ o.reg = r \/ (q.op = "register" /\ q.c = "info" /\ Grown(r, o.reg, q.key[1], q.key[2]))
         /\ o.ok /\ q.c \in Four => CurrentIn(o.reg, q.c, q.key, o.val)
<1>1. CASE q.c = "info"
  <2>1. q.op \in {"register", "getID"}
    BY <1>1 DEF LookupOK
  <2>2. CASE q.op = "register"
    BY <1>1, <2>2, AnswerRegister
  <2>3. CASE q.op = "getID"
    <3>1. o.reg = r /\ (o.ok => CurrentIn(o.reg, "info", q.key, o.val))
      BY ONLY RegOK(r), LookupOK(q), o \in Answer(r, q), <2>3, AnswerGetID
    <3> QED BY <1>1, <3>1
  <2> QED BY <2>1, <2>2, <2>3
<1>2. CASE q.c = "id"
  <2>1. q.op = "byID"
    BY <1>2 DEF LookupOK
  <2>2. o.reg = r /\ (o.ok => CurrentIn(o.reg, "id", q.key, o.val))
    BY ONLY RegOK(r), LookupOK(q), o \in Answer(r, q), <2>1, AnswerById
  <2> QED BY <1>2, <2>2
<1>3. CASE q.c = "version"
  <2>1. q.op = "getVersion"
    BY <1>3 DEF LookupOK
  <2>2. o.reg = r /\ (o.ok => CurrentIn(o.reg, "version", q.key, o.val))
    BY ONLY RegOK(r), LookupOK(q), o \in Answer(r, q), <2>1, AnswerVersion
  <2> QED BY <1>3, <2>2
<1>4. CASE q.c = "schema"
  <2>1. q.op = "metadata"
    BY <1>4 DEF LookupOK
  <2>2. o.reg = r /\ (o.ok => CurrentIn(o.reg, "schema", q.key, o.val))
    BY ONLY RegOK(r), LookupOK(q), o \in Answer(r, q), <2>1, AnswerMetadata
  <2> QED BY <1>4, <2>2
<1>5. CASE q.c \notin Four
  <2>1. q.op \in {"byGUID", "latest", "withMetadata"}
    BY <1>5 DEF LookupOK
  <2>2. o.reg = r
    BY ONLY RegOK(r), o \in Answer(r, q), <2>1, AnswerOther
  <2> QED BY <1>5, <2>2
<1> QED BY <1>1, <1>2, <1>3, <1>4, <1>5 DEF Four

LEMMA PairLookup ==
  ASSUME NEW q, NEW op, NEW c, NEW s, NEW x, q = Lookup(op, c, <<s, x>>, s)
  PROVE  q.op = op /\ q.c = c /\ q.key = <<q.subject, q.key[2]>> /\ q.key[1] = q.subject
BY SMT DEF Lookup

LEMMA TripleLookup ==
  ASSUME NEW q, NEW s, NEW x, q.key = <<s, x, FALSE>>, q.subject = s
  PROVE  q.key = <<q.subject, q.key[2], FALSE>> /\ q.key[1] = q.subject
<1>1. <<s, x, FALSE>>[1] = s /\ <<s, x, FALSE>>[2] = x
  OBVIOUS
<1> QED BY <1>1

LEMMA CallsOK == ASSUME NEW q \in Calls PROVE LookupOK(q)
<1>1. \/ \E s, sc : q = Register(s, sc) \/ q = GetID(s, sc) \/ q = GetVersion(s, sc, FALSE)
      \/ \E s, i : q = GetBySubjectAndIDCall(s, i) \/ q = GetSchemaMetadata(s, i, FALSE)
      \/ \E g : q = GetByGUIDCall(g) \/ q = GetLatest(g) \/ q = GetWithMetadata(g, {}, FALSE)
  <2>1. CASE q \in {GetByGUIDCall(g) : g \in 1 .. MaxIds}
    BY <2>1
  <2>2. CASE q \in UNION {LookupsOf(s) : s \in HttpSubjects}
    <3>1. PICK s \in HttpSubjects : q \in LookupsOf(s)
      BY <2>2
    <3>2. \/ q \in {Register(s, sc) : sc \in HttpSchemas} \/ q \in {GetID(s, sc) : sc \in HttpSchemas}
          \/ q \in {GetVersion(s, sc, FALSE) : sc \in HttpSchemas}
          \/ q \in {GetBySubjectAndIDCall(s, id) : id \in 1 .. MaxIds}
          \/ q \in {GetSchemaMetadata(s, v, FALSE) : v \in HttpVersions}
          \/ q = GetLatest(s) \/ q = GetWithMetadata(s, {}, FALSE)
      BY <3>1 DEF LookupsOf
    <3> QED BY <3>2
  <2> QED BY <2>1, <2>2 DEF Calls
<1>2. ASSUME NEW s, NEW sc, q = Register(s, sc) PROVE LookupOK(q)
  <2>1. q.op = "register" /\ q.c = "info" /\ q.key = <<q.subject, q.key[2]>> /\ q.key[1] = q.subject
    BY ONLY <1>2, PairLookup, SMT DEF Register
  <2> QED BY <2>1 DEF LookupOK, Caches, Four
<1>3. ASSUME NEW s, NEW sc, q = GetID(s, sc) PROVE LookupOK(q)
  <2>1. q.op = "getID" /\ q.c = "info" /\ q.key = <<q.subject, q.key[2]>> /\ q.key[1] = q.subject
    BY ONLY <1>3, PairLookup, SMT DEF GetID
  <2> QED BY <2>1 DEF LookupOK, Caches, Four
<1>4. ASSUME NEW s, NEW sc, q = GetVersion(s, sc, FALSE) PROVE LookupOK(q)
  <2>1. q.op = "getVersion" /\ q.c = "version" /\ q.key = <<s, sc, FALSE>> /\ q.subject = s
    BY <1>4 DEF GetVersion, Lookup
  <2>2. q.key = <<q.subject, q.key[2], FALSE>> /\ q.key[1] = q.subject
    BY <2>1, TripleLookup
  <2> QED BY <2>1, <2>2 DEF LookupOK, Caches, Four
<1>5. ASSUME NEW s, NEW i, q = GetBySubjectAndIDCall(s, i) PROVE LookupOK(q)
  <2>1. q.op = "byID" /\ q.c = "id" /\ q.key = <<q.subject, q.key[2]>> /\ q.key[1] = q.subject
    BY ONLY <1>5, PairLookup, SMT DEF GetBySubjectAndIDCall
  <2> QED BY <2>1 DEF LookupOK, Caches, Four
<1>6. ASSUME NEW s, NEW i, q = GetSchemaMetadata(s, i, FALSE) PROVE LookupOK(q)
  <2>1. q.op = "metadata" /\ q.c = "schema" /\ q.key = <<s, i, FALSE>> /\ q.subject = s
    BY <1>6 DEF GetSchemaMetadata, Lookup
  <2>2. q.key = <<q.subject, q.key[2], FALSE>> /\ q.key[1] = q.subject
    BY <2>1, TripleLookup
  <2> QED BY <2>1, <2>2 DEF LookupOK, Caches, Four
<1>7. ASSUME NEW g, q = GetByGUIDCall(g) \/ q = GetLatest(g) \/ q = GetWithMetadata(g, {}, FALSE)
      PROVE  LookupOK(q)
  <2>1. CASE q = GetByGUIDCall(g)
    <3>1. q.op = "byGUID" /\ q.c = "guid"
      BY <2>1 DEF GetByGUIDCall, Lookup
    <3> QED BY <3>1 DEF LookupOK, Caches, Four
  <2>2. CASE q = GetLatest(g)
    <3>1. q.op = "latest" /\ q.c = "latest"
      BY <2>2 DEF GetLatest, Lookup
    <3> QED BY <3>1 DEF LookupOK, Caches, Four
  <2>3. CASE q = GetWithMetadata(g, {}, FALSE)
    <3>1. q.op = "withMetadata" /\ q.c = "meta"
      BY <2>3 DEF GetWithMetadata, Lookup
    <3> QED BY <3>1 DEF LookupOK, Caches, Four
  <2> QED BY <1>7, <2>1, <2>2, <2>3
<1> QED BY <1>1, <1>2, <1>3, <1>4, <1>5, <1>6, <1>7

-----------------------------------------------------------------------------
(* Locks.                                                                  *)

\* Goroutines other than t stay where they are.
Rest(t) == \A u \in Goroutines : u # t => pc'[u] = pc[u] /\ call'[u] = call[u]

LEMMA OwnsKept == ASSUME NEW t, Rest(t), NEW u \in Goroutines, u # t PROVE \A c : Owns(u, c)' <=> Owns(u, c)
BY DEF Rest, Owns

LEMMA LocksKept ==
  ASSUME LocksOK, NEW t \in Goroutines, Rest(t), lock' = lock, \A c \in Caches : Owns(t, c)' <=> Owns(t, c)
  PROVE  LocksOK'
<1>1. ASSUME NEW u \in Goroutines, NEW c \in Caches PROVE lock'[c] = u <=> Owns(u, c)'
  <2>1. lock[c] = u <=> Owns(u, c)
    BY DEF LocksOK
  <2>2. Owns(u, c)' <=> Owns(u, c)
    BY OwnsKept
  <2> QED BY <2>1, <2>2
<1>2. DOMAIN lock' = Caches /\ \A c \in Caches : lock'[c] \in Goroutines \cup {Nobody}
  BY DEF LocksOK
<1> QED BY <1>1, <1>2 DEF LocksOK

LEMMA LockTaken ==
  ASSUME LocksOK, NEW t \in Goroutines, Rest(t), NEW c \in Caches, lock[c] = Nobody,
         lock' = [lock EXCEPT ![c] = t],
         \A d \in Caches : ~Owns(t, d), \A d \in Caches : Owns(t, d)' <=> d = c
  PROVE  LocksOK'
<1>0. DOMAIN lock = Caches /\ \A d \in Caches : lock[d] \in Goroutines \cup {Nobody}
  BY DEF LocksOK
<1>1. DOMAIN lock' = Caches /\ lock'[c] = t /\ \A d \in Caches : d # c => lock'[d] = lock[d]
  BY <1>0
<1>2. ASSUME NEW u \in Goroutines, NEW d \in Caches PROVE lock'[d] = u <=> Owns(u, d)'
  <2>1. lock[d] = u <=> Owns(u, d)
    BY DEF LocksOK
  <2>2. CASE u = t
    BY <1>1, <2>1, <2>2
  <2>3. CASE u # t
    <3>1. Owns(u, d)' <=> Owns(u, d)
      BY <2>3, OwnsKept
    <3>2. u # Nobody
      BY NobodyIsNone
    <3> QED BY <1>1, <2>1, <2>3, <3>1, <3>2
  <2> QED BY <2>2, <2>3
<1>3. \A d \in Caches : lock'[d] \in Goroutines \cup {Nobody}
  BY <1>0, <1>1
<1> QED BY <1>1, <1>2, <1>3 DEF LocksOK

LEMMA LockReleased ==
  ASSUME LocksOK, NEW t \in Goroutines, Rest(t), NEW c \in Caches, lock' = [lock EXCEPT ![c] = Nobody],
         \A d \in Caches : Owns(t, d) <=> d = c, \A d \in Caches : ~Owns(t, d)'
  PROVE  LocksOK'
<1>0. DOMAIN lock = Caches /\ (\A d \in Caches : lock[d] \in Goroutines \cup {Nobody}) /\ lock[c] = t
  BY DEF LocksOK
<1>1. DOMAIN lock' = Caches /\ lock'[c] = Nobody /\ \A d \in Caches : d # c => lock'[d] = lock[d]
  BY <1>0
<1>2. ASSUME NEW u \in Goroutines, NEW d \in Caches PROVE lock'[d] = u <=> Owns(u, d)'
  <2>1. (lock[d] = u <=> Owns(u, d)) /\ u # Nobody
    BY NobodyIsNone DEF LocksOK
  <2>2. CASE u = t
    <3>1. CASE d = c
      BY <1>1, <2>1, <2>2, <3>1
    <3>2. CASE d # c
      BY <1>1, <2>1, <2>2, <3>2
    <3> QED BY <3>1, <3>2
  <2>3. CASE u # t
    <3>1. Owns(u, d)' <=> Owns(u, d)
      BY <2>3, OwnsKept
    <3>2. CASE d = c
      BY <1>0, <1>1, <2>1, <2>3, <3>1, <3>2
    <3>3. CASE d # c
      BY <1>1, <2>1, <3>1, <3>3
    <3> QED BY <3>2, <3>3
  <2> QED BY <2>2, <2>3
<1>3. \A d \in Caches : lock'[d] \in Goroutines \cup {Nobody}
  BY <1>0, <1>1
<1> QED BY <1>1, <1>2, <1>3 DEF LocksOK

-----------------------------------------------------------------------------
(* Steps that leave the registry as it is and add nothing to a cache.      *)

OfCall(t) == CallOK(t) /\ Missed(t) /\ SubjectGone(t) /\ VersionGone(t)

Shrinks ==
  /\ DOMAIN cache' = Caches /\ \A c \in Caches : Sub(cache'[c], cache[c])
  /\ raced \subseteq raced'

LEMMA FourCaches == Four \subseteq Caches
BY DEF Four, Caches

LEMMA ShrinksHit ==
  ASSUME Shrinks, NEW u, Hit(call[u])', call'[u] = call[u], LookupOK(call[u])
  PROVE  Hit(call[u])
<1> DEFINE q == call[u]
<1>1. q.key \in DOMAIN cache'[q.c] /\ (q.op = "getID" => cache'["info"][q.key].version > 0)
  BY DEF Hit
<1>2. q.c \in Caches /\ (q.op = "getID" => q.c = "info")
  BY DEF LookupOK
<1>3. Sub(cache'[q.c], cache[q.c])
  BY <1>2 DEF Shrinks
<1>4. q.key \in DOMAIN cache[q.c] /\ cache'[q.c][q.key] = cache[q.c][q.key]
  BY <1>1, <1>3 DEF Sub
<1>5. q.op = "getID" => cache["info"][q.key].version > 0
  BY <1>1, <1>2, <1>4
<1> QED BY <1>4, <1>5 DEF Hit

LEMMA ShrinksOther ==
  ASSUME Shrinks, NEW u, OfCall(u), pc'[u] = pc[u], call'[u] = call[u], scheme' = scheme
  PROVE  OfCall(u)'
<1>1. CallOK(u)'
  BY DEF OfCall, CallOK
<1>2. Missed(u)'
  <2>1. CASE pc[u] = "asking"
    <3>1. LookupOK(call[u]) /\ ~Hit(call[u])
      BY <2>1 DEF OfCall, CallOK, Missed
    <3>2. ~(Hit(call[u])')
      BY <3>1, ShrinksHit
    <3> QED BY <3>2 DEF Missed
  <2>2. CASE pc[u] # "asking"
    BY <2>2 DEF Missed
  <2> QED BY <2>1, <2>2
<1>3. /\ \A c \in Four : \A k \in DOMAIN cache'[c] : k \in DOMAIN cache[c] /\ cache'[c][k] = cache[c][k]
      /\ \A c, k : Raced(c, k) => Raced(c, k)'
  BY FourCaches DEF Shrinks, Sub, Raced
<1>4. SubjectGone(u)'
  BY <1>3 DEF OfCall, SubjectGone
<1>5. VersionGone(u)'
  <2> SUFFICES ASSUME pc[u] \in {"nested", "version", "deleting"}, call[u].op = "deleteVersion"
               PROVE  VersionGone(u)'
    BY DEF VersionGone
  <2>1. \A sc : HasSchema(u, sc)' <=> HasSchema(u, sc)
    BY DEF HasSchema
  <2>2. ASSUME NEW k \in DOMAIN cache'["version"], k[1] = call[u].subject, cache'["version"][k] = call[u].version
        PROVE  Raced("version", k)' \/ (pc[u] = "nested" /\ k \in call[u].found)
    BY <1>3, <2>2 DEF OfCall, VersionGone, Four
  <2>3. ASSUME NEW k \in DOMAIN cache'["info"], k[1] = call[u].subject
        PROVE  Raced("info", k)' \/ HasSchema(u, k[2])'
    BY <1>3, <2>1, <2>3 DEF OfCall, VersionGone, Four
  <2>4. ASSUME NEW k \in DOMAIN cache'["id"], k[1] = call[u].subject
        PROVE  Raced("id", k)' \/ HasSchema(u, cache["id"][k])' \/ (pc[u] = "nested" /\ k[2] \in call[u].ids)
    <3>1. k \in DOMAIN cache["id"] /\ cache'["id"][k] = cache["id"][k]
      BY <1>3 DEF Four
    <3>2. Raced("id", k) \/ HasSchema(u, cache["id"][k]) \/ (pc[u] = "nested" /\ k[2] \in call[u].ids)
      BY <2>4, <3>1 DEF OfCall, VersionGone
    <3>3. HasSchema(u, cache["id"][k]) => HasSchema(u, cache["id"][k])'
      BY <3>1 DEF HasSchema
    <3> QED BY <1>3, <3>2, <3>3
  <2>5. ASSUME pc[u] = "deleting", NEW k \in DOMAIN cache'["schema"], k[1] = call[u].subject, k[2] = call[u].version
        PROVE  Raced("schema", k)'
    BY <1>3, <2>5 DEF OfCall, VersionGone, Four
  <2> QED BY <2>2, <2>3, <2>4, <2>5 DEF VersionGone
<1> QED BY <1>1, <1>2, <1>4, <1>5 DEF OfCall

LEMMA ShrinksKeys == ASSUME Shrinks, KeysOK PROVE KeysOK'
BY FourCaches DEF Shrinks, Sub, KeysOK

LEMMA ShrinksIds == ASSUME Shrinks, InfoIds, reg' = reg PROVE InfoIds'
<1>1. \A k \in DOMAIN cache'["info"] : k \in DOMAIN cache["info"] /\ cache'["info"][k] = cache["info"][k]
  BY DEF Shrinks, Sub, Caches
<1> QED BY <1>1 DEF InfoIds

LEMMA ShrinksStale == ASSUME Shrinks, StaleOnlyByRace, reg' = reg PROVE StaleOnlyByRace'
<1>1. ASSUME NEW c \in Four, NEW k \in DOMAIN cache'[c] PROVE Entry(c, k)'
  <2>1. k \in DOMAIN cache[c] /\ cache'[c][k] = cache[c][k]
    BY FourCaches DEF Shrinks, Sub
  <2>2. Entry(c, k)
    BY <2>1, StaleParts
  <2>3. Raced(c, k) => Raced(c, k)'
    BY DEF Shrinks, Raced
  <2>4. CurrentIn(reg', c, k, cache'[c][k]) <=> CurrentIn(reg, c, k, cache[c][k])
    BY <2>1
  <2> QED BY <2>2, <2>3, <2>4 DEF Entry
<1> QED BY <1>1, StaleNext

LEMMA Assemble ==
  ASSUME RInv, scheme = "http", scheme' = scheme, use' = use, modern' = modern, DOMAIN cache' = Caches,
         pc' \in [Goroutines -> Pcs], DOMAIN call' = Goroutines, LocksOK', \A u \in Goroutines : OfCall(u)',
         RegOK(reg'), KeysOK', InfoIds', StaleOnlyByRace'
  PROVE  RInv'
<1>1. modern' \in BOOLEAN /\ use' # "associations"
  BY DEF RInv, Shapes
<1>2. \A u \in Goroutines : CallOK(u)'
  BY DEF OfCall
<1>3. Shapes'
  BY <1>1, <1>2 DEF Shapes
<1>4. \A u \in Goroutines : Missed(u)' /\ SubjectGone(u)' /\ VersionGone(u)'
  BY DEF OfCall
<1> QED BY <1>3, <1>4 DEF RInv

LEMMA OfCalls == ASSUME RInv, scheme = "http", NEW u \in Goroutines PROVE OfCall(u)
BY DEF RInv, Shapes, OfCall

\* What a step of one goroutine leaves to be shown.
LEMMA ShrinkStep ==
  ASSUME RInv, scheme = "http", scheme' = scheme, use' = use, modern' = modern, reg' = reg, Shrinks,
         NEW t \in Goroutines, Rest(t), pc' \in [Goroutines -> Pcs], DOMAIN call' = Goroutines,
         LocksOK', OfCall(t)'
  PROVE  RInv'
<1>1. ASSUME NEW u \in Goroutines PROVE OfCall(u)'
  <2>1. CASE u = t
    BY <2>1
  <2>2. CASE u # t
    <3>1. OfCall(u)
      BY OfCalls
    <3>2. pc'[u] = pc[u] /\ call'[u] = call[u]
      BY <2>2 DEF Rest
    <3> QED BY <3>1, <3>2, ShrinksOther
  <2> QED BY <2>1, <2>2
<1>2. KeysOK' /\ InfoIds' /\ StaleOnlyByRace' /\ RegOK(reg')
  <2>1. KeysOK /\ InfoIds /\ StaleOnlyByRace /\ RegOK(reg)
    BY DEF RInv
  <2> QED BY <2>1, ShrinksKeys, ShrinksIds, ShrinksStale
<1>3. DOMAIN cache' = Caches
  BY DEF Shrinks
<1> QED BY <1>1, <1>2, <1>3, Assemble

LEMMA Moved ==
  ASSUME RInv, NEW t \in Goroutines, NEW p \in Pcs, pc' = [pc EXCEPT ![t] = p],
         NEW q, call' = [call EXCEPT ![t] = q]
  PROVE  Rest(t) /\ pc' \in [Goroutines -> Pcs] /\ DOMAIN call' = Goroutines /\ pc'[t] = p /\ call'[t] = q
<1>1. pc \in [Goroutines -> Pcs] /\ DOMAIN call = Goroutines
  BY DEF RInv, Shapes
<1>2. pc' \in [Goroutines -> Pcs] /\ pc'[t] = p /\ \A u \in Goroutines : u # t => pc'[u] = pc[u]
  BY <1>1
<1>3. DOMAIN call' = Goroutines /\ call'[t] = q /\ \A u \in Goroutines : u # t => call'[u] = call[u]
  BY <1>1
<1> QED BY <1>2, <1>3 DEF Rest

LEMMA MovedPc ==
  ASSUME RInv, NEW t \in Goroutines, NEW p \in Pcs, pc' = [pc EXCEPT ![t] = p], call' = call
  PROVE  Rest(t) /\ pc' \in [Goroutines -> Pcs] /\ DOMAIN call' = Goroutines /\ pc'[t] = p
<1>1. pc \in [Goroutines -> Pcs] /\ DOMAIN call = Goroutines
  BY DEF RInv, Shapes
<1>2. pc' \in [Goroutines -> Pcs] /\ pc'[t] = p /\ \A u \in Goroutines : u # t => pc'[u] = pc[u]
  BY <1>1
<1> QED BY <1>1, <1>2 DEF Rest

LEMMA MovedCall ==
  ASSUME RInv, NEW t \in Goroutines, pc' = pc, NEW q, call' = [call EXCEPT ![t] = q]
  PROVE  Rest(t) /\ pc' \in [Goroutines -> Pcs] /\ DOMAIN call' = Goroutines /\ pc'[t] = pc[t] /\ call'[t] = q
<1>1. pc \in [Goroutines -> Pcs] /\ DOMAIN call = Goroutines
  BY DEF RInv, Shapes
<1>2. DOMAIN call' = Goroutines /\ call'[t] = q /\ \A u \in Goroutines : u # t => call'[u] = call[u]
  BY <1>1
<1> QED BY <1>1, <1>2 DEF Rest

LEMMA SameShrinks == ASSUME RInv, cache' = cache, raced \subseteq raced' PROVE Shrinks
BY DEF RInv, Shapes, Shrinks, Sub

\* An entry of one cache, or all of its entries, are dropped.
LEMMA OneShrinks ==
  ASSUME RInv, NEW c, NEW f, c \in Caches => Sub(f, cache[c]), cache' = [cache EXCEPT ![c] = f], raced \subseteq raced'
  PROVE  Shrinks /\ (c \in Caches => cache'[c] = f)
<1>1. DOMAIN cache = Caches
  BY DEF RInv, Shapes
<1>2. /\ DOMAIN cache' = Caches /\ \A d \in Caches : d # c => cache'[d] = cache[d]
      /\ c \in Caches => cache'[c] = f
  BY <1>1
<1>3. ASSUME NEW d \in Caches PROVE Sub(cache'[d], cache[d])
  <2>1. CASE d = c
    BY <1>2, <2>1
  <2>2. CASE d # c
    BY <1>2, <2>2 DEF Sub
  <2> QED BY <2>1, <2>2
<1> QED BY <1>2, <1>3 DEF Shrinks

\* A goroutine in no call.
LEMMA IdleNext == ASSUME NEW t, pc'[t] = "idle" PROVE OfCall(t)'
<1>1. CallOK(t)'
  BY DEF CallOK
<1>2. Missed(t)' /\ SubjectGone(t)' /\ VersionGone(t)'
  BY DEF Missed, SubjectGone, VersionGone
<1> QED BY <1>1, <1>2 DEF OfCall

LEMMA BeginStep == ASSUME RInv, NEW t \in Goroutines, NEW q \in Calls, Begin(t, q) PROVE RInv'
<1>1. /\ scheme = "http" /\ pc[t] = "idle" /\ pc' = [pc EXCEPT ![t] = "missed"]
      /\ call' = [call EXCEPT ![t] = q] /\ scheme' = scheme /\ use' = use /\ modern' = modern
      /\ reg' = reg /\ cache' = cache /\ lock' = lock /\ raced' = raced
  BY DEF Begin, fixed
<1>2. Rest(t) /\ pc' \in [Goroutines -> Pcs] /\ DOMAIN call' = Goroutines /\ pc'[t] = "missed" /\ call'[t] = q
  <2>1. "missed" \in Pcs
    BY DEF Pcs
  <2> QED BY <1>1, <2>1, Moved
<1>3. Shrinks
  BY <1>1, SameShrinks
<1>4. LocksOK'
  <2>1. \A c \in Caches : Owns(t, c)' <=> Owns(t, c)
    BY <1>1, <1>2 DEF Owns
  <2>2. LocksOK
    BY DEF RInv, Shapes
  <2> QED BY <1>1, <1>2, <2>1, <2>2, LocksKept
<1>5. OfCall(t)'
  <2>1. LookupOK(q)
    BY CallsOK
  <2>2. CallOK(t)'
    BY <1>1, <1>2, <2>1 DEF CallOK
  <2>3. Missed(t)' /\ SubjectGone(t)' /\ VersionGone(t)'
    BY <1>2 DEF Missed, SubjectGone, VersionGone
  <2> QED BY <2>2, <2>3 DEF OfCall
<1> QED BY <1>1, <1>2, <1>3, <1>4, <1>5, ShrinkStep

LEMMA LockAndLookStep == ASSUME RInv, NEW t \in Goroutines, LockAndLook(t) PROVE RInv'
<1>1. /\ pc[t] = "missed" /\ lock[call[t].c] = Nobody /\ scheme' = scheme /\ use' = use /\ modern' = modern
      /\ reg' = reg /\ cache' = cache /\ raced' = raced
  BY DEF LockAndLook, fixed
<1>2. scheme = "http" /\ LookupOK(call[t]) /\ LocksOK
  BY <1>1 DEF RInv, Shapes, CallOK
<1>3. Shrinks
  BY <1>1, SameShrinks
<1>4. "idle" \in Pcs /\ "asking" \in Pcs
  BY DEF Pcs
<1>5. CASE Hit(call[t])
  <2>1. pc' = [pc EXCEPT ![t] = "idle"] /\ call' = [call EXCEPT ![t] = Idle] /\ lock' = lock
    BY <1>5 DEF LockAndLook
  <2>2. Rest(t) /\ pc' \in [Goroutines -> Pcs] /\ DOMAIN call' = Goroutines /\ pc'[t] = "idle"
    BY <1>4, <2>1, Moved
  <2>3. \A c \in Caches : Owns(t, c)' <=> Owns(t, c)
    BY <1>1, <2>2 DEF Owns
  <2>4. LocksOK'
    BY <1>2, <2>1, <2>2, <2>3, LocksKept
  <2>5. OfCall(t)'
    BY <2>2, IdleNext
  <2> QED BY <1>1, <1>2, <1>3, <2>2, <2>4, <2>5, ShrinkStep
<1>6. CASE ~Hit(call[t])
  <2>1. pc' = [pc EXCEPT ![t] = "asking"] /\ lock' = [lock EXCEPT ![call[t].c] = t] /\ call' = call
    BY <1>6 DEF LockAndLook
  <2>2. Rest(t) /\ pc' \in [Goroutines -> Pcs] /\ DOMAIN call' = Goroutines /\ pc'[t] = "asking"
    BY <1>4, <2>1, MovedPc
  <2>3. (\A d \in Caches : ~Owns(t, d)) /\ \A d \in Caches : Owns(t, d)' <=> d = call[t].c
    BY <1>1, <2>1, <2>2 DEF Owns
  <2>4. call[t].c \in Caches
    BY <1>2 DEF LookupOK
  <2>5. LocksOK'
    BY <1>1, <1>2, <2>1, <2>2, <2>3, <2>4, LockTaken
  <2>6. CallOK(t)'
    BY <1>1, <1>2, <2>1, <2>2 DEF CallOK
  <2>7. Missed(t)'
    BY <1>1, <1>6, <2>1 DEF Missed, Hit
  <2>8. SubjectGone(t)' /\ VersionGone(t)'
    BY <2>2 DEF SubjectGone, VersionGone
  <2>9. OfCall(t)'
    BY <2>6, <2>7, <2>8 DEF OfCall
  <2> QED BY <1>1, <1>2, <1>3, <2>2, <2>5, <2>9, ShrinkStep
<1> QED BY <1>5, <1>6

ClearFields == {"op", "subject", "perm", "todo", "cleared"}

LEMMA StartClearingStep ==
  ASSUME RInv, NEW t \in Goroutines, NEW op, NEW s, NEW perm, NEW todo, StartClearing(t, op, s, perm, todo),
         op = "clear" \/ (op = "deleteSubject" /\ todo = SubjectCaches)
  PROVE  RInv'
<1> DEFINE q == [op |-> op, subject |-> s, perm |-> perm, todo |-> todo, cleared |-> {}]
<1>0. DOMAIN q = ClearFields /\ q.op = op /\ q.todo = todo /\ q.cleared = {}
  BY DEF ClearFields
<1>1. /\ scheme = "http" /\ pc[t] = "idle" /\ pc' = [pc EXCEPT ![t] = "clearing"] /\ call' = [call EXCEPT ![t] = q]
      /\ scheme' = scheme /\ use' = use /\ modern' = modern
      /\ reg' = reg /\ cache' = cache /\ lock' = lock /\ raced' = raced
  BY DEF StartClearing, fixed
<1> HIDE DEF q
<1>2. Rest(t) /\ pc' \in [Goroutines -> Pcs] /\ DOMAIN call' = Goroutines /\ pc'[t] = "clearing" /\ call'[t] = q
  <2>1. "clearing" \in Pcs
    BY DEF Pcs
  <2> QED BY <1>1, <2>1, Moved
<1>3. Shrinks
  BY <1>1, SameShrinks
<1>4. LocksOK'
  <2>1. \A c \in Caches : Owns(t, c)' <=> Owns(t, c)
    BY <1>1, <1>2 DEF Owns
  <2>2. LocksOK
    BY DEF RInv, Shapes
  <2> QED BY <1>1, <1>2, <2>1, <2>2, LocksKept
<1>5. CallOK(t)'
  <2>1. op = "deleteSubject" => Clearing(q.todo, q.cleared)
    BY <1>0 DEF Clearing, SubjectCaches
  <2>2. op = "clear" \/ (op = "deleteSubject" /\ Clearing(q.todo, q.cleared))
    BY <2>1
  <2> QED BY <1>0, <1>1, <1>2, <2>2 DEF CallOK, ClearFields
<1>6. Missed(t)' /\ VersionGone(t)'
  BY <1>2 DEF Missed, VersionGone
<1>7. SubjectGone(t)'
  <2>1. \A c : c \notin call'[t].cleared
    BY <1>0, <1>2
  <2> QED BY <2>1 DEF SubjectGone
<1>8. OfCall(t)'
  BY <1>5, <1>6, <1>7 DEF OfCall
<1> QED BY <1>1, <1>2, <1>3, <1>4, <1>8, ShrinkStep

\* The call of a goroutine that goes on emptying caches.
Advanced(q, n) == n = [q EXCEPT !.todo = Tail(q.todo), !.cleared = q.cleared \cup {Head(q.todo)}]

LEMMA ClearedNext ==
  ASSUME NEW q, DOMAIN q = ClearFields, Clearing(q.todo, q.cleared), NEW n, Advanced(q, n)
  PROVE  /\ DOMAIN n = ClearFields /\ n.op = q.op /\ n.subject = q.subject
         /\ n.cleared = q.cleared \cup {Head(q.todo)} /\ Head(q.todo) \in Four
         /\ Len(q.todo) > 1 => Clearing(n.todo, n.cleared)
         /\ ~(Len(q.todo) > 1) => Four \subseteq n.cleared
<1>1. /\ DOMAIN n = ClearFields /\ n.op = q.op /\ n.subject = q.subject
      /\ n.cleared = q.cleared \cup {Head(q.todo)} /\ n.todo = Tail(q.todo)
  BY DEF ClearFields, Advanced
<1>2. CASE q.todo = <<"info", "version", "schema", "id">> /\ q.cleared = {}
  <2>1. Head(q.todo) = "info" /\ Tail(q.todo) = <<"version", "schema", "id">> /\ Len(q.todo) > 1
    BY <1>2, SMT
  <2>2. n.cleared = {"info"}
    BY <1>1, <1>2, <2>1
  <2> QED BY <1>1, <2>1, <2>2 DEF Clearing, Four
<1>3. CASE q.todo = <<"version", "schema", "id">> /\ q.cleared = {"info"}
  <2>1. Head(q.todo) = "version" /\ Tail(q.todo) = <<"schema", "id">> /\ Len(q.todo) > 1
    BY <1>3, SMT
  <2>2. n.cleared = {"info", "version"}
    BY <1>1, <1>3, <2>1
  <2> QED BY <1>1, <2>1, <2>2 DEF Clearing, Four
<1>4. CASE q.todo = <<"schema", "id">> /\ q.cleared = {"info", "version"}
  <2>1. Head(q.todo) = "schema" /\ Tail(q.todo) = <<"id">> /\ Len(q.todo) > 1
    BY <1>4, SMT
  <2>2. n.cleared = {"info", "version", "schema"}
    BY <1>1, <1>4, <2>1
  <2> QED BY <1>1, <2>1, <2>2 DEF Clearing, Four
<1>5. CASE q.todo = <<"id">> /\ q.cleared = {"info", "version", "schema"}
  <2>1. Head(q.todo) = "id" /\ ~(Len(q.todo) > 1)
    BY <1>5, SMT
  <2>2. Four \subseteq n.cleared
    BY <1>1, <1>5, <2>1 DEF Four
  <2> QED BY <1>1, <2>1, <2>2 DEF Four
<1> QED BY <1>2, <1>3, <1>4, <1>5 DEF Clearing

LEMMA ClearNextStep == ASSUME RInv, NEW t \in Goroutines, ClearNext(t) PROVE RInv'
<1>0. PICK q, c : q = call[t] /\ c = Head(q.todo)
  OBVIOUS
<1>1. /\ pc[t] = "clearing" /\ scheme' = scheme /\ use' = use /\ modern' = modern
      /\ reg' = reg /\ lock' = lock /\ raced' = raced /\ cache' = [cache EXCEPT ![c] = Emptied(c, q)]
  BY <1>0 DEF ClearNext, fixed
<1>2. PICK n : n = IF Len(q.todo) = 1 /\ q.op = "clear" THEN Idle
                   ELSE [q EXCEPT !.todo = Tail(q.todo), !.cleared = q.cleared \cup {c}]
  OBVIOUS
<1>3. PICK p : p = IF Len(q.todo) > 1 THEN "clearing" ELSE IF q.op = "clear" THEN "idle" ELSE "deleting"
  OBVIOUS
<1>4. call' = [call EXCEPT ![t] = n] /\ pc' = [pc EXCEPT ![t] = p]
  BY <1>0, <1>2, <1>3 DEF ClearNext
<1>5. /\ scheme = "http" /\ LocksOK /\ DOMAIN q = ClearFields /\ SubjectGone(t)
      /\ q.op = "clear" \/ (q.op = "deleteSubject" /\ Clearing(q.todo, q.cleared))
  BY <1>0, <1>1 DEF RInv, Shapes, CallOK, ClearFields
<1>6. Rest(t) /\ pc' \in [Goroutines -> Pcs] /\ DOMAIN call' = Goroutines /\ pc'[t] = p /\ call'[t] = n
  <2>1. p \in Pcs
    BY <1>3 DEF Pcs
  <2> QED BY <1>4, <2>1, Moved
<1>7. Sub(Emptied(c, q), cache[c])
  BY SubWithout, SubEmpty DEF Emptied, CacheClear, CacheDelete
<1>8. Shrinks /\ (c \in Caches => cache'[c] = Emptied(c, q))
  BY <1>1, <1>7, OneShrinks
<1>9. LocksOK'
  <2>1. \A d \in Caches : Owns(t, d)' <=> Owns(t, d)
    BY <1>1, <1>3, <1>6 DEF Owns
  <2> QED BY <1>1, <1>5, <1>6, <2>1, LocksKept
<1>10. CASE q.op = "clear"
  <2>1. CASE Len(q.todo) > 1
    <3>1. p = "clearing" /\ ~(Len(q.todo) = 1)
      <4>1. ~(1 > 1)
        BY SMT
      <4>2. Len(q.todo) # 1
        BY <2>1, <4>1
      <4> QED BY <1>3, <2>1, <4>2
    <3>2. n = [q EXCEPT !.todo = Tail(q.todo), !.cleared = q.cleared \cup {c}]
      BY <1>2, <3>1
    <3>3. DOMAIN n = ClearFields /\ n.op = "clear"
      BY <1>5, <1>10, <3>2 DEF ClearFields
    <3>4. CallOK(t)'
      BY <1>1, <1>5, <1>6, <3>1, <3>3 DEF CallOK, ClearFields
    <3>5. Missed(t)' /\ SubjectGone(t)' /\ VersionGone(t)'
      BY <1>6, <3>1, <3>3 DEF Missed, SubjectGone, VersionGone
    <3> QED BY <1>1, <1>5, <1>6, <1>8, <1>9, <3>4, <3>5, ShrinkStep DEF OfCall
  <2>2. CASE ~(Len(q.todo) > 1)
    <3>1. p = "idle"
      BY <1>3, <1>10, <2>2
    <3>2. OfCall(t)'
      BY <1>6, <3>1, IdleNext
    <3> QED BY <1>1, <1>5, <1>6, <1>8, <1>9, <3>2, ShrinkStep
  <2> QED BY <2>1, <2>2
<1>11. CASE q.op = "deleteSubject" /\ Clearing(q.todo, q.cleared)
  <2>1. Advanced(q, n)
    BY <1>0, <1>2, <1>11 DEF Advanced
  <2>2. /\ DOMAIN n = ClearFields /\ n.op = q.op /\ n.subject = q.subject
        /\ n.cleared = q.cleared \cup {c} /\ c \in Four
        /\ Len(q.todo) > 1 => Clearing(n.todo, n.cleared)
        /\ ~(Len(q.todo) > 1) => Four \subseteq n.cleared
    <3>1. /\ DOMAIN n = ClearFields /\ n.op = q.op /\ n.subject = q.subject
          /\ n.cleared = q.cleared \cup {Head(q.todo)} /\ Head(q.todo) \in Four
          /\ Len(q.todo) > 1 => Clearing(n.todo, n.cleared)
          /\ ~(Len(q.todo) > 1) => Four \subseteq n.cleared
      BY ONLY <1>5, <1>11, <2>1, ClearedNext
    <3> QED BY <1>0, <3>1
  <2>3. /\ p \in {"clearing", "deleting"} /\ (p = "clearing" => Clearing(n.todo, n.cleared))
        /\ p = "deleting" => Four \subseteq n.cleared
    BY <1>3, <1>11, <2>2
  <2>4. CallOK(t)'
    <3>1. CASE p = "clearing"
      BY <1>1, <1>5, <1>6, <1>11, <2>2, <2>3, <3>1 DEF CallOK, ClearFields
    <3>2. CASE p = "deleting"
      BY <1>1, <1>5, <1>6, <1>11, <2>2, <2>3, <3>2 DEF CallOK
    <3> QED BY <2>3, <3>1, <3>2
  <2>5. Missed(t)' /\ VersionGone(t)'
    BY <1>6, <1>11, <2>2, <2>3 DEF Missed, VersionGone
  <2>6. ASSUME NEW d \in Four, d \in n.cleared, NEW k \in DOMAIN cache'[d], k[1] = n.subject PROVE Raced(d, k)'
    <3>1. CASE d = c
      <4>1. cache'[c] = Without(cache[c], {x \in DOMAIN cache[c] : SubjectOf(c, x) = q.subject})
        BY <1>8, <1>11, <2>2, FourCaches DEF Emptied, CacheDelete
      <4>2. k \in DOMAIN cache[c] /\ SubjectOf(c, k) # q.subject
        BY <2>6, <3>1, <4>1 DEF Without
      <4>3. SubjectOf(c, k) = k[1]
        BY <2>2 DEF SubjectOf, Four
      <4> QED BY <2>2, <2>6, <4>2, <4>3
    <3>2. CASE d # c
      <4>1. k \in DOMAIN cache[d]
        BY <1>8, <2>6, FourCaches DEF Shrinks, Sub
      <4>2. d \in q.cleared
        <5>1. d \in q.cleared \cup {c}
          BY <2>2, <2>6
        <5> QED BY ONLY <3>2, <5>1
      <4>3. Raced(d, k)
        BY <1>0, <1>1, <1>5, <1>11, <2>2, <2>6, <4>1, <4>2 DEF SubjectGone
      <4> QED BY <1>1, <4>3 DEF Raced
    <3> QED BY <3>1, <3>2
  <2>7. SubjectGone(t)'
    BY <1>6, <2>6 DEF SubjectGone
  <2>8. OfCall(t)'
    BY <2>4, <2>5, <2>7 DEF OfCall
  <2> QED BY <1>1, <1>5, <1>6, <1>8, <1>9, <2>8, ShrinkStep
<1> QED BY <1>5, <1>10, <1>11

-----------------------------------------------------------------------------
(* DeleteSubjectVersion.                                                   *)

NestedFields == {"op", "subject", "version", "perm", "found", "ids", "cleared"}

LEMMA NestedCall ==
  ASSUME RInv, NEW t \in Goroutines, pc[t] \in {"nested", "version"}
  PROVE  /\ scheme = "http" /\ LocksOK /\ VersionGone(t)
         /\ call[t].op = "deleteVersion" /\ DOMAIN call[t] = NestedFields
         /\ call[t].cleared = {"version", "info", "id"} /\ \A f \in call[t].found : f[1] = call[t].subject
BY DEF RInv, Shapes, CallOK, NestedFields

\* What is left to show for the goroutine while it is among the nested locks.
LEMMA NestedNext ==
  ASSUME NEW t, pc'[t] = "nested", scheme' = "http", NEW q, call'[t] = q,
         q.op = "deleteVersion", DOMAIN q = NestedFields, q.cleared = {"version", "info", "id"},
         \A f \in q.found : f[1] = q.subject,
         \A k \in DOMAIN cache'["version"] :
           k[1] = q.subject /\ cache'["version"][k] = q.version => Raced("version", k)' \/ k \in q.found,
         \A k \in DOMAIN cache'["info"] :
           k[1] = q.subject => Raced("info", k)' \/ \E f \in q.found : f[2] = k[2],
         \A k \in DOMAIN cache'["id"] :
           k[1] = q.subject => Raced("id", k)' \/ (\E f \in q.found : f[2] = cache'["id"][k]) \/ k[2] \in q.ids
  PROVE  OfCall(t)'
<1>1. CallOK(t)'
  BY DEF CallOK, NestedFields
<1>2. Missed(t)' /\ SubjectGone(t)'
  BY DEF Missed, SubjectGone
<1>3. \A k \in DOMAIN cache'["info"] : k[1] = q.subject => Raced("info", k)' \/ HasSchema(t, k[2])'
  BY DEF HasSchema
<1>4. \A k \in DOMAIN cache'["id"] : k[1] = q.subject =>
        Raced("id", k)' \/ HasSchema(t, cache["id"][k])' \/ k[2] \in q.ids
  BY DEF HasSchema
<1>5. VersionGone(t)'
  BY <1>3, <1>4 DEF VersionGone
<1> QED BY <1>1, <1>2, <1>5 DEF OfCall

LEMMA DeleteVersionStep ==
  ASSUME RInv, NEW t \in Goroutines, NEW s, NEW v, NEW perm, DeleteSubjectVersionCall(t, s, v, perm)
  PROVE  RInv'
<1> DEFINE found == {k \in DOMAIN cache["version"] : k[1] = s /\ cache["version"][k] = v}
           schemas == {k[2] : k \in found}
           q == [op |-> "deleteVersion", subject |-> s, version |-> v, perm |-> perm,
                 found |-> found, ids |-> {}, cleared |-> {"version", "info", "id"}]
<1>0. /\ DOMAIN q = NestedFields /\ q.op = "deleteVersion" /\ q.subject = s /\ q.version = v
      /\ q.found = found /\ q.ids = {} /\ q.cleared = {"version", "info", "id"}
  BY DEF NestedFields
<1>1. /\ scheme = "http" /\ pc[t] = "idle" /\ lock["version"] = Nobody
      /\ lock' = [lock EXCEPT !["version"] = t] /\ pc' = [pc EXCEPT ![t] = "nested"]
      /\ call' = [call EXCEPT ![t] = q] /\ raced' = raced \cup PassedOver(s, schemas)
      /\ scheme' = scheme /\ use' = use /\ modern' = modern /\ reg' = reg /\ cache' = cache
  BY DEF DeleteSubjectVersionCall, fixed
<1> HIDE DEF q
<1>2. Rest(t) /\ pc' \in [Goroutines -> Pcs] /\ DOMAIN call' = Goroutines /\ pc'[t] = "nested" /\ call'[t] = q
  <2>1. "nested" \in Pcs
    BY DEF Pcs
  <2> QED BY <1>1, <2>1, Moved
<1>3. Shrinks
  <2>1. raced \subseteq raced'
    BY <1>1
  <2> QED BY <1>1, <2>1, SameShrinks
<1>4. LocksOK'
  <2>1. (\A d \in Caches : ~Owns(t, d)) /\ \A d \in Caches : Owns(t, d)' <=> d = "version"
    BY <1>1, <1>2 DEF Owns
  <2>2. LocksOK /\ "version" \in Caches
    BY DEF RInv, Shapes, Caches
  <2> QED BY <1>1, <1>2, <2>1, <2>2, LockTaken
<1>5. ASSUME NEW k \in DOMAIN cache["version"], k[1] = s, cache["version"][k] = v PROVE k \in found
  BY <1>5
<1>6. ASSUME NEW k \in DOMAIN cache["info"], k[1] = s PROVE Raced("info", k)' \/ \E f \in found : f[2] = k[2]
  <2>1. k[2] \notin schemas => <<"info", k>> \in PassedOver(s, schemas)
    BY <1>6 DEF PassedOver
  <2> QED BY <1>1, <2>1 DEF Raced
<1>7. ASSUME NEW k \in DOMAIN cache["id"], k[1] = s
      PROVE  Raced("id", k)' \/ \E f \in found : f[2] = cache["id"][k]
  <2>1. cache["id"][k] \notin schemas => <<"id", k>> \in PassedOver(s, schemas)
    BY <1>7 DEF PassedOver
  <2> QED BY <1>1, <2>1 DEF Raced
<1>8. \A f \in found : f[1] = s
  OBVIOUS
<1> HIDE DEF found
<1>9. OfCall(t)'
  BY <1>0, <1>1, <1>2, <1>5, <1>6, <1>7, <1>8, NestedNext
<1> QED BY <1>1, <1>2, <1>3, <1>4, <1>9, ShrinkStep

LEMMA DropFoundStep == ASSUME RInv, NEW t \in Goroutines, DropFound(t) PROVE RInv'
<1>1. /\ pc[t] = "nested" /\ call[t].ids = {} /\ scheme' = scheme /\ use' = use /\ modern' = modern
      /\ reg' = reg /\ lock' = lock /\ pc' = pc
  BY DEF DropFound, fixed
<1>2. PICK k \in call[t].found :
        LET j == <<k[1], k[2]>>
            registered == j \in DOMAIN cache["info"]
        IN /\ cache' = [cache EXCEPT !["version"] = CacheDelete(@, {k}), !["info"] = CacheDelete(@, {j})]
           /\ call' = [call EXCEPT ![t].found = @ \ {k},
                                   ![t].ids = IF registered THEN {cache["info"][j].id} ELSE {}]
           /\ raced' = IF registered THEN raced ELSE raced \cup PassedOver(k[1], Schemas \ {k[2]})
  BY DEF DropFound
<1>3. PICK j : j = <<k[1], k[2]>>
  OBVIOUS
<1>4. PICK ids : ids = IF j \in DOMAIN cache["info"] THEN {cache["info"][j].id} ELSE {}
  OBVIOUS
<1>5. /\ scheme = "http" /\ LocksOK /\ VersionGone(t)
      /\ call[t].op = "deleteVersion" /\ DOMAIN call[t] = NestedFields
      /\ call[t].cleared = {"version", "info", "id"} /\ \A f \in call[t].found : f[1] = call[t].subject
  BY <1>1, NestedCall
<1>6. PICK q : q = [[call[t] EXCEPT !.found = call[t].found \ {k}] EXCEPT !.ids = ids]
  OBVIOUS
<1>7. call' = [call EXCEPT ![t] = q]
  BY <1>2, <1>3, <1>4, <1>6
<1>8. /\ DOMAIN q = NestedFields /\ q.op = "deleteVersion" /\ q.subject = call[t].subject /\ q.version = call[t].version
      /\ q.found = call[t].found \ {k} /\ q.ids = ids /\ q.cleared = {"version", "info", "id"}
  BY <1>5, <1>6 DEF NestedFields
<1>9. Rest(t) /\ pc' \in [Goroutines -> Pcs] /\ DOMAIN call' = Goroutines /\ pc'[t] = "nested" /\ call'[t] = q
  BY <1>1, <1>7, MovedCall
<1>10. DOMAIN cache = Caches
  BY DEF RInv, Shapes
<1>11. /\ DOMAIN cache' = Caches /\ cache'["version"] = Without(cache["version"], {k})
       /\ cache'["info"] = Without(cache["info"], {j})
       /\ \A c \in Caches : c \notin {"version", "info"} => cache'[c] = cache[c]
  BY <1>2, <1>3, <1>10 DEF CacheDelete, Caches
<1>12. raced \subseteq raced' /\ (j \notin DOMAIN cache["info"] => raced' = raced \cup PassedOver(k[1], Schemas \ {k[2]}))
  <2>1. raced' = IF j \in DOMAIN cache["info"] THEN raced ELSE raced \cup PassedOver(k[1], Schemas \ {k[2]})
    BY <1>2, <1>3
  <2> QED BY <2>1
<1>13. Shrinks
  <2>1. ASSUME NEW c \in Caches PROVE Sub(cache'[c], cache[c])
    <3>1. CASE c = "version"
      BY <1>11, <3>1, SubWithout
    <3>2. CASE c = "info"
      BY <1>11, <3>2, SubWithout
    <3>3. CASE c \notin {"version", "info"}
      BY <1>11, <3>3 DEF Sub
    <3> QED BY <3>1, <3>2, <3>3
  <2> QED BY <1>11, <1>12, <2>1 DEF Shrinks
<1>14. LocksOK'
  <2>1. \A c \in Caches : Owns(t, c)' <=> Owns(t, c)
    BY <1>1, <1>9 DEF Owns
  <2> QED BY <1>1, <1>5, <1>9, <2>1, LocksKept
<1>15. \A c, x : Raced(c, x) => Raced(c, x)'
  BY <1>12 DEF Raced
<1>16. ASSUME NEW x \in DOMAIN cache'["version"], x[1] = q.subject, cache'["version"][x] = q.version
       PROVE  Raced("version", x)' \/ x \in q.found
  <2>1. x \in DOMAIN cache["version"] /\ x # k /\ cache'["version"][x] = cache["version"][x]
    BY <1>11 DEF Without
  <2>2. Raced("version", x) \/ x \in call[t].found
    BY <1>1, <1>5, <1>8, <1>16, <2>1 DEF VersionGone
  <2> QED BY <1>8, <1>15, <2>1, <2>2
<1>17. k[1] = call[t].subject
  BY <1>5
<1>18. ASSUME NEW x \in DOMAIN cache'["info"], x[1] = q.subject
       PROVE  Raced("info", x)' \/ \E f \in q.found : f[2] = x[2]
  <2>1. x \in DOMAIN cache["info"] /\ x # j
    BY <1>11 DEF Without
  <2>2. x = <<x[1], x[2]>>
    BY <1>5, <2>1 DEF RInv, KeysOK, KeyOK, Four
  <2>3. x[2] # k[2]
    BY <1>3, <1>8, <1>17, <1>18, <2>1, <2>2
  <2>4. Raced("info", x) \/ \E f \in call[t].found : f[2] = x[2]
    BY <1>1, <1>5, <1>8, <1>18, <2>1 DEF VersionGone, HasSchema
  <2>5. \A f \in call[t].found : f[2] = x[2] => f \in q.found
    BY <1>8, <2>3
  <2> QED BY <1>15, <2>4, <2>5
<1>19. ASSUME NEW x \in DOMAIN cache'["id"], x[1] = q.subject
       PROVE  Raced("id", x)' \/ (\E f \in q.found : f[2] = cache'["id"][x]) \/ x[2] \in q.ids
  <2>1. cache'["id"] = cache["id"] /\ x \in DOMAIN cache["id"]
    BY <1>11 DEF Caches
  <2>2. PICK sc : sc = cache["id"][x]
    OBVIOUS
  <2>3. Raced("id", x) \/ \E f \in call[t].found : f[2] = sc
    BY <1>1, <1>5, <1>8, <1>19, <2>1, <2>2 DEF VersionGone, HasSchema
  <2>4. CASE sc # k[2]
    <3>1. \A f \in call[t].found : f[2] = sc => f \in q.found
      BY <1>8, <2>4
    <3> QED BY <1>15, <2>1, <2>2, <2>3, <3>1
  <2>5. CASE sc = k[2] /\ j \in DOMAIN cache["info"]
    <3>1. Raced("id", x) \/ (x \in DOMAIN reg.ids /\ reg.ids[x] = sc)
      <4>1. Entry("id", x)
        BY <1>5, <2>1, StaleParts DEF RInv, Four
      <4> QED BY <2>2, <4>1 DEF Entry, CurrentIn
    <3>2. ASSUME x \in DOMAIN reg.ids, reg.ids[x] = sc PROVE x[2] \in q.ids
      <4>1. IdOK(reg, x)
        BY <1>5, <3>2 DEF RInv, RegOK
      <4>2. <<x[1], sc>> = j
        BY <1>3, <1>8, <1>17, <1>19, <2>5
      <4>3. j \in DOMAIN reg.infos /\ reg.infos[j].id = x[2]
        BY <3>2, <4>1, <4>2 DEF IdOK
      <4>4. reg.infos[j].id = cache["info"][j].id
        BY <1>5, <2>5, <4>3 DEF RInv, InfoIds
      <4> QED BY <1>4, <1>8, <2>5, <4>3, <4>4
    <3> QED BY <1>15, <3>1, <3>2
  <2>6. CASE sc = k[2] /\ j \notin DOMAIN cache["info"]
    <3>1. <<"id", x>> \in PassedOver(k[1], Schemas \ {k[2]})
      <4>1. x[1] = k[1] /\ cache["id"][x] \notin Schemas \ {k[2]}
        BY <1>8, <1>17, <1>19, <2>2, <2>6
      <4> QED BY <2>1, <4>1 DEF PassedOver
    <3> QED BY <1>12, <2>6, <3>1 DEF Raced
  <2> QED BY <2>4, <2>5, <2>6
<1>20. \A f \in q.found : f[1] = q.subject
  BY <1>5, <1>8
<1>21. OfCall(t)'
  <2>1. scheme' = "http"
    BY <1>1, <1>5
  <2> QED BY <1>8, <1>9, <1>16, <1>18, <1>19, <1>20, <2>1, NestedNext
<1> QED BY <1>1, <1>5, <1>9, <1>13, <1>14, <1>21, ShrinkStep

LEMMA DropIdStep == ASSUME RInv, NEW t \in Goroutines, DropId(t) PROVE RInv'
<1> DEFINE K == {<<call[t].subject, i>> : i \in call[t].ids}
<1>0. PICK q : q = [call[t] EXCEPT !.ids = {}]
  OBVIOUS
<1>1. /\ pc[t] = "nested" /\ scheme' = scheme /\ use' = use /\ modern' = modern
      /\ reg' = reg /\ lock' = lock /\ pc' = pc /\ raced' = raced
      /\ cache' = [cache EXCEPT !["id"] = Without(cache["id"], K)] /\ call' = [call EXCEPT ![t] = q]
  BY <1>0 DEF DropId, fixed, CacheDelete
<1>2. /\ scheme = "http" /\ LocksOK /\ VersionGone(t)
      /\ call[t].op = "deleteVersion" /\ DOMAIN call[t] = NestedFields
      /\ call[t].cleared = {"version", "info", "id"} /\ \A f \in call[t].found : f[1] = call[t].subject
  BY <1>1, NestedCall
<1>3. /\ DOMAIN q = NestedFields /\ q.op = "deleteVersion" /\ q.subject = call[t].subject /\ q.version = call[t].version
      /\ q.found = call[t].found /\ q.ids = {} /\ q.cleared = {"version", "info", "id"}
  BY <1>0, <1>2 DEF NestedFields
<1>4. Rest(t) /\ pc' \in [Goroutines -> Pcs] /\ DOMAIN call' = Goroutines /\ pc'[t] = "nested" /\ call'[t] = q
  BY <1>1, MovedCall
<1>5. Shrinks /\ cache'["id"] = Without(cache["id"], K)
  <2>1. Sub(Without(cache["id"], K), cache["id"]) /\ "id" \in Caches
    BY SubWithout DEF Caches
  <2> HIDE DEF K
  <2>2. raced \subseteq raced'
    BY <1>1
  <2> QED BY <1>1, <2>1, <2>2, OneShrinks
<1>6. LocksOK'
  <2>1. \A c \in Caches : Owns(t, c)' <=> Owns(t, c)
    BY <1>1, <1>4 DEF Owns
  <2> QED BY <1>1, <1>2, <1>4, <2>1, LocksKept
<1>7. /\ \A c \in Four : \A x \in DOMAIN cache'[c] : x \in DOMAIN cache[c] /\ cache'[c][x] = cache[c][x]
      /\ \A c, x : Raced(c, x) => Raced(c, x)'
  BY <1>1, <1>5, FourCaches DEF Shrinks, Sub, Raced
<1>8. ASSUME NEW x \in DOMAIN cache'["version"], x[1] = q.subject, cache'["version"][x] = q.version
      PROVE  Raced("version", x)' \/ x \in q.found
  BY <1>1, <1>2, <1>3, <1>7, <1>8 DEF VersionGone, Four
<1>9. ASSUME NEW x \in DOMAIN cache'["info"], x[1] = q.subject
      PROVE  Raced("info", x)' \/ \E f \in q.found : f[2] = x[2]
  <2>1. x \in DOMAIN cache["info"] /\ x[1] = call[t].subject
    BY <1>3, <1>7, <1>9 DEF Four
  <2>2. Raced("info", x) \/ HasSchema(t, x[2])
    BY <1>1, <1>2, <2>1 DEF VersionGone
  <2> QED BY <1>3, <1>7, <2>2 DEF HasSchema
<1>10. ASSUME NEW x \in DOMAIN cache'["id"], x[1] = q.subject
       PROVE  Raced("id", x)' \/ (\E f \in q.found : f[2] = cache'["id"][x]) \/ x[2] \in q.ids
  <2>1. x \in DOMAIN cache["id"] /\ x \notin K /\ cache'["id"][x] = cache["id"][x]
    <3> HIDE DEF K
    <3> QED BY <1>5 DEF Without
  <2>2. x = <<x[1], x[2]>>
    BY <1>2, <2>1 DEF RInv, KeysOK, KeyOK, Four
  <2>3. x[2] \notin call[t].ids
    <3>1. ASSUME x[2] \in call[t].ids PROVE FALSE
      <4>1. <<call[t].subject, x[2]>> \in K
        BY <3>1
      <4>2. x = <<call[t].subject, x[2]>>
        BY <1>3, <1>10, <2>2
      <4> HIDE DEF K
      <4> QED BY <2>1, <4>1, <4>2
    <3> QED BY <3>1
  <2>4. Raced("id", x) \/ \E f \in call[t].found : f[2] = cache["id"][x]
    BY <1>1, <1>2, <1>3, <1>10, <2>1, <2>3 DEF VersionGone, HasSchema
  <2> QED BY <1>3, <1>7, <2>1, <2>4
<1>11. OfCall(t)'
  <2>1. scheme' = "http" /\ \A f \in q.found : f[1] = q.subject
    BY <1>1, <1>2, <1>3
  <2> QED BY <1>3, <1>4, <1>8, <1>9, <1>10, <2>1, NestedNext
<1> QED BY <1>1, <1>2, <1>4, <1>5, <1>6, <1>11, ShrinkStep

LEMMA DropDoneStep == ASSUME RInv, NEW t \in Goroutines, DropDone(t) PROVE RInv'
<1>1. /\ pc[t] = "nested" /\ call[t].ids = {} /\ call[t].found = {} /\ scheme' = scheme /\ use' = use /\ modern' = modern
      /\ reg' = reg /\ cache' = cache /\ call' = call /\ raced' = raced
      /\ lock' = [lock EXCEPT !["version"] = Nobody] /\ pc' = [pc EXCEPT ![t] = "version"]
  BY DEF DropDone, fixed
<1>2. /\ scheme = "http" /\ LocksOK /\ VersionGone(t)
      /\ call[t].op = "deleteVersion" /\ DOMAIN call[t] = NestedFields
      /\ call[t].cleared = {"version", "info", "id"} /\ \A f \in call[t].found : f[1] = call[t].subject
  BY <1>1, NestedCall
<1>3. Rest(t) /\ pc' \in [Goroutines -> Pcs] /\ DOMAIN call' = Goroutines /\ pc'[t] = "version"
  <2>1. "version" \in Pcs
    BY DEF Pcs
  <2> QED BY <1>1, <2>1, MovedPc
<1>4. Shrinks
  BY <1>1, SameShrinks
<1>5. LocksOK'
  <2>1. (\A d \in Caches : Owns(t, d) <=> d = "version") /\ \A d \in Caches : ~Owns(t, d)'
    BY <1>1, <1>3 DEF Owns
  <2>2. "version" \in Caches
    BY DEF Caches
  <2> QED BY <1>1, <1>2, <1>3, <2>1, <2>2, LockReleased
<1>6. CallOK(t)'
  BY <1>1, <1>2, <1>3 DEF CallOK, NestedFields
<1>7. Missed(t)' /\ SubjectGone(t)'
  BY <1>3 DEF Missed, SubjectGone
<1>8. VersionGone(t)'
  <2>1. \A sc : ~HasSchema(t, sc)
    BY <1>1 DEF HasSchema
  <2>2. /\ \A k \in DOMAIN cache["version"] :
             k[1] = call[t].subject /\ cache["version"][k] = call[t].version => Raced("version", k)
        /\ \A k \in DOMAIN cache["info"] : k[1] = call[t].subject => Raced("info", k)
        /\ \A k \in DOMAIN cache["id"] : k[1] = call[t].subject => Raced("id", k)
    BY <1>1, <1>2, <2>1 DEF VersionGone
  <2> QED BY <1>1, <1>3, <2>2 DEF VersionGone, Raced
<1> QED BY <1>1, <1>2, <1>3, <1>4, <1>5, <1>6, <1>7, <1>8, ShrinkStep DEF OfCall

LEMMA DropVersionStep == ASSUME RInv, NEW t \in Goroutines, DropVersion(t) PROVE RInv'
<1> DEFINE K == {<<call[t].subject, call[t].version, FALSE>>}
<1>0. PICK q : q = [call[t] EXCEPT !.cleared = call[t].cleared \cup {"schema"}]
  OBVIOUS
<1>1. /\ pc[t] = "version" /\ scheme' = scheme /\ use' = use /\ modern' = modern
      /\ reg' = reg /\ lock' = lock /\ raced' = raced /\ pc' = [pc EXCEPT ![t] = "deleting"]
      /\ cache' = [cache EXCEPT !["schema"] = Without(cache["schema"], K)] /\ call' = [call EXCEPT ![t] = q]
  BY <1>0 DEF DropVersion, fixed, CacheDelete
<1>2. /\ scheme = "http" /\ LocksOK /\ VersionGone(t)
      /\ call[t].op = "deleteVersion" /\ DOMAIN call[t] = NestedFields
      /\ call[t].cleared = {"version", "info", "id"} /\ \A f \in call[t].found : f[1] = call[t].subject
  BY <1>1, NestedCall
<1>3. /\ q.op = "deleteVersion" /\ q.subject = call[t].subject /\ q.version = call[t].version
      /\ q.cleared = call[t].cleared \cup {"schema"}
  BY <1>0, <1>2 DEF NestedFields
<1>4. Rest(t) /\ pc' \in [Goroutines -> Pcs] /\ DOMAIN call' = Goroutines /\ pc'[t] = "deleting" /\ call'[t] = q
  <2>1. "deleting" \in Pcs
    BY DEF Pcs
  <2> QED BY <1>1, <2>1, Moved
<1>5. Shrinks /\ cache'["schema"] = Without(cache["schema"], K)
  <2>1. Sub(Without(cache["schema"], K), cache["schema"]) /\ "schema" \in Caches
    BY SubWithout DEF Caches
  <2>2. raced \subseteq raced'
    BY <1>1
  <2> HIDE DEF K
  <2> QED BY <1>1, <2>1, <2>2, OneShrinks
<1>6. LocksOK'
  <2>1. \A c \in Caches : Owns(t, c)' <=> Owns(t, c)
    BY <1>1, <1>4 DEF Owns
  <2> QED BY <1>1, <1>2, <1>4, <2>1, LocksKept
<1>7. /\ \A c \in Four : \A x \in DOMAIN cache'[c] : x \in DOMAIN cache[c] /\ cache'[c][x] = cache[c][x]
      /\ \A c, x : Raced(c, x) => Raced(c, x)'
  BY <1>1, <1>5, FourCaches DEF Shrinks, Sub, Raced
<1>8. \A sc : ~HasSchema(t, sc)
  BY <1>1 DEF HasSchema
<1>9. ASSUME NEW x \in DOMAIN cache'["version"], x[1] = q.subject, cache'["version"][x] = q.version
      PROVE  Raced("version", x)'
  BY <1>1, <1>2, <1>3, <1>7, <1>9 DEF VersionGone, Four
<1>10. ASSUME NEW x \in DOMAIN cache'["info"], x[1] = q.subject PROVE Raced("info", x)'
  <2>1. x \in DOMAIN cache["info"] /\ x[1] = call[t].subject
    BY <1>3, <1>7, <1>10 DEF Four
  <2>2. Raced("info", x)
    BY <1>1, <1>2, <1>8, <2>1 DEF VersionGone
  <2> QED BY <1>7, <2>2
<1>11. ASSUME NEW x \in DOMAIN cache'["id"], x[1] = q.subject PROVE Raced("id", x)'
  <2>1. x \in DOMAIN cache["id"] /\ x[1] = call[t].subject
    BY <1>3, <1>7, <1>11 DEF Four
  <2>2. Raced("id", x)
    BY <1>1, <1>2, <1>8, <2>1 DEF VersionGone
  <2> QED BY <1>7, <2>2
<1>12. ASSUME NEW x \in DOMAIN cache'["schema"], x[1] = q.subject, x[2] = q.version PROVE Raced("schema", x)'
  <2>1. x \in DOMAIN cache["schema"] /\ x \notin K
    <3> HIDE DEF K
    <3> QED BY <1>5 DEF Without
  <2>2. x = <<x[1], x[2], FALSE>>
    BY <1>2, <2>1 DEF RInv, KeysOK, KeyOK, Four
  <2> QED BY <1>3, <1>12, <2>1, <2>2
<1>13. VersionGone(t)'
  BY <1>4, <1>9, <1>10, <1>11, <1>12 DEF VersionGone
<1>14. CallOK(t)'
  <2>1. Four \subseteq q.cleared /\ scheme' = "http"
    BY <1>1, <1>2, <1>3 DEF Four
  <2> QED BY <1>3, <1>4, <2>1 DEF CallOK
<1>15. Missed(t)' /\ SubjectGone(t)'
  BY <1>3, <1>4 DEF Missed, SubjectGone
<1> QED BY <1>1, <1>2, <1>4, <1>5, <1>6, <1>13, <1>14, <1>15, ShrinkStep DEF OfCall

-----------------------------------------------------------------------------
(* The DELETE.                                                             *)

\* The registrations that a DELETE takes away or marks.
Struck(r, q) ==
  IF q.op = "deleteSubject" THEN {k \in DOMAIN r.infos : k[1] = q.subject}
  ELSE HasVersion(r, q.subject, q.version)

LEMMA DeleteFacts ==
  ASSUME NEW r, RegOK(r), NEW q, q.op \in {"deleteSubject", "deleteVersion"}, NEW o \in DeleteOutcomes(r, q)
  PROVE  RegOK(o.reg) /\ Shrunk(r, o.reg, Struck(r, q))
<1>1. CASE q.op = "deleteSubject"
  <2>1. o \in DeleteSubject(r, q.subject, q.perm)
    BY <1>1 DEF DeleteOutcomes
  <2>2. RegOK(o.reg) /\ Shrunk(r, o.reg, {k \in DOMAIN r.infos : k[1] = q.subject})
    BY ONLY RegOK(r), <2>1, DeleteSubjectFacts
  <2> QED BY <1>1, <2>2 DEF Struck
<1>2. CASE q.op = "deleteVersion"
  <2>1. o \in DeleteSubjectVersion(r, q.subject, q.version, q.perm)
    BY <1>2 DEF DeleteOutcomes
  <2>2. RegOK(o.reg) /\ Shrunk(r, o.reg, HasVersion(r, q.subject, q.version))
    BY ONLY RegOK(r), <2>1, DeleteVersionFacts
  <2> QED BY <1>2, <2>2 DEF Struck
<1> QED BY <1>1, <1>2

\* The answers about them are raced by then.
LEMMA StruckRaced ==
  ASSUME RInv, scheme = "http", NEW t \in Goroutines, pc[t] = "deleting", NEW c \in Four, NEW k \in DOMAIN cache[c],
         CurrentIn(reg, c, k, cache[c][k]), Owner(c, k, cache[c][k]) \in Struck(reg, call[t])
  PROVE  Raced(c, k)
<1>0. PICK v, j : v = cache[c][k] /\ j = Owner(c, k, v)
  OBVIOUS
<1>1. /\ SubjectGone(t) /\ VersionGone(t) /\ call[t].op \in {"deleteSubject", "deleteVersion"}
      /\ Four \subseteq call[t].cleared /\ KeyOK(c, k)
  BY DEF RInv, Shapes, CallOK, KeysOK
<1>2. j[1] = k[1]
  BY <1>0 DEF Owner
<1>3. CASE call[t].op = "deleteSubject"
  <2>1. k[1] = call[t].subject
    BY <1>0, <1>2, <1>3 DEF Struck
  <2> QED BY <1>1, <1>3, <2>1 DEF SubjectGone
<1>4. CASE call[t].op = "deleteVersion"
  <2>1. k[1] = call[t].subject /\ reg.versions[j].version = call[t].version
    BY <1>0, <1>2, <1>4 DEF Struck, HasVersion
  <2>2. \A sc : ~HasSchema(t, sc)
    BY DEF HasSchema
  <2>3. CASE c = "info"
    BY <1>1, <1>4, <2>1, <2>2, <2>3 DEF VersionGone
  <2>4. CASE c = "id"
    BY <1>1, <1>4, <2>1, <2>2, <2>4 DEF VersionGone
  <2>5. CASE c = "version"
    <3>1. k = <<k[1], k[2], FALSE>>
      BY <1>1, <2>5 DEF KeyOK
    <3>0. ~k[3]
      BY <3>1, NotThird
    <3>2. ~k[3] /\ j = <<k[1], k[2]>>
      BY <1>0, <2>5, <3>0 DEF Owner
    <3>3. v = call[t].version
      BY <1>0, <2>1, <2>5, <3>2 DEF CurrentIn
    <3> QED BY <1>0, <1>1, <1>4, <2>1, <2>5, <3>3 DEF VersionGone
  <2>6. CASE c = "schema"
    <3>1. k = <<k[1], k[2], FALSE>>
      BY <1>1, <2>6 DEF KeyOK
    <3>0. ~k[3]
      BY <3>1, NotThird
    <3>2. ~k[3] /\ j = <<k[1], v.schema>>
      BY <1>0, <2>6, <3>0 DEF Owner
    <3>3. k[2] = call[t].version
      BY <1>0, <2>1, <2>6, <3>2 DEF CurrentIn
    <3> QED BY <1>1, <1>4, <2>1, <2>6, <3>3 DEF VersionGone
  <2> QED BY <2>3, <2>4, <2>5, <2>6 DEF Four
<1> QED BY <1>1, <1>3, <1>4

\* A step that leaves the caches and changes the registry.
LEMMA RegStep ==
  ASSUME RInv, scheme = "http", scheme' = scheme, use' = use, modern' = modern, cache' = cache, raced' = raced,
         NEW t \in Goroutines, Rest(t), pc' \in [Goroutines -> Pcs], DOMAIN call' = Goroutines, pc'[t] = "idle",
         LocksOK', RegOK(reg'), InfoIds', StaleOnlyByRace'
  PROVE  RInv'
<1>1. Shrinks
  BY SameShrinks
<1>2. ASSUME NEW u \in Goroutines PROVE OfCall(u)'
  <2>1. CASE u = t
    BY <2>1, IdleNext
  <2>2. CASE u # t
    <3>1. OfCall(u)
      BY OfCalls
    <3>2. pc'[u] = pc[u] /\ call'[u] = call[u]
      BY <2>2 DEF Rest
    <3> QED BY <1>1, <3>1, <3>2, ShrinksOther
  <2> QED BY <2>1, <2>2
<1>3. KeysOK'
  BY <1>1, ShrinksKeys DEF RInv
<1>4. DOMAIN cache' = Caches
  BY <1>1 DEF Shrinks
<1> QED BY <1>2, <1>3, <1>4, Assemble

LEMMA SendDeleteStep == ASSUME RInv, NEW t \in Goroutines, SendDelete(t) PROVE RInv'
<1>1. /\ pc[t] = "deleting" /\ pc' = [pc EXCEPT ![t] = "idle"] /\ call' = [call EXCEPT ![t] = Idle]
      /\ scheme' = scheme /\ use' = use /\ modern' = modern /\ cache' = cache /\ lock' = lock /\ raced' = raced
      /\ reg' = reg \/ \E o \in DeleteOutcomes(reg, call[t]) : reg' = o.reg
  BY DEF SendDelete, fixed
<1>2. /\ scheme = "http" /\ LocksOK /\ call[t].op \in {"deleteSubject", "deleteVersion"}
      /\ RegOK(reg) /\ KeysOK /\ InfoIds /\ StaleOnlyByRace
  BY <1>1 DEF RInv, Shapes, CallOK
<1>3. Rest(t) /\ pc' \in [Goroutines -> Pcs] /\ DOMAIN call' = Goroutines /\ pc'[t] = "idle"
  <2>1. "idle" \in Pcs
    BY DEF Pcs
  <2> QED BY <1>1, <2>1, Moved
<1>4. LocksOK'
  <2>1. \A c \in Caches : Owns(t, c)' <=> Owns(t, c)
    BY <1>1, <1>3 DEF Owns
  <2> QED BY <1>1, <1>2, <1>3, <2>1, LocksKept
<1>5. CASE reg' = reg
  <2>1. OfCall(t)' /\ Shrinks
    <3>1. raced \subseteq raced'
      BY <1>1
    <3> QED BY <1>1, <1>3, <3>1, IdleNext, SameShrinks
  <2> QED BY <1>1, <1>2, <1>3, <1>4, <1>5, <2>1, ShrinkStep
<1>6. ASSUME NEW o \in DeleteOutcomes(reg, call[t]), reg' = o.reg PROVE RInv'
  <2>1. RegOK(reg') /\ Shrunk(reg, reg', Struck(reg, call[t]))
    <3>1. RegOK(o.reg) /\ Shrunk(reg, o.reg, Struck(reg, call[t]))
      BY ONLY <1>2, o \in DeleteOutcomes(reg, call[t]), DeleteFacts, SMT
    <3> QED BY <1>6, <3>1
  <2>2. InfoIds'
    BY <1>1, <1>2, <2>1 DEF InfoIds, Shrunk
  <2>3. ASSUME NEW c \in Four, NEW k \in DOMAIN cache'[c] PROVE Entry(c, k)'
    <3>1. KeyOK(c, k) /\ Entry(c, k) /\ k \in DOMAIN cache[c]
      BY <1>1, <1>2, StaleParts DEF KeysOK
    <3>2. Raced(c, k) => Entry(c, k)'
      BY <1>1 DEF Entry, Raced
    <3>3. ASSUME CurrentIn(reg, c, k, cache[c][k]), ~Raced(c, k) PROVE Entry(c, k)'
      <4>1. Owner(c, k, cache[c][k]) \notin Struck(reg, call[t])
        BY <1>1, <1>2, <3>1, <3>3, StruckRaced
      <4>2. CurrentIn(reg', c, k, cache[c][k])
        BY <1>2, <2>1, <3>1, <3>3, <4>1, ShrunkCurrent
      <4> QED BY <1>1, <4>2 DEF Entry
    <3> QED BY <3>1, <3>2, <3>3 DEF Entry
  <2>4. StaleOnlyByRace'
    BY <2>3, StaleNext
  <2> QED BY <1>1, <1>2, <1>3, <1>4, <2>1, <2>2, <2>4, RegStep
<1> QED BY <1>1, <1>5, <1>6

-----------------------------------------------------------------------------
(* A lookup is answered.                                                   *)

LEMMA AnswerKeeps ==
  ASSUME RInv, scheme = "http", NEW q, LookupOK(q), ~Hit(q), NEW o \in Answer(reg, q)
  PROVE  /\ RegOK(o.reg)
         /\ \A k \in DOMAIN cache["info"] : k \in DOMAIN o.reg.infos => o.reg.infos[k].id = cache["info"][k].id
         /\ \A c \in Four : \A k \in DOMAIN cache[c] : Raced(c, k) \/ CurrentIn(o.reg, c, k, cache[c][k])
<1>1. RegOK(reg) /\ KeysOK /\ InfoIds /\ StaleOnlyByRace
  BY DEF RInv
<1>2. /\ RegOK(o.reg)
      /\ o.reg = reg \/ (q.op = "register" /\ q.c = "info" /\ Grown(reg, o.reg, q.key[1], q.key[2]))
  BY <1>1, AnswerFacts
<1>3. ASSUME NEW c \in Four, NEW k \in DOMAIN cache[c] PROVE Raced(c, k) \/ CurrentIn(o.reg, c, k, cache[c][k])
  <2>1. Entry(c, k) /\ KeyOK(c, k)
    BY <1>1, StaleParts DEF KeysOK
  <2>2. CASE o.reg = reg
    BY <2>1, <2>2 DEF Entry
  <2>3. CASE Grown(reg, o.reg, q.key[1], q.key[2])
    <3>1. CASE Raced(c, k)
      BY <3>1
    <3>2. CASE CurrentIn(reg, c, k, cache[c][k])
      <4>1. RegOK(reg) /\ RegOK(o.reg) /\ KeyOK(c, k)
        BY <1>1, <1>2, <2>1
      <4>2. CurrentIn(o.reg, c, k, cache[c][k])
        BY ONLY <2>3, <3>2, <4>1, c \in Four, GrownCurrent
      <4> QED BY <4>2
    <3> QED BY <2>1, <3>1, <3>2 DEF Entry
  <2> QED BY <1>2, <2>2, <2>3
<1>4. ASSUME NEW k \in DOMAIN cache["info"], k \in DOMAIN o.reg.infos PROVE o.reg.infos[k].id = cache["info"][k].id
  <2>1. CASE o.reg = reg
    BY <1>1, <1>4, <2>1 DEF InfoIds
  <2>2. CASE q.op = "register" /\ q.c = "info" /\ Grown(reg, o.reg, q.key[1], q.key[2])
    <3>1. q.key \notin DOMAIN cache["info"]
      BY <2>2 DEF Hit
    <3>2. q.key = <<q.key[1], q.key[2]>>
      BY <2>2 DEF LookupOK, Four
    <3>3. k # <<q.key[1], q.key[2]>>
      BY <3>1, <3>2
    <3>4. k \in DOMAIN reg.infos
      BY <1>4, <2>2, <3>3 DEF Grown
    <3>5. o.reg.infos[k] = reg.infos[k]
      BY <2>2, <3>3, <3>4 DEF Grown
    <3> QED BY <1>1, <3>4, <3>5 DEF InfoIds
  <2> QED BY <1>2, <2>1, <2>2
<1> QED BY <1>2, <1>3, <1>4

\* One entry is written, and it is raced if a delete of its subject has passed.
Filled(q) ==
  /\ DOMAIN cache' = Caches /\ \A d \in Caches : d # q.c => cache'[d] = cache[d]
  /\ \A d \in Caches : \A x \in DOMAIN cache'[d] :
       d # q.c \/ x # q.key => x \in DOMAIN cache[d] /\ cache'[d][x] = cache[d][x]
  /\ \A d, x : d # q.c \/ x # q.key => (Raced(d, x) => Raced(d, x)')
  /\ Deleting(q.subject, q.c) => Raced(q.c, q.key)'

LEMMA FilledOther ==
  ASSUME NEW q, LookupOK(q), Filled(q), NEW u \in Goroutines, OfCall(u), pc'[u] = pc[u], call'[u] = call[u],
         scheme' = scheme, pc[u] = "asking" => call[u].c # q.c
  PROVE  OfCall(u)'
<1>1. CallOK(u)'
  BY DEF OfCall, CallOK
<1>2. Missed(u)'
  <2>1. CASE pc[u] = "asking"
    <3>1. LookupOK(call[u]) /\ ~Hit(call[u])
      BY <2>1 DEF OfCall, CallOK, Missed
    <3>2. call[u].c \in Caches /\ (call[u].op = "getID" => call[u].c = "info")
      BY <3>1 DEF LookupOK
    <3>3. cache'[call[u].c] = cache[call[u].c]
      BY <2>1, <3>2 DEF Filled
    <3>4. ~(Hit(call[u])')
      BY <3>1, <3>2, <3>3 DEF Hit
    <3> QED BY <3>4 DEF Missed
  <2>2. CASE pc[u] # "asking"
    BY <2>2 DEF Missed
  <2> QED BY <2>1, <2>2
<1>3. ASSUME pc[u] \in {"clearing", "deleting", "version", "nested"}, call[u].op \in {"deleteSubject", "deleteVersion"},
             NEW d \in Four, d \in call[u].cleared, NEW x \in DOMAIN cache'[d], x[1] = call[u].subject, ~(Raced(d, x)')
      PROVE  x \in DOMAIN cache[d] /\ cache'[d][x] = cache[d][x] /\ ~Raced(d, x)
  <2>1. CASE d = q.c /\ x = q.key
    <3>1. q.subject = call[u].subject
      BY <1>3, <2>1 DEF LookupOK
    <3>2. Deleting(q.subject, q.c)
      BY <1>3, <2>1, <3>1 DEF Deleting
    <3> QED BY <1>3, <2>1, <3>2 DEF Filled
  <2>2. CASE d # q.c \/ x # q.key
    <3>1. d \in Caches
      BY FourCaches
    <3> QED BY <1>3, <2>2, <3>1 DEF Filled
  <2> QED BY <2>1, <2>2
<1>4. SubjectGone(u)'
  <2> SUFFICES ASSUME pc[u] \in {"clearing", "deleting"}, call[u].op = "deleteSubject",
                      NEW d \in Four, d \in call[u].cleared, NEW x \in DOMAIN cache'[d], x[1] = call[u].subject
               PROVE  Raced(d, x)'
    BY DEF SubjectGone
  <2>1. ~(Raced(d, x)') => x \in DOMAIN cache[d] /\ ~Raced(d, x)
    BY <1>3
  <2> QED BY <2>1 DEF OfCall, SubjectGone
<1>5. VersionGone(u)'
  <2> SUFFICES ASSUME pc[u] \in {"nested", "version", "deleting"}, call[u].op = "deleteVersion"
               PROVE  VersionGone(u)'
    BY DEF VersionGone
  <2>0. /\ "version" \in call[u].cleared /\ "info" \in call[u].cleared /\ "id" \in call[u].cleared
        /\ pc[u] = "deleting" => "schema" \in call[u].cleared
    BY DEF OfCall, CallOK, Four
  <2>1. ASSUME NEW x \in DOMAIN cache'["version"], x[1] = call[u].subject, cache'["version"][x] = call[u].version
        PROVE  Raced("version", x)' \/ (pc[u] = "nested" /\ x \in call[u].found)
    <3>1. ~(Raced("version", x)') =>
            /\ x \in DOMAIN cache["version"] /\ cache'["version"][x] = cache["version"][x] /\ ~Raced("version", x)
      BY <1>3, <2>0, <2>1 DEF Four
    <3> QED BY <2>1, <3>1 DEF OfCall, VersionGone
  <2>2. ASSUME NEW x \in DOMAIN cache'["info"], x[1] = call[u].subject
        PROVE  Raced("info", x)' \/ HasSchema(u, x[2])'
    <3>1. ~(Raced("info", x)') => x \in DOMAIN cache["info"] /\ ~Raced("info", x)
      BY <1>3, <2>0, <2>2 DEF Four
    <3>2. HasSchema(u, x[2])' <=> HasSchema(u, x[2])
      BY DEF HasSchema
    <3> QED BY <2>2, <3>1, <3>2 DEF OfCall, VersionGone
  <2>3. ASSUME NEW x \in DOMAIN cache'["id"], x[1] = call[u].subject
        PROVE  Raced("id", x)' \/ HasSchema(u, cache["id"][x])' \/ (pc[u] = "nested" /\ x[2] \in call[u].ids)
    <3>1. ~(Raced("id", x)') => x \in DOMAIN cache["id"] /\ cache'["id"][x] = cache["id"][x] /\ ~Raced("id", x)
      BY <1>3, <2>0, <2>3 DEF Four
    <3>2. cache'["id"][x] = cache["id"][x] /\ HasSchema(u, cache["id"][x]) => HasSchema(u, cache["id"][x])'
      BY DEF HasSchema
    <3> QED BY <2>3, <3>1, <3>2 DEF OfCall, VersionGone
  <2>4. ASSUME pc[u] = "deleting", NEW x \in DOMAIN cache'["schema"], x[1] = call[u].subject, x[2] = call[u].version
        PROVE  Raced("schema", x)'
    <3>1. ~(Raced("schema", x)') => x \in DOMAIN cache["schema"] /\ ~Raced("schema", x)
      BY <1>3, <2>0, <2>4 DEF Four
    <3> QED BY <2>4, <3>1 DEF OfCall, VersionGone
  <2> QED BY <2>1, <2>2, <2>3, <2>4 DEF VersionGone
<1> QED BY <1>1, <1>2, <1>4, <1>5 DEF OfCall

LEMMA AskStep == ASSUME RInv, NEW t \in Goroutines, Ask(t) PROVE RInv'
<1>0. PICK q : q = call[t]
  OBVIOUS
<1>1. /\ pc[t] = "asking" /\ lock' = [lock EXCEPT ![q.c] = Nobody] /\ pc' = [pc EXCEPT ![t] = "idle"]
      /\ call' = [call EXCEPT ![t] = Idle] /\ scheme' = scheme /\ use' = use /\ modern' = modern
  BY <1>0 DEF Ask, fixed
<1>2. /\ scheme = "http" /\ LocksOK /\ LookupOK(q) /\ ~Hit(q) /\ q.c \in Caches
      /\ RegOK(reg) /\ KeysOK /\ InfoIds /\ StaleOnlyByRace /\ DOMAIN cache = Caches
  BY <1>0, <1>1 DEF RInv, Shapes, CallOK, Missed, LookupOK
<1>3. Rest(t) /\ pc' \in [Goroutines -> Pcs] /\ DOMAIN call' = Goroutines /\ pc'[t] = "idle"
  <2>1. "idle" \in Pcs
    BY DEF Pcs
  <2> QED BY <1>1, <2>1, Moved
<1>4. LocksOK'
  <2>1. (\A d \in Caches : Owns(t, d) <=> d = q.c) /\ \A d \in Caches : ~Owns(t, d)'
    BY <1>0, <1>1, <1>3 DEF Owns
  <2> QED BY <1>1, <1>2, <1>3, <2>1, LockReleased
<1>5. CASE reg' = reg /\ cache' = cache /\ raced' = raced
  <2>1. OfCall(t)' /\ Shrinks
    BY <1>3, <1>5, IdleNext, SameShrinks
  <2> QED BY <1>1, <1>2, <1>3, <1>4, <1>5, <2>1, ShrinkStep
<1>6. ASSUME NEW o \in Answer(reg, q), reg' = o.reg, cache' = cache, raced' = raced PROVE RInv'
  <2>1. /\ RegOK(o.reg)
        /\ \A k \in DOMAIN cache["info"] : k \in DOMAIN o.reg.infos => o.reg.infos[k].id = cache["info"][k].id
        /\ \A c \in Four : \A k \in DOMAIN cache[c] : Raced(c, k) \/ CurrentIn(o.reg, c, k, cache[c][k])
    BY <1>2, AnswerKeeps
  <2>2. InfoIds'
    BY <1>6, <2>1 DEF InfoIds
  <2>3. \A c \in Four : \A k \in DOMAIN cache'[c] : Entry(c, k)'
    BY <1>6, <2>1 DEF Entry, Raced
  <2>4. StaleOnlyByRace'
    BY <2>3, StaleNext
  <2>5. RegOK(reg')
    BY <1>6, <2>1
  <2> QED BY <1>1, <1>2, <1>3, <1>4, <1>6, <2>2, <2>4, <2>5, RegStep
<1>7. ASSUME NEW o \in Answer(reg, q), reg' = o.reg, o.ok, NEW f \in CachePut(cache[q.c], q.key, o.val),
             cache' = [cache EXCEPT ![q.c] = f],
             raced' = IF Deleting(q.subject, q.c) THEN raced \cup {<<q.c, q.key>>} ELSE raced \ {<<q.c, q.key>>}
      PROVE  RInv'
  <2>1. /\ RegOK(o.reg)
        /\ \A k \in DOMAIN cache["info"] : k \in DOMAIN o.reg.infos => o.reg.infos[k].id = cache["info"][k].id
        /\ \A c \in Four : \A k \in DOMAIN cache[c] : Raced(c, k) \/ CurrentIn(o.reg, c, k, cache[c][k])
    BY <1>2, AnswerKeeps
  <2>2. q.c \in Four => CurrentIn(o.reg, q.c, q.key, o.val)
    BY <1>2, <1>7, AnswerFacts
  <2>3. /\ DOMAIN cache' = Caches /\ cache'[q.c] = f /\ \A d \in Caches : d # q.c => cache'[d] = cache[d]
    BY <1>2, <1>7
  <2>4. f[q.key] = o.val /\ \A x \in DOMAIN f : x # q.key => x \in DOMAIN cache[q.c] /\ f[x] = cache[q.c][x]
    BY ONLY f \in CachePut(cache[q.c], q.key, o.val), CachePutFacts
  <2>5. ASSUME NEW d \in Caches, NEW x \in DOMAIN cache'[d], d # q.c \/ x # q.key
        PROVE  x \in DOMAIN cache[d] /\ cache'[d][x] = cache[d][x]
    <3>1. CASE d = q.c
      BY <2>3, <2>4, <2>5, <3>1
    <3>2. CASE d # q.c
      BY <2>3, <3>2
    <3> QED BY <3>1, <3>2
  <2>6. ASSUME NEW d, NEW x, d # q.c \/ x # q.key, Raced(d, x) PROVE Raced(d, x)'
    <3>1. <<d, x>> # <<q.c, q.key>>
      BY <2>6
    <3>2. <<d, x>> \in raced
      BY <2>6 DEF Raced
    <3>3. <<d, x>> \in raced'
      BY <1>7, <3>1, <3>2
    <3> QED BY <3>3 DEF Raced
  <2>7. Deleting(q.subject, q.c) => Raced(q.c, q.key)'
    BY <1>7 DEF Raced
  <2>8. Filled(q)
    BY <2>3, <2>5, <2>6, <2>7 DEF Filled
  <2>9. ASSUME NEW u \in Goroutines PROVE OfCall(u)'
    <3>1. CASE u = t
      BY <1>3, <3>1, IdleNext
    <3>2. CASE u # t
      <4>1. OfCall(u)
        BY <1>2, OfCalls
      <4>2. pc'[u] = pc[u] /\ call'[u] = call[u]
        BY <1>3, <3>2 DEF Rest
      <4>3. ASSUME pc[u] = "asking", call[u].c = q.c PROVE FALSE
        <5>1. Owns(u, q.c) /\ Owns(t, q.c)
          BY <1>0, <1>1, <4>3 DEF Owns
        <5>2. lock[q.c] = u /\ lock[q.c] = t
          BY <1>2, <5>1 DEF LocksOK
        <5> QED BY <3>2, <5>2
      <4> QED BY <1>1, <1>2, <2>8, <4>1, <4>2, <4>3, FilledOther
    <3> QED BY <3>1, <3>2
  <2>10. KeysOK'
    <3>1. ASSUME NEW c \in Four, NEW k \in DOMAIN cache'[c] PROVE KeyOK(c, k)
      <4>1. CASE c = q.c /\ k = q.key
        BY <1>2, <4>1 DEF LookupOK, KeyOK, Four
      <4>2. CASE c # q.c \/ k # q.key
        <5>1. k \in DOMAIN cache[c]
          BY <2>5, <4>2, FourCaches
        <5> QED BY <1>2, <5>1 DEF KeysOK
      <4> QED BY <4>1, <4>2
    <3> QED BY <3>1 DEF KeysOK
  <2>11. InfoIds'
    <3>1. ASSUME NEW k \in DOMAIN cache'["info"], k \in DOMAIN reg'.infos PROVE reg'.infos[k].id = cache'["info"][k].id
      <4>1. CASE "info" = q.c /\ k = q.key
        <5>1. CurrentIn(o.reg, "info", k, o.val)
          BY <2>2, <4>1 DEF Four
        <5>2. o.reg.infos[k].id = o.val.id
          BY <5>1 DEF CurrentIn
        <5>3. cache'["info"][k] = o.val
          BY <2>3, <2>4, <4>1
        <5> QED BY <1>7, <5>2, <5>3
      <4>2. CASE "info" # q.c \/ k # q.key
        <5>1. k \in DOMAIN cache["info"] /\ cache'["info"][k] = cache["info"][k]
          BY <2>5, <4>2 DEF Caches
        <5> QED BY <1>7, <2>1, <3>1, <5>1
      <4> QED BY <4>1, <4>2
    <3> QED BY <3>1 DEF InfoIds
  <2>12. ASSUME NEW c \in Four, NEW k \in DOMAIN cache'[c] PROVE Entry(c, k)'
    <3>1. CASE c = q.c /\ k = q.key
      <4>1. CurrentIn(reg', c, k, cache'[c][k])
        BY <1>7, <2>2, <2>3, <2>4, <3>1
      <4> QED BY <4>1 DEF Entry
    <3>2. CASE c # q.c \/ k # q.key
      <4>1. k \in DOMAIN cache[c] /\ cache'[c][k] = cache[c][k]
        BY <2>5, <3>2, FourCaches
      <4>2. Raced(c, k) \/ CurrentIn(reg', c, k, cache'[c][k])
        BY <1>7, <2>1, <4>1
      <4>3. Raced(c, k) => Raced(c, k)'
        BY <2>6, <3>2
      <4> QED BY <4>2, <4>3 DEF Entry
    <3> QED BY <3>1, <3>2
  <2>13. StaleOnlyByRace'
    BY <2>12, StaleNext
  <2>14. RegOK(reg')
    BY <1>7, <2>1
  <2> QED BY <1>1, <1>2, <1>3, <1>4, <2>3, <2>9, <2>10, <2>11, <2>13, <2>14, Assemble
<1>8. \/ reg' = reg /\ cache' = cache /\ raced' = raced
      \/ \E o \in Answer(reg, q) : reg' = o.reg /\ cache' = cache /\ raced' = raced
      \/ \E o \in Answer(reg, q) :
           /\ reg' = o.reg /\ o.ok
           /\ \E f \in CachePut(cache[q.c], q.key, o.val) : cache' = [cache EXCEPT ![q.c] = f]
           /\ raced' = IF Deleting(q.subject, q.c) THEN raced \cup {<<q.c, q.key>>} ELSE raced \ {<<q.c, q.key>>}
  BY <1>0 DEF Ask
<1> QED BY <1>5, <1>6, <1>7, <1>8

-----------------------------------------------------------------------------
(* Steps of no goroutine, and the theorems.                                *)

LEMMA StillStep ==
  ASSUME RInv, scheme' = scheme, use' = use, modern' = modern, lock' = lock, pc' = pc, call' = call, Shrinks,
         scheme = "http" => RegOK(reg') /\ InfoIds' /\ StaleOnlyByRace'
  PROVE  RInv'
<1>1. LocksOK'
  <2>1. \A u \in Goroutines, c \in Caches : Owns(u, c)' <=> Owns(u, c)
    BY DEF Owns
  <2> QED BY <2>1 DEF RInv, Shapes, LocksOK
<1>2. pc' \in [Goroutines -> Pcs] /\ DOMAIN call' = Goroutines /\ DOMAIN cache' = Caches
  BY DEF RInv, Shapes, Shrinks
<1>3. CASE scheme = "http"
  <2>1. ASSUME NEW u \in Goroutines PROVE OfCall(u)'
    BY <1>3, OfCalls, ShrinksOther
  <2>2. KeysOK'
    BY <1>3, ShrinksKeys DEF RInv
  <2> QED BY <1>1, <1>2, <1>3, <2>1, <2>2, Assemble
<1>4. CASE scheme # "http"
  <2>1. scheme = "mock" /\ modern \in BOOLEAN /\ \A c \in Caches : DOMAIN cache[c] = {}
    BY <1>4 DEF RInv, Shapes
  <2>2. \A c \in Caches : DOMAIN cache'[c] = {}
    BY <2>1 DEF Shrinks, Sub
  <2>3. ASSUME NEW u \in Goroutines PROVE pc'[u] = "idle"
    BY <1>4 DEF RInv, Shapes, CallOK
  <2>4. ASSUME NEW u \in Goroutines PROVE CallOK(u)' /\ Missed(u)'
    BY <2>3 DEF CallOK, Missed
  <2>5. Shapes'
    BY <1>1, <1>2, <2>1, <2>2, <2>4 DEF Shapes
  <2> QED BY <1>4, <2>4, <2>5 DEF RInv
<1> QED BY <1>3, <1>4

LEMMA RegSame ==
  ASSUME RInv, cache' = cache, raced' = raced, reg' = reg
  PROVE  scheme = "http" => RegOK(reg') /\ InfoIds' /\ StaleOnlyByRace'
<1>1. Shrinks
  BY SameShrinks
<1> QED BY <1>1, ShrinksIds, ShrinksStale DEF RInv

LEMMA EvictStep == ASSUME RInv, Evict PROVE RInv'
<1>1. /\ scheme' = scheme /\ use' = use /\ modern' = modern /\ lock' = lock /\ pc' = pc /\ call' = call
      /\ reg' = reg /\ raced' = raced /\ cache' = [cache EXCEPT !["latest"] = <<>>]
  BY DEF Evict, fixed, CacheClear
<1>2. Shrinks
  <2>1. Sub(<<>>, cache["latest"]) /\ raced \subseteq raced'
    BY <1>1, SubEmpty
  <2> QED BY <1>1, <2>1, OneShrinks
<1>3. scheme = "http" => RegOK(reg') /\ InfoIds' /\ StaleOnlyByRace'
  BY <1>1, <1>2, ShrinksIds, ShrinksStale DEF RInv
<1> QED BY <1>1, <1>2, <1>3, StillStep

\* A registry that differs in its configurations only.
LEMMA ConfigKeeps ==
  ASSUME NEW r, RegOK(r), NEW f, NEW n, n = [r EXCEPT !.config = f]
  PROVE  /\ RegOK(n) /\ n.infos = r.infos
         /\ \A c, k, v : CurrentIn(r, c, k, v) => CurrentIn(n, c, k, v)
<1>1. DOMAIN r = RegFields
  BY DEF RegOK
<1>2. DOMAIN n = RegFields /\ n.infos = r.infos /\ n.versions = r.versions /\ n.ids = r.ids /\ n.counter = r.counter
  BY <1>1 DEF RegFields
<1>3. \A k : InfoOK(r, k) => InfoOK(n, k)
  BY <1>2 DEF InfoOK
<1>4. \A k : IdOK(r, k) => IdOK(n, k)
  BY <1>2 DEF IdOK
<1>5. RegOK(n)
  BY <1>2, <1>3, <1>4 DEF RegOK
<1>6. ASSUME NEW c, NEW k, NEW v, CurrentIn(r, c, k, v) PROVE CurrentIn(n, c, k, v)
  <2>1. Live(n, k[1]) = Live(r, k[1]) /\ (Registered(r, k[1], k[2]) => Registered(n, k[1], k[2]))
    BY <1>2 DEF Live, Registered
  <2> QED BY <1>2, <1>6, <2>1 DEF CurrentIn
<1> QED BY <1>2, <1>5, <1>6

Configured(f) == reg' = [reg EXCEPT !.config = f]

LEMMA OthersSame ==
  ASSUME NEW S, Others(S)
  PROVE  /\ scheme' = scheme /\ use' = use /\ modern' = modern /\ lock' = lock /\ pc' = pc /\ call' = call
         /\ cache' = cache /\ raced' = raced /\ \E o \in S : reg' = o.reg
BY DEF Others, fixed

LEMMA OthersConfig ==
  ASSUME NEW s, NEW c, Others(UpdateConfig(reg, s, c)) \/ Others(UpdateCompatibility(reg, s, c))
  PROVE  \E f : Configured(f)
<1>1. CASE Others(UpdateConfig(reg, s, c))
  <2>1. PICK o \in UpdateConfig(reg, s, c) : reg' = o.reg
    BY <1>1, OthersSame
  <2>2. o = Ok([reg EXCEPT !.config = Put(reg.config, s, c)], c)
    BY DEF UpdateConfig
  <2>3. reg' = [reg EXCEPT !.config = Put(reg.config, s, c)]
    BY <2>1, <2>2 DEF Ok
  <2> QED BY <2>3 DEF Configured
<1>2. CASE Others(UpdateCompatibility(reg, s, c))
  <2>1. PICK o \in UpdateCompatibility(reg, s, c) : reg' = o.reg
    BY <1>2, OthersSame
  <2>2. o = Ok([reg EXCEPT !.config = Put(reg.config, s, [NoConfig EXCEPT !.level = c])], c)
    BY DEF UpdateCompatibility
  <2>3. reg' = [reg EXCEPT !.config = Put(reg.config, s, [NoConfig EXCEPT !.level = c])]
    BY <2>1, <2>2 DEF Ok
  <2> QED BY <2>3 DEF Configured
<1> QED BY <1>1, <1>2

LEMMA DirectOthers == ASSUME Direct PROVE \E S : Others(S)
BY DEF Direct

LEMMA DirectConfig == ASSUME Direct, scheme # "mock", use # "associations" PROVE \E f : Configured(f)
<1>1. \E s, c : Others(UpdateConfig(reg, s, c)) \/ Others(UpdateCompatibility(reg, s, c))
  BY DEF Direct, UpdateDefaultConfig, UpdateDefaultCompatibility
<1> QED BY <1>1, OthersConfig

LEMMA DirectStep == ASSUME RInv, Direct PROVE RInv'
<1>1. /\ scheme' = scheme /\ use' = use /\ modern' = modern /\ lock' = lock /\ pc' = pc /\ call' = call
      /\ cache' = cache /\ raced' = raced
  BY DirectOthers, OthersSame
<1>2. Shrinks
  BY <1>1, SameShrinks
<1>3. ASSUME scheme = "http" PROVE RegOK(reg') /\ InfoIds' /\ StaleOnlyByRace'
  <2>1. PICK f : Configured(f)
    <3>1. use # "associations" /\ scheme # "mock"
      BY <1>3 DEF RInv, Shapes
    <3> QED BY <3>1, DirectConfig
  <2>2. RegOK(reg) /\ InfoIds /\ StaleOnlyByRace
    BY <1>3 DEF RInv
  <2>3. /\ RegOK(reg') /\ reg'.infos = reg.infos
        /\ \A c, k, v : CurrentIn(reg, c, k, v) => CurrentIn(reg', c, k, v)
    BY <2>1, <2>2, ConfigKeeps DEF Configured
  <2>4. InfoIds'
    BY <1>1, <2>2, <2>3 DEF InfoIds
  <2>5. ASSUME NEW c \in Four, NEW k \in DOMAIN cache'[c] PROVE Entry(c, k)'
    <3>1. Entry(c, k)
      BY <1>1, <2>2, StaleParts
    <3> QED BY <1>1, <2>3, <3>1 DEF Entry, Raced
  <2>6. StaleOnlyByRace'
    BY <2>5, StaleNext
  <2> QED BY <2>3, <2>4, <2>6
<1> QED BY <1>1, <1>2, <1>3, StillStep

LEMMA InitInv == Init => RInv
<1> SUFFICES ASSUME Init PROVE RInv
  OBVIOUS
<1>1. /\ scheme \in {"mock", "http"} /\ cache = EmptyCaches /\ lock = [c \in Caches |-> Nobody]
      /\ modern = (use # "oldRegistry") /\ reg = EmptyRegistry
      /\ pc = [t \in Goroutines |-> "idle"] /\ call = [t \in Goroutines |-> Idle] /\ raced = {}
  BY DEF Init, NewClient
<1>2. scheme = "http" => use # "associations"
  BY DEF Init
<1>3. DOMAIN cache = Caches /\ \A c \in Caches : DOMAIN cache[c] = {}
  BY <1>1, EmptyFacts DEF EmptyCaches
<1>4. \A t \in Goroutines : pc[t] = "idle"
  BY <1>1
<1>5. LocksOK
  <2>1. \A t \in Goroutines, c \in Caches : lock[c] # t /\ ~Owns(t, c)
    BY <1>1, <1>4, NobodyIsNone DEF Owns
  <2>2. DOMAIN lock = Caches /\ \A c \in Caches : lock[c] \in Goroutines \cup {Nobody}
    BY <1>1
  <2> QED BY <2>1, <2>2 DEF LocksOK
<1>6. ASSUME NEW t \in Goroutines PROVE OfCall(t)
  <2>1. CallOK(t)
    BY <1>4 DEF CallOK
  <2>2. Missed(t) /\ SubjectGone(t) /\ VersionGone(t)
    BY <1>4 DEF Missed, SubjectGone, VersionGone
  <2> QED BY <2>1, <2>2 DEF OfCall
<1>7. Shapes
  <2>1. modern \in BOOLEAN
    BY <1>1
  <2>2. pc \in [Goroutines -> Pcs] /\ DOMAIN call = Goroutines
    BY <1>1 DEF Pcs
  <2>3. \A t \in Goroutines : CallOK(t)
    BY <1>6 DEF OfCall
  <2> QED BY <1>1, <1>2, <1>3, <1>5, <2>1, <2>2, <2>3 DEF Shapes
<1>8. RegOK(reg)
  <2>1. /\ DOMAIN EmptyRegistry = RegFields /\ EmptyRegistry.counter = 0 /\ EmptyRegistry.infos = <<>>
        /\ EmptyRegistry.versions = <<>> /\ EmptyRegistry.ids = <<>>
    BY DEF EmptyRegistry, RegFields
  <2>2. 0 \in Nat
    BY SMT
  <2> QED BY <1>1, <2>1, <2>2, EmptyFacts DEF RegOK
<1>9. KeysOK /\ InfoIds /\ StaleOnlyByRace
  <2>1. KeysOK /\ InfoIds
    BY <1>3, FourCaches DEF KeysOK, InfoIds, Four
  <2>2. StaleOnlyByRace
    BY <1>3, FourCaches, StaleParts
  <2> QED BY <2>1, <2>2
<1>10. \A t \in Goroutines : Missed(t) /\ SubjectGone(t) /\ VersionGone(t)
  BY <1>6 DEF OfCall
<1> QED BY <1>7, <1>8, <1>9, <1>10 DEF RInv

LEMMA NextInv == RInv /\ [Next]_vars => RInv'
<1> SUFFICES ASSUME RInv, [Next]_vars PROVE RInv'
  OBVIOUS
<1>1. ASSUME NEW t \in Goroutines, Start(t) PROVE RInv'
  <2>1. ASSUME NEW q \in Calls, Begin(t, q) PROVE RInv'
    BY <2>1, BeginStep
  <2>2. ASSUME NEW s, NEW perm, DeleteSubjectCall(t, s, perm) PROVE RInv'
    BY <2>2, StartClearingStep DEF DeleteSubjectCall
  <2>3. ASSUME NEW s, NEW v, NEW perm, DeleteSubjectVersionCall(t, s, v, perm) PROVE RInv'
    BY <2>3, DeleteVersionStep
  <2>4. CASE ClearLatestCaches(t)
    BY <2>4, StartClearingStep DEF ClearLatestCaches
  <2>5. CASE Close(t)
    BY <2>5, StartClearingStep DEF Close, ClearCaches
  <2> QED BY <1>1, <2>1, <2>2, <2>3, <2>4, <2>5 DEF Start
<1>2. ASSUME NEW t \in Goroutines, Step(t) PROVE RInv'
  BY <1>2, LockAndLookStep, AskStep, ClearNextStep, DropFoundStep, DropIdStep, DropDoneStep, DropVersionStep,
     SendDeleteStep DEF Step
<1>3. CASE UNCHANGED vars
  <2>1. /\ scheme' = scheme /\ use' = use /\ modern' = modern /\ lock' = lock /\ pc' = pc /\ call' = call
        /\ cache' = cache /\ raced' = raced /\ reg' = reg
    BY <1>3 DEF vars, fixed
  <2>2. Shrinks
    BY <2>1, SameShrinks
  <2> QED BY <2>1, <2>2, RegSame, StillStep
<1> QED BY <1>1, <1>2, <1>3, EvictStep, DirectStep DEF Next

LEMMA RInvHolds == Spec => []RInv
BY InitInv, NextInv, PTL DEF Spec

\* Whoever asks the registry holds the lock of the cache that the answer goes to, and
\* the answer is not there: two goroutines never ask for the same one (the write lock
\* and the second look of RegisterFullResponse, GetBySubjectAndID and the others).
THEOREM OneAsksAtATime == Spec => []SingleFlight
<1>1. RInv => SingleFlight
  <2> SUFFICES ASSUME RInv PROVE SingleFlight
    OBVIOUS
  <2>1. ASSUME NEW c \in Caches PROVE lock[c] = Nobody <=> ~\E t \in Goroutines : Owns(t, c)
    <3>1. lock[c] \in Goroutines \cup {Nobody} /\ \A t \in Goroutines : lock[c] = t <=> Owns(t, c)
      BY DEF RInv, Shapes, LocksOK
    <3>2. \A t \in Goroutines : t # Nobody
      BY NobodyIsNone
    <3> QED BY <3>1, <3>2
  <2>2. TypeOK
    <3>1. /\ scheme \in {"mock", "http"} /\ modern \in BOOLEAN /\ DOMAIN cache = Caches
          /\ pc \in [Goroutines -> {"idle", "missed", "asking", "clearing", "nested", "version", "deleting"}]
      BY DEF RInv, Shapes, Pcs
    <3> QED BY <2>1, <3>1 DEF TypeOK, Owns
  <2>3. ASSUME NEW t \in Goroutines, pc[t] = "asking" PROVE lock[call[t].c] = t /\ ~Hit(call[t])
    <3>1. call[t].c \in Caches /\ Missed(t) /\ Owns(t, call[t].c)
      BY <2>3 DEF RInv, Shapes, CallOK, LookupOK, Owns
    <3> QED BY <2>3, <3>1 DEF RInv, Shapes, LocksOK, Missed
  <2> QED BY <2>2, <2>3 DEF SingleFlight
<1> QED BY <1>1, RInvHolds, PTL

\* An answer in one of the four caches that deletes empty is the registry's own, except
\* for one that was filled while a delete of its subject had emptied that cache and not
\* yet sent the DELETE, or that DeleteSubjectVersion passed over.
THEOREM StaleByRaceOnly == Spec => []StaleOnlyByRace
<1>1. RInv => StaleOnlyByRace
  <2>1. ASSUME RInv, scheme # "http" PROVE StaleOnlyByRace
    <3>1. \A c \in Caches : DOMAIN cache[c] = {}
      BY <2>1 DEF RInv, Shapes
    <3> QED BY <3>1, FourCaches, StaleParts
  <2> QED BY <2>1 DEF RInv
<1> QED BY <1>1, RInvHolds, PTL

=============================================================================
