--------------------------- MODULE RegistryClient ---------------------------
(***************************************************************************)
(* schemaregistry/schemaregistry_client.go: a Client shared by goroutines. *)
(* NewClient gives the mock for a mock:// URL, whose methods are called    *)
(* directly; for any other URL it gives a client that keeps the registry's *)
(* answers in seven caches, each with a lock of its own. A lookup reads    *)
(* its cache under the read lock; when it misses, it takes the write lock, *)
(* looks again, and holds the lock until the registry has answered. A      *)
(* delete empties caches one after the other and only then sends the       *)
(* DELETE, holding no lock.                                                *)
(*                                                                         *)
(* The registry is external. It answers each request in one step, the way  *)
(* the repository's own mock does; an answer may be lost on the way.       *)
(***************************************************************************)
EXTENDS MockRegistry, RegistryJSON

CONSTANTS
  Goroutines,      \* callers of one client
  Deleters,        \* those of them that also delete and clear
  HttpSubjects,    \* subjects and schemas they use
  HttpSchemas,
  AssocSubjects,   \* subjects the other calls use
  AssocLists,      \* lists of associations they ask to create
  Capacity,        \* CacheCapacity; 0 is the unbounded MapCache
  MaxIds,          \* bound: ids the registry hands out
  MaxAssocs        \* bound: associations of the registry

Caches == {"info", "id", "guid", "version", "schema", "latest", "meta"}

VARIABLES
  scheme,    \* of the URL: "mock" or "http"
  use,       \* what the callers use in this behaviour: see Used
  modern,    \* the registry returns a version on registration (CP 8.0 and later)
  reg,       \* the registry
  cache,     \* cache[c]: key -> value
  lock,      \* lock[c]: the goroutine that holds the write lock, or none
  pc,        \* where a goroutine is in its call
  call,      \* its call and what is left of it
  raced      \* history: <<cache, key>> a lookup filled while a delete of its subject was
             \* between emptying that cache and its DELETE, or a version delete passed over

fixed == <<scheme, use, modern>>
vars == <<fixed, reg, cache, lock, pc, call, raced>>

Nobody == "nobody"

ASSUME NobodyIsNone == Nobody \notin Goroutines

Idle == [op |-> "none"]
EmptyCaches == [c \in Caches |-> <<>>]

NewClient ==
  /\ scheme \in {"mock", "http"}
  /\ cache = EmptyCaches
  /\ lock = [c \in Caches |-> Nobody]

Init ==
  /\ NewClient
  /\ use \in IF scheme = "http"
             THEN {"oldRegistry", "registrations", "versions", "views", "configs"}
             ELSE {"configs", "associations"}
  /\ modern = (use # "oldRegistry")
  /\ reg = EmptyRegistry
  /\ pc = [t \in Goroutines |-> "idle"]
  /\ call = [t \in Goroutines |-> Idle]
  /\ raced = {}

-----------------------------------------------------------------------------
(* cache.Cache. An LRU cache that is full drops another key to make room;   *)
(* which one is not told apart here.                                        *)

CachePut(f, k, v) ==
  IF Capacity > 0 /\ k \notin DOMAIN f /\ Cardinality(DOMAIN f) >= Capacity
  THEN {Put(Without(f, {x}), k, v) : x \in DOMAIN f}
  ELSE {Put(f, k, v)}

CacheDelete(f, K) == Without(f, K)

CacheClear(f) == <<>>

-----------------------------------------------------------------------------
(* What a lookup asks: its cache, its key, the request.                     *)

Lookup(op, c, key, s) == [op |-> op, c |-> c, key |-> key, subject |-> s]

Register(s, sc) == Lookup("register", "info", <<s, sc>>, s)
GetID(s, sc) == Lookup("getID", "info", <<s, sc>>, s)
GetBySubjectAndIDCall(s, id) == Lookup("byID", "id", <<s, id>>, s)
GetByGUIDCall(g) == Lookup("byGUID", "guid", g, "")
GetVersion(s, sc, del) == Lookup("getVersion", "version", <<s, sc, del>>, s)
GetSchemaMetadata(s, v, del) == Lookup("metadata", "schema", <<s, v, del>>, s)
GetLatest(s) == Lookup("latest", "latest", s, s)
GetWithMetadata(s, props, del) == Lookup("withMetadata", "meta", <<s, props, del>>, s)

\* The lookups of one behaviour: caches that no call takes together are used
\* in different ones.
Used == CASE use = "oldRegistry" -> {"register", "getID"}
          [] use = "registrations" -> {"register", "getVersion", "byID"}
          [] use = "versions" -> {"register", "metadata", "latest"}
          [] use = "views" -> {"register", "byGUID", "withMetadata"}
          [] OTHER -> {}

\* A subject never has more versions than schemas.
HttpVersions == 1 .. Cardinality(HttpSchemas)

LookupsOf(s) ==
  {Register(s, sc) : sc \in HttpSchemas} \cup {GetID(s, sc) : sc \in HttpSchemas}
    \cup {GetVersion(s, sc, FALSE) : sc \in HttpSchemas} \cup {GetBySubjectAndIDCall(s, id) : id \in 1 .. MaxIds}
    \cup {GetSchemaMetadata(s, v, FALSE) : v \in HttpVersions} \cup {GetLatest(s), GetWithMetadata(s, {}, FALSE)}

Calls ==
  {q \in (UNION {LookupsOf(s) : s \in HttpSubjects}) \cup {GetByGUIDCall(g) : g \in 1 .. MaxIds} : q.op \in Used}

\* A cached registration without a version does not answer GetID: registries
\* before CP 8.0 give none.
Hit(q) ==
  /\ q.key \in DOMAIN cache[q.c]
  /\ q.op = "getID" => cache["info"][q.key].version > 0

\* The answer to a lookup by the registry, as outcomes of the mock.
Versioned(o, s, sc) ==
  IF ~o.ok THEN o
  ELSE [o EXCEPT !.val.version = o.reg.versions[<<s, sc>>].version, !.val.subject = s]

Answer(r, q) ==
  CASE q.op = "register" ->
         {IF modern THEN Versioned(o, q.key[1], q.key[2]) ELSE o :
            o \in RegisterFullResponse(r, q.key[1], q.key[2])}
    [] q.op = "getID" -> {Versioned(o, q.key[1], q.key[2]) :
                            o \in GetIDFullResponse(r, q.key[1], q.key[2])}
    [] q.op = "byID" -> GetBySubjectAndID(r, q.key[1], q.key[2])
    [] q.op = "byGUID" -> GetByGUID(r, q.key)
    [] q.op = "getVersion" -> GetVersionIncludeDeleted(r, q.key[1], q.key[2], q.key[3])
    [] q.op = "metadata" -> GetSchemaMetadataIncludeDeleted(r, q.key[1], q.key[2], q.key[3])
    [] q.op = "latest" -> GetLatestSchemaMetadata(r, q.key)
    [] q.op = "withMetadata" -> GetLatestWithMetadata(r, q.key[1], q.key[2], q.key[3])

-----------------------------------------------------------------------------
(* A cached call. *)

\* Reading under the read lock, which nobody holds the write lock against: a
\* hit is the whole call.
Begin(t, q) ==
  /\ scheme = "http" /\ pc[t] = "idle"
  /\ lock[q.c] = Nobody
  /\ ~Hit(q)
  /\ pc' = [pc EXCEPT ![t] = "missed"]
  /\ call' = [call EXCEPT ![t] = q]
  /\ UNCHANGED <<fixed, reg, cache, lock, raced>>

\* Mutant: no second look.
LockAndAsk(t) ==
  /\ pc[t] = "missed"
  /\ lock[call[t].c] = Nobody
  /\ pc' = [pc EXCEPT ![t] = "asking"]
  /\ lock' = [lock EXCEPT ![call[t].c] = t]
  /\ UNCHANGED <<fixed, reg, cache, raced, call>>

\* The write lock, and a second look: another goroutine may have filled it.
LockAndLook(t) ==
  /\ pc[t] = "missed"
  /\ lock[call[t].c] = Nobody
  /\ IF Hit(call[t])
     THEN /\ pc' = [pc EXCEPT ![t] = "idle"]
          /\ call' = [call EXCEPT ![t] = Idle]
          /\ UNCHANGED lock
     ELSE /\ pc' = [pc EXCEPT ![t] = "asking"]
          /\ lock' = [lock EXCEPT ![call[t].c] = t]
          /\ UNCHANGED call
  /\ UNCHANGED <<fixed, reg, cache, raced>>

\* Deletes of the subject that have emptied cache c and not sent the DELETE.
Deleting(s, c) ==
  \E t \in Goroutines :
    /\ pc[t] \in {"clearing", "deleting", "version", "nested"}
    /\ call[t].op \in {"deleteSubject", "deleteVersion"} /\ call[t].subject = s
    /\ c \in call[t].cleared

\* The registry answers; the answer is cached and the lock released. An error,
\* a lost answer or a lost request leaves the cache as it is.
Ask(t) ==
  /\ pc[t] = "asking"
  /\ \/ \E o \in Answer(reg, call[t]) :
          /\ o.reg.counter <= MaxIds
          /\ reg' = o.reg
          /\ o.ok
          /\ \E f \in CachePut(cache[call[t].c], call[t].key, o.val) :
               cache' = [cache EXCEPT ![call[t].c] = f]
          /\ raced' = IF Deleting(call[t].subject, call[t].c)
                      THEN raced \cup {<<call[t].c, call[t].key>>}
                      ELSE raced \ {<<call[t].c, call[t].key>>}
     \/ \E o \in Answer(reg, call[t]) :
          /\ o.reg.counter <= MaxIds
          /\ reg' = o.reg
          /\ UNCHANGED <<cache, raced>>
     \/ UNCHANGED <<reg, cache, raced>>
  /\ lock' = [lock EXCEPT ![call[t].c] = Nobody]
  /\ pc' = [pc EXCEPT ![t] = "idle"]
  /\ call' = [call EXCEPT ![t] = Idle]
  /\ UNCHANGED <<fixed>>

-----------------------------------------------------------------------------
(* Emptying caches, each under its lock. *)

\* Mutant: one cache forgotten.
SubjectCachesButOne == <<"info", "version", "id">>

SubjectCaches == <<"info", "version", "schema", "id">>
LatestCaches == <<"latest", "meta">>
AllCaches == <<"info", "id", "guid", "version", "schema", "latest", "meta">>

SubjectOf(c, key) == IF c \in {"latest"} THEN key ELSE key[1]

StartClearing(t, op, s, perm, todo) ==
  /\ scheme = "http" /\ pc[t] = "idle"
  /\ pc' = [pc EXCEPT ![t] = "clearing"]
  /\ call' = [call EXCEPT ![t] = [op |-> op, subject |-> s, perm |-> perm,
                                  todo |-> todo, cleared |-> {}]]
  /\ UNCHANGED <<fixed, reg, cache, lock, raced>>

DeleteSubjectCall(t, s, perm) == StartClearing(t, "deleteSubject", s, perm, SubjectCaches)
ClearLatestCaches(t) == StartClearing(t, "clear", "", FALSE, LatestCaches)
ClearCaches(t) == StartClearing(t, "clear", "", FALSE, AllCaches)
Close(t) == ClearCaches(t)

Emptied(c, q) ==
  IF q.op = "clear" THEN CacheClear(cache[c])
  ELSE CacheDelete(cache[c], {k \in DOMAIN cache[c] : SubjectOf(c, k) = q.subject})

\* Mutant: a cache is looked at again until there is nothing left to empty.
ClearNextAgain(t) ==
  LET q == call[t]
      c == Head(q.todo)
  IN /\ pc[t] = "clearing" /\ lock[c] = Nobody
     /\ cache' = [cache EXCEPT ![c] = Emptied(c, q)]
     /\ IF Emptied(c, q) # cache[c] THEN UNCHANGED <<call, pc>>
        ELSE /\ call' = [call EXCEPT ![t] =
                           IF Len(q.todo) = 1 /\ q.op = "clear" THEN Idle
                           ELSE [q EXCEPT !.todo = Tail(@), !.cleared = @ \cup {c}]]
             /\ pc' = [pc EXCEPT ![t] = IF Len(q.todo) > 1 THEN "clearing"
                                        ELSE IF q.op = "clear" THEN "idle" ELSE "deleting"]
     /\ UNCHANGED <<fixed, reg, lock, raced>>

ClearNext(t) ==
  LET q == call[t]
      c == Head(q.todo)
  IN /\ pc[t] = "clearing" /\ lock[c] = Nobody
     /\ cache' = [cache EXCEPT ![c] = Emptied(c, q)]
     /\ call' = [call EXCEPT ![t] =
                   IF Len(q.todo) = 1 /\ q.op = "clear" THEN Idle
                   ELSE [q EXCEPT !.todo = Tail(@), !.cleared = @ \cup {c}]]
     /\ pc' = [pc EXCEPT ![t] = IF Len(q.todo) > 1 THEN "clearing"
                                ELSE IF q.op = "clear" THEN "idle" ELSE "deleting"]
     /\ UNCHANGED <<fixed, reg, lock, raced>>

-----------------------------------------------------------------------------
(* DeleteSubjectVersion: the lock of schemaToVersionCache is held while the *)
(* other two are taken, for each schema found to have the version.          *)

\* What it cannot find by way of the versions: registrations and ids of the
\* subject's other schemas.
PassedOver(s, schemas) ==
  {<<"info", k>> : k \in {x \in DOMAIN cache["info"] : x[1] = s /\ x[2] \notin schemas}}
  \cup {<<"id", k>> : k \in {x \in DOMAIN cache["id"] :
                                x[1] = s /\ cache["id"][x] \notin schemas}}

DeleteSubjectVersionCall(t, s, v, perm) ==
  LET found == {k \in DOMAIN cache["version"] : k[1] = s /\ cache["version"][k] = v}
  IN /\ scheme = "http" /\ pc[t] = "idle" /\ lock["version"] = Nobody
     /\ lock' = [lock EXCEPT !["version"] = t]
     /\ pc' = [pc EXCEPT ![t] = "nested"]
     /\ call' = [call EXCEPT ![t] =
          [op |-> "deleteVersion", subject |-> s, version |-> v, perm |-> perm,
           found |-> found, ids |-> {}, cleared |-> {"version", "info", "id"}]]
     /\ raced' = raced \cup PassedOver(s, {k[2] : k \in found})
     /\ UNCHANGED <<fixed, reg, cache>>

\* Drops a schema found and its registration; the id it had goes next.
DropFound(t) ==
  /\ pc[t] = "nested" /\ call[t].ids = {} /\ lock["info"] = Nobody
  /\ \E k \in call[t].found :
       LET j == <<k[1], k[2]>>
           registered == j \in DOMAIN cache["info"]
       IN /\ cache' = [cache EXCEPT !["version"] = CacheDelete(@, {k}),
                                    !["info"] = CacheDelete(@, {j})]
          /\ call' = [call EXCEPT ![t].found = @ \ {k},
                                  ![t].ids = IF registered
                                             THEN {cache["info"][j].id} ELSE {}]
          /\ raced' = IF registered THEN raced
                      ELSE raced \cup PassedOver(k[1], Schemas \ {k[2]})
  /\ UNCHANGED <<fixed, reg, lock, pc>>

DropId(t) ==
  /\ pc[t] = "nested" /\ call[t].ids # {} /\ lock["id"] = Nobody
  /\ cache' = [cache EXCEPT !["id"] =
                 CacheDelete(@, {<<call[t].subject, i>> : i \in call[t].ids})]
  /\ call' = [call EXCEPT ![t].ids = {}]
  /\ UNCHANGED <<fixed, reg, lock, pc, raced>>

DropDone(t) ==
  /\ pc[t] = "nested" /\ call[t].ids = {} /\ call[t].found = {}
  /\ lock' = [lock EXCEPT !["version"] = Nobody]
  /\ pc' = [pc EXCEPT ![t] = "version"]
  /\ UNCHANGED <<fixed, reg, cache, call, raced>>

\* Only the entry looked up without deleted versions goes.
DropVersion(t) ==
  /\ pc[t] = "version" /\ lock["schema"] = Nobody
  /\ cache' = [cache EXCEPT !["schema"] =
                 CacheDelete(@, {<<call[t].subject, call[t].version, FALSE>>})]
  /\ pc' = [pc EXCEPT ![t] = "deleting"]
  /\ call' = [call EXCEPT ![t].cleared = @ \cup {"schema"}]
  /\ UNCHANGED <<fixed, reg, lock, raced>>

-----------------------------------------------------------------------------
(* The DELETE. It may reach the registry and its answer be lost, or fail.   *)

DeleteOutcomes(r, q) ==
  IF q.op = "deleteSubject" THEN DeleteSubject(r, q.subject, q.perm)
  ELSE DeleteSubjectVersion(r, q.subject, q.version, q.perm)

SendDelete(t) ==
  /\ pc[t] = "deleting"
  /\ \/ \E o \in DeleteOutcomes(reg, call[t]) : reg' = o.reg
     \/ UNCHANGED reg
  /\ pc' = [pc EXCEPT ![t] = "idle"]
  /\ call' = [call EXCEPT ![t] = Idle]
  /\ UNCHANGED <<fixed, cache, lock, raced>>

\* The evictor's ticker: empties the latest versions, whoever holds their lock.
Evict ==
  /\ scheme = "http" /\ cache["latest"] # <<>>
  /\ cache' = [cache EXCEPT !["latest"] = CacheClear(@)]
  /\ UNCHANGED <<fixed, reg, lock, pc, call, raced>>
-----------------------------------------------------------------------------
(* Calls that no cache stands in front of: the mock's methods, and the      *)
(* client's requests for configurations, compatibility and associations,    *)
(* each of them one request.                                                *)

\* A query names only the parameters that are set, and the registry takes the
\* others to be unset.
Query(rtype, types, lifecycle, offset, limit) ==
  {<<"offset", o>> : o \in {offset} \ {x \in {offset} : x <= 0}}
  \cup {<<"limit", l>> : l \in {limit} \ {x \in {limit} : x <= 0}}
  \cup {<<"resourceType", r>> : r \in {rtype} \ {""}}
  \cup {<<"lifecycle", l>> : l \in {lifecycle} \ {""}}
  \cup {<<"associationType", a>> : a \in types}

Param(query, name, default) ==
  LET values == {q[2] : q \in {x \in query : x[1] = name}}
  IN IF values = {} THEN default ELSE CHOOSE v \in values : TRUE

\* The registry's side of a query by subject.
QueriedBySubject(r, s, query) ==
  GetAssociationsBySubject(r, s, Param(query, "resourceType", ""),
    {q[2] : q \in {x \in query : x[1] = "associationType"}},
    Param(query, "lifecycle", ""), Param(query, "offset", 0), Param(query, "limit", -1))

\* An association as the caller gets it.
Decoded(a) ==
  IF UnmarshalAssociation(MarshalAssociation(Association)) = Association THEN a
  ELSE [subject |-> "", rid |-> "", atype |-> "", lifecycle |-> "", frozen |-> FALSE, guid |-> 0]

HttpAssociationsBySubject(s, rtype, types, lifecycle, offset, limit) ==
  {[o EXCEPT !.val = [i \in DOMAIN @ |-> Decoded(@[i])]] :
     o \in QueriedBySubject(reg, s, Query(rtype, types, lifecycle, offset, limit))}

Others(outcomes) ==
  /\ \E o \in outcomes :
       /\ o.reg.counter <= MaxIds
       /\ Cardinality(UsedGUIDs(o.reg)) <= MaxAssocs
       /\ reg' = o.reg
  /\ UNCHANGED <<fixed, cache, lock, pc, call, raced>>

CreateRequests ==
  [rid : Resources, rtype : {"", "cluster"}, complete : {TRUE}, assocs : AssocLists]

Configs == {[level |-> 0, update |-> 4], [level |-> 2, update |-> 0]}

Direct ==
  \/ /\ scheme = "mock"
     /\ \/ \E s \in AssocSubjects, sc \in Schemas : Others(RegisterFullResponse(reg, s, sc))
        \/ \E s \in AssocSubjects, perm \in BOOLEAN : Others(DeleteSubject(reg, s, perm))
  \/ /\ use = "configs"
     /\ \/ \E c \in Configs : Others(UpdateDefaultConfig(reg, c))
        \/ Others(UpdateDefaultCompatibility(reg, 1))
        \/ \E s \in AssocSubjects : \/ \E c \in Configs : Others(UpdateConfig(reg, s, c))
                                    \/ Others(UpdateCompatibility(reg, s, 1))
  \/ /\ use = "associations"
     /\ \/ \E s \in AssocSubjects, v \in 1 .. MaxIds, perm \in BOOLEAN :
             Others(DeleteSubjectVersion(reg, s, v, perm))
        \/ \E q \in CreateRequests : Others(CreateAssociation(reg, q))
        \/ \E rid \in Resources, types \in {{}, {"key"}}, cascade \in BOOLEAN :
             Others(DeleteAssociations(reg, rid, "", types, cascade))

-----------------------------------------------------------------------------
Step(t) ==
  LockAndLook(t) \/ Ask(t) \/ ClearNext(t) \/ DropFound(t) \/ DropId(t) \/ DropDone(t)
  \/ DropVersion(t) \/ SendDelete(t)

Start(t) ==
  \/ \E q \in Calls : Begin(t, q)
  \/ /\ t \in Deleters
     /\ \/ \E s \in HttpSubjects, perm \in BOOLEAN :
             \/ DeleteSubjectCall(t, s, perm)
             \/ \E v \in HttpVersions : DeleteSubjectVersionCall(t, s, v, perm)
        \/ ClearLatestCaches(t) \/ Close(t)

Next == (\E t \in Goroutines : Start(t) \/ Step(t)) \/ Evict \/ Direct

\* A goroutine goes on with its call, and gets a lock that is free again and
\* again: sync.RWMutex lets no waiting writer starve.
Spec == Init /\ [][Next]_vars /\ \A t \in Goroutines : SF_vars(Step(t))
-----------------------------------------------------------------------------
(* Properties. *)

\* The state has its type; a lock is held exactly by a lookup that waits for the
\* registry and by a version delete among the nested locks.
TypeOK ==
  /\ scheme \in {"mock", "http"} /\ modern \in BOOLEAN
  /\ DOMAIN cache = Caches
  /\ pc \in [Goroutines -> {"idle", "missed", "asking", "clearing", "nested",
                             "version", "deleting"}]
  /\ \A c \in Caches :
       lock[c] = Nobody <=>
         ~\E t \in Goroutines : \/ pc[t] = "asking" /\ call[t].c = c
                                \/ pc[t] = "nested" /\ c = "version"

\* Two lookups never ask the registry for the same cached answer: whoever asks
\* holds the cache's lock, and the answer is not there (the second look of
\* RegisterFullResponse, GetBySubjectAndID, GetLatestSchemaMetadata and the rest).
SingleFlight ==
  /\ TypeOK
  /\ \A t \in Goroutines : pc[t] = "asking" => lock[call[t].c] = t /\ ~Hit(call[t])

\* What the registry answers now, for the caches a delete empties.
Current(c, k, v) ==
  CASE c = "info" -> Registered(reg, k[1], k[2]) /\ reg.infos[k].id = v.id
    [] c = "version" -> k[3] \/ (<<k[1], k[2]>> \in Live(reg, k[1])
                                  /\ reg.versions[<<k[1], k[2]>>].version = v)
    [] c = "schema" -> k[3] \/ (<<k[1], v.schema>> \in Live(reg, k[1])
                                 /\ reg.versions[<<k[1], v.schema>>].version = k[2])
    [] c = "id" -> k \in DOMAIN reg.ids /\ reg.ids[k] = v

\* While one client makes all the changes, an answer it keeps goes stale in two
\* ways only: a lookup was answered after DeleteSubject or DeleteSubjectVersion
\* emptied that cache and before the DELETE, or DeleteSubjectVersion passed the
\* entry over because nobody had asked for the version of its schema.
StaleOnlyByRace ==
  \A c \in {"info", "version", "schema", "id"} : \A k \in DOMAIN cache[c] :
    <<c, k>> \in raced \/ Current(c, k, cache[c][k])

\* Every call returns, whatever the others do: the locks that DeleteSubjectVersion
\* nests are never taken in the opposite order, and none is left behind.
CallsReturn == \A t \in Goroutines : pc[t] # "idle" ~> pc[t] = "idle"

\* A registration answers for itself: with no call in progress, a cached answer of
\* Register ("Register registers Schema aliased with subject") belongs to a schema
\* that is registered.  It does not hold: see StaleOnlyByRace.
RegisterRegisters ==
  (\A t \in Goroutines : pc[t] = "idle") =>
    \A k \in DOMAIN cache["info"] : Registered(reg, k[1], k[2])

\* The mock's maps agree after any sequence of calls: a schema is registered when
\* it has a live version, under an id that is this schema's, and no two live schemas
\* of a subject have one version; so GetSubjectsAndVersionsByID never takes the
\* return that leaves its locks taken.
RegistryCoherent ==
  /\ \A k \in DOMAIN reg.infos \cup DOMAIN reg.versions :
       Registered(reg, k[1], k[2]) <=> k \in Live(reg, k[1])
  /\ \A k \in DOMAIN reg.infos :
       Registered(reg, k[1], k[2]) => IdsOf(reg, k[1], k[2]) = {reg.infos[k].id}
  /\ \A s \in Subjects : Cardinality(allVersions(reg, s)) = Cardinality(Live(reg, s))
  /\ \A id \in 1 .. MaxIds : ~LeaksLocks(reg, id)

\* The mock's lookups agree about every registered schema: its subject is listed, its
\* id leads to it and to its version, its version leads to it and to its id, no version
\* is later than the latest, and a level that GetCompatibility gives is GetConfig's.
LookupsAgree ==
  /\ \A s \in Subjects, sc \in Schemas : Registered(reg, s, sc) =>
       \A i \in {o.val.id : o \in GetIDFullResponse(reg, s, sc)},
          v \in {o.val : o \in GetVersionIncludeDeleted(reg, s, sc, FALSE)} :
         /\ \A o \in GetAllSubjects(reg) : s \in o.val
         /\ GetBySubjectAndID(reg, s, i) = {Ok(reg, sc)}
         /\ \A o \in GetSubjectsAndVersionsByID(reg, i) : o.ok /\ <<s, v>> \in o.val
         /\ \A o \in GetAllVersions(reg, s) : v \in o.val
         /\ \A o \in GetSchemaMetadataIncludeDeleted(reg, s, v, FALSE) :
              o.val.schema = sc /\ o.val.id = i
         /\ \A o \in GetLatestSchemaMetadata(reg, s) : o.ok /\ o.val.version >= v
         /\ \A o \in GetLatestWithMetadata(reg, s, {}, FALSE) : o.ok /\ o.val.version >= v
  /\ \A s \in Subjects : \A o \in GetCompatibility(reg, s), p \in GetConfig(reg, s, TRUE) :
       o.ok => p.ok /\ p.val.level = o.val
  /\ \A o \in GetDefaultCompatibility(reg), p \in GetDefaultConfig(reg) :
       o.ok = p.ok /\ p.val.level = o.val

\* The associations of a map whose values are lists, without their GUIDs.
Listed(f) ==
  UNION {{[f[k][i] EXCEPT !.guid = 0] : i \in DOMAIN f[k]} : k \in DOMAIN f}

\* The mock's three indexes of associations hold the same ones, whatever was
\* created again or deleted in part, none keeps an empty list, and a search by
\* resource finds those that a search by subject finds.
AssociationIndexesAgree ==
  /\ Listed(reg.bySubject) = Listed(reg.byResource)
  /\ Listed(reg.bySubject) = {[reg.byType[k] EXCEPT !.guid = 0] : k \in DOMAIN reg.byType}
  /\ \A f \in {reg.bySubject, reg.byResource} : \A k \in DOMAIN f : f[k] # <<>>
  /\ \A rid \in DOMAIN reg.byResource :
       \A o \in GetAssociationsByResourceID(reg, rid, "", {}, "", 0, -1) :
         {[o.val[i] EXCEPT !.guid = 0] : i \in DOMAIN o.val} = {a \in Listed(reg.bySubject) : a.rid = rid}

\* The query string of GetAssociationsBySubject says what its arguments say: the
\* registry finds the associations the mock finds for the arguments.
QueryFaithful ==
  \A s \in DOMAIN reg.bySubject, rtype \in {"", "cluster"}, types \in {{}, {"key"}},
     lifecycle \in {"", "WEAK"}, offset \in 0 .. 1, limit \in {-1, 1} :
    QueriedBySubject(reg, s, Query(rtype, types, lifecycle, offset, limit))
      = GetAssociationsBySubject(reg, s, rtype, types, lifecycle, offset, limit)

\* What a client sends or receives comes out on the other side with the fields it
\* went in with: schemas, their metadata, association requests and responses, and
\* compatibility levels (the MarshalJSON and UnmarshalJSON of each). The codecs have
\* no state: it is enough to ask before the first request.
CodecsKeepFields == reg = EmptyRegistry /\ (\A t \in Goroutines : pc[t] = "idle") => CodecsInverse

\* The mock answers as one registry would, whatever sequence of calls made its
\* maps, and the client's requests and their JSON say what the caller said.
RegistryFaithful ==
  RegistryCoherent /\ LookupsAgree /\ AssociationIndexesAgree /\ QueryFaithful /\ CodecsKeepFields

\* A registry's client finds the associations of a subject that the registry has
\* ("GetAssociationsBySubject retrieves associations by subject").  It does not hold.
ClientFindsAssociations ==
  \A s \in DOMAIN reg.bySubject :
    HttpAssociationsBySubject(s, "", {}, "", 0, -1)
      = GetAssociationsBySubject(reg, s, "", {}, "", 0, -1)
=============================================================================
