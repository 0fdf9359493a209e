---------------------------- MODULE MockRegistry ----------------------------
(***************************************************************************)
(* schemaregistry/mock_schemaregistry_client.go: the in-memory registry    *)
(* behind a mock:// URL. Its methods are operators on the registry's maps, *)
(* r; each gives the set of outcomes [reg, ok, val] it may have, for a     *)
(* method that ranges over a Go map may meet the entries in any order.     *)
(*                                                                         *)
(* A schema is a value that stands for its canonical JSON: MarshalJSON is  *)
(* one-to-one on SchemaInfo up to nil and empty references, the difference *)
(* schemasEqual ignores too. A guid is a number no other guid has.         *)
(***************************************************************************)
EXTENDS Integers, Sequences, FiniteSets, FiniteSetsExt, TLC

CONSTANTS
  Subjects,
  Schemas,
  PropsOf,     \* PropsOf[sc]: metadata properties, a set of key-value pairs
  Resources    \* resource ids; each stands for its name and namespace too

noSubject == ""

Put(f, k, v) == [x \in DOMAIN f \cup {k} |-> IF x = k THEN v ELSE f[x]]
Without(f, S) == [x \in DOMAIN f \ S |-> f[x]]

\* op on base and the members of a list, one after the other.
InTurn(op(_, _), base, list) ==
  MapThenFoldSet(LAMBDA i, acc : op(acc, list[i]), base, LAMBDA i : i, Max, DOMAIN list)

EmptyRegistry ==
  [infos    |-> <<>>,   \* <<subject, schema>> -> [id, guid, deleted]
   ids      |-> <<>>,   \* <<subject, id>> -> schema; entries are never soft-deleted
   guids    |-> <<>>,   \* guid -> schema
   versions |-> <<>>,   \* <<subject, schema>> -> [version, deleted]
   config   |-> <<>>,   \* subject -> ServerConfig
   counter  |-> 0,
   bySubject  |-> <<>>, \* subject -> sequence of associations
   byType     |-> <<>>, \* <<resource, association type>> -> association
   byResource |-> <<>>] \* resource -> sequence of associations

\* SchemaMetadata; a field the registry leaves out is its zero value.
Metadata(sc, id, guid, s, v) ==
  [schema |-> sc, id |-> id, guid |-> guid, subject |-> s, version |-> v]
NoMetadata == Metadata("", -1, 0, "", 0)

Ok(r, v) == [reg |-> r, ok |-> TRUE, val |-> v]
Fail(r, v) == [reg |-> r, ok |-> FALSE, val |-> v]

-----------------------------------------------------------------------------
(* Versions and ids. *)

Live(r, s) == {k \in DOMAIN r.versions : k[1] = s /\ ~r.versions[k].deleted}

allVersions(r, s) == {r.versions[k].version : k \in Live(r, s)}

latestVersion(r, s) ==
  IF allVersions(r, s) = {} THEN -1 ELSE Max(allVersions(r, s))

generateVersion(r, s, sc) ==
  LET next == IF allVersions(r, s) = {} THEN 1 ELSE Max(allVersions(r, s)) + 1
  IN [r EXCEPT !.versions = Put(@, <<s, sc>>, [version |-> next, deleted |-> FALSE])]

IdsOf(r, s, sc) == {k[2] : k \in {x \in DOMAIN r.ids : x[1] = s /\ r.ids[x] = sc}}
GuidsOf(r, sc) == {g \in DOMAIN r.guids : r.guids[g] = sc}

\* An id the subject has for the schema is used again; the guid is any one
\* the schema has under any subject.
getIDFromRegistry(r, s, sc) ==
  LET versioned == generateVersion(r, s, sc)
      n == r.counter + 1
  IN IF IdsOf(r, s, sc) = {}
     THEN {[reg |-> [versioned EXCEPT !.counter = n,
                                      !.ids = Put(@, <<s, n>>, sc),
                                      !.guids = Put(@, n, sc)],
            id |-> n, guid |-> n]}
     ELSE {[reg |-> versioned, id |-> i, guid |-> g] :
             i \in IdsOf(r, s, sc), g \in GuidsOf(r, sc)}

Registered(r, s, sc) == <<s, sc>> \in DOMAIN r.infos /\ ~r.infos[<<s, sc>>].deleted

RegisterFullResponse(r, s, sc) ==
  IF Registered(r, s, sc)
  THEN {Ok(r, Metadata(sc, r.infos[<<s, sc>>].id, r.infos[<<s, sc>>].guid, "", 0))}
  ELSE {Ok([x.reg EXCEPT !.infos = Put(@, <<s, sc>>,
                            [id |-> x.id, guid |-> x.guid, deleted |-> FALSE])],
           Metadata(sc, x.id, x.guid, "", 0)) : x \in getIDFromRegistry(r, s, sc)}

GetIDFullResponse(r, s, sc) ==
  IF Registered(r, s, sc)
  THEN {Ok(r, Metadata(sc, r.infos[<<s, sc>>].id, r.infos[<<s, sc>>].guid, "", 0))}
  ELSE {Fail(r, NoMetadata)}

GetBySubjectAndID(r, s, id) ==
  IF <<s, id>> \in DOMAIN r.ids THEN {Ok(r, r.ids[<<s, id>>])} ELSE {Fail(r, "")}

GetByGUID(r, g) == IF g \in DOMAIN r.guids THEN {Ok(r, r.guids[g])} ELSE {Fail(r, "")}

\* The two early returns, on an entry without a version among them, leave the
\* read locks of infoToSchemaCache and schemaToVersionCache taken for ever.
LeaksLocks(r, id) ==
  \E k \in DOMAIN r.infos :
    ~r.infos[k].deleted /\ r.infos[k].id = id /\ k \notin DOMAIN r.versions

GetSubjectsAndVersionsByID(r, id) ==
  LET found == {k \in DOMAIN r.infos : ~r.infos[k].deleted /\ r.infos[k].id = id}
  IN IF found = {} \/ LeaksLocks(r, id)
     THEN {Fail(r, {})}
     ELSE {Ok(r, {<<k[1], r.versions[k].version>> : k \in found})}

\* A soft-deleted version counts when asked for; the id and the guid are any
\* that have an equal schema.
GetSchemaMetadataIncludeDeleted(r, s, v, deleted) ==
  LET found == {k \in DOMAIN r.versions :
                  /\ k[1] = s /\ r.versions[k].version = v
                  /\ ~r.versions[k].deleted \/ deleted}
      results == UNION {{Ok(r, Metadata(k[2], i, g, s, v)) : i \in IdsOf(r, s, k[2]), g \in GuidsOf(r, k[2])} :
                          k \in found}
      missed == {k \in found : IdsOf(r, s, k[2]) = {} \/ GuidsOf(r, k[2]) = {}}
  IN results \cup IF found = {} \/ missed # {} THEN {Fail(r, NoMetadata)} ELSE {}

GetLatestSchemaMetadata(r, s) ==
  IF latestVersion(r, s) < 0
  THEN {Fail(r, NoMetadata)}
  ELSE GetSchemaMetadataIncludeDeleted(r, s, latestVersion(r, s), FALSE)

\* The guid is left out of this answer.
GetLatestWithMetadata(r, s, props, deleted) ==
  LET found == {k \in DOMAIN r.versions :
                  /\ k[1] = s /\ (~r.versions[k].deleted \/ deleted)
                  /\ props \subseteq PropsOf[k[2]]}
      top == {k \in found : \A j \in found : r.versions[j].version <= r.versions[k].version}
      results == UNION {{Ok(r, Metadata(k[2], i, 0, s, r.versions[k].version)) : i \in IdsOf(r, s, k[2])} :
                          k \in top}
  IN IF results = {} THEN {Fail(r, NoMetadata)} ELSE results

GetAllVersions(r, s) ==
  IF allVersions(r, s) = {} THEN {Fail(r, {})} ELSE {Ok(r, allVersions(r, s))}

\* The deleted flag is ignored.
GetVersionIncludeDeleted(r, s, sc, deleted) ==
  IF <<s, sc>> \in Live(r, s)
  THEN {Ok(r, r.versions[<<s, sc>>].version)}
  ELSE {Fail(r, -1)}

GetAllSubjects(r) ==
  {Ok(r, {k[1] : k \in {x \in DOMAIN r.versions : ~r.versions[x].deleted}})}

-----------------------------------------------------------------------------
(* Deletion. A permanent delete drops an entry, any other marks it. *)

deleteVersion(r, K, permanent) ==
  IF permanent THEN [r EXCEPT !.versions = Without(@, K)]
  ELSE [r EXCEPT !.versions = [k \in DOMAIN @ |->
                                 IF k \in K THEN [@[k] EXCEPT !.deleted = TRUE] ELSE @[k]]]

deleteMetadata(r, K, permanent) ==
  IF permanent THEN [r EXCEPT !.infos = Without(@, K)]
  ELSE [r EXCEPT !.infos = [k \in DOMAIN @ |->
                              IF k \in K THEN [@[k] EXCEPT !.deleted = TRUE] ELSE @[k]]]

deleteInfo(r, K) == [r EXCEPT !.ids = Without(@, K)]

deleteSubject(r, s, permanent) ==
  LET infos == {k \in DOMAIN r.infos : k[1] = s /\ (~r.infos[k].deleted \/ permanent)}
      vers == {k \in DOMAIN r.versions : k[1] = s /\ (~r.versions[k].deleted \/ permanent)}
      ids == IF permanent THEN {k \in DOMAIN r.ids : k[1] = s} ELSE {}
      marked == deleteVersion(deleteMetadata(r, infos, permanent), vers, permanent)
  IN Ok([deleteInfo(marked, ids) EXCEPT !.config = Without(@, {s})],
        {r.versions[k].version : k \in vers})

\* Aborted while the subject has associations.
DeleteSubject(r, s, permanent) ==
  IF s \in DOMAIN r.bySubject
  THEN {Fail(r, {})}
  ELSE {deleteSubject(r, s, permanent)}

\* Mutant: the registration stays.
DeleteVersionOnly(r, s, v, permanent) ==
  LET K == {k \in DOMAIN r.versions : k[1] = s /\ r.versions[k].version = v}
  IN {Ok(deleteVersion(r, K, permanent), v)}

\* Deletes whatever has that version, soft-deleted or not, and is no error
\* when nothing has it.
DeleteSubjectVersion(r, s, v, permanent) ==
  LET K == {k \in DOMAIN r.versions : k[1] = s /\ r.versions[k].version = v}
      known == K \cap DOMAIN r.infos
      ids == IF permanent THEN {<<s, r.infos[k].id>> : k \in known} ELSE {}
  IN {Ok(deleteInfo(deleteMetadata(deleteVersion(r, K, permanent), known, permanent), ids), v)}

-----------------------------------------------------------------------------
(* Configuration: subject or noSubject -> the compatibility fields of a     *)
(* ServerConfig: the level a GET names and the update a PUT names. What was *)
(* put as an update is not turned into a level.                             *)

NoConfig == [level |-> 0, update |-> 0]

GetDefaultConfig(r) ==
  IF noSubject \in DOMAIN r.config THEN {Ok(r, r.config[noSubject])} ELSE {Fail(r, NoConfig)}

GetConfig(r, s, defaultToGlobal) ==
  IF s \in DOMAIN r.config THEN {Ok(r, r.config[s])}
  ELSE IF defaultToGlobal THEN GetDefaultConfig(r) ELSE {Fail(r, NoConfig)}

UpdateConfig(r, s, update) == {Ok([r EXCEPT !.config = Put(@, s, update)], update)}

UpdateDefaultConfig(r, update) == UpdateConfig(r, noSubject, update)

GetCompatibility(r, s) ==
  IF s \in DOMAIN r.config THEN {Ok(r, r.config[s].level)} ELSE {Fail(r, 0)}

GetDefaultCompatibility(r) == GetCompatibility(r, noSubject)

UpdateCompatibility(r, s, level) ==
  {Ok([r EXCEPT !.config = Put(@, s, [NoConfig EXCEPT !.level = level])], level)}

UpdateDefaultCompatibility(r, level) == UpdateCompatibility(r, noSubject, level)

-----------------------------------------------------------------------------
(* Associations of a resource with subjects. *)

ValidTypes == [topic |-> {"key", "value"}]

ValidLifecycle(l) == l \in {"STRONG", "WEAK"}

validateResourceTypeAndAssociationType(rtype, atype) ==
  rtype \in DOMAIN ValidTypes /\ atype \in ValidTypes[rtype]

\* The defaults filled in.
Defaulted(a) ==
  [a EXCEPT !.atype = IF @ = "" THEN "value" ELSE @,
            !.lifecycle = IF @ = "" THEN "STRONG" ELSE @]

\* complete: the resource's name, namespace and id and the list of
\* associations are there.
validateAssociationCreateRequest(q) ==
  LET rtype == IF q.rtype = "" THEN "topic" ELSE q.rtype
  IN /\ q.complete
     /\ \A i \in DOMAIN q.assocs :
          LET a == Defaulted(q.assocs[i])
          IN /\ a.subject # ""
             /\ validateResourceTypeAndAssociationType(rtype, a.atype)
             /\ ValidLifecycle(a.lifecycle)
             /\ ~(a.lifecycle = "WEAK" /\ a.frozen)

\* An Association without its GUID.
Plain(a, rid) ==
  [subject |-> a.subject, rid |-> rid, atype |-> a.atype,
   lifecycle |-> a.lifecycle, frozen |-> a.frozen]

equalsWithoutGUID(a, b) == [a EXCEPT !.guid = 0] = [b EXCEPT !.guid = 0]

WithGUID(p, g) ==
  [subject |-> p.subject, rid |-> p.rid, atype |-> p.atype,
   lifecycle |-> p.lifecycle, frozen |-> p.frozen, guid |-> g]

UsedGUIDs(r) ==
  UNION {{r.bySubject[s][i].guid : i \in DOMAIN r.bySubject[s]} : s \in DOMAIN r.bySubject}

FreshGUID(r) == CHOOSE g \in 1 .. Cardinality(UsedGUIDs(r)) + 1 : g \notin UsedGUIDs(r)

\* The subject exists, or comes with a schema.
SubjectExists(r, a) == a.schema # "" \/ latestVersion(r, a.subject) >= 0

\* What exists for this resource and type is equal; else the subject takes one
\* more association. Both look at the maps as they were before the request.
Accepted(r, rid, a) ==
  LET k == <<rid, a.atype>>
  IN IF k \in DOMAIN r.byType
     THEN equalsWithoutGUID(r.byType[k], WithGUID(Plain(a, rid), 0))
     ELSE a.subject \in DOMAIN r.bySubject =>
            a.lifecycle # "STRONG" /\ r.bySubject[a.subject][1].lifecycle # "STRONG"

Append1(f, k, x) == Put(f, k, IF k \in DOMAIN f THEN Append(f[k], x) ELSE <<x>>)

\* An association is written even when an equal one exists.
Associate(r, a, rid) ==
  LET x == WithGUID(Plain(a, rid), FreshGUID(r))
  IN [r EXCEPT !.byType = Put(@, <<rid, a.atype>>, x),
               !.bySubject = Append1(@, a.subject, x),
               !.byResource = Append1(@, rid, x)]

\* Of the outcomes of a registration, which differ in the guid only, any one.
RegisterSchemas(r, assocs) ==
  InTurn(LAMBDA acc, a :
           IF a.schema = "" THEN acc
           ELSE (CHOOSE x \in RegisterFullResponse(acc, a.subject, a.schema) : TRUE).reg,
         r, assocs)

WriteAssociations(r, rid, assocs) ==
  InTurn(LAMBDA acc, a : Associate(acc, a, rid), r, assocs)

CreateAssociation(r, q) ==
  LET as == [i \in DOMAIN q.assocs |-> Defaulted(q.assocs[i])]
  IN IF /\ validateAssociationCreateRequest(q)
        /\ \A i, j \in DOMAIN as : as[i].atype = as[j].atype => i = j
        /\ \A i \in DOMAIN as : SubjectExists(r, as[i]) /\ Accepted(r, q.rid, as[i])
     THEN {Ok(WriteAssociations(RegisterSchemas(r, as), q.rid, as), as)}
     ELSE {Fail(r, <<>>)}

\* Which associations a filter keeps, and the page of them from offset on.
applyFilter(list, rtype, types, lifecycle, offset, limit) ==
  LET kept == SelectSeq(list, LAMBDA a : /\ rtype \in {"", "topic"}
                                         /\ types = {} \/ a.atype \in types
                                         /\ lifecycle \in {"", a.lifecycle})
      start == IF offset > Len(kept) THEN Len(kept) ELSE offset
      end == IF limit <= 0 \/ start + limit > Len(kept) THEN Len(kept) ELSE start + limit
  IN SubSeq(kept, start + 1, end)

GetAssociations(r, f, k, rtype, types, lifecycle, offset, limit) ==
  IF k = "" \/ (lifecycle # "" /\ ~ValidLifecycle(lifecycle)) THEN {Fail(r, <<>>)}
  ELSE {Ok(r, IF k \in DOMAIN f
              THEN applyFilter(f[k], rtype, types, lifecycle, offset, limit) ELSE <<>>)}

GetAssociationsBySubject(r, s, rtype, types, lifecycle, offset, limit) ==
  GetAssociations(r, r.bySubject, s, rtype, types, lifecycle, offset, limit)

GetAssociationsByResourceID(r, rid, rtype, types, lifecycle, offset, limit) ==
  GetAssociations(r, r.byResource, rid, rtype, types, lifecycle, offset, limit)

\* The first equal association leaves the list, an empty list leaves the map.
removeAssociationFromMap(f, k, a) ==
  LET list == IF k \in DOMAIN f THEN f[k] ELSE <<>>
      at == {i \in DOMAIN list : list[i] = a}
      rest == IF at = {} THEN list
              ELSE SubSeq(list, 1, Min(at) - 1) \o SubSeq(list, Min(at) + 1, Len(list))
  IN IF rest = <<>> THEN Without(f, {k}) ELSE Put(f, k, rest)

checkDeleteAssociation(a, cascade) == cascade \/ a.lifecycle # "STRONG" \/ ~a.frozen

\* A strong association takes its subject along when the lifecycle cascades.
deleteAssociation(r, a, cascade) ==
  LET gone == IF cascade /\ a.lifecycle = "STRONG"
              THEN deleteSubject(deleteSubject(r, a.subject, FALSE).reg, a.subject, TRUE).reg
              ELSE r
  IN [gone EXCEPT !.bySubject = removeAssociationFromMap(@, a.subject, a),
                  !.byResource = removeAssociationFromMap(@, a.rid, a),
                  !.byType = Without(@, {<<a.rid, a.atype>>})]

\* Every association is checked before the first is deleted.
DeleteAssociations(r, rid, rtype, types, cascade) ==
  LET list == IF rid \in DOMAIN r.byResource
              THEN applyFilter(r.byResource[rid], rtype, types, "", 0, -1) ELSE <<>>
  IN IF \A i \in DOMAIN list : checkDeleteAssociation(list[i], cascade)
     THEN {Ok(InTurn(LAMBDA acc, a : deleteAssociation(acc, a, cascade), r, list), <<>>)}
     ELSE {Fail(r, <<>>)}
=============================================================================
