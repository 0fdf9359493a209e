---------------------------- MODULE DekRegistry ----------------------------
(***************************************************************************)
(* The clients of the DEK registry: rules/encryption/deks/                 *)
(* dekregistry_client.go with its two caches, and the mock client.  The    *)
(* registry is external; for one key encryption key (KEK) and one subject  *)
(* it holds the KEK and the versions of the data key (DEK).  Each call is  *)
(* a look at the cache under the read lock, then one step under the write  *)
(* lock, during which the request is made.                                 *)
(***************************************************************************)
EXTENDS Naturals, Integers, Sequences, TLC

CONSTANT None

\* An answer: a KEK or DEK, or an error with its code.
Found(value) == [code |-> 200, value |-> value]
Failed(code) == [code |-> code, value |-> None]

\* A request may fail before the registry sees it, or its answer may be lost.
Faults == {"ok", "error", "lost"}

Latest == -1
Kek(kmsType, id, alternates, shared) == [type |-> kmsType, id |-> id, alternates |-> alternates, shared |-> shared]

-----------------------------------------------------------------------------
(* The registry: reg.kek, and reg.deks by version.                          *)
Visible(reg, deleted) == {v \in 1 .. Len(reg.deks) : deleted \/ ~reg.deks[v].deleted}
ServeKek(reg) == IF reg.kek = None THEN Failed(404) ELSE Found(reg.kek)
ServeDek(reg, version, deleted) ==
  LET vs == Visible(reg, deleted)
      v == IF version = Latest /\ vs # {} THEN CHOOSE w \in vs : \A x \in vs : x <= w ELSE version
  IN IF v \in vs THEN Found(reg.deks[v]) ELSE Failed(404)

\* A name or a version that is taken is a conflict; a shared KEK lets the
\* registry make the key itself, which it hands out in the clear.
StoreKek(reg, kek) ==
  IF reg.kek # None THEN [reg |-> reg, answer |-> Failed(409)]
  ELSE [reg |-> [reg EXCEPT !.kek = kek], answer |-> Found(kek)]
Dek(reg, version, enc, now) ==
  [version |-> version, enc |-> enc, material |-> IF reg.kek.shared THEN [raw |-> <<"registry", version>>] ELSE None,
   ts |-> now, deleted |-> FALSE]
StoreDek(reg, version, enc, now) ==
  IF version # Len(reg.deks) + 1 THEN [reg |-> reg, answer |-> Failed(409)]
  ELSE LET dek == Dek(reg, version, enc, now)
       IN [reg |-> [reg EXCEPT !.deks = Append(@, dek)], answer |-> Found(dek)]

\* A request that fails, or whose answer is lost.
Request(served, reg, fault) ==
  CASE fault = "ok" -> served
    [] fault = "error" -> [reg |-> reg, answer |-> Failed(500)]
    [] fault = "lost" -> [reg |-> served.reg, answer |-> Failed(500)]
Query(answer, reg, fault) == Request([reg |-> reg, answer |-> answer], reg, fault)

-----------------------------------------------------------------------------
(* client: what a call does once it holds the write lock and has looked     *)
(* again, to a cache and the registry.                                      *)
Put(cache, key, value) == (key :> value) @@ cache
Delete(cache, keys) == [k \in DOMAIN cache \ keys |-> cache[k]]
Done(cache, req) == [cache |-> cache, reg |-> req.reg, answer |-> req.answer]

\* (PutAnyway: what was asked for is cached whatever the answer.)
PutAnyway(cache, key, req, made) == IF req.answer.code = 500 /\ made # None THEN Put(cache, key, made) ELSE cache
PutFound(cache, key, req, made) == IF req.answer.code = 200 THEN Put(cache, key, req.answer.value) ELSE cache

GetKek(cache, reg, deleted, fault) ==
  LET req == Query(ServeKek(reg), reg, fault)
  IN Done(PutFound(cache, deleted, req, None), req)

RegisterKek(cache, reg, kek, fault) ==
  LET req == Request(StoreKek(reg, kek), reg, fault)
  IN Done(PutFound(cache, FALSE, req, kek), req)

GetDekVersion(cache, reg, version, deleted, fault) ==
  LET req == Query(ServeDek(reg, version, deleted), reg, fault)
  IN Done(PutFound(cache, <<version, deleted>>, req, None), req)
\* createDek(): a registry without the newer endpoint answers 405.
createDek(reg, version, enc, now, fault) ==
  LET newer == IF reg.old THEN [reg |-> reg, answer |-> Failed(405)]
               ELSE Request(StoreDek(reg, version, enc, now), reg, fault)
  IN IF newer.answer.code = 405 THEN Request(StoreDek(reg, version, enc, now), reg, fault) ELSE newer

\* The latest DEK is forgotten in any case.  (KeepLatest: only if one was made.)
KeepLatest(cache, req) == IF req.answer.code = 200 THEN Delete(cache, {<<Latest, FALSE>>, <<Latest, TRUE>>}) ELSE cache
ForgetLatest(cache, req) == Delete(cache, {<<Latest, FALSE>>, <<Latest, TRUE>>})
RegisterDekVersion(cache, reg, version, enc, now, fault) ==
  LET req == createDek(reg, version, enc, now, fault)
  IN Done(ForgetLatest(PutFound(cache, <<version, FALSE>>, req, None), req), req)
-----------------------------------------------------------------------------
(* mockclient: the two maps, which all mock clients share, are the registry.*)
(* The locked step of a registration does not look again.                   *)
MockRegisterKek(reg, kek) == [reg |-> [reg EXCEPT !.kek = kek], answer |-> Found(kek)]
MockRegisterDekVersion(reg, version, enc, now) ==
  LET dek == [version |-> version, enc |-> enc, material |-> None, ts |-> now, deleted |-> FALSE]
  IN [reg |-> [reg EXCEPT !.deks = [v \in 1 .. IF version > Len(@) THEN version ELSE Len(@) |->
                                     IF v = version THEN dek ELSE @[v]]],
      answer |-> Found(dek)]
MockGetKek(reg) == ServeKek(reg)
MockGetDekVersion(reg, version, deleted) == ServeDek(reg, version, deleted)
MockClose(reg) == [reg EXCEPT !.kek = None, !.deks = <<>>]
=============================================================================
