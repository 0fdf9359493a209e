----------------------------- MODULE Encryption -----------------------------
(***************************************************************************)
(* The encryption rules of schemaregistry/rules/encryption: goroutines     *)
(* encrypt and decrypt values with the DEK of a subject, which they find,  *)
(* create and rotate in the DEK registry and unwrap with a KMS.            *)
(***************************************************************************)
EXTENDS DekRegistry, KmsDrivers, FiniteSets

CONSTANTS
  Goroutines,
  UseNames, Use(_),  \* the uses made of the executor: see UseFields
  MaxCalls,          \* of Transform() by each goroutine
  MaxTime

\* A use says who shares a client, what the rule's parameters are, what the
\* registry holds at first, and what may go wrong.
UseFields == {"client", "rule", "kek", "old", "conf", "deletes", "evicts", "faults", "kms", "goroutines", "values"}
ASSUME EncryptionConstants ==
  /\ MaxCalls \in Nat /\ MaxTime \in Nat
  /\ \A u \in UseNames : DOMAIN Use(u) = UseFields /\ Use(u).goroutines \subseteq Goroutines

VARIABLES
  use,
  now,            \* the clock, of the clients and of the registry
  reg,            \* the registry
  kekCache, dekCache,  \* of the clients
  kmsClients,     \* Tink's list of KMS clients
  call,           \* the goroutines' calls of Transform()
  sent            \* the values they have encrypted

vars == <<use, now, reg, kekCache, dekCache, kmsClients, call, sent>>

U == Use(use)
Rule == U.rule
Mock == U.client = "mock"
Client(g) == IF U.client = "two" THEN g ELSE "shared"

-----------------------------------------------------------------------------
(* The rule's parameters.                                                   *)
getKekName(rule) == IF rule.kekName \in {"missing", "empty"} THEN None ELSE rule.kekName

\* Atoi(), and nothing below zero; an error is -1.
getDekExpiryDays(rule) ==
  CASE rule.expiry \in {"missing", "0"} -> 0
    [] rule.expiry = "1" -> 1
    [] rule.expiry \in {"-1", "x"} -> -1

getCryptor(rule) == [format |-> IF rule.algorithm = "missing" THEN "AES256_GCM" ELSE rule.algorithm,
                     template |-> rule.algorithm \in {"missing", "AES128_GCM", "AES256_GCM", "AES256_SIV"}]

isDekRotated == getDekExpiryDays(Rule) > 0

MillisInDay == 2    \* a day is two ticks of the clock
isExpired(mode, dek, at) ==
  /\ mode # "Read" /\ isDekRotated /\ dek # None
  /\ (at - dek.ts) \div MillisInDay >= getDekExpiryDays(Rule)

\* The version goes in front of the ciphertext: a magic byte and four more.
prefixVersion(version) ==
  <<0, (version \div 16777216) % 256, (version \div 65536) % 256, (version \div 256) % 256, version % 256>>
extractVersion(bytes) ==
  IF bytes[1] # 0 THEN None ELSE bytes[2] * 16777216 + bytes[3] * 65536 + bytes[4] * 256 + bytes[5]

\* Strings and bytes can be encrypted, and a string stays one (base64).
toBytes(type) == IF type \in {"string", "bytes"} THEN type ELSE None

getKmsKeyIDs(conf, kek) ==
  LET alternates == IF kek.alternates # None THEN kek.alternates ELSE IF conf # None THEN conf ELSE <<>>
  IN <<kek.id>> \o SelectSeq(alternates, LAMBDA id : id # <<>>)

\* AeadWrapper: the key ids in turn, until one's KMS client can be made ("none"
\* if not) and its key does the work ("fails" if not).
AeadWrapper(kek, how, op, enc) ==
  FoldLeft(LAMBDA acc, id :
             IF acc.key # None \/ how[id] = "none" THEN acc
             ELSE LET aead == getAead(acc.clients, kek.type, id)
                  IN [id |-> id, clients |-> aead.clients,
                      key |-> IF how[id] = "ok" /\ (op = "decrypt" => enc # None /\ enc.by = aead.key)
                              THEN aead.key ELSE None],
           [id |-> None, clients |-> kmsClients, key |-> None], getKmsKeyIDs(U.conf, kek))
Encrypt(kek, how) == AeadWrapper(kek, how, "encrypt", None)
Decrypt(kek, enc, how) == AeadWrapper(kek, how, "decrypt", enc)

-----------------------------------------------------------------------------
(* A call of Transform(): where it is, and what it knows.                   *)
NoCall == [at |-> "idle", locked |-> FALSE, mode |-> "Write", type |-> "bytes", msg |-> None, began |-> 0,
           kek |-> None, dek |-> None, enc |-> None, found |-> 0, fault |-> FALSE, n |-> 0, out |-> "none", value |-> None]

Init ==
  /\ use \in UseNames
  /\ now = 0
  /\ reg = [kek |-> U.kek, deks |-> <<>>, old |-> U.old]
  /\ kekCache = [c \in Goroutines \cup {"shared"} |-> <<>>]
  /\ dekCache = [c \in Goroutines \cup {"shared"} |-> <<>>]
  /\ kmsClients = <<>>
  /\ call = [g \in Goroutines |-> NoCall]
  /\ sent = {}

\* Of a call that has returned, only what a read found matters.
Return(s, out, value) ==
  IF s.mode = "Write" THEN [NoCall EXCEPT !.n = s.n, !.out = out]
  ELSE [NoCall EXCEPT !.mode = "Read", !.msg = s.msg, !.fault = s.fault, !.n = s.n, !.out = out, !.value = value]
Error(s) == Return(s, "error", None)
At(s, at) == [s EXCEPT !.at = at, !.locked = FALSE]

Set(g, s) == call' = [call EXCEPT ![g] = s] /\ UNCHANGED use

\* NewTransform() reads the parameters.
NewTransform(g, mode, type, msg) ==
  /\ call[g].at = "idle" /\ call[g].n < MaxCalls /\ g \in U.goroutines
  /\ LET s == [NoCall EXCEPT !.mode = mode, !.type = type, !.msg = msg, !.began = now, !.n = call[g].n + 1]
     IN Set(g, IF getKekName(Rule) = None \/ getDekExpiryDays(Rule) = -1 THEN Error(s) ELSE At(s, "kek"))
  /\ UNCHANGED <<now, reg, kekCache, dekCache, kmsClients, sent>>

\* The KEK is the one of the rule, if the rule names its KMS and its key; then
\* Transform() looks at the value: nothing, or of a type it leaves alone.
KekTaken(s, kek) ==
  CASE (Rule.kmsType # None /\ Rule.kmsType # kek.type) \/ (Rule.kmsKeyID # None /\ Rule.kmsKeyID # kek.id) -> Error(s)
    [] s.type = "nil" -> Return(s, "ok", None)
    [] toBytes(s.type) = None -> IF s.mode = "Write" THEN Error(s) ELSE Return(s, "unchanged", None)
    [] OTHER -> At([s EXCEPT !.kek = kek], "dek")

\* The version looked for: the latest if keys are rotated, or the message's own.
Version(s) == IF ~isDekRotated THEN 1 ELSE IF s.mode = "Write" THEN Latest ELSE extractVersion(s.msg.prefix)
\* Readers see deleted keys.
Deleted(s) == s.mode = "Read"
newVersion(s) == IF s.dek # None THEN s.dek.version + 1 ELSE 1

\* getOrCreateKek(), getOrCreateDek() and createDek(): what an answer of the
\* registry leads to.  (OwnDek: a conflict is taken for success.)
OwnDek(s) == [version |-> newVersion(s), enc |-> s.enc, material |-> None, ts |-> now, deleted |-> FALSE]
Conflict(s, answer) ==
  CASE answer.code = 200 -> At([s EXCEPT !.dek = answer.value], "unwrap")
    [] answer.code = 409 -> At([s EXCEPT !.dek = OwnDek(s)], "unwrap")
    [] OTHER -> At(s, "dekAgain")
Stored(s, answer) ==
  IF answer.code = 200 THEN At([s EXCEPT !.dek = answer.value], "unwrap") ELSE At(s, "dekAgain")

Answered(s, answer) ==
  LET ok == answer.code = 200
  IN CASE s.at = "kek" /\ ~ok ->
            IF s.mode = "Read" \/ Rule.kmsType = None \/ Rule.kmsKeyID = None THEN Error(s) ELSE At(s, "kekStore")
       [] s.at = "kekStore" /\ ~ok -> At(s, "kekAgain")
       [] s.at = "kekAgain" /\ ~ok -> Error(s)
       [] s.at \in {"kek", "kekStore", "kekAgain"} /\ ok -> KekTaken(s, answer.value)
       [] s.at = "dek" -> IF ok THEN At([s EXCEPT !.dek = answer.value, !.found = answer.value.version], "expiry")
                          ELSE IF answer.code = 404 THEN At(s, "expiry") ELSE Error(s)
       [] s.at = "dekStore" -> Stored(s, answer)
       [] s.at = "dekAgain" -> IF ok THEN At([s EXCEPT !.dek = answer.value], "unwrap")
                               ELSE IF s.dek = None THEN Error(s) ELSE At(s, "unwrap")

-----------------------------------------------------------------------------
(* The calls of the registry client: a look at the cache, then the locked   *)
(* step.  retrieve*FromRegistry() and store*ToRegistry() choose the call.   *)
KekCall(s) == s.at \in {"kek", "kekStore", "kekAgain"}
DekCall(s) == s.at \in {"dek", "dekStore", "dekAgain"}
Storing(s) == s.at \in {"kekStore", "dekStore"}
Key(s) ==
  IF KekCall(s) THEN Deleted(s) ELSE IF Storing(s) THEN <<newVersion(s), FALSE>> ELSE <<Version(s), Deleted(s)>>
Cache(g) == IF KekCall(call[g]) THEN kekCache[Client(g)] ELSE dekCache[Client(g)]
NewKek == Kek(Rule.kmsType, Rule.kmsKeyID, None, FALSE)

\* The mock client reads the shared maps; the others their cache.
Seen(g) ==
  LET s == call[g]
  IN IF ~Mock THEN IF Key(s) \in DOMAIN Cache(g) THEN Found(Cache(g)[Key(s)]) ELSE Failed(404)
     ELSE IF KekCall(s) THEN MockGetKek(reg) ELSE MockGetDekVersion(reg, Key(s)[1], Key(s)[2])

Look(g) ==
  LET s == call[g]
  IN /\ (KekCall(s) \/ DekCall(s)) /\ ~s.locked
     /\ Set(g, IF Seen(g).code = 200 \/ (Mock /\ ~Storing(s)) THEN Answered(s, Seen(g)) ELSE [s EXCEPT !.locked = TRUE])
     /\ UNCHANGED <<now, reg, kekCache, dekCache, kmsClients, sent>>

Locked(g, fault) ==
  LET s == call[g]
      served == CASE s.at \in {"kek", "kekAgain"} -> GetKek(Cache(g), reg, Key(s), fault)
                  [] s.at = "kekStore" -> RegisterKek(Cache(g), reg, NewKek, fault)
                  [] s.at \in {"dek", "dekAgain"} -> GetDekVersion(Cache(g), reg, Key(s)[1], Key(s)[2], fault)
                  [] s.at = "dekStore" -> RegisterDekVersion(Cache(g), reg, Key(s)[1], s.enc, now, fault)
      done == IF Seen(g).code = 200 THEN [cache |-> Cache(g), reg |-> reg, answer |-> Seen(g)] ELSE served
  IN /\ s.locked /\ ~Mock
     /\ Set(g, Answered([s EXCEPT !.fault = @ \/ fault # "ok"], done.answer))
     /\ reg' = done.reg
     /\ IF KekCall(s) THEN kekCache' = [kekCache EXCEPT ![Client(g)] = done.cache] /\ UNCHANGED dekCache
                      ELSE dekCache' = [dekCache EXCEPT ![Client(g)] = done.cache] /\ UNCHANGED kekCache
     /\ UNCHANGED <<now, kmsClients, sent>>

\* A registration of the mock client.
MockLocked(g) ==
  LET s == call[g]
      done == IF KekCall(s) THEN MockRegisterKek(reg, NewKek) ELSE MockRegisterDekVersion(reg, newVersion(s), s.enc, now)
  IN /\ s.locked /\ Mock
     /\ Set(g, Answered(s, done.answer)) /\ reg' = done.reg
     /\ UNCHANGED <<now, kekCache, dekCache, kmsClients, sent>>

-----------------------------------------------------------------------------
(* The rest of getOrCreateDek() and Transform().                            *)
\* There is no key, or it is too old.
Expiry(g) ==
  LET s == call[g]
  IN /\ s.at = "expiry"
     /\ Set(g, IF s.dek # None /\ ~isExpired(s.mode, s.dek, now) THEN At(s, "unwrap")
               ELSE IF s.mode = "Read" THEN Error(s)
               ELSE IF s.kek.shared THEN At(s, "dekStore") ELSE At(s, "wrap"))
     /\ UNCHANGED <<now, reg, kekCache, dekCache, kmsClients, sent>>

Hows(kek) == LET ids == getKmsKeyIDs(U.conf, kek) IN [{ids[i] : i \in DOMAIN ids} -> U.kms]
Faulty(how) == \E id \in DOMAIN how : how[id] # "ok"

\* A new key, wrapped by the KMS.
Wrap(g, how) ==
  LET s == [call[g] EXCEPT !.fault = @ \/ Faulty(how)]
      done == Encrypt(s.kek, how)
  IN /\ s.at = "wrap"
     /\ IF ~getCryptor(Rule).template THEN Set(g, Error(s)) /\ UNCHANGED kmsClients
        ELSE /\ kmsClients' = done.clients
             /\ Set(g, IF done.key = None THEN Error(s)
                       ELSE At([s EXCEPT !.enc = [raw |-> <<g, s.n>>, id |-> done.id, by |-> done.key]], "dekStore"))
     /\ UNCHANGED <<now, reg, kekCache, dekCache, sent>>

\* The value, encrypted under a raw key, behind its version if keys are rotated.
Ciphertext(s, raw, value) ==
  [value |-> value, type |-> s.type, raw |-> raw, prefix |-> IF isDekRotated THEN prefixVersion(s.dek.version) ELSE <<>>]

\* A DEK's raw key: the key material it came with or that was unwrapped and set.
RawOf(dek) == IF dek.material # None THEN dek.material.raw ELSE dek.enc.raw

\* The key of the DEK, in the clear or unwrapped, and what it is used for; an
\* algorithm without a template is a nil pointer here.
Unwrap(g, how) ==
  LET s == [call[g] EXCEPT !.fault = @ \/ (call[g].dek.material = None /\ Faulty(how))]
      clear == s.dek.material # None
      done == Decrypt(s.kek, s.dek.enc, how)
      raw == RawOf(s.dek)
  IN /\ s.at = "unwrap"
     /\ kmsClients' = IF clear THEN kmsClients ELSE done.clients
     /\ IF ~clear /\ done.key = None THEN Set(g, Error(s)) /\ UNCHANGED sent
        ELSE IF ~getCryptor(Rule).template THEN Set(g, Return(s, "panic", None)) /\ UNCHANGED sent
        ELSE IF s.mode = "Write"
        THEN /\ sent' = sent \cup {Ciphertext(s, raw, <<g, s.n>>)}
             /\ Set(g, Return(s, "ok", None))
        ELSE /\ Set(g, IF raw = s.msg.raw THEN Return(s, "ok", s.msg.value) ELSE Error(s))
             /\ UNCHANGED sent
     /\ UNCHANGED <<now, reg, kekCache, dekCache>>

-----------------------------------------------------------------------------
(* The clock, the registry's administrator, the caches' capacity, and        *)
(* Close(), which empties the mock's maps.                                   *)
Tick ==
  /\ now < MaxTime /\ isDekRotated
  /\ now' = now + 1
  /\ UNCHANGED <<use, reg, kekCache, dekCache, kmsClients, call, sent>>

SoftDelete(v) ==
  /\ U.deletes /\ ~reg.deks[v].deleted
  /\ reg' = [reg EXCEPT !.deks[v].deleted = TRUE]
  /\ UNCHANGED <<use, now, kekCache, dekCache, kmsClients, call, sent>>

Evict(c) ==
  /\ U.evicts
  /\ \/ \E k \in DOMAIN kekCache[c] : kekCache' = [kekCache EXCEPT ![c] = Delete(@, {k})] /\ UNCHANGED dekCache
     \/ \E k \in DOMAIN dekCache[c] : dekCache' = [dekCache EXCEPT ![c] = Delete(@, {k})] /\ UNCHANGED kekCache
  /\ UNCHANGED <<use, now, reg, kmsClients, call, sent>>

Close ==
  /\ Mock /\ \A g \in Goroutines : call[g].at = "idle"
  /\ reg' = MockClose(reg) /\ sent' = {}
  /\ UNCHANGED <<use, now, kekCache, dekCache, kmsClients, call>>

\* A value to write, one that was written, or one that the rules leave alone.
Transform(g) ==
  \/ \E type \in U.values : NewTransform(g, "Write", type, None)
  \/ \E msg \in sent : NewTransform(g, "Read", msg.type, msg)
  \/ \E type \in U.values \ {"string", "bytes"} : NewTransform(g, "Read", type, None)

Next ==
  \/ \E g \in Goroutines :
       \/ Transform(g)
       \/ Look(g) \/ (\E fault \in U.faults : Locked(g, fault)) \/ MockLocked(g)
       \/ Expiry(g)
       \/ call[g].at = "wrap" /\ \E how \in Hows(call[g].kek) : Wrap(g, how)
       \/ call[g].at = "unwrap" /\ \E how \in Hows(call[g].kek) : Unwrap(g, how)
  \/ Tick \/ Close
  \/ \E v \in DOMAIN reg.deks : SoftDelete(v)
  \/ \E c \in DOMAIN kekCache : Evict(c)

Spec == Init /\ [][Next]_vars

-----------------------------------------------------------------------------
Steps == {"idle", "kek", "kekStore", "kekAgain", "dek", "expiry", "wrap", "dekStore", "dekAgain", "unwrap"}

\* Types; a goroutine is at one of the steps of getOrCreateKek and getOrCreateDek.
TypeOK ==
  /\ now \in 0 .. MaxTime
  /\ \A g \in Goroutines :
       /\ call[g].at \in Steps
       /\ call[g].out \in {"none", "ok", "unchanged", "error", "panic"}
       /\ call[g].at \in {"wrap", "unwrap"} => call[g].kek # None
       /\ call[g].at = "unwrap" => call[g].dek # None
  /\ \A v \in DOMAIN reg.deks : reg.deks[v].version = v

\* Whatever the writers' order, whoever lost the race to create a key and
\* whatever answer was lost: the key that a value is encrypted with is the one
\* the registry holds under the version that a reader will ask for.
Decryptable ==
  \A msg \in sent :
    LET v == IF isDekRotated THEN extractVersion(msg.prefix) ELSE 1
    IN v \in DOMAIN reg.deks /\ RawOf(reg.deks[v]) = msg.raw

\* A read of what was written that met no fault returns the value written, even
\* after its key was deleted (getOrCreateDek's Deleted: isRead).
ReadSucceeds ==
  \A g \in Goroutines : LET s == call[g] IN
    (s.out # "none" /\ s.mode = "Read" /\ s.msg # None /\ s.msg \in sent /\ ~s.fault) =>
      s.out = "ok" /\ s.value = s.msg.value

\* What was written can be read, now and after its key was deleted.
Readable == TypeOK /\ Decryptable /\ ReadSucceeds

\* A writer that meets no fault never goes on with the expired key it found: it
\* creates the next one, or takes the one another writer created, although its
\* cache named the old one as the latest (RegisterDekVersion forgets that).
KeyMovesOn ==
  \A g \in Goroutines : LET s == call[g] IN
    (s.at = "unwrap" /\ isExpired(s.mode, s.dek, s.began) /\ ~s.fault /\ ~U.deletes) => s.dek.version > s.found

\* A version is added only once the one before has expired, however many writers
\* see it expire, and none is added if keys are not rotated.
RotationPaced ==
  \A v \in 2 .. Len(reg.deks) :
    isDekRotated /\ reg.deks[v].ts - reg.deks[v - 1].ts >= getDekExpiryDays(Rule) * MillisInDay

\* Keys are rotated when, and only when, they expire.
Rotates == KeyMovesOn /\ RotationPaced

\* A cached KEK is the registry's, and a cached DEK of some version is that
\* version's, whatever happened to the requests that put them there.
CacheTrue ==
  \A c \in DOMAIN kekCache :
    /\ \A k \in DOMAIN kekCache[c] : kekCache[c][k] = reg.kek
    /\ \A k \in DOMAIN dekCache[c] :
         LET dek == dekCache[c][k]
         IN /\ k[1] # Latest => dek.version = k[1]
            /\ dek.version \in DOMAIN reg.deks /\ [dek EXCEPT !.deleted = FALSE] = [reg.deks[dek.version] EXCEPT !.deleted = FALSE]

\* A key is wrapped under the KMS key whose id was tried, also if the client that
\* serves it was made for another key, whose URL is a prefix.
RightKmsKey ==
  \A v \in DOMAIN reg.deks : (reg.deks[v].enc # None /\ reg.kek.type # "local") => reg.deks[v].enc.by = reg.deks[v].enc.id

\* The settings each driver reads, those that are explicit credentials, and what
\* it may find around it.
DriverOptions ==
  [aws |-> {"access.key.id", "secret.access.key", "profile", "role.arn"}, azure |-> {"tenant.id", "client.id", "client.secret"},
   gcp |-> {"client.id", "client.email", "private.key.id", "private.key"},
   hcvault |-> {"token.id", "approle.role.id", "approle.secret.id"}, local |-> {"secret"}]
Explicit == [aws |-> {"access.key.id", "secret.access.key"}, azure |-> {"tenant.id", "client.id", "client.secret"},
             gcp |-> {"client.id", "client.email", "private.key.id", "private.key"}, hcvault |-> {"token.id"}, local |-> {"secret"}]
Envs == {{}, {"region", "profileLoads", "credsValid", "defaultCreds", "login"}, {"defaultCreds", "AWS_WEB_IDENTITY_TOKEN_FILE"}}

\* Explicit credentials are used if they are complete, and never in part: a
\* driver falls back on defaults or fails (NewKMSClient of each driver).
CredentialsWhole ==
  (now = 0 /\ sent = {}) => \A kms \in KmsTypes : \A conf \in SUBSET DriverOptions[kms], env \in Envs :
    LET creds == NewKMSClient(kms, conf, env)
    IN creds = {"error"} \/ ("static" \in creds <=> Explicit[kms] \subseteq conf)

\* The keys in use are the registry's, wrapped under the KMS key they name with
\* the credentials the configuration gives.
KeysRight == CacheTrue /\ RightKmsKey /\ CredentialsWhole
=============================================================================
