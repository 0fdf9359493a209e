------------------------------- MODULE Serdes -------------------------------
(***************************************************************************)
(* Serializers and deserializers at work, from src/schemaregistry/serde:   *)
(* SerializeWithHeaders and deserialize of avrov2/avro.go,                 *)
(* jsonschema/json_schema.go and protobuf/protobuf.go over the base of     *)
(* serde.go, and the older avro/avro_generic.go and avro_specific.go,      *)
(* which have no rules.                                                    *)
(***************************************************************************)
EXTENDS RuleExecution

(***************************************************************************)
(* Protobuf: where a message is in its file.  A file is a sequence of      *)
(* [name, nested]; a descriptor is [index, parent].                        *)
(***************************************************************************)
RECURSIVE toMessageIndexes(_)
toMessageIndexes(desc) ==
  IF desc.parent = None THEN <<desc.index>> ELSE Append(toMessageIndexes(desc.parent), desc.index)
toMessageIndexArray(desc) == IF desc.index = 0 /\ desc.parent = None THEN <<0>> ELSE toMessageIndexes(desc)

toMessageName(messages, name) == IF \E i \in 1..Len(messages) : messages[i].name = name THEN name ELSE messages[1].name

RECURSIVE toMessageDesc(_, _)
toMessageDesc(messages, indexes) ==
  LET m == messages[indexes[1] + 1] IN IF Len(indexes) = 1 THEN m.name ELSE toMessageDesc(m.nested, Tail(indexes))

(***************************************************************************)
(* SerializeWithHeaders                                                    *)
(***************************************************************************)
\* nil is written as a record without a payload.
Enter(c, o, pc, todo) ==
  /\ calls[c].pc \in {"idle", "done", "failed"}
  /\ objects' = [objects EXCEPT ![o].sent = TRUE]
  /\ IF objects[o].content = None
     THEN /\ log' = Append(log, [headers |-> <<>>, payload |-> <<>>, object |-> o, schema |-> 0])
          /\ Set(c, [Idle EXCEPT !.pc = "done"])
     ELSE Set(c, [Idle EXCEPT !.pc = pc, !.object = o, !.todo = todo]) /\ UNCHANGED log
  /\ UNCHANGED <<use, versions, files, reg, built, types>>

\* The program serializes a message once, since its fields may be encrypted
\* afterwards, except with Protobuf.
SerializeAvro(c, o) == use.format = "avro" /\ ~objects[o].sent /\ Enter(c, o, "id", <<>>)
SerializeJSON(c, o) == use.format = "json" /\ ~objects[o].sent /\ Enter(c, o, "id", <<>>)

\* A Protobuf schema that is not looked up is derived from the message, with
\* the files it imports.
Derives(c) == use.pick \in {"auto", "lookup"} /\ c \notin files.cached
SerializeProto(c, o) ==
  /\ use.format = "proto"
  /\ objects[o].sent => Len(log) < use.writes
  /\ IF Derives(c) THEN Enter(c, o, "deps", Below(use.schemas[use.derived[c]].files, "main")) ELSE Enter(c, o, "id", <<>>)

SerializeGeneric(c, o) == use.format = "generic" /\ ~objects[o].sent /\ Enter(c, o, "id", <<>>)
SerializeSpecific(c, o) == use.format = "specific" /\ ~objects[o].sent /\ Enter(c, o, "id", <<>>)

\* resolveDependencies for one file: it is registered or looked up, with the
\* versions of the files that it imports.
FileInfo(c) ==
  LET own == use.schemas[use.derived[c]].files
      f == Head(calls[c].todo)
  IN [text |-> toDependencies(own, "main")[f], refs |-> References(own, f, calls[c].found)]

RegisterFile(c) ==
  LET call == calls[c]
      f == Head(call.todo)
      known == GetVersion(files.subjects[f], FileInfo(c)) # 0
  IN /\ call.pc = "deps" /\ call.todo # <<>>
     /\ files' = IF known \/ use.pick = "lookup" THEN files ELSE [files EXCEPT !.subjects[f] = Append(@, FileInfo(c))]
     /\ Set(c, IF known \/ use.pick = "auto" THEN [call EXCEPT !.pc = "version"] ELSE Ends(c, "failed"))
     /\ UNCHANGED <<use, versions, reg, built, objects, types, log>>

\* Mutant: the latest version of the file.
LatestFile(c) ==
  LET call == calls[c]
      f == Head(call.todo)
  IN /\ call.pc = "version"
     /\ Set(c, [call EXCEPT !.pc = "deps", !.todo = Tail(@), !.found = (f :> Len(files.subjects[f])) @@ @])
     /\ UNCHANGED <<use, versions, files, reg, built, objects, types, log>>

\* Its version is asked for in a second request.
FileVersion(c) ==
  LET call == calls[c]
      f == Head(call.todo)
  IN /\ call.pc = "version"
     /\ Set(c, [call EXCEPT !.pc = "deps", !.todo = Tail(@), !.found = (f :> GetVersion(files.subjects[f], FileInfo(c))) @@ @])
     /\ UNCHANGED <<use, versions, files, reg, built, objects, types, log>>

\* getSchemaInfo: all imports are known; the schema may be cached.
getSchemaInfo(c) ==
  LET call == calls[c]
      refs == References(use.schemas[use.derived[c]].files, "main", call.found)
  IN /\ call.pc = "deps" /\ call.todo = <<>>
     /\ files' = IF use.cache THEN [files EXCEPT !.cached = @ \cup {c}] ELSE files
     /\ Set(c, [call EXCEPT !.pc = "id", !.refs = refs])
     /\ UNCHANGED <<use, versions, reg, built, objects, types, log>>

\* GetSchemaID: the schema and whether it is new to the registry.  The client
\* may have cached any version as the latest.
Finds(s, new) == [schema |-> s, new |-> new]
Latest(matching) == {Finds(versions[v], FALSE) : v \in {w \in 1..Len(versions) : matching \subseteq SchemaAt(w).props}}
GetSchemaID(c) ==
  LET own == use.derived[c]
  IN CASE use.pick = "auto" -> {Finds(own, ~Registered(own))}
       [] use.pick = "id" -> IF Registered(use.useID) THEN {Finds(use.useID, FALSE)} ELSE {}
       [] use.pick = "metadata" -> Latest(use.metadata)
       [] use.pick = "latest" -> Latest({})
       [] OTHER -> IF Registered(own) THEN {Finds(own, FALSE)} ELSE {}

WithoutRules == use.format \in {"generic", "specific"}

FindSchema(c) ==
  LET call == calls[c]
      id(s) == NewSchemaID(SchemaType, IDOf(s), GUIDOf(s))
  IN /\ call.pc = "id"
     /\ \/ /\ GetSchemaID(c) = {}
           /\ Set(c, Ends(c, "failed")) /\ UNCHANGED <<versions, files>>
        \/ \E f \in GetSchemaID(c) :
             /\ versions' = IF f.new THEN Append(versions, f.schema) ELSE versions
             /\ files' = IF f.new THEN [files EXCEPT !.refs[f.schema] = call.refs] ELSE files
             /\ Set(c, [call EXCEPT !.pc = IF WithoutRules THEN "write" ELSE "rule", !.stage = IF WithoutRules THEN "" ELSE "domain",
                                    !.schema = f.schema, !.target = f.schema, !.id = id(f.schema), !.rule = 1])
     /\ UNCHANGED <<use, reg, built, objects, types, log>>

\* The encoding of the message the rules left, and the rules for the bytes.
Marshal(c, ok, indexes) ==
  LET call == calls[c]
  IN /\ call.pc = "marshal"
     /\ Set(c, IF ~ok THEN Ends(c, "failed")
               ELSE [call EXCEPT !.pc = "rule", !.stage = "encoding", !.msg = Message(call), !.id.indexes = indexes])
     /\ UNCHANGED <<use, versions, files, reg, built, objects, types, log>>

OfSchema(call) == Message(call).shape = use.schemas[call.schema].shape
MarshalAvro(c) == use.format = "avro" /\ Marshal(c, OfSchema(calls[c]), <<>>)
MarshalJSON(c) == use.format = "json" /\ Marshal(c, use.validate => OfSchema(calls[c]), <<>>)
MarshalProto(c) == use.format = "proto" /\ Marshal(c, TRUE, toMessageIndexArray(use.desc))

\* SchemaIDSerializer, and the record reaches the topic.
Frame(c) ==
  LET call == calls[c]
      framed == IF use.framing = "header" THEN HeaderSchemaIDSerializer(use.side, <<call.msg>>, call.id)
                ELSE PrefixSchemaIDSerializer(use.side, <<call.msg>>, call.id)
  IN /\ call.pc = "frame"
     /\ log' = Append(log, [headers |-> framed.headers, payload |-> framed.payload, object |-> call.object, schema |-> call.schema])
     /\ Set(c, [Idle EXCEPT !.pc = "done"])
     /\ UNCHANGED <<use, versions, files, reg, built, objects, types>>

\* The older serializers encode the message with its own schema whichever ID
\* was found.
Write(c) ==
  LET call == calls[c]
  IN /\ call.pc = "write"
     /\ log' = Append(log, [headers |-> <<>>, payload |-> WriteBytes(call.id.id, <<Message(call)>>), object |-> call.object, schema |-> call.schema])
     /\ Set(c, [Idle EXCEPT !.pc = "done"])
     /\ UNCHANGED <<use, versions, files, reg, built, objects, types>>

(***************************************************************************)
(* deserialize                                                             *)
(***************************************************************************)
Deserialize(c, n) ==
  /\ calls[c].pc \in {"idle", "done", "failed"}
  /\ Set(c, [Idle EXCEPT !.pc = IF log[n].payload = <<>> THEN "done" ELSE "writer", !.record = n])
  /\ UNCHANGED <<use, versions, files, reg, built, objects, types, log>>

\* GetWriterSchema, by the ID or the GUID.
WriterOf(id) ==
  {s \in 1..Len(use.schemas) : Registered(s) /\ (IF id.id > 0 THEN IDOf(s) = id.id ELSE GUIDOf(s) = id.guid)}

WriterSchema(c) ==
  LET call == calls[c]
      r == log[call.record]
      from == DualSchemaIDDeserializer(use.side, r.headers, r.payload, NoSchemaID(SchemaType))
      writer == WriterOf(from.id)
      s == CHOOSE w \in writer : TRUE
  IN /\ call.pc = "writer" /\ ~WithoutRules
     /\ Set(c, IF from.read = -1 \/ writer = {} THEN Ends(c, "failed")
               ELSE [call EXCEPT !.pc = IF use.format = "proto" THEN "file" ELSE "rule", !.stage = "encoding", !.rule = 1,
                                 !.schema = s, !.target = s, !.id = from.id, !.msg = r.payload[from.read + 1]])
     /\ UNCHANGED <<use, versions, files, reg, built, objects, types, log>>

\* A Protobuf message is one of those in the file of the writer's schema.
WriterFile(c) ==
  LET call == calls[c]
      parsed == toFileDesc("deserializer", call.schema)
  IN /\ call.pc = "file"
     /\ files' = Caches(parsed)
     /\ Set(c, [call EXCEPT !.pc = "rule", !.texts = parsed.texts, !.name = toMessageDesc(use.schemas[call.schema].file, call.id.indexes)])
     /\ UNCHANGED <<use, versions, reg, built, objects, types, log>>

\* GetReaderSchema and GetMigrations.
VersionOf(s) == CHOOSE v \in 1..Len(versions) : versions[v] = s
ReaderSchema(c) ==
  LET call == calls[c]
      all == [v \in 1..Len(versions) |-> SchemaAt(v)]
      moves(s) == GetMigrations(all, VersionOf(call.schema), VersionOf(s))
      found == CASE use.read = "writer" -> {call.schema}
                 [] use.read = "metadata" -> {f.schema : f \in Latest(use.metadata)}
                 [] OTHER -> {f.schema : f \in Latest({})}
  IN /\ call.pc = "reader"
     /\ \/ found = {} /\ Set(c, Ends(c, "failed"))
        \/ \E s \in found : Set(c, [call EXCEPT !.target = s, !.migrations = moves(s), !.stage = "migrate", !.moved = moves(s) # <<>>,
                                                !.pc = IF moves(s) = <<>> THEN "decode" ELSE "rule"])
     /\ UNCHANGED <<use, versions, files, reg, built, objects, types, log>>

Decode(c, ok, name) ==
  LET call == calls[c]
  IN /\ call.pc = "decode"
     /\ Set(c, IF ok THEN [call EXCEPT !.pc = "rule", !.stage = "domain", !.rule = 1, !.name = name] ELSE Ends(c, "failed"))
     /\ UNCHANGED <<use, versions, reg, built, objects, types, log>>

\* Avro encodes a migrated message with the reader's schema, and resolves that
\* with the writer's for another.
OfTarget(call) == call.msg.shape = use.schemas[call.target].shape
DecodeAvro(c) == use.format = "avro" /\ Decode(c, OfTarget(calls[c]), "") /\ UNCHANGED files
DecodeJSON(c) == use.format = "json" /\ Decode(c, TRUE, "") /\ UNCHANGED files

\* Protobuf accepts a migrated message only if it has the fields of the reader's.
DecodeProto(c) ==
  LET call == calls[c]
  IN /\ use.format = "proto"
     /\ IF call.moved THEN /\ Decode(c, OfTarget(call), toMessageName(use.schemas[call.target].file, call.name))
                           /\ files' = Caches(toFileDesc("deserializer", call.target))
        ELSE Decode(c, TRUE, call.name) /\ UNCHANGED files

\* JSON is validated, against the schema of the writer.
Check(c) ==
  LET call == calls[c]
      valid == (use.format = "json" /\ use.validate) => call.msg.shape = use.schemas[call.schema].shape
  IN /\ call.pc = "check"
     /\ Set(c, Ends(c, IF valid THEN "done" ELSE "failed"))
     /\ UNCHANGED <<use, versions, files, reg, built, objects, types, log>>

\* The older deserializers: bytes that were not written with the schema that
\* they name may or may not be decoded, to something else.
Unmarshals(body, s) == IF body.shape = use.schemas[s].shape THEN {body} ELSE {None, [body EXCEPT !.shape = "lost"]}

\* The writer's schema has to be readable as that of the program's messages.
Compiles(body, s) == IF use.schemas[s].shape = use.schemas[1].shape THEN Unmarshals(body, s) ELSE {None}

Read(c, compiled) ==
  LET call == calls[c]
      r == log[call.record]
      id == GetSchema(r.payload)
      writer == WriterOf(NewSchemaID("", id, NilGUID))
      s == CHOOSE w \in writer : TRUE
      body == r.payload[6]
      outcomes == IF compiled THEN Compiles(body, s) ELSE Unmarshals(body, s)
  IN /\ call.pc = "writer"
     /\ IF id = -1 \/ writer = {} THEN Set(c, Ends(c, "failed"))
        ELSE \E m \in outcomes : Set(c, [call EXCEPT !.pc = IF m = None THEN "failed" ELSE "done", !.schema = s, !.target = s, !.msg = m])
     /\ UNCHANGED <<use, versions, files, reg, built, objects, types, log>>

ReadGeneric(c) == use.format = "generic" /\ Read(c, FALSE)
ReadSpecific(c) == use.format = "specific" /\ Read(c, TRUE)

(***************************************************************************)
(* What else happens: a version is registered, an override is registered,  *)
(* a serde is built.                                                       *)
(***************************************************************************)
RegisterVersion(s) ==
  /\ ~Registered(s) /\ Below(use.schemas[s].files, "main") = <<>> /\ \A t \in 2..(s - 1) : Registered(t)
  /\ versions' = Append(versions, s)
  /\ UNCHANGED <<use, files, reg, built, objects, types, calls, log>>

AddOverride(o) ==
  /\ o \notin reg.overrides
  /\ reg' = RegisterOverride(reg, o)
  /\ UNCHANGED <<use, versions, files, built, objects, types, calls, log>>

\* NewSerializer and NewDeserializer, one at a time: the executors they
\* configure have no lock.
NewSerde(conf) ==
  LET m == IF conf.settings = None THEN 0 ELSE Len(reg.maps) + 1
      given == IF m = 0 THEN reg ELSE [reg EXCEPT !.maps = Append(@, conf.settings)]
  IN /\ conf \notin {b.conf : b \in built}
     /\ \E r \in SetRuleRegistry(given, DOMAIN reg.encrypt, conf.client, m) :
          /\ reg' = r.reg
          /\ built' = built \cup {[conf |-> conf, ok |-> r.ok]}
     /\ UNCHANGED <<use, versions, files, objects, types, calls, log>>

Writer(c) ==
  \/ \E o \in DOMAIN objects :
       SerializeAvro(c, o) \/ SerializeJSON(c, o) \/ SerializeProto(c, o) \/ SerializeGeneric(c, o) \/ SerializeSpecific(c, o)
  \/ RegisterFile(c) \/ FileVersion(c) \/ getSchemaInfo(c)
  \/ FindSchema(c) \/ MarshalAvro(c) \/ MarshalJSON(c) \/ MarshalProto(c) \/ Frame(c) \/ Write(c)
Reader(c) ==
  \/ \E n \in 1..Len(log) : Deserialize(c, n)
  \/ WriterSchema(c) \/ WriterFile(c) \/ ReaderSchema(c)
  \/ DecodeAvro(c) \/ DecodeJSON(c) \/ DecodeProto(c) \/ Check(c)
  \/ ReadGeneric(c) \/ ReadSpecific(c)
RulesStep(c) ==
  \/ ExecuteRule(c) \/ VisitField(c) \/ LeaveFields(c)
  \/ LookAtTypes(c) \/ OriginalTypes(c) \/ NarrowTypes(c) \/ ValidateTypes(c) \/ RestoreTypes(c)

Next ==
  \/ \E c \in use.writers : Writer(c)
  \/ \E c \in use.readers : Reader(c)
  \/ \E c \in use.writers \cup use.readers : RulesStep(c)
  \/ \E s \in 2..Len(use.schemas) : RegisterVersion(s)
  \/ \E o \in use.overrides : AddOverride(o)
  \/ \E conf \in use.configs : NewSerde(conf)

Spec == Init /\ [][Next]_vars

-----------------------------------------------------------------------------
Stages == {"", "domain", "encoding", "migrate"}
Pcs == {"idle", "done", "failed", "panicked", "id", "rule", "visit", "types", "original", "narrow", "validate", "restore",
        "deps", "version", "marshal", "frame", "write", "writer", "file", "reader", "decode", "check"}

\* The shared state and the calls have their types.
TypeOK ==
  /\ \A v \in 1..Len(versions) : versions[v] \in 1..Len(use.schemas)
  /\ reg.executors = use.executors /\ reg.overrides \subseteq use.overrides
  /\ {b.conf : b \in built} \subseteq use.configs
  /\ \A serde \in DOMAIN types : DOMAIN types[serde] = DOMAIN use.types
  /\ \A c \in DOMAIN calls : calls[c].pc \in Pcs /\ calls[c].stage \in Stages /\ calls[c].record \in 0..Len(log)

Records == {n \in 1..Len(log) : log[n].payload # <<>>}
Body(r) == Last(r.payload)
Original(r) == use.messages[r.object]
Fits(r) == Body(r).shape = use.schemas[r.schema].shape

\* Messages in a Protobuf message are not entered (see Visits).
Entered(v) ==
  IF use.format # "proto" THEN v ELSE [v EXCEPT !.f = [n \in {m \in DOMAIN v.f : v.f[m].k # "struct"} |-> v.f[n]]]
Tagged(s) == LeavesTagged(s.tree, Entered(use.value), IF use.format = "json" THEN <<"$">> ELSE <<>>, {}, s.meta)
TagsOn(s, leaf) == {p[2] : p \in {q \in Tagged(s) : q[1] = leaf}}

Encrypting(rules) ==
  {i \in 1..Len(rules) : rules[i].type = "ENCRYPT" /\ RunsIn(rules[i].mode, "WRITE") /\ ~rules[i].disabled /\ "ENCRYPT" \in reg.executors}

\* In every record of the topic a string is encrypted once for each different
\* list of tags that an encryption rule of its schema has in common with the
\* field, whichever layout it is found in and however the field got its tags
\* (its own or a pattern over names), and otherwise left as it was.  A second
\* rule for the same tags does nothing (AbstractFieldRuleExecutor.Transform,
\* transform of the three formats, match).
HiddenOnce ==
  reg.overrides = {} =>
    \A n \in Records :
      LET s == use.schemas[log[n].schema]
          body == Body(log[n]).c
          lists(leaf) == {s.domain[i].tags : i \in {j \in Encrypting(s.domain) :
                                                    \E k \in 1..Len(s.domain[j].tags) : s.domain[j].tags[k] \in TagsOn(s, leaf)}}
      IN \A leaf \in DOMAIN body : Len(body[leaf]) = 1 + Cardinality(lists(leaf))

Encryption(rule) == rule.type \in {"ENCRYPT", "ENCRYPT_PAYLOAD"} /\ rule.mode = "WRITEREAD"
Inverted(s) ==
  \A rules \in {s.domain, s.encoding} : \A i \in 1..Len(rules) : rules[i].kind = "TRANSFORM" => Encryption(rules[i])
OnlyEncrypts(s) ==
  \A rules \in {s.domain, s.encoding} : \A i \in 1..Len(rules) :
    Encryption(rules[i]) /\ rules[i].onFailure = <<>> /\ rules[i].type \in reg.executors

\* A deserializer that reads with the schema of the writer gives back the
\* contents that were serialized, whatever encryption rules the schema has:
\* the rules of a read undo those of the write in the opposite order
\* (ExecuteRulesWithPhase, reverseRules).  It does not fail when there are no
\* other rules.  nil comes back as nil.  The older serdes do so when the ID
\* they found is that of the message's own schema.
RoundTrip ==
  \A c \in use.readers :
    LET call == calls[c]
        r == log[call.record]
        s == use.schemas[r.schema]
    IN call.pc \in {"done", "failed", "panicked"} =>
         IF r.payload = <<>> THEN call.pc = "done" /\ call.msg = None /\ Original(r) = None
         ELSE use.read = "writer" /\ reg.overrides = {} /\ (WithoutRules => Fits(r)) =>
                /\ call.pc = "done" /\ Inverted(s) => call.msg = Original(r)
                /\ call.pc # "done" => ~OnlyEncrypts(s)

\* A deserializer decodes a record with the schema and, for Protobuf, as the
\* message type that it was serialized with, whether the ID is in a header or
\* at the start of the payload (SchemaID, GetWriterSchema, toMessageDesc).
WriterSchemaFound ==
  \A c \in use.readers :
    LET call == calls[c]
    IN call.stage # "" => /\ call.schema = log[call.record].schema
                          /\ use.format = "proto" /\ call.pc # "file" /\ ~call.moved => call.name = use.name

Imported(s) == LET all == toDependencies(use.schemas[s].files, "main") IN [f \in DOMAIN all \ {"main"} |-> all[f]]

\* A deserializer reads a Protobuf record with the texts that the files had in
\* the program that wrote it, although other programs register other versions
\* of the same files meanwhile.  Only a schema with the same text of its own
\* that the deserializer parsed before may take its place, since schemas are
\* cached by their text (resolveDependencies, ResolveReferences, toFileDesc).
FilesOfWriter ==
  \A c \in use.readers :
    LET call == calls[c]
    IN use.format = "proto" /\ call.stage # "" /\ call.pc # "file" =>
         \/ call.texts = Imported(log[call.record].schema)
         \/ \E s \in 1..Len(use.schemas) : s # call.schema /\ Text(s) = Text(call.schema) /\ call.texts = Imported(s)

\* A condition that refuses the contents of a record, and whose failure is an error.
Refuses(rule, r) ==
  /\ rule.kind = "CONDITION" /\ RunsIn(rule.mode, "WRITE") /\ ~rule.disabled
  /\ rule.guard = "" /\ rule.type \in reg.executors
  /\ rule.onFailure \in {<<>>, <<"ERROR">>, <<"ERROR", "NONE">>}
  /\ \E leaf \in DOMAIN Original(r).c :
       /\ Last(Original(r).c[leaf]) = rule.expr
       /\ rule.type = "CEL_FIELD" =>
            leaf \in use.direct /\ \E k \in 1..Len(rule.tags) : rule.tags[k] \in TagsOn(use.schemas[r.schema], leaf)

\* A serializer is never done with a record that a condition of its schema
\* refuses, when the condition comes before the rules that change the message
\* and its failure is an error (ExecuteRulesWithPhase, transformField).
BadNotWritten ==
  reg.overrides = {} =>
    \A n \in Records :
      LET rules == use.schemas[log[n].schema].domain
      IN \A i \in 1..Len(rules) :
           Refuses(rules[i], log[n]) => \E j \in 1..(i - 1) : rules[j].kind = "TRANSFORM" \/ rules[j].type \notin reg.executors

\* A read fails in the rules of its schema only if one of them has an action
\* other than NONE for reads: what a rule refuses to write it may still read
\* (runAction, getRuleActionName).
ReadTolerated ==
  reg.overrides = {} =>
    \A c \in use.readers :
      LET call == calls[c]
          rules == use.schemas[call.target].domain
      IN call.pc = "failed" /\ call.stage = "domain" =>
           \E i \in 1..Len(rules) : RunsIn(rules[i].mode, "READ") /\ rules[i].onFailure \notin {<<"NONE">>, <<"ERROR", "NONE">>}

\* What the rules refuse is refused, on the side they refuse it on and no other.
RefusalsHonoured == BadNotWritten /\ ReadTolerated

\* A message that was migrated arrives with the fields of the reader's schema,
\* over any number of versions up or down, if it was written with those of the
\* writer's (GetMigrations, ExecuteMigrations, deserialize).
ReadShape ==
  \A c \in use.readers :
    LET call == calls[c]
    IN call.pc = "done" /\ call.moved /\ Fits(log[call.record]) => call.msg.shape = use.schemas[call.target].shape

\* Serializing a Protobuf message leaves the program's message as it was,
\* although its fields are encrypted (transform clones it).
SourceKept == use.format = "proto" => \A o \in DOMAIN objects : objects[o].content = use.messages[o]

\* With Avro, and with JSON when validation is on, a record has the fields of
\* the schema it names, although the latest version may have changed since the
\* program was written (SerializeWithHeaders).
WrittenFits ==
  use.format = "avro" \/ (use.format = "json" /\ use.validate) =>
    \A n \in Records : Fits(log[n])

\* Records are written with the schema they name and read with the schema, the
\* message type and the imported files of their writer, or migrated to the reader's.
SchemasFit == TypeOK /\ WriterSchemaFound /\ FilesOfWriter /\ ReadShape /\ WrittenFits

\* While no call is trying the types of a JSON schema on a value, the schema in
\* the cache has all of them: "restore original types" (json_schema_util.go:44).
TypesRestored == (\A c \in DOMAIN calls : calls[c].seen = <<>>) => \A serde \in DOMAIN types : types[serde] = use.types

\* A serde that was built without an error keeps, in both encryption executors
\* of the process, the client and all the settings it was built with, whatever
\* serdes are built or fail to be built later (Executor.Configure).
ConfigKept ==
  \A b \in built : b.ok =>
    \A t \in DOMAIN reg.encrypt :
      /\ ConfigsEqual(reg.encrypt[t].client, b.conf.client)
      /\ b.conf.settings # None =>
           LET map == reg.maps[reg.encrypt[t].map]
           IN \A k \in DOMAIN b.conf.settings : k \in DOMAIN map /\ map[k] = b.conf.settings[k]

\* What calls share is as they found it once they are over: the program's message,
\* the cached JSON schema and the executors' configuration.
SharedStateKept == SourceKept /\ TypesRestored /\ ConfigKept
=============================================================================
