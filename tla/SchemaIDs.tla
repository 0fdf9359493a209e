----------------------------- MODULE SchemaIDs ------------------------------
(***************************************************************************)
(* How a schema ID or GUID, and for Protobuf the position of the message   *)
(* in its file, travels with a record: src/schemaregistry/serde/serde.go.  *)
(* A payload is a sequence of bytes; the encoded message at its end is one *)
(* element that is never looked into here.                                 *)
(***************************************************************************)
EXTENDS Integers, Sequences, SequencesExt, TLC

MagicByteV0 == 0
MagicByteV1 == 1

NilGUID == [i \in 1..16 |-> 0]

NewSchemaID(schemaType, id, guid) == [type |-> schemaType, id |-> id, guid |-> guid, indexes |-> <<>>]
NoSchemaID(schemaType) == NewSchemaID(schemaType, 0, NilGUID)

Uint32Bytes(n) == <<n \div 16777216, (n \div 65536) % 256, (n \div 256) % 256, n % 256>>
Uint32(b) == b[1] * 16777216 + b[2] * 65536 + b[3] * 256 + b[4]

\* binary.PutVarint and binary.Varint (external): zig-zag, seven bits a byte.
RECURSIVE Uvarint(_)
Uvarint(n) == IF n < 128 THEN <<n>> ELSE <<128 + (n % 128)>> \o Uvarint(n \div 128)
PutVarint(x) == Uvarint(IF x >= 0 THEN 2 * x ELSE -2 * x - 1)

RECURSIVE ReadUvarint(_)
ReadUvarint(b) ==
  IF b[1] < 128 THEN [value |-> b[1], read |-> 1]
  ELSE LET rest == ReadUvarint(Tail(b)) IN [value |-> b[1] - 128 + 128 * rest.value, read |-> 1 + rest.read]
Varint(b) ==
  LET u == ReadUvarint(b)
  IN [value |-> IF u.value % 2 = 0 THEN u.value \div 2 ELSE -((u.value + 1) \div 2), read |-> u.read]

RECURSIVE Varints(_)
Varints(xs) == IF xs = <<>> THEN <<>> ELSE PutVarint(Head(xs)) \o Varints(Tail(xs))

\* The first message of the file has the short form <<0>>.
writeMessageIndexes(indexes) == IF indexes = <<0>> THEN <<0>> ELSE PutVarint(Len(indexes)) \o Varints(indexes)

RECURSIVE ReadVarints(_, _)
ReadVarints(n, b) ==
  IF n = 0 THEN [values |-> <<>>, read |-> 0]
  ELSE LET v == Varint(b)
           rest == ReadVarints(n - 1, SubSeq(b, v.read + 1, Len(b)))
       IN [values |-> <<v.value>> \o rest.values, read |-> v.read + rest.read]

readMessageIndexes(b) ==
  LET len == Varint(b)
      list == ReadVarints(len.value, SubSeq(b, len.read + 1, Len(b)))
  IN IF len.value = 0 THEN [values |-> <<0>>, read |-> len.read]
     ELSE [values |-> list.values, read |-> len.read + list.read]

Indexes(s) == IF s.indexes = <<>> THEN <<>> ELSE writeMessageIndexes(s.indexes)

\* The schema ID (or GUID) is not set: an error, <<>> here.
IDToBytes(s) == IF s.id = 0 THEN <<>> ELSE <<MagicByteV0>> \o Uint32Bytes(s.id) \o Indexes(s)
GUIDToBytes(s) == IF s.guid = NilGUID THEN <<>> ELSE <<MagicByteV1>> \o s.guid \o Indexes(s)

\* The bytes read, -1 for an unknown magic byte, and the schema ID they give.
FromBytes(s, b) ==
  LET n == IF b[1] = MagicByteV0 THEN 5 ELSE 17
      t == IF b[1] = MagicByteV0 THEN [s EXCEPT !.id = Uint32(SubSeq(b, 2, 5))] ELSE [s EXCEPT !.guid = SubSeq(b, 2, 17)]
      idx == readMessageIndexes(SubSeq(b, n + 1, Len(b)))
  IN IF b[1] \notin {MagicByteV0, MagicByteV1} THEN [read |-> -1, id |-> s]
     ELSE IF s.type = "PROTOBUF" THEN [read |-> n + idx.read, id |-> [t EXCEPT !.indexes = idx.values]]
     ELSE [read |-> n, id |-> t]

\* The older form: always the ID, in front of the payload; -1 for another byte.
WriteBytes(id, payload) == <<MagicByteV0>> \o Uint32Bytes(id) \o payload
GetSchema(payload) == IF payload[1] # MagicByteV0 THEN -1 ELSE Uint32(SubSeq(payload, 2, 5))

HeaderKey(serdeType) == IF serdeType = "key" THEN "__key_schema_id" ELSE "__value_schema_id"

\* What goes to the broker: the headers and the payload; "error" for no ID.
HeaderSchemaIDSerializer(serdeType, payload, s) ==
  IF GUIDToBytes(s) = <<>> THEN "error"
  ELSE [headers |-> <<[key |-> HeaderKey(serdeType), value |-> GUIDToBytes(s)]>>, payload |-> payload]
PrefixSchemaIDSerializer(serdeType, payload, s) ==
  IF IDToBytes(s) = <<>> THEN "error" ELSE [headers |-> <<>>, payload |-> IDToBytes(s) \o payload]

\* The first header of the key that can be read, else the start of the payload.
DualSchemaIDDeserializer(serdeType, headers, payload, s) ==
  LET readable == {i \in 1..Len(headers) :
                     /\ headers[i].key = HeaderKey(serdeType)
                     /\ headers[i].value # <<>>
                     /\ FromBytes(s, headers[i].value).read # -1}
      first == CHOOSE i \in readable : \A j \in readable : i <= j
  IN IF readable = {} THEN FromBytes(s, payload)
     ELSE [read |-> 0, id |-> FromBytes(s, headers[first].value).id]

-----------------------------------------------------------------------------
(* The files a Protobuf schema imports, each registered under a subject of *)
(* its own (serde/protobuf/protobuf.go), and how they are found again      *)
(* (ResolveReferences of serde.go).                                        *)
(*                                                                         *)
(* The files compiled into a program are a function from a name to         *)
(* [text, deps, public].  A subject is the sequence of its versions        *)
(* [text, refs], a reference is [name, version]: the subject has the name  *)
(* of the file.                                                            *)

\* The files that come with the library, one for all.
builtInDeps == {"google/protobuf"}
ignoreFile(name) == name \in builtInDeps

\* What a file imports, with the public imports a second time.
Imports(files, f) == SelectSeq(files[f].deps \o files[f].public, LAMBDA d : ~ignoreFile(d))

\* The texts of a file and of all it imports.
RECURSIVE toDependencies(_, _)
toDependencies(files, f) ==
  LET ds == Imports(files, f)
  IN FoldLeft(LAMBDA texts, d : toDependencies(files, d) @@ texts, f :> files[f].text, ds)

\* The order in which resolveDependencies comes to the files below f.
RECURSIVE Below(_, _)
Below(files, f) ==
  LET ds == Imports(files, f) IN FlattenSeq([i \in 1..Len(ds) |-> Append(Below(files, ds[i]), ds[i])])

\* The references of f once the version of each file it imports is known.
References(files, f, found) == LET ds == Imports(files, f) IN [i \in 1..Len(ds) |-> [name |-> ds[i], version |-> found[ds[i]]]]

\* Client.GetVersion (external): 0 for a schema the subject does not have.
GetVersion(subject, info) == IF \E v \in 1..Len(subject) : subject[v] = info THEN CHOOSE v \in 1..Len(subject) : subject[v] = info ELSE 0

\* A text found later takes the place of an earlier one of the same name.
RECURSIVE ResolveReferences(_, _)
ResolveReferences(subjects, refs) ==
  IF refs = <<>> THEN <<>>
  ELSE LET info == subjects[Head(refs).name][Head(refs).version]
       IN ResolveReferences(subjects, Tail(refs)) @@ ResolveReferences(subjects, info.refs) @@ (Head(refs).name :> info.text)
=============================================================================
