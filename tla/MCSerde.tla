------------------------------ MODULE MCSerde -------------------------------
(***************************************************************************)
(* Uses of the serializers and deserializers.                              *)
(***************************************************************************)
EXTENDS Serdes

\* Rules
AnyRule == [kind |-> "TRANSFORM", mode |-> "WRITEREAD", type |-> "ENCRYPT", tags |-> <<>>, onSuccess |-> <<>>,
            onFailure |-> <<>>, disabled |-> FALSE, guard |-> "", expr |-> "", key |-> "k1"]
Encrypt(tags, key) == [AnyRule EXCEPT !.tags = tags, !.key = key]
EncryptPayload(key) == [AnyRule EXCEPT !.type = "ENCRYPT_PAYLOAD", !.key = key]
Condition(type, mode, tags, onFailure) ==
  [AnyRule EXCEPT !.kind = "CONDITION", !.type = type, !.mode = mode, !.tags = tags, !.onFailure = onFailure, !.expr = "bad"]
Jsonata(mode, from, to) == [AnyRule EXCEPT !.type = "JSONATA", !.mode = mode, !.guard = from, !.expr = to]

\* Names and trees: a record r with the fields a (PII), b and c.
F(name, tags, s) == [name |-> <<name>>, tags |-> tags, s |-> s, oneof |-> FALSE]
S(k) == [k |-> k]
Leaf0(id) == [k |-> "leaf", id |-> id, t |-> "string"]
Rec(name, fields) == [k |-> "record", name |-> <<name>>, fields |-> fields]
Struct(f) == [k |-> "struct", f |-> f]
Names(xs, vs) == [n \in {<<xs[i]>> : i \in 1..Len(xs)} |-> vs[CHOOSE i \in 1..Len(xs) : <<xs[i]>> = n]]

Flat == Rec("r", <<F("a", {"PII"}, S("string")), F("b", {}, S("string"))>>)
FlatValue == Struct(Names(<<"a", "b">>, <<Leaf0("a"), Leaf0("b")>>))
FlatMessage == [shape |-> "s1", p |-> <<>>, c |-> [l \in {"a", "b"} |-> <<l>>]]

File(text, deps, public) == [text |-> text, deps |-> deps, public |-> public]
Schema(tree) == [tree |-> tree, meta |-> {}, files |-> "main" :> File("m", <<>>, <<>>), file |-> <<>>, domain |-> <<>>, encoding |-> <<>>, migration |-> <<>>,
                 shape |-> "s1", props |-> {}]

Plain ==
  [format |-> "avro", framing |-> "prefix", side |-> "value", pick |-> "latest", schemas |-> <<Schema(Flat)>>, initial |-> <<1>>,
   derived |-> [w \in {"w1", "w2", "w3"} |-> 1], cache |-> FALSE, useID |-> 1, metadata |-> {}, desc |-> [index |-> 0, parent |-> None], name |-> "", value |-> FlatValue,
   messages |-> <<FlatMessage>>, writers |-> {"w1"}, readers |-> {"r1"}, read |-> "writer", validate |-> FALSE,
   overrides |-> {}, actions |-> <<>>, executors |-> {"ENCRYPT", "ENCRYPT_PAYLOAD", "CEL", "CEL_FIELD", "JSONATA"},
   types |-> <<>>, configs |-> {}, writes |-> 1, direct |-> {"a", "b"}]

(***************************************************************************)
(* Avro: a record with a nested record, a list, a map and a union, tags by *)
(* field and by name, three rules of which two have the same tags.         *)
(***************************************************************************)
AvroTree(meta) ==
  [Schema(Rec("r", <<F("a", {"PII"}, S("string")),
                     F("n", {}, Rec("q", <<F("b", {}, S("string"))>>)),
                     F("l", {"GDPR"}, [k |-> "array", s |-> S("string")]),
                     F("m", {}, [k |-> "map", s |-> S("string")]),
                     F("u", {"PII"}, [k |-> "union", ss |-> <<S("null"), S("string")>>])>>))
     EXCEPT !.meta = {[pattern |-> meta, tags |-> {"PII"}]},
            !.domain = <<Encrypt(<<"PII">>, "k1"), Encrypt(<<"PII">>, "k2"), Encrypt(<<"GDPR", "PII">>, "k3")>>]
AvroValue ==
  Struct(Names(<<"a", "n", "l", "m", "u">>,
               <<Leaf0("a"), Struct(Names(<<"b">>, <<Leaf0("b")>>)), [k |-> "list", s |-> <<Leaf0("l1"), Leaf0("l2")>>],
                 [k |-> "map", f |-> Names(<<"x">>, <<Leaf0("m")>>)], Leaf0("u")>>))
AvroMessage == [shape |-> "s1", p |-> <<>>, c |-> [l \in {"a", "b", "l1", "l2", "m", "u"} |-> <<l>>]]
Avro(pattern) ==
  [Plain EXCEPT !.schemas = <<Schema(Flat), AvroTree(pattern)>>, !.initial = <<2>>, !.value = AvroValue, !.messages = <<AvroMessage>>]

(***************************************************************************)
(* JSON: a field with several types, one behind a reference, one in oneOf. *)
(***************************************************************************)
JSONTree ==
  [Schema(Rec("", <<F("a", {"PII"}, [k |-> "types", id |-> "T"]),
                    F("n", {}, [k |-> "ref", s |-> Rec("", <<F("b", {}, S("string"))>>)]),
                    F("u", {"PII"}, [k |-> "union", ss |-> <<S("null"), S("string")>>])>>))
     EXCEPT !.meta = {[pattern |-> <<"*", "*", ".", "b">>, tags |-> {"PII"}]},
            !.domain = <<Encrypt(<<"PII">>, "k1")>>]
JSONValue(a) == Struct(Names(<<"a", "n", "u">>, <<a, Struct(Names(<<"b">>, <<Leaf0("b")>>)), Leaf0("u")>>))
JSONMessage == [shape |-> "s1", p |-> <<>>, c |-> [l \in {"a", "b", "u"} |-> <<l>>]]
JSONUse(a) ==
  [Plain EXCEPT !.format = "json", !.framing = "header", !.schemas = <<Schema(Flat), JSONTree>>, !.initial = <<2>>, !.validate = TRUE,
                !.value = JSONValue(a), !.messages = <<JSONMessage, JSONMessage>>, !.types = [T |-> <<"null", "string">>]]

\* Two goroutines with one serializer, a field with several types.
SharedTypes ==
  [Plain EXCEPT !.format = "json", !.schemas = <<[Schema(Rec("", <<F("a", {"PII"}, [k |-> "types", id |-> "T"])>>))
                                                   EXCEPT !.domain = <<Encrypt(<<"PII">>, "k1")>>]>>,
                !.value = Struct(Names(<<"a">>, <<Leaf0("a")>>)), !.messages = [i \in 1..2 |-> [FlatMessage EXCEPT !.c = [l \in {"a"} |-> <<l>>]]],
                !.types = [T |-> <<"null", "string">>], !.writers = {"w1", "w2"}, !.readers = {}]

(***************************************************************************)
(* Protobuf: the second message in the second of a file, with a list, a    *)
(* oneof, a map and a message in it; two goroutines send it.               *)
(***************************************************************************)
ProtoFile == <<[name |-> "A", nested |-> <<>>], [name |-> "B", nested |-> <<[name |-> "B1", nested |-> <<>>], [name |-> "B2", nested |-> <<>>]>>]>>
ProtoTree ==
  [Schema(Rec("B", <<F("a", {"PII"}, S("string")),
                     F("l", {"PII"}, [k |-> "array", s |-> S("string")]),
                     [F("o", {"PII"}, S("string")) EXCEPT !.oneof = TRUE],
                     F("n", {}, Rec("A", <<F("b", {"PII"}, S("string"))>>)),
                     F("m", {}, [k |-> "map", s |-> S("string")])>>))
     EXCEPT !.file = ProtoFile, !.domain = <<Encrypt(<<"PII">>, "k1")>>, !.encoding = <<EncryptPayload("k2")>>]
ProtoValue ==
  Struct(Names(<<"a", "l", "n", "m">>, <<Leaf0("a"), [k |-> "list", s |-> <<Leaf0("l1"), Leaf0("l2")>>],
               Struct(Names(<<"b">>, <<Leaf0("b")>>)), [k |-> "map", f |-> Names(<<"x">>, <<Leaf0("m")>>)]>>))
ProtoMessage == [shape |-> "s1", p |-> <<>>, c |-> [l \in {"a", "l1", "l2", "b", "m"} |-> <<l>>]]
Proto(framing, desc, name) ==
  [Plain EXCEPT !.format = "proto", !.framing = framing, !.schemas = <<[Schema(Flat) EXCEPT !.file = ProtoFile], ProtoTree>>, !.initial = <<1, 2>>,
                !.value = ProtoValue, !.messages = <<ProtoMessage>>, !.writers = {"w1", "w2"}, !.writes = 2, !.pick = "id", !.useID = 2,
                !.desc = desc, !.name = name]

(***************************************************************************)
(* Versions: the fields change twice; the writer and the reader have any   *)
(* of them as the latest, or choose by metadata.                           *)
(***************************************************************************)
Versioned(s, old) ==
  [Schema(Flat) EXCEPT !.shape = s, !.props = {s}, !.domain = <<Encrypt(<<"PII">>, "k1")>>,
                       !.migration = IF old = "" THEN <<>> ELSE <<Jsonata("UPGRADE", old, s), Jsonata("DOWNGRADE", s, old)>>]
\* From s2 to s3 over an intermediate form, in two rules for both ways.
Twice ==
  [Versioned("s3", "") EXCEPT !.migration = <<Jsonata("UPGRADE", "s2", "half"), Jsonata("DOWNGRADE", "half", "s2"),
                                             Jsonata("UPGRADE", "half", "s3"), Jsonata("DOWNGRADE", "s3", "half")>>]
Migrate(format, validate, read) ==
  [Plain EXCEPT !.format = format, !.validate = validate, !.schemas = <<Versioned("s1", ""), Versioned("s2", "s1"), Twice>>, !.read = read,
                !.metadata = {"s1"}, !.messages = <<FlatMessage, [FlatMessage EXCEPT !.shape = "s3"]>>]

(***************************************************************************)
(* Conditions and actions: a schema gets a condition after a message that  *)
(* it refuses was written.                                                 *)
(***************************************************************************)
BadMessage == [FlatMessage EXCEPT !.c = [l \in {"a", "b"} |-> <<IF l = "a" THEN "bad" ELSE l>>]]
Conditions(rules, executors, overrides) ==
  [Plain EXCEPT !.schemas = <<Schema(Flat), [Schema(Flat) EXCEPT !.domain = rules]>>, !.messages = <<BadMessage, FlatMessage>>,
                !.read = "latest", !.executors = executors, !.overrides = overrides]

(***************************************************************************)
(* Serdes built in any order with four configurations.                     *)
(***************************************************************************)
Conf(server, retries, settings) == [client |-> [server |-> server, retries |-> retries], settings |-> settings]
Configs ==
  [Plain EXCEPT !.writers = {}, !.readers = {},
                !.configs = {Conf("u1", 1, None), Conf("u1", 2, [a |-> 1]), Conf("u1", 1, [b |-> 1, c |-> 1]), Conf("u1", 1, [b |-> 2, d |-> 1]),
                             Conf("u2", 1, [a |-> 1])}]

(***************************************************************************)
(* Layouts that stop a field rule: a tagged field that is not in the map,  *)
(* a value of no type of its schema, a false field under a condition.      *)
(***************************************************************************)
One(format, tree, value, several, rules) ==
  [Plain EXCEPT !.format = format, !.schemas = <<[Schema(Rec("r", <<F("a", {"PII"}, tree)>>)) EXCEPT !.domain = rules]>>, !.value = value,
                !.types = several, !.messages = <<[FlatMessage EXCEPT !.c = [l \in {"a"} |-> <<"false">>]]>>]
Odd(t) == Struct(Names(<<"a">>, <<[k |-> "leaf", id |-> "a", t |-> t]>>))
EmptyMap == [k |-> "map", f |-> <<>>]
PII == <<Encrypt(<<"PII">>, "k1")>>
Several(ts) == [T |-> ts]

(***************************************************************************)
(* Three programs whose message imports x and y, which import z: they      *)
(* differ in z, the third has the main file of the first.                  *)
(***************************************************************************)
Program(main, z) ==
  [Schema(Flat) EXCEPT !.file = ProtoFile,
     !.files = ("main" :> File(main, <<"x", "y", "google/protobuf">>, <<"x">>)) @@ ("x" :> File("x", <<"z">>, <<>>))
               @@ ("y" :> File("y", <<"z">>, <<>>)) @@ ("z" :> File(z, <<>>, <<>>))]
Imports3(pick, cache, writers) ==
  [Plain EXCEPT !.format = "proto", !.schemas = <<Program("m1", "z1"), Program("m2", "z2"), Program("m1", "z3")>>, !.initial = <<>>,
                !.derived = [w1 |-> 1, w2 |-> 2, w3 |-> 3], !.pick = pick, !.cache = cache, !.writers = writers, !.writes = 2, !.name = "A"]

AllExecutors == Plain.executors
Patterns == <<<<"q", ".", "?">>, <<"*", ".", "m">>, <<"*", "*">>, <<"*">>, <<"r", ".", "*">>, <<"*", "*", ".", "*">>, <<"?", ".", "b">>, <<"*", "*", "b">>>>
MCUses ==
  [i \in 1..Len(Patterns) |-> Avro(Patterns[i])] \o
  <<[Plain EXCEPT !.pick = "auto", !.initial = <<>>, !.writers = {"w1", "w2"}, !.messages = <<FlatMessage, FlatMessage>>],
    JSONUse(Leaf0("a")),
    [JSONUse([k |-> "absent"]) EXCEPT !.pick = "lookup", !.schemas = <<JSONTree>>, !.initial = <<1>>, !.messages = <<JSONMessage, None>>],
    Proto("header", [index |-> 1, parent |-> [index |-> 1, parent |-> None]], "B2"),
    Proto("prefix", [index |-> 0, parent |-> None], "A"),
    Migrate("json", FALSE, "latest"),
    Migrate("avro", FALSE, "latest"),
    Migrate("json", TRUE, "metadata"),
    [Migrate("proto", FALSE, "latest") EXCEPT !.pick = "metadata", !.schemas = [i \in 1..3 |-> [@[i] EXCEPT !.file = ProtoFile]], !.name = "A"],
    Conditions(<<Condition("CEL", "WRITEREAD", <<>>, <<"ERROR", "NONE">>)>>, AllExecutors, {}),
    Conditions(<<Condition("CEL_FIELD", "WRITE", <<"PII">>, <<>>), Encrypt(<<"PII">>, "k1")>>, AllExecutors, {}),
    Conditions(<<Condition("CEL", "WRITEREAD", <<>>, <<>>), Encrypt(<<"PII">>, "k1")>>, AllExecutors,
        {[NoOverride EXCEPT !.type = "CEL", !.onFailure = <<"LOG">>], [NoOverride EXCEPT !.type = "ENCRYPT", !.disabled = TRUE]}),
    Conditions(<<[Encrypt(<<"PII">>, "k1") EXCEPT !.onFailure = <<"NONE">>], Condition("CEL", "WRITE", <<>>, <<>>)>>, {"CEL"}, {}),
    One("avro", S("string"), EmptyMap, <<>>, PII),
    One("avro", S("string"), EmptyMap, <<>>, <<Encrypt(<<"GDPR">>, "k1")>>),
    One("avro", [k |-> "union", ss |-> <<S("null"), S("int")>>], Odd("boolean"), <<>>, <<[PII[1] EXCEPT !.onFailure = <<"NONE">>]>>),
    One("avro", S("boolean"), Odd("boolean"), <<>>, <<Condition("CEL_FIELD", "WRITEREAD", <<"GDPR">>, <<"ERROR", "NONE">>)>>),
    One("avro", [k |-> "array", s |-> S("string")], Struct(Names(<<"a">>, <<[k |-> "list", s |-> <<Leaf0("a")>>]>>)), <<>>,
        <<Condition("CEL_FIELD", "WRITE", <<"PII">>, <<>>)>>),
    One("json", [k |-> "types", id |-> "T"], EmptyMap, Several(<<"number", "string">>), PII),
    One("json", [k |-> "types", id |-> "T"], EmptyMap, Several(<<"string">>), PII),
    One("json", [k |-> "types", id |-> "T"], Odd("integer"), Several(<<"string", "integer">>), PII),
    One("json", [k |-> "types", id |-> "T"], Odd("boolean"), Several(<<"string", "boolean">>), PII),
    One("proto", [k |-> "array", s |-> Rec("q", <<>>)], Struct(Names(<<"a">>, <<[k |-> "list", s |-> <<EmptyMap>>]>>)), <<>>, PII),
    [Plain EXCEPT !.pick = "lookup", !.initial = <<2>>, !.schemas = <<Schema(Flat), Schema(Flat)>>],
    Imports3("auto", FALSE, {"w1", "w2"}),
    Imports3("auto", TRUE, {"w1", "w3"}),
    [Imports3("lookup", FALSE, {"w1"}) EXCEPT !.messages = <<FlatMessage, None>>],
    [Plain EXCEPT !.messages = <<None, FlatMessage>>],
    [Plain EXCEPT !.format = "generic", !.pick = "auto", !.initial = <<>>, !.messages = <<None, FlatMessage>>],
    [Plain EXCEPT !.format = "generic", !.schemas = <<Schema(Flat), [Schema(Flat) EXCEPT !.shape = "s2"]>>],
    [Plain EXCEPT !.format = "specific", !.messages = <<None, FlatMessage>>, !.schemas = <<Schema(Flat), [Schema(Flat) EXCEPT !.shape = "s2"]>>],
    Configs>>
MCSharedTypes == <<SharedTypes>>
=============================================================================
