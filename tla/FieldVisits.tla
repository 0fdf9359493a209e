---------------------------- MODULE FieldVisits -----------------------------
(***************************************************************************)
(* How a field rule goes through a message: the transform functions of     *)
(* src/schemaregistry/serde/avrov2/avro_util.go, jsonschema/               *)
(* json_schema_util.go and protobuf/protobuf_util.go.  What is visited     *)
(* depends on the schema and on the layout of the message, not on what a   *)
(* visit does, so that a walk is the sequence of its visits.               *)
(*                                                                         *)
(* A schema is a tree of [k |-> kind, ...]: record (name, fields), array   *)
(* and map (s), union (ss; allOf, anyOf and oneOf in JSON), ref (s), types *)
(* (id, a JSON schema with several types) or a scalar kind.  A field is    *)
(* [name, tags, s, oneof].  A value is a struct or map (f), a list (s), a  *)
(* leaf (id, t), "nil" (a nil pointer) or "absent" (no such entry in a     *)
(* map, a nil interface, an unset field of a oneof).                       *)
(*                                                                         *)
(* A visit is [do, id, type, tags, direct, types].  do is "field":         *)
(* transform the leaf when the rule and the field share a tag; "absent":   *)
(* panic in that case, on the value that is not there; "error"; "panic".   *)
(* direct says that the leaf is the whole field and not an element of it,  *)
(* types names the JSON schema whose types are tried on the leaf.          *)
(***************************************************************************)
EXTENDS Integers, Sequences, SequencesExt

-----------------------------------------------------------------------------
(* The patterns that give fields their tags by name (wildcard_matcher.go). *)
(* A name and a pattern are sequences of characters.  A pattern becomes a  *)
(* regular expression, a sequence of these tokens: [one |-> c] a           *)
(* character, [one |-> Within] any character of a name, [star |-> Within]  *)
(* and [star |-> Across] runs of them.  Patterns have no backslash:        *)
(* doubleSlashes writes to a copy of the builder, so that code loses the   *)
(* character or panics.                                                    *)

Within == "within"
Across == "across"

\* strings.ReplaceAll(globExp, "**.*", "**").
RECURSIVE Simplified(_)
Simplified(p) ==
  CASE p = <<>> -> <<>>
    [] Len(p) >= 4 /\ SubSeq(p, 1, 4) = <<"*", "*", ".", "*">> -> <<"*", "*">> \o Simplified(SubSeq(p, 5, Len(p)))
    [] OTHER -> <<Head(p)>> \o Simplified(Tail(p))

RECURSIVE Tokens(_)
Tokens(p) ==
  CASE p = <<>> -> <<>>
    [] Len(p) >= 2 /\ SubSeq(p, 1, 2) = <<"*", "*">> -> <<[star |-> Across]>> \o Tokens(SubSeq(p, 3, Len(p)))
    [] Head(p) = "*" -> <<[star |-> Within]>> \o Tokens(Tail(p))
    [] Head(p) = "?" -> <<[one |-> Within]>> \o Tokens(Tail(p))
    [] OTHER -> <<[one |-> Head(p)]>> \o Tokens(Tail(p))

wildcardToRegexp(p) == Tokens(Simplified(p))

Accepts(class, c) ==
  CASE class = Across -> TRUE
    [] class = Within -> c # "."
    [] OTHER -> c = class

\* The regular expression engine (external): the end of the match it prefers
\* among those that start at s[i + 1], each star as long as it can be; -1 for none.
RECURSIVE End(_, _, _)
End(ts, s, i) ==
  IF ts = <<>> THEN i
  ELSE IF "one" \in DOMAIN Head(ts)
  THEN IF i < Len(s) /\ Accepts(Head(ts).one, s[i + 1]) THEN End(Tail(ts), s, i + 1) ELSE -1
  ELSE LET runs == {n \in 0..(Len(s) - i) : \A k \in 1..n : Accepts(Head(ts).star, s[i + k])}
           ends == {n \in runs : End(Tail(ts), s, i + n) # -1}
       IN IF ends = {} THEN -1 ELSE End(Tail(ts), s, i + (CHOOSE n \in ends : \A k \in ends : k <= n))

\* The leftmost match has to be the whole name.
match(s, p) == End(wildcardToRegexp(p), s, 0) = Len(s)

\* What the patterns mean: some way to divide the name among the tokens.
RECURSIVE Divides(_, _)
Divides(ts, s) ==
  IF ts = <<>> THEN s = <<>>
  ELSE \E n \in 0..Len(s) :
         /\ "one" \in DOMAIN Head(ts) => n = 1
         /\ \A k \in 1..n : Accepts(IF "one" \in DOMAIN Head(ts) THEN Head(ts).one ELSE Head(ts).star, s[k])
         /\ Divides(Tail(ts), SubSeq(s, n + 1, Len(s)))

-----------------------------------------------------------------------------

\* CurrentField: none at the top of a message.
NoField == [tags |-> {"not in a field"}, direct |-> FALSE]
Element(ctx) == [ctx EXCEPT !.direct = FALSE]

Visit(do, id, type, ctx) == <<[do |-> do, id |-> id, type |-> type, tags |-> ctx.tags, direct |-> ctx.direct, types |-> ""]>>
Stop(do, ctx) == Visit(do, "", "", ctx)

Dotted(a, b) == a \o <<".">> \o b

\* The tags of every pattern that matches the name of the field.
GetTags(meta, fullName) == UNION {p.tags : p \in {q \in meta : match(fullName, q.pattern)}}
EnterField(meta, fullName, tags) == [tags |-> tags \cup GetTags(meta, fullName), direct |-> TRUE]

Entry(v, name) == IF name \in DOMAIN v.f THEN v.f[name] ELSE [k |-> "absent"]

\* The schemas of a union that the value can be of.
Branches(s, v) ==
  SelectSeq(s.ss, LAMBDA b : CASE v.k = "leaf" -> b.k = v.t
                               [] v.k = "absent" -> b.k = "null"
                               [] v.k = "list" -> b.k = "array"
                               [] OTHER -> b.k \in {"record", "map"})

RECURSIVE AvroVisits(_, _, _, _)
AvroVisits(s, v, ctx, meta) ==
  CASE v.k = "nil" -> <<>>
    [] s.k = "union" -> IF Branches(s, v) = <<>> THEN Stop("error", ctx) ELSE AvroVisits(Head(Branches(s, v)), v, ctx, meta)
    [] s.k = "array" -> IF v.k # "list" THEN <<>>
                        ELSE FlattenSeq([i \in 1..Len(v.s) |-> AvroVisits(s.s, v.s[i], Element(ctx), meta)])
    [] s.k = "map" -> LET ks == IF v.k = "map" THEN SetToSeq(DOMAIN v.f) ELSE <<>>
                      IN FlattenSeq([i \in 1..Len(ks) |-> AvroVisits(s.s, v.f[ks[i]], Element(ctx), meta)])
    [] s.k = "record" /\ v.k \in {"struct", "map"} ->
         LET visit(f) == IF v.k = "struct" /\ f.name \notin DOMAIN v.f THEN <<>>
                         ELSE AvroVisits(f.s, Entry(v, f.name), EnterField(meta, Dotted(s.name, f.name), f.tags), meta)
         IN FlattenSeq([i \in 1..Len(s.fields) |-> visit(s.fields[i])])
    [] s.k = "record" -> Stop("error", ctx)
    [] ctx = NoField -> <<>>
    [] v.k = "absent" -> Stop("absent", ctx)
    [] OTHER -> Visit("field", v.id, s.k, ctx)

\* The JSON types whose values are transformed; "integer" is not among them.
JSONScalars == {"enum", "string", "double", "boolean"}

RECURSIVE JSONVisits(_, _, _, _, _)
JSONVisits(s, v, path, ctx, meta) ==
  CASE v.k = "nil" -> <<>>
    [] s.k = "types" -> LET typed == IF v.k = "leaf" THEN Visit("field", v.id, v.t, ctx) ELSE Visit("absent", "", "null", ctx)
                        IN <<[Head(typed) EXCEPT !.types = s.id]>>
    [] s.k = "union" -> IF Branches(s, v) = <<>> THEN <<>> ELSE JSONVisits(Head(Branches(s, v)), v, path, ctx, meta)
    [] s.k = "array" -> IF v.k # "list" THEN <<>>
                        ELSE FlattenSeq([i \in 1..Len(v.s) |-> JSONVisits(s.s, v.s[i], path, Element(ctx), meta)])
    [] s.k = "ref" -> JSONVisits(s.s, v, path, ctx, meta)
    [] s.k = "record" /\ v.k \in {"struct", "map"} ->
         LET visit(f) == IF v.k = "struct" /\ f.name \notin DOMAIN v.f THEN <<>>
                         ELSE JSONVisits(f.s, Entry(v, f.name), Dotted(path, f.name), EnterField(meta, Dotted(path, f.name), f.tags), meta)
         IN FlattenSeq([i \in 1..Len(s.fields) |-> visit(s.fields[i])])
    [] s.k = "record" -> Stop("error", ctx)
    [] s.k \notin JSONScalars \/ ctx = NoField -> <<>>
    [] v.k = "absent" -> Stop("absent", ctx)
    [] OTHER -> Visit("field", v.id, s.k, ctx)

\* A message inside the message is one value, of type record, and is not
\* entered; val.List() panics on the elements of a list of messages.
ProtoVisits(s, v, meta) ==
  LET visit(f) ==
        LET ctx == EnterField(meta, Dotted(s.name, f.name), f.tags)
            w == Entry(v, f.name)
        IN CASE f.oneof /\ w.k = "absent" -> <<>>
             [] f.s.k = "array" /\ f.s.s.k = "record" -> IF w.s = <<>> THEN <<>> ELSE Stop("panic", ctx)
             [] f.s.k = "array" -> FlattenSeq([i \in 1..Len(w.s) |-> Visit("field", w.s[i].id, f.s.s.k, Element(ctx))])
             [] f.s.k = "map" -> <<>>
             [] f.s.k = "record" -> Visit("field", "", "record", ctx)
             [] OTHER -> Visit("field", w.id, f.s.k, ctx)
  IN FlattenSeq([i \in 1..Len(s.fields) |-> visit(s.fields[i])])

Visits(format, s, v, meta) ==
  CASE format = "avro" -> AvroVisits(s, v, NoField, meta)
    [] format = "json" -> JSONVisits(s, v, <<"$">>, NoField, meta)
    [] OTHER -> ProtoVisits(s, v, meta)

(***************************************************************************)
(* The strings a reader of the schema would say have a tag: those of a     *)
(* field with it, its own or of a pattern that describes the name.         *)
(***************************************************************************)
Described(meta, fullName, tags) ==
  tags \cup UNION {p.tags : p \in {q \in meta : Divides(wildcardToRegexp(q.pattern), fullName)}}

RECURSIVE LeavesTagged(_, _, _, _, _)
LeavesTagged(s, v, path, tags, meta) ==
  CASE v.k = "leaf" -> IF v.t = "string" THEN {<<v.id, t>> : t \in tags} ELSE {}
    [] s.k = "ref" -> LeavesTagged(s.s, v, path, tags, meta)
    [] v.k = "list" -> UNION {LeavesTagged(s.s, v.s[i], path, tags, meta) : i \in 1..Len(v.s)}
    [] v.k \in {"struct", "map"} /\ s.k = "map" -> UNION {LeavesTagged(s.s, v.f[n], path, tags, meta) : n \in DOMAIN v.f}
    [] v.k \in {"struct", "map"} /\ s.k = "union" ->
         UNION {LeavesTagged(s.ss[i], v, path, tags, meta) : i \in {j \in 1..Len(s.ss) : s.ss[j].k = "record"}}
    [] v.k \in {"struct", "map"} /\ s.k = "record" ->
         LET name(i) == Dotted(IF path = <<>> THEN s.name ELSE path, s.fields[i].name)
         IN UNION {LeavesTagged(s.fields[i].s, v.f[s.fields[i].name], IF path = <<>> THEN <<>> ELSE name(i),
                                Described(meta, name(i), s.fields[i].tags), meta) :
                   i \in {j \in 1..Len(s.fields) : s.fields[j].name \in DOMAIN v.f}}
    [] OTHER -> {}
=============================================================================
