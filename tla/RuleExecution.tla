--------------------------- MODULE RuleExecution ----------------------------
(***************************************************************************)
(* Calls of serializers and deserializers in several goroutines and the    *)
(* rules that run in them: ExecuteRulesWithPhase of                        *)
(* src/schemaregistry/serde/serde.go and the field transformers.  The      *)
(* goroutines share the schema registry, the rule registry, the parsed     *)
(* schemas a serde caches and the topic.                                   *)
(*                                                                         *)
(* What a program does is one of Uses, chosen at the start, a record:      *)
(* format ("avro", "json", "proto", "generic", "specific"), framing and    *)
(* side (where the schema ID travels and whether it is a key or a value),  *)
(* pick (how the serializer finds its schema), schemas (all that are ever  *)
(* registered), derived (for each writer the one of its messages), initial *)
(* (the versions there are at the start), useID and metadata (for pick and *)
(* read), desc (the Protobuf message in its file), cache (of getSchemaInfo)*)
(* value (the layout of the message), messages (the contents the program   *)
(* serializes, None for nil), writers and readers (goroutines), read (how  *)
(* a deserializer finds its schema), validate, overrides, actions and      *)
(* executors, types (of the JSON schemas with several), configs (of the    *)
(* serdes built), writes (a bound).  A schema is [tree, meta, text, file,  *)
(* files, domain, encoding, migration, shape, props].                      *)
(***************************************************************************)
EXTENDS RuleRegistry, FieldVisits, SchemaIDs

CONSTANT Uses

\* versions: the schemas of the topic's subject, in order.  files: the subjects
\* of imported files, the references of each schema of the topic, the schemas
\* a deserializer parsed, the serializers that cached their schema.
VARIABLES use, versions, files, reg, built, objects, types, calls, log
vars == <<use, versions, files, reg, built, objects, types, calls, log>>

SchemaAt(v) == use.schemas[versions[v]]
Registered(s) == \E v \in 1..Len(versions) : versions[v] = s

\* The registry's IDs (external).
IDOf(s) == 300 + s
GUIDOf(s) == [i \in 1..16 |-> IF i = 16 THEN s ELSE 7]

Idle == [pc |-> "idle", object |-> None, record |-> 0, stage |-> "", schema |-> 0, target |-> 0, id |-> NoSchemaID(""),
         rule |-> 0, visits |-> <<>>, msg |-> None, clone |-> None, seen |-> <<>>, todo |-> <<>>, valid |-> FALSE,
         failed |-> FALSE, migrations |-> <<>>, moved |-> FALSE, name |-> "", found |-> <<>>, refs |-> <<>>, texts |-> <<>>]

Init ==
  /\ \E i \in 1..Len(Uses) : use = Uses[i]
  /\ versions = use.initial
  /\ files = [subjects |-> [n \in UNION {DOMAIN use.schemas[s].files : s \in 1..Len(use.schemas)} |-> <<>>],
              refs |-> [s \in 1..Len(use.schemas) |-> <<>>], parsed |-> {}, cached |-> {}]
  /\ reg = [NewRuleRegistry EXCEPT !.executors = use.executors, !.actions = use.actions,
                                   !.encrypt = [t \in use.executors \cap EncryptTypes |-> Unconfigured]]
  /\ built = {}
  /\ objects = [o \in DOMAIN use.messages |-> [content |-> use.messages[o], sent |-> FALSE]]
  /\ types = [serde \in {"serializer", "deserializer"} |-> use.types]
  /\ calls = [c \in use.writers \cup use.readers |-> Idle]
  /\ log = <<>>

SchemaType ==
  CASE use.format = "avro" -> "AVRO" [] use.format = "json" -> "JSON" [] use.format = "proto" -> "PROTOBUF" [] OTHER -> ""
Set(c, call) == calls' = [calls EXCEPT ![c] = call]
Ends(c, how) == [calls[c] EXCEPT !.pc = how]

(***************************************************************************)
(* The rules of a stage of a call, run one after the other.                *)
(***************************************************************************)
ModeOf(call) ==
  CASE call.stage = "migrate" -> Head(call.migrations).mode
    [] call.record = 0 -> "WRITE"
    [] OTHER -> "READ"

RulesOf(call) ==
  CASE call.stage = "migrate" ->
         LET m == Head(call.migrations) IN RulesFor("migration", m.mode, SchemaAt(m.source), SchemaAt(m.target))
    [] call.stage = "encoding" -> RulesFor("encoding", ModeOf(call), None, use.schemas[call.schema])
    [] OTHER -> RulesFor("domain", ModeOf(call), None, use.schemas[call.target])

Rule(call) == RulesOf(call)[call.rule]
FieldTypes == {"ENCRYPT", "CEL_FIELD"}

\* msg is None while it is the object the program gave to the serializer.
\* Avro and JSON fields are set in the message, Protobuf ones in a clone.
Message(call) ==
  CASE call.clone # None -> call.clone
    [] call.msg # None -> call.msg
    [] OTHER -> objects[call.object].content
SetField(c, call, msg) ==
  /\ Set(c, CASE call.clone # None -> [call EXCEPT !.clone = msg]
              [] call.msg # None -> [call EXCEPT !.msg = msg]
              [] OTHER -> call)
  /\ objects' = IF call.clone = None /\ call.msg = None THEN [objects EXCEPT ![call.object].content = msg] ELSE objects

NextStage(call) ==
  CASE call.stage = "encoding" -> IF call.record = 0 THEN "frame" ELSE "reader"
    [] call.stage = "migrate" -> IF Len(call.migrations) > 1 THEN "rule" ELSE "decode"
    [] OTHER -> IF call.record = 0 THEN "marshal" ELSE "check"

EndOfRules(call) ==
  [call EXCEPT !.pc = NextStage(call), !.rule = 1, !.migrations = IF call.stage = "migrate" THEN Tail(@) ELSE @]
NextRule(call) == [call EXCEPT !.pc = "rule", !.rule = @ + 1, !.visits = <<>>, !.clone = None]
Adopt(call) == [call EXCEPT !.msg = IF call.clone # None THEN call.clone ELSE @]

\* Mutant: a failed rule is skipped whatever its action.
AlwaysTolerated(call) == TRUE

\* The rule did not succeed: its action decides whether the call goes on.
Tolerated(call) == runAction(reg, Rule(call), ModeOf(call), getOnFailure(reg, Rule(call)), "ERROR")
AfterFailure(call) == IF Tolerated(call) THEN NextRule(call) ELSE [call EXCEPT !.pc = "failed", !.clone = None]

\* A serde parses a Protobuf schema once for each text, with the files it
\* refers to.
Text(s) == use.schemas[s].files["main"].text
toFileDesc(serde, s) ==
  LET known == {p \in files.parsed : p.serde = serde /\ p.text = Text(s)}
  IN IF known # {} THEN CHOOSE p \in known : TRUE
     ELSE [serde |-> serde, text |-> Text(s), texts |-> ResolveReferences(files.subjects, files.refs[s])]
Caches(parsed) == [files EXCEPT !.parsed = @ \cup {parsed}]

SerdeOf(call) == IF call.record = 0 THEN "serializer" ELSE "deserializer"

\* The rule goes through the fields.
FieldRuns(call) ==
  LET rule == Rule(call)
  IN /\ rule.type \in FieldTypes \cap reg.executors
     /\ ~isDisabled(reg, rule) /\ RunsIn(rule.mode, ModeOf(call))
     /\ ~Suppressed(RulesOf(call), call.rule, ModeOf(call))

\* One rule of ExecuteRulesWithPhase.
ExecuteRule(c) ==
  LET call == calls[c]
      rule == Rule(call)
      mode == ModeOf(call)
      whole == OnMessage(rule, mode, Message(call))
      fields == call.rule <= Len(RulesOf(call)) /\ FieldRuns(call)
  IN /\ call.pc = "rule"
     /\ files' = IF fields /\ use.format = "proto" THEN Caches(toFileDesc(SerdeOf(call), call.target)) ELSE files
     /\ UNCHANGED <<use, versions, reg, built, objects, types, log>>
     /\ IF call.rule > Len(RulesOf(call)) THEN Set(c, EndOfRules(call))
        ELSE IF isDisabled(reg, rule) \/ ~RunsIn(rule.mode, mode) THEN Set(c, NextRule(call))
        ELSE IF rule.type \notin reg.executors
        THEN Set(c, IF Tolerated(call) THEN EndOfRules(call) ELSE Ends(c, "failed"))
        ELSE IF fields
        THEN Set(c, [call EXCEPT !.pc = "visit", !.clone = IF use.format = "proto" THEN Message(call) ELSE None,
                                 !.visits = LET s == use.schemas[call.target] IN Visits(use.format, s.tree, use.value, s.meta)])
        ELSE IF rule.type \in FieldTypes THEN Set(c, NextRule(call))
        ELSE IF ~whole.ok \/ ~whole.holds THEN Set(c, AfterFailure(call))
        ELSE Set(c, NextRule(IF rule.kind = "TRANSFORM" THEN [call EXCEPT !.msg = whole.c] ELSE call))

(***************************************************************************)
(* One visit of a field rule.                                              *)
(***************************************************************************)
Applies(rule, visit) == rule.tags = <<>> \/ \E i \in 1..Len(rule.tags) : rule.tags[i] \in visit.tags

\* transformField refuses a false value of a condition, be it the answer of
\* the rule or the field itself that the rule did not look at.
IsFalse(visit, c) == visit.type = "boolean" /\ Last(c) = "false"
Refused(rule, visit, r) == rule.kind = "CONDITION" /\ visit.direct /\ (~r.holds \/ IsFalse(visit, r.c))

\* The answer to a condition is put in place of an element, which panics
\* unless these are Booleans; Protobuf does not look at it.
Misplaced(rule, visit) ==
  /\ rule.kind = "CONDITION" /\ ~visit.direct /\ use.format # "proto"
  /\ Applies(rule, visit)
  /\ visit.type \in Primitive \ {"boolean"} /\ rule.guard \notin {"false", "fails"} /\ rule.expr # "fails"

\* The call after a visit that transforms a leaf of this type; then is what
\* follows when nothing went wrong.
Leaf(c, call, visit, type, then) ==
  LET rule == Rule(call)
      old == IF visit.id = "" THEN <<>> ELSE Message(call).c[visit.id]
      v == [visit EXCEPT !.type = type]
      r == IF Applies(rule, visit) THEN OnField(rule, ModeOf(call), type, old) ELSE Gives(old)
  IN IF ~r.ok \/ Refused(rule, v, r) THEN Set(c, [then EXCEPT !.failed = TRUE]) /\ UNCHANGED objects
     ELSE IF rule.kind = "TRANSFORM" /\ visit.id # "" THEN SetField(c, then, [Message(call) EXCEPT !.c[visit.id] = r.c])
     ELSE Set(c, then) /\ UNCHANGED objects

Panics(rule, visit) ==
  \/ visit.do = "panic"
  \/ (visit.do = "absent" /\ Applies(rule, visit))
  \/ (visit.do = "field" /\ Misplaced(rule, visit))

VisitField(c) ==
  LET call == calls[c]
      visit == Head(call.visits)
      rest == [call EXCEPT !.visits = Tail(@)]
  IN /\ call.pc = "visit" /\ ~call.failed /\ call.visits # <<>> /\ visit.types = ""
     /\ IF Panics(Rule(call), visit) THEN Set(c, Ends(c, "panicked")) /\ UNCHANGED objects
        ELSE IF visit.do = "field" THEN Leaf(c, call, visit, visit.type, rest)
        ELSE Set(c, [rest EXCEPT !.failed = visit.do = "error"]) /\ UNCHANGED objects
     /\ UNCHANGED <<use, versions, files, reg, built, types, log>>

\* The end of a field rule.
LeaveFields(c) ==
  LET call == calls[c]
  IN /\ call.pc = "visit" /\ (call.failed \/ call.visits = <<>>)
     /\ Set(c, IF call.failed THEN AfterFailure([call EXCEPT !.failed = FALSE]) ELSE NextRule(Adopt(call)))
     /\ UNCHANGED <<use, versions, files, reg, built, objects, types, log>>

(***************************************************************************)
(* A JSON schema with several types is narrowed to one after the other     *)
(* until the leaf is valid, transformed as that one and widened again.     *)
(* The schema is in the cache of the serde, for all its goroutines to use. *)
(***************************************************************************)
TypesFor(call) == types[SerdeOf(call)][Head(call.visits).types]
JSONType(t) == CASE t = "number" -> "double" [] t \in {"string", "boolean"} -> t [] OTHER -> "null"

\* getType when the schema has one type: the leaf is transformed unless null.
TypedLeaf(c, call, t, then) ==
  LET visit == Head(call.visits)
  IN IF JSONType(t) = "null" THEN Set(c, then) /\ UNCHANGED objects
     ELSE IF visit.do = "absent" THEN Set(c, IF Applies(Rule(call), visit) THEN Ends(c, "panicked") ELSE then) /\ UNCHANGED objects
     ELSE Leaf(c, call, visit, JSONType(t), then)

LookAtTypes(c) ==
  LET call == calls[c]
      t == TypesFor(call)
      out == IF call.seen = <<>> THEN [call EXCEPT !.pc = "visit", !.visits = Tail(@)] ELSE [call EXCEPT !.pc = "restore"]
  IN /\ call.pc \in {"types", "visit"}
     /\ ~call.failed /\ call.visits # <<>> /\ Head(call.visits).types # ""
     /\ IF Len(t) > 1 THEN Set(c, [call EXCEPT !.pc = "original"]) /\ UNCHANGED objects ELSE TypedLeaf(c, call, t[1], out)
     /\ UNCHANGED <<use, versions, files, reg, built, types, log>>

OriginalTypes(c) ==
  LET call == calls[c]
      t == TypesFor(call)
  IN /\ call.pc = "original"
     /\ Set(c, [call EXCEPT !.pc = "narrow", !.seen = Append(@, t), !.todo = t, !.valid = FALSE])
     /\ UNCHANGED <<use, versions, files, reg, built, objects, types, log>>

NarrowTypes(c) ==
  LET call == calls[c]
  IN /\ call.pc = "narrow"
     /\ IF call.todo = <<>> THEN Set(c, [call EXCEPT !.pc = "restore"]) /\ UNCHANGED types
        ELSE /\ types' = [types EXCEPT ![SerdeOf(call)][Head(call.visits).types] = <<Head(call.todo)>>]
             /\ Set(c, [call EXCEPT !.pc = "validate", !.todo = Tail(@)])
     /\ UNCHANGED <<use, versions, files, reg, built, objects, log>>

ValidateTypes(c) ==
  LET call == calls[c]
      t == TypesFor(call)
      valid == \E i \in 1..Len(t) : t[i] = Head(call.visits).type
  IN /\ call.pc = "validate"
     /\ Set(c, IF valid THEN [call EXCEPT !.pc = "types", !.valid = TRUE] ELSE [call EXCEPT !.pc = "narrow"])
     /\ UNCHANGED <<use, versions, files, reg, built, objects, types, log>>

\* After no type was valid the schema is looked at as it is now.
RestoreTypes(c) ==
  LET call == calls[c]
      original == Last(call.seen)
      out == [call EXCEPT !.seen = Front(@), !.valid = TRUE,
                          !.pc = IF Len(call.seen) = 1 THEN "visit" ELSE "restore",
                          !.visits = IF Len(call.seen) = 1 THEN Tail(@) ELSE @]
  IN /\ call.pc = "restore"
     /\ types' = [types EXCEPT ![SerdeOf(call)][Head(call.visits).types] = original]
     /\ IF call.valid \/ Len(original) > 1 THEN Set(c, out) /\ UNCHANGED objects ELSE TypedLeaf(c, call, original[1], out)
     /\ UNCHANGED <<use, versions, files, reg, built, log>>
=============================================================================
