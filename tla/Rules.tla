------------------------------- MODULE Rules --------------------------------
(***************************************************************************)
(* Data contract rules: which rules of a schema run, in which order, what  *)
(* their executors do and what follows a rule that succeeds or fails, from *)
(* src/schemaregistry/serde/serde.go, schemaregistry_client.go and the     *)
(* executors under src/schemaregistry/rules.                               *)
(*                                                                         *)
(* A rule is [name, kind, mode, type, tags, onSuccess, onFailure,          *)
(* disabled, guard, expr, key].  An action is <<>> (none given), <<a>> or  *)
(* <<a, b>> for "a,b".  A field's value is the sequence of what was done   *)
(* to it: the value first, then one mark per encryption or expression.  A  *)
(* message is [shape, c, p]: the fields it has (the shape changes with an  *)
(* incompatible version), the values and the marks on the encoded bytes.   *)
(***************************************************************************)
EXTENDS Integers, Sequences, SequencesExt, FiniteSets

CONSTANT None

Modes == {"UPGRADE", "DOWNGRADE", "UPDOWN", "WRITE", "READ", "WRITEREAD"}

\* A rule of this mode runs in the given mode.
RunsIn(ruleMode, mode) ==
  /\ ruleMode \in Modes
  /\ CASE ruleMode = "WRITEREAD" -> mode \in {"WRITE", "READ"}
       [] ruleMode = "UPDOWN" -> mode \in {"UPGRADE", "DOWNGRADE"}
       [] OTHER -> ruleMode = mode

HasRules(rules, mode) == \E i \in 1..Len(rules) : RunsIn(rules[i].mode, mode)

\* Mutant: the rules of a read run in the order of the schema.
RulesForward(phase, mode, source, target) ==
  CASE mode = "UPGRADE" -> target.migration
    [] mode = "DOWNGRADE" -> Reverse(source.migration)
    [] OTHER -> IF phase = "encoding" THEN target.encoding ELSE target.domain

\* The rules of a phase in the order they run: reversed when the message is
\* read or downgraded.
RulesFor(phase, mode, source, target) ==
  CASE mode = "UPGRADE" -> target.migration
    [] mode = "DOWNGRADE" -> Reverse(source.migration)
    [] mode = "READ" -> Reverse(IF phase = "encoding" THEN target.encoding ELSE target.domain)
    [] OTHER -> IF phase = "encoding" THEN target.encoding ELSE target.domain

areTransformsWithSameTag(r1, r2) ==
  /\ r1.tags # <<>>
  /\ r1.kind = "TRANSFORM"
  /\ \A f \in {"kind", "mode", "type", "tags"} : r1[f] = r2[f]

\* Mutant: nothing is left to another rule.
NeverSuppressed(rules, i, mode) == FALSE

\* AbstractFieldRuleExecutor.Transform leaves this rule to one with its tags.
Suppressed(rules, i, mode) ==
  \E j \in (IF mode \in {"WRITE", "UPGRADE"} THEN 1..(i - 1) ELSE (i + 1)..Len(rules)) :
    areTransformsWithSameTag(rules[i], rules[j])

(***************************************************************************)
(* The schema versions a message goes through from the writer's to the     *)
(* reader's, each with rules for the way it goes.                          *)
(***************************************************************************)
Migrations(schemas, from, to) ==
  LET mode == IF from < to THEN "UPGRADE" ELSE "DOWNGRADE"
      low == IF from < to THEN from ELSE to
      high == IF from < to THEN to ELSE from
      steps == SelectSeq([i \in 1..(high - low) |-> low + i], LAMBDA v : HasRules(schemas[v].migration, mode))
  IN [i \in 1..Len(steps) |-> [mode |-> mode, source |-> IF mode = "UPGRADE" THEN steps[i] - 1 ELSE steps[i],
                                             target |-> IF mode = "UPGRADE" THEN steps[i] ELSE steps[i] - 1]]

GetMigrations(schemas, from, to) ==
  IF from < to THEN Migrations(schemas, from, to) ELSE Reverse(Migrations(schemas, from, to))

(***************************************************************************)
(* Executors.  A result is [ok, holds, c]: it went well, the condition is  *)
(* true, the new value.                                                    *)
(***************************************************************************)
Fails(c) == [ok |-> FALSE, holds |-> TRUE, c |-> c]
Gives(c) == [ok |-> TRUE, holds |-> TRUE, c |-> c]
Says(b, c) == [ok |-> TRUE, holds |-> b, c |-> c]

\* IsPrimitive
Primitive == {"string", "bytes", "int", "long", "float", "double", "boolean", "null"}

\* The encryption executors (Encryption.tla): a value that is not a string or
\* bytes cannot be encrypted and is read as it is.
Encrypts(rule, mode, type, c) ==
  CASE mode = "WRITE" -> IF type \in {"string", "bytes"} THEN Gives(Append(c, rule.key)) ELSE Fails(c)
    [] mode = "READ" -> CASE type \notin {"string", "bytes"} -> Gives(c)
                          [] Last(c) = rule.key -> Gives(Front(c))
                          [] OTHER -> Fails(c)
    [] OTHER -> Fails(c)

\* The CEL executor: a guard that fails or is false skips the expression.  A
\* condition is that none of the values is the one that expr names.
execute(rule, values, c, new) ==
  CASE rule.guard \in {"false", "fails"} -> Gives(c)
    [] rule.expr = "fails" -> Fails(c)
    [] rule.kind = "CONDITION" -> Says(\A v \in values : Last(v) # rule.expr, c)
    [] OTHER -> Gives(new)

\* FieldTransform.Transform of the field executors.
OnField(rule, mode, type, c) ==
  IF rule.type = "ENCRYPT" THEN Encrypts(rule, mode, type, c)
  ELSE IF type \in Primitive THEN execute(rule, {c}, c, Append(c, rule.expr)) ELSE Gives(c)

\* RuleExecutor.Transform of the executors that take the whole message: JSONata
\* rewrites the shape named by guard to that of expr; another shape is lost.
OnMessage(rule, mode, msg) ==
  CASE rule.type = "ENCRYPT_PAYLOAD" ->
         LET r == Encrypts(rule, mode, "bytes", <<"bytes">> \o msg.p) IN [r EXCEPT !.c = [msg EXCEPT !.p = Tail(r.c)]]
    [] rule.type = "CEL" ->
         execute(rule, {msg.c[l] : l \in DOMAIN msg.c}, msg, [msg EXCEPT !.c = [l \in DOMAIN @ |-> Append(@[l], rule.expr)]])
    [] OTHER -> Gives([msg EXCEPT !.shape = IF @ = rule.guard THEN rule.expr ELSE "lost"])
=============================================================================
