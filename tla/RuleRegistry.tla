---------------------------- MODULE RuleRegistry ----------------------------
(***************************************************************************)
(* The registry of rule executors, actions and overrides that all serdes   *)
(* of a process share, from src/schemaregistry/serde/rule_registry.go, and *)
(* what it decides for a rule (serde.go).  Its state is a record:          *)
(* executors, the types registered; actions, a function from a name to     *)
(* whether the action runs without error; overrides, a set of records with *)
(* a type each; encrypt, the client and the settings of each encryption    *)
(* executor; maps, the maps of settings, which executors share (0: none).  *)
(***************************************************************************)
EXTENDS Rules

NoOverride == [type |-> None, onSuccess |-> None, onFailure |-> None, disabled |-> None]
NewRuleRegistry == [executors |-> {}, actions |-> <<>>, overrides |-> {}, encrypt |-> <<>>, maps |-> <<>>]

Unconfigured == [client |-> None, map |-> 0]
EncryptTypes == {"ENCRYPT", "ENCRYPT_PAYLOAD"}

RegisterOverride(reg, o) == [reg EXCEPT !.overrides = {p \in @ : p.type # o.type} \cup {o}]
GetOverride(reg, type) == IF \E o \in reg.overrides : o.type = type THEN CHOOSE o \in reg.overrides : o.type = type ELSE NoOverride

isDisabled(reg, rule) ==
  LET o == GetOverride(reg, rule.type) IN IF o.disabled # None THEN o.disabled ELSE rule.disabled
getOnFailure(reg, rule) ==
  LET o == GetOverride(reg, rule.type) IN IF o.onFailure # None THEN o.onFailure ELSE rule.onFailure

\* Of "a,b" the first is for writes and upgrades, the second for the way back.
getRuleActionName(rule, mode, action, defaultAction) ==
  CASE action = <<>> -> defaultAction
    [] Len(action) = 2 /\ rule.mode \in {"WRITEREAD", "UPDOWN"} -> IF mode \in {"WRITE", "UPGRADE"} THEN action[1] ELSE action[2]
    [] Len(action) = 2 -> "a,b"
    [] OTHER -> action[1]

\* Whether the action returns no error: ERROR never does, NONE always, another
\* when it is registered and does not fail.
runAction(reg, rule, mode, action, defaultAction) ==
  LET name == getRuleActionName(rule, mode, action, defaultAction)
  IN CASE name = "ERROR" -> FALSE
       [] name = "NONE" -> TRUE
       [] OTHER -> name \in DOMAIN reg.actions /\ reg.actions[name]

(***************************************************************************)
(* Executor.Configure: the client of the first serde is kept and another   *)
(* has to be like it; settings are added to the map of the first serde and *)
(* none is changed.  ConfigsEqual compares where and as whom a client      *)
(* connects, and not how it retries.                                       *)
(***************************************************************************)
ConfigsEqual(c, d) == c.server = d.server

\* Mutant: a setting with another value is passed over.
NoConflicts(old, new) == {}

ConflictingKeys(old, new) == {k \in DOMAIN old \cap DOMAIN new : old[k] # new[k]}

Merged(old, new, keys) == [k \in DOMAIN old \cup keys |-> IF k \in DOMAIN old THEN old[k] ELSE new[k]]

\* The outcomes [ok, reg] for the executor of type t; m is the map of the new
\* serde, 0 for nil.  Settings are visited in any order: some are added before
\* a conflict is met.
Configure(reg, t, client, m) ==
  LET ex == reg.encrypt[t]
      withClient == [reg EXCEPT !.encrypt[t].client = IF @ = None THEN client ELSE @]
      new == IF m = 0 THEN <<>> ELSE reg.maps[m]
      add(keys) == [withClient EXCEPT !.maps[ex.map] = Merged(@, new, keys)]
  IN CASE ex.client # None /\ ~ConfigsEqual(ex.client, client) -> {[ok |-> FALSE, reg |-> reg]}
       [] ex.map = 0 /\ m # 0 -> {[ok |-> TRUE, reg |-> [withClient EXCEPT !.encrypt[t].map = m]]}
       [] ex.map = 0 /\ m = 0 ->
            {[ok |-> TRUE, reg |-> [withClient EXCEPT !.maps = Append(@, <<>>), !.encrypt[t].map = Len(reg.maps) + 1]]}
       [] OTHER ->
            IF ConflictingKeys(reg.maps[ex.map], new) = {} THEN {[ok |-> TRUE, reg |-> add(DOMAIN new)]}
            ELSE {[ok |-> FALSE, reg |-> add(keys)] : keys \in SUBSET (DOMAIN new \ DOMAIN reg.maps[ex.map])}

\* The executors are configured in any order, up to the first that refuses.
RECURSIVE SetRuleRegistry(_, _, _, _)
SetRuleRegistry(reg, todo, client, m) ==
  IF todo = {} THEN {[ok |-> TRUE, reg |-> reg]}
  ELSE UNION {UNION {IF r.ok THEN SetRuleRegistry(r.reg, todo \ {t}, client, m) ELSE {r} :
                     r \in Configure(reg, t, client, m)} : t \in todo}
=============================================================================
