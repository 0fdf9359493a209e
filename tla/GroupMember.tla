----------------------------- MODULE GroupMember -----------------------------
(***************************************************************************)
(* What a consumer promises its group: a rebalance is answered once, and   *)
(* the answer is exactly the change that was asked for.                    *)
(***************************************************************************)
CONSTANTS Partitions, Nil
VARIABLES assigned, wait,
          cooperative   \* the group's protocol, which never changes

gmvars == <<assigned, wait, cooperative>>

GMInit == assigned = {} /\ wait = Nil /\ cooperative \in BOOLEAN

\* The group asks for partitions to be added or given back.
Ask ==
  /\ wait = Nil
  /\ \E ps \in (SUBSET Partitions) \ {{}} :
       \/ ps \cap assigned = {} /\ wait' = [type |-> "assign", parts |-> ps]
       \/ ps \subseteq assigned /\ wait' = [type |-> "revoke", parts |-> ps]
  /\ ~cooperative /\ wait'.type = "assign" => assigned = {}
  /\ ~cooperative /\ wait'.type = "revoke" => wait'.parts = assigned
  /\ UNCHANGED <<assigned, cooperative>>

\* The consumer does as asked.
Do ==
  /\ wait # Nil
  /\ assigned' = IF wait.type = "assign" THEN assigned \cup wait.parts ELSE assigned \ wait.parts
  /\ wait' = Nil
  /\ UNCHANGED cooperative

GMNext == Ask \/ Do

GMSpec == GMInit /\ [][GMNext]_gmvars
=============================================================================
