--------------------------- MODULE DeliveryReports ---------------------------
(***************************************************************************)
(* What Produce() and ProduceChannel() promise, whatever goroutines do the *)
(* work: a message is accepted or rejected once, and afterwards gets at    *)
(* most one report, on its own channel and with its own opaque (comments   *)
(* of Produce() and of the go.delivery.reports property in producer.go).   *)
(* Producer implements this specification.                                 *)
(***************************************************************************)
EXTENDS Sequences

CONSTANTS
  Msgs, ViaChannel,
  Nil,
  Events,    \* the Events() channel
  Destination,      \* Destination[m]: the channel of m's delivery report, or Nil
  Opaque     \* Opaque[m]: what the application attached to m

VARIABLES
  outcome,   \* outcome[m]: none, accepted or rejected
  reports    \* reports[m]: the reports of m so far

DRInit ==
  /\ outcome = [m \in Msgs |-> "none"]
  /\ reports = [m \in Msgs |-> <<>>]

\* produce() returns, with or without an error.
Decide(m) ==
  /\ outcome[m] = "none"
  /\ \E o \in {"accepted", "rejected"} : outcome' = [outcome EXCEPT ![m] = o]
  /\ UNCHANGED reports

\* The delivery report of an accepted message.
Deliver(m) ==
  /\ outcome[m] = "accepted" /\ Destination[m] # Nil /\ reports[m] = <<>>
  /\ reports' = [reports EXCEPT ![m] = <<[on |-> Destination[m], opaque |-> Opaque[m]]>>]
  /\ UNCHANGED outcome

\* ProduceChannel() has no return value: a rejected message comes back.
ReturnMessage(m) ==
  /\ outcome[m] = "rejected" /\ m \in ViaChannel /\ reports[m] = <<>>
  /\ reports' = [reports EXCEPT ![m] = <<[on |-> Events, opaque |-> Opaque[m]]>>]
  /\ UNCHANGED outcome

DRNext == \E m \in Msgs : Decide(m) \/ Deliver(m) \/ ReturnMessage(m)

DRSpec == DRInit /\ [][DRNext]_<<outcome, reports>>
=============================================================================
