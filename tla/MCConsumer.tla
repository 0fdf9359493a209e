----------------------------- MODULE MCConsumer -----------------------------
(* Instances of Consumer for model checking.                                *)
EXTENDS Consumer

CONSTANT p1

Configured(c, a, p, e, f, ks, ps) ==
  [chan |-> c, app |-> a, coop |-> p, fatal |-> e, faithful |-> f, kinds |-> ks, parts |-> ps]

Polling == Configured(FALSE, FALSE, TRUE, FALSE, TRUE, {"msg", "error"}, Partitions)
Channel == Configured(TRUE, FALSE, TRUE, FALSE, TRUE, {"other"}, Partitions)
Failing == Configured(TRUE, FALSE, FALSE, TRUE, TRUE, {"other"}, {p1})
AnyCalls == Configured(TRUE, TRUE, FALSE, FALSE, FALSE, {}, {p1})
Forwarding == Configured(TRUE, TRUE, TRUE, FALSE, TRUE, {}, {p1})

\* Model constants: the consumer polls, or reads its channel, also when calls may
\* fail, or answers the events of the channel itself with any calls it likes.
MCModes == {Polling, Channel, Failing, AnyCalls}

\* Model constants: the application answers over the channel, as it is told.
MCForwarding == {Forwarding}
=============================================================================
