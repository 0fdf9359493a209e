----------------------------- MODULE MCProducer -----------------------------
(* Instances of Producer for model checking.                                *)
EXTENDS ProducerInv

\* Model constants: the kinds of messages.  m1 has a delivery channel and an
\* opaque, m2 only an opaque, m3 and m4 nothing at all.
MCDeliveryChan == [m \in Msgs |-> IF m = "m1" THEN "c1" ELSE Nil]
MCOpaque == [m \in Msgs |-> IF m \in {"m3", "m4"} THEN Nil ELSE "o_" \o m]
=============================================================================
