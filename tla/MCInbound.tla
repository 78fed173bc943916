------------------------------- MODULE MCInbound -------------------------------
(* Two messages from one phone, one from another, and a status event.       *)
EXTENDS Inbound

CONSTANTS m1, m2, m3, status, ana, beto

TwoFromAna == [m \in Message |-> IF m \in {m1, m2} THEN ana ELSE beto]
=============================================================================
