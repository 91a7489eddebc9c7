------------------------------ MODULE MCOutbox ------------------------------
(* Instances of Outbox for TLC: one chat with a text, an uploaded file and a *)
(* message of a peer.                                                        *)
EXTENDS Outbox

CONSTANTS c1, m1, f1, i1

OneChat   == {c1}
OneConvOf == [x \in Messages \cup Inbound |-> c1]
=============================================================================
