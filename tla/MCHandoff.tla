----------------------------- MODULE MCHandoff -----------------------------
(* Instances of Handoff for TLC: one device to remove and one to add.      *)
EXTENDS Handoff
CONSTANTS gone, fresh
=============================================================================
