----------------------------- MODULE MCSession -----------------------------
(* Instances of Session for TLC: two accounts, two fault events or more.   *)
EXTENDS Session
CONSTANTS a1, a2
=============================================================================
