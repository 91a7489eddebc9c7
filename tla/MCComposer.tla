----------------------------- MODULE MCComposer -----------------------------
(***************************************************************************)
(* Two texts, a chat and a thread of it, and two faults: enough for a hold *)
(* restored over a stale copy, a second hold due in the same turn, and a   *)
(* failing write after a failing send or a kill.                           *)
(***************************************************************************)
EXTENDS Composer, TLC

AnyText == Permutations(Texts)
=============================================================================
