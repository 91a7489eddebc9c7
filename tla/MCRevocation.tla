---------------------------- MODULE MCRevocation ----------------------------
(* Module Revocation for TLC: two devices of the account are in the chat and *)
(* the largest is linked but not in it yet; the second revokes the others.   *)
EXTENDS Revocation
MCDevices == 1 .. 3
MCMembers == {1, 2}
MCRevocable == {1, 3}
MCAskers == {2}
=============================================================================
