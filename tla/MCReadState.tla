---------------------------- MODULE MCReadState ----------------------------
(***************************************************************************)
(* A chat with a message, which opens a thread, and a reply in it; and a   *)
(* second chat, which is empty and to which the user may turn.             *)
(***************************************************************************)
EXTENDS ReadState, TLC

CONSTANTS c1, c2, root, reply

TwoChats    == {c1, c2}
AllMessages == {root, reply}
AllChatOf   == [m \in AllMessages |-> c1]
AllRootOf   == (root :> Main) @@ (reply :> root)

\* A message written in a thread answers its root.
AllOriginalOf == AllRootOf
=============================================================================
