--------------------------- MODULE MCConversation ---------------------------
(* Modules DirectChat, Polls and Conversation for TLC.                      *)
EXTENDS Conversation
CONSTANTS a, b1, b2, alice, bob
MCDevices  == {a, b1, b2}
MCAccounts == [d \in MCDevices |-> IF d = a THEN alice ELSE bob]
MCStarters == {a}
MCAnswers  == {{1}, {}}
MCWriters  == {a, b1}
MCKeys     == [d \in MCDevices |-> IF d = b2 THEN 1 ELSE 2]
=============================================================================
