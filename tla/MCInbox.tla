------------------------------ MODULE MCInbox ------------------------------
(* An instance of Inbox for TLC: a Welcome, two messages around a Commit,  *)
(* and a message whose epoch that Commit ended.                            *)
EXTENDS Inbox
=============================================================================
