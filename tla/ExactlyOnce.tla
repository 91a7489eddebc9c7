---------------------------- MODULE ExactlyOnce ----------------------------
(***************************************************************************)
(* What the receiving half of the client promises its user, without saying *)
(* how: every delivery the relay posts is put into the vault once, in the  *)
(* order of the posts, and the relay may forget it only after that.        *)
(***************************************************************************)
EXTENDS Naturals

CONSTANT Deliveries   \* delivery ids: a set of naturals, the order of the posts

VARIABLES
  posted,   \* deliveries the relay has accepted for this device
  mailbox,  \* those it still holds
  shown     \* how many times each one was put into the vault

vars == <<posted, mailbox, shown>>

Init ==
  /\ posted = {} /\ mailbox = {}
  /\ shown = [d \in Deliveries |-> 0]

Post(d) ==
  /\ \A e \in posted : e < d
  /\ posted' = posted \cup {d} /\ mailbox' = mailbox \cup {d}
  /\ UNCHANGED shown

Show(d) ==
  /\ d \in posted /\ shown[d] = 0
  /\ \A e \in posted : e < d => shown[e] = 1
  /\ shown' = [shown EXCEPT ![d] = 1]
  /\ UNCHANGED <<posted, mailbox>>

Forget(d) ==
  /\ shown[d] = 1
  /\ mailbox' = mailbox \ {d}
  /\ UNCHANGED <<posted, shown>>

Next == \E d \in Deliveries : Post(d) \/ Show(d) \/ Forget(d)

Spec == Init /\ [][Next]_vars
=============================================================================
