------------------------------- MODULE Inbox -------------------------------
(***************************************************************************)
(* The receiving half of the client: the relay's mailbox is at-least-once, *)
(* an MLS ciphertext can be opened only once, and neither the device file  *)
(* (mutte-core) nor the vault (mutte-store) nor the acknowledgement is     *)
(* written together with the others.  The engine closes the gap by staging *)
(* every opened delivery in the device file before it presents, then       *)
(* acknowledges, then completes it; a restart replays what it finds staged.*)
(*                                                                         *)
(* A delivery is its delivery_id.  The device file has an image in memory, *)
(* which runs ahead of the disk when persist fails.  A ciphertext that the *)
(* relay ordered behind the Commit that ended its epoch can never be opened*)
(* (the groups keep no past epochs): such a delivery is "Unreadable".      *)
(***************************************************************************)
EXTENDS Naturals

CONSTANTS
  Deliveries,   \* delivery ids the relay may assign
  Welcomes,     \* those that carry a Welcome: joined, never staged
  Commits,      \* those that carry a Commit: restored before the others
  Unreadable,   \* messages encrypted for an epoch that is over
  DiskFaults,   \* may a write fail while the process keeps running?
  MaxCrashes    \* bound on process restarts

ASSUME InboxAssumption ==
  /\ Deliveries \subseteq Nat
  /\ Welcomes \subseteq Deliveries
  /\ Commits \subseteq Deliveries \ Welcomes
  /\ Unreadable \subseteq Deliveries \ (Welcomes \cup Commits)
  /\ DiskFaults \in BOOLEAN
  /\ MaxCrashes \in Nat

VARIABLES
  posted, mailbox,         \* the relay: assigned ids, and those it still holds
  spent, staged,           \* device memory: keys used up, staging records
  diskSpent, diskStaged,   \* the same in device.json
  shown,                   \* the vault: times each delivery was inserted
  pc, cur,                 \* step inside the engine and its delivery
  batch,                   \* rest of the mailbox batch being processed
  restoring,               \* inside restore_pending
  crashes

relayVars  == <<posted, mailbox>>
deviceVars == <<spent, staged, diskSpent, diskStaged>>
engineVars == <<pc, cur, batch, restoring, crashes>>
vars == <<relayVars, deviceVars, shown, engineVars>>

Step == {"idle", "open", "present", "ack", "complete", "restore"}

TypeOK ==
  /\ posted \subseteq Deliveries /\ mailbox \subseteq posted
  /\ spent \subseteq posted /\ staged \subseteq spent
  /\ diskSpent \subseteq spent /\ diskStaged \subseteq diskSpent
  /\ shown \in [Deliveries -> Nat]
  /\ pc \in Step
  /\ cur \in Deliveries \cup {0}
  /\ batch \subseteq Deliveries
  /\ restoring \in BOOLEAN
  /\ crashes \in Nat

Init ==
  /\ posted = {} /\ mailbox = {}
  /\ spent = {} /\ staged = {} /\ diskSpent = {} /\ diskStaged = {}
  /\ shown = [d \in Deliveries |-> 0]
  /\ pc = "idle" /\ cur = 0 /\ batch = {}
  /\ restoring = FALSE /\ crashes = 0

-----------------------------------------------------------------------------
\* Device::persist writes the whole image; when it fails, the old file is
\* still there or (the directory could not be synced) the new one already is.
Persisted     == diskSpent' = spent' /\ diskStaged' = staged'
PersistFailed ==
  DiskFaults /\ (Persisted \/ UNCHANGED <<diskSpent, diskStaged>>)

\* An error ends the mailbox pass, or the restore stage of the start.
Abort == pc' = "idle" /\ cur' = 0 /\ batch' = {} /\ restoring' = FALSE

Post(d) ==
  /\ \A e \in posted : e < d
  /\ posted' = posted \cup {d} /\ mailbox' = mailbox \cup {d}
  /\ UNCHANGED <<deviceVars, shown, engineVars>>

\* sync_mailbox: fetch what the relay holds and go through it in order.
Fetch ==
  /\ pc = "idle" /\ mailbox # {}
  /\ batch' = mailbox /\ pc' = "open"
  /\ UNCHANGED <<relayVars, deviceVars, shown, cur, restoring, crashes>>

BatchDone ==
  /\ pc = "open" /\ batch = {} /\ pc' = "idle"
  /\ UNCHANGED <<relayVars, deviceVars, shown, cur, batch, restoring, crashes>>

\* Mutant: a redelivery is always put through the ratchet again.
KnownNever(d) == FALSE /\ d \in staged

\* A staging record, or the joined group of a Welcome, answers a redelivery
\* without touching the ratchet.
Known(d) == d \in staged \/ (d \in Welcomes /\ d \in spent)

\* Mutant: the ratchet advances and the plaintext is not staged.
OpenUnstaged(d) ==
  /\ pc = "open" /\ d \in batch /\ \A e \in batch : d <= e
  /\ d \notin spent \cup Unreadable
  /\ spent' = spent \cup {d} /\ UNCHANGED staged
  /\ \/ Persisted /\ pc' = "present" /\ cur' = d /\ UNCHANGED <<batch, restoring>>
     \/ PersistFailed /\ Abort
  /\ UNCHANGED <<relayVars, shown, crashes>>

\* Mutant: a failed persist is undone in memory only.
OpenRollsBack(d) ==
  /\ pc = "open" /\ d \in batch /\ \A e \in batch : d <= e
  /\ Known(d) \/ d \notin spent \cup Unreadable
  /\ \/ /\ spent' = spent \cup {d}
        /\ staged' = IF d \in Welcomes THEN staged ELSE staged \cup {d}
        /\ Persisted /\ pc' = "present" /\ cur' = d
        /\ UNCHANGED <<batch, restoring>>
     \/ /\ DiskFaults /\ Abort /\ UNCHANGED <<spent, staged>>
        /\ diskSpent' = spent \cup {d} /\ diskStaged' = staged \cup {d}
  /\ UNCHANGED <<relayVars, shown, crashes>>

Open(d) ==
  /\ pc = "open" /\ d \in batch /\ \A e \in batch : d <= e
  /\ Known(d) \/ d \notin spent \cup Unreadable
  /\ spent' = spent \cup {d}
  /\ staged' = IF d \in Welcomes THEN staged ELSE staged \cup {d}
  /\ \/ Persisted /\ pc' = "present" /\ cur' = d /\ UNCHANGED <<batch, restoring>>
     \/ PersistFailed /\ Abort
  /\ UNCHANGED <<relayVars, shown, crashes>>

\* MLS refuses the ciphertext: its epoch is over, or its key is used up and
\* nothing is staged.
Undecryptable(d) ==
  /\ pc = "open" /\ d \in batch /\ \A e \in batch : d <= e
  /\ ~Known(d) /\ d \in spent \cup Unreadable
  /\ Abort /\ UNCHANGED <<relayVars, deviceVars, shown, crashes>>

\* Mutants: no look at what the vault holds; a failed write is ignored.
PresentAgain ==
  /\ pc = "present"
  /\ shown' = [shown EXCEPT ![cur] = @ + 1]
  /\ pc' = "ack"
  /\ UNCHANGED <<relayVars, deviceVars, cur, batch, restoring, crashes>>
PresentUnchecked ==
  /\ pc = "present" /\ DiskFaults /\ pc' = "ack"
  /\ UNCHANGED <<relayVars, deviceVars, shown, cur, batch, restoring, crashes>>

\* present_pending, apply_pending_commit, ensure_chat: one vault write, which
\* inserts nothing that the vault already holds.
Present ==
  /\ pc = "present"
  /\ shown' = [shown EXCEPT ![cur] = IF @ = 0 THEN 1 ELSE @]
  /\ pc' = "ack"
  /\ UNCHANGED <<relayVars, deviceVars, cur, batch, restoring, crashes>>

PresentFails ==
  /\ pc = "present" /\ DiskFaults
  /\ Abort /\ UNCHANGED <<relayVars, deviceVars, shown, crashes>>

AfterDelivery == IF restoring THEN "restore" ELSE "open"

\* A Welcome has no staging record to complete.
Ack ==
  /\ pc = "ack"
  /\ mailbox' = mailbox \ {cur} /\ batch' = batch \ {cur}
  /\ pc' = IF cur \in Welcomes THEN AfterDelivery ELSE "complete"
  /\ UNCHANGED <<posted, deviceVars, shown, cur, restoring, crashes>>

\* Refused or unanswered; the relay may have acted on it all the same.
AckFails ==
  /\ pc = "ack"
  /\ mailbox' \in {mailbox, mailbox \ {cur}}
  /\ Abort /\ UNCHANGED <<posted, deviceVars, shown, crashes>>

Complete ==
  /\ pc = "complete"
  /\ staged' = staged \ {cur} /\ UNCHANGED spent
  /\ \/ Persisted /\ pc' = AfterDelivery /\ cur' = 0
        /\ UNCHANGED <<batch, restoring>>
     \/ PersistFailed /\ Abort
  /\ UNCHANGED <<relayVars, shown, crashes>>

\* Encrypting any outgoing message persists the whole device image too.
PersistElsewhere ==
  /\ pc = "idle" /\ UNCHANGED <<spent, staged>> /\ Persisted
  /\ UNCHANGED <<relayVars, shown, engineVars>>

\* The process dies and is started again on what is on disk.
Crash ==
  /\ crashes < MaxCrashes /\ crashes' = crashes + 1
  /\ spent' = diskSpent /\ staged' = diskStaged
  /\ pc' = "restore" /\ restoring' = TRUE /\ cur' = 0 /\ batch' = {}
  /\ UNCHANGED <<relayVars, diskSpent, diskStaged, shown>>

\* restore_pending: the staged Commits first, then the staged messages.
RestoreNext(d) ==
  /\ pc = "restore" /\ d \in staged
  /\ d \in Commits \/ staged \cap Commits = {}
  /\ pc' = "present" /\ cur' = d
  /\ UNCHANGED <<relayVars, deviceVars, shown, batch, restoring, crashes>>

RestoreDone ==
  /\ pc = "restore" /\ staged = {}
  /\ pc' = "idle" /\ restoring' = FALSE
  /\ UNCHANGED <<relayVars, deviceVars, shown, cur, batch, crashes>>

Next ==
  \/ \E d \in Deliveries :
       Post(d) \/ Open(d) \/ Undecryptable(d) \/ RestoreNext(d)
  \/ Fetch \/ BatchDone \/ Present \/ PresentFails \/ Ack \/ AckFails
  \/ Complete \/ PersistElsewhere \/ Crash \/ RestoreDone

Spec == Init /\ [][Next]_vars

\* The frontend keeps synchronizing, an operation runs to its end, and a
\* write or an acknowledgement tried again and again succeeds at last.
FairSpec ==
  /\ Spec
  /\ WF_vars(Fetch) /\ WF_vars(BatchDone) /\ WF_vars(RestoreDone)
  /\ WF_vars(\E d \in Deliveries : RestoreNext(d))
  /\ SF_vars(\E d \in Deliveries : Open(d) /\ pc' = "present")
  /\ SF_vars(Present) /\ SF_vars(Ack)
  /\ SF_vars(Complete /\ Persisted)

-----------------------------------------------------------------------------
\* No delivery the relay still holds has been made unreadable: when its key is
\* used up, in memory or on disk, its plaintext is staged in the same place.
NoPoison ==
  \A d \in mailbox \ Welcomes :
    /\ d \in spent => d \in staged
    /\ d \in diskSpent => d \in diskStaged

\* The relay forgets a delivery only after the vault has it for good.
AckAfterDurable == \A d \in posted \ mailbox : shown[d] = 1

\* The client keeps its promise: once each, in order, and none forgotten.
Promise == INSTANCE ExactlyOnce WITH
  posted <- posted, mailbox <- mailbox, shown <- shown
ImplementsPromise == Promise!Spec

\* Every delivery is consumed, whatever fails on the way.  The exception is
\* what the pass stops at: an unreadable delivery, and everything behind it.
Consumed ==
  \A d \in Deliveries :
    (\A u \in Unreadable : d < u) => ((d \in mailbox) ~> (d \notin mailbox))

=============================================================================
