------------------------------ MODULE Handoff ------------------------------
(***************************************************************************)
(* How a membership Commit of this device gets from the MLS state          *)
(* (mutte-core) through the vault's outbox to the relay, in one chat:      *)
(* removals for revoked devices (reconcile_revoked_device), additions for  *)
(* new ones (sync_device), and the restore stage after a restart.          *)
(*                                                                         *)
(* The device image lives in memory and on disk; a persist that fails      *)
(* leaves memory ahead.  A Commit is its number, its target and the Commit *)
(* it was made upon; the numbers count what was ever created.  The outbox  *)
(* entry of a Commit stands for the Welcome and DeviceSync queued with it. *)
(* This device is the elected committer, and other members remain.         *)
(***************************************************************************)
EXTENDS Naturals

CONSTANTS
  Removals,    \* own devices that may be revoked
  Additions,   \* own devices the user may bring into the chat
  DiskFaults,  \* may a file write fail while the process keeps running?
  MaxCrashes   \* bound on process restarts

ASSUME HandoffAssumption ==
  /\ Removals \cap Additions = {}
  /\ DiskFaults \in BOOLEAN
  /\ MaxCrashes \in Nat

VARIABLES
  image, disk,   \* the device: MLS group and unfinished mutations
  outbox,        \* Commits in the vault's outbox
  pc, cur,       \* step inside the current operation and its Commit
  restoring, crashes,
  revoked,       \* devices the account has revoked
  events,        \* revocation events not acknowledged yet
  lease,         \* number of the Commit the relay's lease was taken for, or 0
  accepted,      \* Commits the relay has taken
  made,          \* number of Commits ever created
  orphan         \* has a restart forgotten a Commit that was queued or sent?

deviceVars == <<image, disk>>
engineVars == <<pc, cur, restoring, crashes>>
relayVars  == <<revoked, events, lease, accepted>>
ghostVars  == <<made, orphan>>
vars == <<deviceVars, outbox, engineVars, relayVars, ghostVars>>

-----------------------------------------------------------------------------
Targets == Removals \cup Additions
Commit  == [id : Nat, target : Targets, base : Nat]
\* The group after Commit "head"; "changed" targets have been added or removed.
Image   == [head : Nat, changed : SUBSET Targets, pending : SUBSET Commit]
Step    == {"idle", "restage", "rotate", "claim", "create", "stage",
            "complete", "ack", "restore"}

TypeOK ==
  /\ image \in Image /\ disk \in Image
  /\ outbox \subseteq Commit
  /\ pc \in Step
  /\ pc \notin {"idle", "restore"} => cur \in Commit
  /\ restoring \in BOOLEAN /\ crashes \in Nat
  /\ revoked \subseteq Removals /\ events \subseteq revoked
  /\ lease \in Nat
  /\ accepted \subseteq Commit
  /\ made \in Nat /\ orphan \in BOOLEAN
  /\ disk.head <= image.head /\ image.head <= made

NoCommit == [id |-> 0, base |-> 0]

Init ==
  /\ image = [head |-> 0, changed |-> {}, pending |-> {}] /\ disk = image
  /\ outbox = {} /\ pc = "idle" /\ cur = NoCommit
  /\ restoring = FALSE /\ crashes = 0
  /\ revoked = {} /\ events = {} /\ lease = 0 /\ accepted = {}
  /\ made = 0 /\ orphan = FALSE

-----------------------------------------------------------------------------
Persisted == disk' = image'
PersistFailed == DiskFaults /\ (Persisted \/ UNCHANGED disk)

\* An error ends the operation, or this stage of the restart.
Abort == pc' = "idle" /\ cur' = NoCommit /\ restoring' = FALSE

\* The account revokes a device; every other one is told by an event.
Revoke(t) ==
  /\ t \in Removals \ revoked
  /\ revoked' = revoked \cup {t} /\ events' = events \cup {t}
  /\ UNCHANGED <<deviceVars, outbox, engineVars, lease, accepted, ghostVars>>

TakeEvent(t) ==
  /\ pc = "idle" /\ t \in events
  /\ pc' = "restage" /\ cur' = [id |-> 0, target |-> t, base |-> 0]
  /\ UNCHANGED <<deviceVars, outbox, restoring, crashes, relayVars, ghostVars>>

SyncDevice(t) ==
  /\ pc = "idle" /\ t \in Additions \ image.changed /\ outbox = {}
  /\ pc' = "rotate" /\ cur' = [id |-> 0, target |-> t, base |-> 0]
  /\ UNCHANGED <<deviceVars, outbox, restoring, crashes, relayVars, ghostVars>>

\* A removal that an earlier attempt left unfinished is staged again.
\* Mutant: it is not looked for.
RestageNothing ==
  /\ pc = "restage" /\ pc' = "rotate"
  /\ UNCHANGED <<deviceVars, outbox, cur, restoring, crashes, relayVars,
                 ghostVars>>

Restage ==
  /\ pc = "restage"
  /\ LET left == {p \in image.pending : p.target = cur.target} IN
       IF left = {} THEN pc' = "rotate" /\ UNCHANGED cur
                    ELSE pc' = "stage" /\ cur' \in left
  /\ UNCHANGED <<deviceVars, outbox, restoring, crashes, relayVars, ghostVars>>

\* The chat does not need the change any more.
Rotated ==
  /\ pc = "rotate" /\ cur.target \in image.changed
  /\ pc' = "ack"
  /\ UNCHANGED <<deviceVars, outbox, cur, restoring, crashes, relayVars,
                 ghostVars>>

\* Mutant: the chat is skipped, and the event acknowledged.
RefusedSkips ==
  /\ pc = "rotate" /\ cur.target \notin image.changed
  /\ pc' = "ack"
  /\ UNCHANGED <<deviceVars, outbox, cur, restoring, crashes, relayVars,
                 ghostVars>>

\* Another membership change is queued, or the lease is taken or out of reach.
Refused ==
  /\ pc = "rotate" /\ cur.target \notin image.changed
  /\ Abort /\ UNCHANGED <<deviceVars, outbox, crashes, relayVars, ghostVars>>

Acquire ==
  /\ pc = "rotate" /\ cur.target \notin image.changed
  /\ outbox = {} /\ lease = 0
  /\ lease' = made + 1
  /\ pc' = IF cur.target \in Additions THEN "claim" ELSE "create"
  /\ UNCHANGED <<deviceVars, outbox, cur, restoring, crashes, revoked, events,
                 accepted, ghostVars>>

\* release_conversation_mutation, which may fail.
GiveBack == lease' \in {0, lease}

\* An addition needs a key package; without one the lease is given back, if
\* the relay can be reached.
Claim ==
  /\ pc = "claim"
  /\ \/ pc' = "create" /\ UNCHANGED <<cur, restoring, lease>>
     \/ Abort /\ GiveBack
  /\ UNCHANGED <<deviceVars, outbox, crashes, revoked, events, accepted,
                 ghostVars>>

\* remove_device, add_device: the group advances in memory before the image,
\* with the Commit in it, is written.
NextCommit == [id |-> made + 1, target |-> cur.target, base |-> image.head]

\* Mutants: a failed write is undone in memory only; the new Commit is not
\* merged into the group.
CreateRollsBack ==
  /\ pc = "create" /\ made' = made + 1
  /\ LET new == [head |-> made + 1,
                 changed |-> image.changed \cup {cur.target},
                 pending |-> image.pending \cup {NextCommit}] IN
       \/ image' = new /\ Persisted /\ pc' = "stage" /\ cur' = NextCommit
          /\ UNCHANGED restoring
       \/ DiskFaults /\ disk' = new /\ Abort /\ UNCHANGED image
  /\ UNCHANGED <<outbox, crashes, relayVars, orphan>>
CreateUnmerged ==
  /\ pc = "create" /\ made' = made + 1
  /\ image' = [image EXCEPT !.changed = @ \cup {cur.target},
                            !.pending = @ \cup {NextCommit}]
  /\ \/ Persisted /\ pc' = "stage" /\ cur' = NextCommit /\ UNCHANGED restoring
     \/ PersistFailed /\ Abort
  /\ UNCHANGED <<outbox, crashes, relayVars, orphan>>

Create ==
  /\ pc = "create" /\ made' = made + 1
  /\ image' = [head |-> made + 1,
               changed |-> image.changed \cup {cur.target},
               pending |-> image.pending \cup {NextCommit}]
  /\ \/ Persisted /\ pc' = "stage" /\ cur' = NextCommit /\ UNCHANGED restoring
     \/ PersistFailed /\ Abort
  /\ UNCHANGED <<outbox, crashes, relayVars, orphan>>

\* queue_commit, queue_control_envelopes: nothing is queued twice.
Stage ==
  /\ pc = "stage" /\ pc' = "complete"
  /\ outbox' = outbox \cup {cur}
  /\ UNCHANGED <<deviceVars, cur, restoring, crashes, relayVars, ghostVars>>

\* Mutant: the error path gives the lease back.
VaultFailureReleases ==
  /\ DiskFaults /\ pc \in {"create", "stage"}
  /\ Abort /\ lease' = 0
  /\ UNCHANGED <<deviceVars, outbox, crashes, revoked, events, accepted,
                 ghostVars>>

\* The vault refuses: the cancellation before a Commit, or the queueing of it.
\* The lease stays taken.
VaultWriteFails ==
  /\ DiskFaults /\ pc \in {"create", "stage"}
  /\ Abort /\ UNCHANGED <<deviceVars, outbox, crashes, relayVars, ghostVars>>

\* complete_removal, complete_addition.
Complete ==
  /\ pc = "complete"
  /\ image' = [image EXCEPT !.pending = @ \ {cur}]
  /\ \/ /\ Persisted /\ UNCHANGED restoring
        /\ IF restoring THEN pc' = "restore" /\ cur' = NoCommit
           ELSE IF cur.target \in Removals THEN pc' = "rotate" /\ UNCHANGED cur
           ELSE pc' = "idle" /\ cur' = NoCommit
     \/ PersistFailed /\ Abort
  /\ UNCHANGED <<outbox, crashes, relayVars, ghostVars>>

\* The revocation event is acknowledged; the answer may be lost.
Acknowledge ==
  /\ pc = "ack" /\ Abort
  /\ events' \in {events, events \ {cur.target}}
  /\ UNCHANGED <<deviceVars, outbox, crashes, revoked, lease, accepted,
                 ghostVars>>

\* Encrypting anything, in any chat, writes the whole image.
PersistElsewhere ==
  /\ pc = "idle" /\ UNCHANGED image /\ Persisted
  /\ UNCHANGED <<outbox, engineVars, relayVars, ghostVars>>

-----------------------------------------------------------------------------
\* The relay consumes the lease with the Commit, and knows a repeated one.
Accept(c) ==
  /\ c \in accepted \/ lease = c.id
  /\ accepted' = accepted \cup {c}
  /\ lease' = IF c \in accepted THEN lease ELSE 0
  /\ UNCHANGED <<revoked, events>>

\* The answer, or the vault write after it, may be lost.
Send(c) ==
  /\ pc = "idle" /\ c \in outbox /\ Accept(c)
  /\ outbox' \in {outbox, outbox \ {c}}
  /\ UNCHANGED <<deviceVars, engineVars, ghostVars>>

-----------------------------------------------------------------------------
Known == outbox \cup accepted

Crash ==
  /\ crashes < MaxCrashes /\ crashes' = crashes + 1
  /\ image' = disk /\ UNCHANGED disk
  /\ orphan' = (orphan \/ \E c \in Known : disk.head < c.id)
  /\ pc' = "restore" /\ restoring' = TRUE /\ cur' = NoCommit
  /\ UNCHANGED <<outbox, relayVars, made>>

\* restore_pending_membership: the additions first.
RestoreNext ==
  /\ pc = "restore"
  /\ \E p \in image.pending :
       /\ p.target \in Additions
            \/ \A q \in image.pending : q.target \in Removals
       /\ cur' = p
  /\ pc' = "stage"
  /\ UNCHANGED <<deviceVars, outbox, restoring, crashes, relayVars, ghostVars>>

RestoreDone ==
  /\ pc = "restore" /\ image.pending = {}
  /\ Abort /\ UNCHANGED <<deviceVars, outbox, crashes, relayVars, ghostVars>>

Next ==
  \/ \E t \in Targets : Revoke(t) \/ TakeEvent(t) \/ SyncDevice(t)
  \/ Restage \/ Rotated \/ Refused \/ Acquire \/ Claim \/ Create \/ Stage
  \/ VaultWriteFails \/ Complete \/ Acknowledge \/ PersistElsewhere
  \/ \E c \in outbox : Send(c)
  \/ Crash \/ RestoreNext \/ RestoreDone

Spec == Init /\ [][Next]_vars

\* An operation that has begun runs on to its end.
Running ==
  Restage \/ Rotated \/ Refused \/ Claim \/ Create \/ Complete
    \/ RestoreNext \/ RestoreDone

\* The frontend keeps polling for events and flushing; a lease, a write or a
\* call tried again and again is had at last.
FairSpec ==
  /\ Spec /\ WF_vars(Running) /\ SF_vars(Stage)
  /\ SF_vars(Acknowledge /\ cur.target \notin events')
  /\ \A t \in Removals :
       SF_vars(TakeEvent(t)) /\ SF_vars(Acquire /\ cur.target = t)
  /\ SF_vars(\E c \in outbox : Send(c) /\ c \notin outbox')

-----------------------------------------------------------------------------
\* The group has one history: no two Commits this device has queued or sent
\* were made upon the same one.
OneCommitPerEpoch == \A c, d \in Known : c.base = d.base => c = d

\* What the staging of a Commit is worth: only a restart that finds on disk a
\* group older than a Commit already queued can fork the group.
ForkNeedsOrphan == ~orphan => OneCommitPerEpoch

\* The relay gets no Commit before the one it was made upon.
ChainInOrder ==
  \A c \in accepted : c.base = 0 \/ \E d \in accepted : d.id = c.base

\* A revocation event is acknowledged only when the Commit that removes the
\* device is durably queued, whatever failed or crashed before.
AckedIsQueued ==
  \A t \in revoked \ events : \E c \in Known : c.target = t

\* A lease that nothing this process still holds is going to use.
Leaked ==
  /\ pc = "idle" /\ lease # 0
  /\ ~\E c \in outbox \cup {p \in image.pending : p.target \in Removals} :
        c.id = lease

\* Every revocation reaches the relay as a Commit, however many writes fail on
\* the way, unless a failed mutation has left the relay's lease taken.
RemovalSettles ==
  \A t \in Removals :
    (t \in revoked) ~> ((\E c \in accepted : c.target = t) \/ Leaked)
=============================================================================
