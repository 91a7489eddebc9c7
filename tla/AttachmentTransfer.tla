------------------------- MODULE AttachmentTransfer -------------------------
(***************************************************************************)
(* Cancelling file transfers.  The frontend cancels through a registry of  *)
(* controls that it can reach while the engine is busy; the engine works   *)
(* through the durable queue of transfers, one at a time, and also takes   *)
(* explicit requests that carry a control of their own.  A frontend step   *)
(* can fall between any two engine steps; each step below is one hold of   *)
(* the registry lock, one atomic exchange on a control, one vault write or *)
(* one stretch of network work.                                            *)
(*                                                                         *)
(* A control is identified with the registry entry that holds it: only one *)
(* entry is ever active, and queue refreshes do not replace an active one. *)
(* "handle" is the control of an explicit request until it is registered.  *)
(*                                                                         *)
(* Names that Chunks has too begin with Transfer here: AttachmentProofs    *)
(* extends both.                                                           *)
(***************************************************************************)
EXTENDS Naturals

CONSTANTS
  Transfers,    \* files, by attachment id and direction
  Downloads,    \* those of them that are downloads
  DiskFaults,   \* may a vault write or a file removal fail?
  MaxCrashes    \* bound on process restarts

Nobody == "nobody"   \* the engine is not about any transfer

ASSUME TransferAssumption ==
  /\ Nobody \notin Transfers
  /\ Downloads \subseteq Transfers
  /\ DiskFaults \in BOOLEAN
  /\ MaxCrashes \in Nat

VARIABLES
  journal,    \* the vault: transfers asked for and not yet over
  done,       \* the vault: uploads announced, downloads recorded
  state,      \* the registry: AttachmentCancellation.state of each entry
  active,     \* the registry: entries under an ActiveTransferLease
  handle,     \* control of the explicit request before it is registered
  engine, cur,  \* step of the engine and the transfer it is about
  left,       \* transfers this synchronization still has to resume
  todo,       \* accepted cancellations this sweep still has to clean up
  after,      \* what follows the sweep
  accepted,   \* transfers whose cancellation was reported as accepted
  crashes

vaultVars    == <<journal, done>>
registryVars == <<state, active, handle>>
engineVars   == <<engine, cur, left, todo, after>>
transferVars == <<vaultVars, registryVars, engineVars, accepted, crashes>>

ControlState == {"none", "open", "cancelled", "committed"}
Step == {"idle", "enter", "prepare", "list", "sweep", "refresh", "request",
         "register", "resume", "transfer", "commit", "settle", "cleanup", "drop",
         "cancel"}
InAttempt == engine \in {"transfer", "commit", "settle", "cleanup", "drop"}

TransferTypeOK ==
  /\ journal \subseteq Transfers /\ done \subseteq Transfers
  /\ state \in [Transfers -> ControlState]
  /\ active \subseteq {cur} \cap Transfers
  /\ handle \in ControlState
  /\ engine \in Step
  /\ cur \in Transfers \cup {Nobody}
  /\ left \subseteq Transfers /\ todo \subseteq Transfers
  /\ after \in {"resume", "request", "cancel", "end"}
  /\ accepted \subseteq Transfers
  /\ crashes \in Nat

TransferInit ==
  /\ journal = {} /\ done = {}
  /\ state = [t \in Transfers |-> "none"] /\ active = {} /\ handle = "none"
  /\ engine = "idle" /\ cur = Nobody /\ left = {} /\ todo = {} /\ after = "end"
  /\ accepted = {} /\ crashes = 0

-----------------------------------------------------------------------------
(* The frontend.                                                           *)

\* ActiveAttachmentTransfers::cancel; a later one only repeats the answer.
Cancel(t) ==
  /\ state[t] = "open"
  /\ state' = [state EXCEPT ![t] = "cancelled"]
  /\ accepted' = accepted \cup {t}
  /\ UNCHANGED <<vaultVars, active, handle, engineVars, crashes>>

\* A request can be cancelled while it waits for the engine.  When it asks
\* for a download that is queued already, that says nothing yet of the latter.
CancelHandle ==
  /\ handle = "open" /\ handle' = "cancelled"
  /\ accepted' = IF cur \in journal /\ engine # "register" THEN accepted
                 ELSE accepted \cup {cur}
  /\ UNCHANGED <<vaultVars, state, active, engineVars, crashes>>

-----------------------------------------------------------------------------
(* finish_queued_cancellations, before and after every engine operation.   *)

SyncBegin ==
  /\ engine = "idle" /\ engine' = "prepare" /\ after' = "resume"
  /\ UNCHANGED <<vaultVars, registryVars, cur, left, todo, accepted, crashes>>

\* A new upload has a new attachment id; a download can be asked for again.
RequestBegin(t) ==
  /\ engine = "idle" /\ t \notin done
  /\ t \in Downloads \/ t \notin journal \cup accepted
  /\ engine' = "enter" /\ after' = "request" /\ cur' = t /\ handle' = "open"
  /\ UNCHANGED <<vaultVars, state, active, left, todo, accepted, crashes>>

CancelBegin(t) ==
  /\ engine = "idle" /\ t \in journal
  /\ engine' = "prepare" /\ after' = "cancel" /\ cur' = t
  /\ UNCHANGED <<vaultVars, registryVars, left, todo, accepted, crashes>>

\* A request cancelled before the engine came to it does nothing.
Enter ==
  /\ engine = "enter"
  /\ IF handle = "cancelled"
       THEN engine' = "idle" /\ cur' = Nobody /\ handle' = "none"
       ELSE engine' = "prepare" /\ UNCHANGED <<cur, handle>>
  /\ UNCHANGED <<vaultVars, state, active, left, todo, after, accepted, crashes>>

\* Mutant: entries of transfers that left the queue are not dropped.
PreparedUnpruned ==
  [t \in Transfers |->
     IF t \in journal /\ state[t] = "none" THEN "open" ELSE state[t]]

\* prepare_pending: entries that are neither active nor queued are dropped,
\* queued transfers without an entry get a fresh one.
Prepared ==
  [t \in Transfers |->
     IF t \in active THEN state[t]
     ELSE IF t \notin journal THEN "none"
     ELSE IF state[t] = "none" THEN "open" ELSE state[t]]

PrepareQueue ==
  /\ engine = "prepare" /\ engine' = "list"
  /\ state' = Prepared
  /\ UNCHANGED <<vaultVars, active, handle, cur, left, todo, after, accepted,
                 crashes>>

\* Mutant: the sweep finds nothing.
ListNothing ==
  /\ engine = "list" /\ engine' = "sweep" /\ todo' = {}
  /\ UNCHANGED <<vaultVars, registryVars, cur, left, after, accepted, crashes>>

ListCancelled ==
  /\ engine = "list" /\ engine' = "sweep"
  /\ todo' = {t \in Transfers \ active : state[t] = "cancelled"}
  /\ UNCHANGED <<vaultVars, registryVars, cur, left, after, accepted, crashes>>

SweepOne(t) ==
  /\ engine = "sweep" /\ t \in todo
  /\ journal' = journal \ {t} /\ todo' = todo \ {t}
  /\ UNCHANGED <<done, registryVars, engine, cur, left, after, accepted,
                 crashes>>

\* The error of a write, or of removing the partial file after it, ends the
\* sweep and the operation it belongs to.
SweepFails(t) ==
  /\ engine = "sweep" /\ t \in todo /\ DiskFaults
  /\ journal' \in {journal, journal \ ({t} \cap Downloads)}
  /\ engine' = "idle" /\ cur' = Nobody /\ handle' = "none"
  /\ todo' = {} /\ left' = {}
  /\ UNCHANGED <<done, state, active, after, accepted, crashes>>

SweepDone ==
  /\ engine = "sweep" /\ todo = {} /\ engine' = "refresh"
  /\ UNCHANGED <<vaultVars, registryVars, cur, left, todo, after, accepted,
                 crashes>>

Refresh ==
  /\ engine = "refresh"
  /\ state' = Prepared
  /\ CASE after = "resume"  -> engine' = "resume" /\ left' = journal
       [] after \in {"request", "cancel"} -> engine' = after /\ UNCHANGED left
       [] after = "end"     -> engine' = "idle" /\ UNCHANGED left
  /\ UNCHANGED <<vaultVars, active, handle, cur, todo, after, accepted, crashes>>

\* The operation is over; its closing sweep begins.
EndOperation ==
  /\ engine' = "prepare" /\ after' = "end" /\ cur' = Nobody /\ handle' = "none"
  /\ left' = {}

-----------------------------------------------------------------------------
(* Carrying out a transfer.                                                *)

\* begin_attachment_upload_scoped, request_attachment_download: what was
\* cancelled earlier is wanted again, unless this request is cancelled too or
\* the cancel came while the same file was still queued.
RequestTransfer ==
  /\ engine = "request" /\ engine' = "register"
  /\ journal' = journal \cup {cur}
  /\ accepted' = IF \/ handle = "cancelled"
                    \/ cur \in journal /\ state[cur] = "cancelled"
                   THEN accepted \cup {cur} ELSE accepted \ {cur}
  /\ UNCHANGED <<done, registryVars, cur, left, todo, after, crashes>>

RequestFails ==
  /\ engine = "request" /\ EndOperation
  /\ UNCHANGED <<vaultVars, state, active, todo, accepted, crashes>>

ResumeNext(t) ==
  /\ engine = "resume" /\ t \in left
  /\ engine' = "register" /\ cur' = t /\ left' = left \ {t}
  /\ UNCHANGED <<vaultVars, registryVars, todo, after, accepted, crashes>>

ResumeDone ==
  /\ engine = "resume" /\ left = {} /\ EndOperation
  /\ UNCHANGED <<vaultVars, state, active, todo, accepted, crashes>>

\* The intent a queued entry has accepted goes over to the new control.
Register ==
  /\ engine = "register" /\ active = {} /\ engine' = "transfer"
  /\ state' = [state EXCEPT ![cur] =
                 IF "cancelled" \in {@, handle} THEN "cancelled" ELSE "open"]
  /\ active' = {cur} /\ handle' = "none"
  /\ UNCHANGED <<vaultVars, cur, left, todo, after, accepted, crashes>>

\* control.run drops the network work as soon as the signal is seen.
Interrupt ==
  /\ engine = "transfer" /\ state[cur] = "cancelled" /\ engine' = "settle"
  /\ UNCHANGED <<vaultVars, registryVars, cur, left, todo, after, accepted,
                 crashes>>

TransferFails ==
  /\ engine = "transfer" /\ engine' = "settle"
  /\ UNCHANGED <<vaultVars, registryVars, cur, left, todo, after, accepted,
                 crashes>>

\* Mutant: the exchange on the control is a plain store.
CommitUnchecked ==
  /\ engine = "transfer"
  /\ state' = [state EXCEPT ![cur] = "committed"] /\ engine' = "commit"
  /\ UNCHANGED <<vaultVars, active, handle, cur, left, todo, after, accepted,
                 crashes>>

\* All bytes are through: from here the transfer cannot be cancelled.
BeginCommit ==
  /\ engine = "transfer"
  /\ state[cur] = "open"
  /\ state' = [state EXCEPT ![cur] = "committed"] /\ engine' = "commit"
  /\ UNCHANGED <<vaultVars, active, handle, cur, left, todo, after, accepted,
                 crashes>>

\* queue_uploaded_attachment, complete_attachment_download.
Commit ==
  /\ engine = "commit" /\ engine' = "settle"
  /\ journal' = journal \ {cur} /\ done' = done \cup {cur}
  /\ UNCHANGED <<registryVars, cur, left, todo, after, accepted, crashes>>

CommitFails ==
  /\ engine = "commit" /\ DiskFaults /\ engine' = "settle"
  /\ UNCHANGED <<vaultVars, registryVars, cur, left, todo, after, accepted,
                 crashes>>

\* control.finish closes the window for a cancel; then the verdict is read.
Settle ==
  /\ engine = "settle"
  /\ IF state[cur] = "cancelled" THEN engine' = "cleanup" /\ UNCHANGED state
     ELSE engine' = "drop" /\ state' = [state EXCEPT ![cur] = "committed"]
  /\ UNCHANGED <<vaultVars, active, handle, cur, left, todo, after, accepted,
                 crashes>>

Cleanup ==
  /\ engine = "cleanup" /\ engine' = "drop"
  /\ journal' = journal \ {cur}
  /\ UNCHANGED <<done, registryVars, cur, left, todo, after, accepted, crashes>>

CleanupFails ==
  /\ engine = "cleanup" /\ DiskFaults /\ engine' = "drop"
  /\ UNCHANGED <<vaultVars, registryVars, cur, left, todo, after, accepted,
                 crashes>>

\* ActiveTransferLease::drop keeps an accepted intent for the next sweep.  A
\* synchronization goes on with the next file unless its session has ended.
\* Mutant for each: the intent goes with the lease; the lease stays.
ReleasedForgets == "none"
DropKeepsLease ==
  /\ engine = "drop"
  /\ IF after = "resume"
       THEN /\ engine' = "resume" /\ cur' = Nobody /\ left' \in {left, {}}
            /\ UNCHANGED <<after, handle>>
       ELSE EndOperation
  /\ UNCHANGED <<vaultVars, state, active, todo, accepted, crashes>>

Released == IF state[cur] = "cancelled" THEN "cancelled" ELSE "none"

Drop ==
  /\ engine = "drop"
  /\ active' = active \ {cur}
  /\ state' = [state EXCEPT ![cur] = Released]
  /\ IF after = "resume"
       THEN /\ engine' = "resume" /\ cur' = Nobody /\ left' \in {left, {}}
            /\ UNCHANGED <<after, handle>>
       ELSE EndOperation
  /\ UNCHANGED <<vaultVars, todo, accepted, crashes>>

\* /cancel-upload and /cancel-download are engine operations of their own.
CancelCommand ==
  /\ engine = "cancel" /\ EndOperation
  /\ journal' = journal \ {cur}
  /\ accepted' = IF cur \in journal THEN accepted \cup {cur} ELSE accepted
  /\ UNCHANGED <<done, state, active, todo, crashes>>

\* Nothing of that name is queued, the relay or the vault fails.
CancelCommandFails ==
  /\ engine = "cancel" /\ EndOperation
  /\ UNCHANGED <<vaultVars, state, active, todo, accepted, crashes>>

\* The registry and every answer given to the frontend die with the process.
Crash ==
  /\ crashes < MaxCrashes /\ crashes' = crashes + 1
  /\ state' = [t \in Transfers |-> "none"] /\ active' = {} /\ handle' = "none"
  /\ engine' = "idle" /\ cur' = Nobody /\ left' = {} /\ todo' = {} /\ after' = "end"
  /\ accepted' = {}
  /\ UNCHANGED vaultVars

-----------------------------------------------------------------------------
Frontend == CancelHandle \/ \E t \in Transfers : Cancel(t)

Operation ==
  \/ SyncBegin
  \/ \E t \in Transfers : RequestBegin(t) \/ CancelBegin(t)

Running ==
  \/ Enter \/ PrepareQueue \/ ListCancelled \/ SweepDone \/ Refresh
  \/ RequestTransfer \/ RequestFails \/ CancelCommand \/ CancelCommandFails
  \/ ResumeDone \/ Register
  \/ Interrupt \/ TransferFails \/ BeginCommit \/ Commit \/ Settle \/ Drop
  \/ \E t \in Transfers : ResumeNext(t)

Failing ==
  \/ CommitFails \/ CleanupFails \/ \E t \in Transfers : SweepFails(t)

Sweeping == Cleanup \/ \E t \in Transfers : SweepOne(t)

TransferNext == Frontend \/ Operation \/ Running \/ Sweeping \/ Failing \/ Crash

TransferSpec == TransferInit /\ [][TransferNext]_transferVars

\* The frontend keeps synchronizing between requests, an operation runs to its
\* end (network work ends by itself at last), and cleaning up succeeds at last.
FairSpec ==
  /\ TransferSpec /\ SF_transferVars(SyncBegin) /\ WF_transferVars(Running)
  /\ SF_transferVars(Cleanup)
  /\ \A t \in Transfers : SF_transferVars(SweepOne(t))

-----------------------------------------------------------------------------
\* "a late cancel must never claim success" (transfer.rs:17): a file
\* whose cancellation was accepted is not announced, and not recorded as
\* downloaded, by a later step of the process; nor is one that went through
\* queued again.
CancelHonoured == (accepted \cup journal) \cap done = {}

\* An accepted cancel is never forgotten while the file is still queued: the
\* control that the next sweep or the next attempt looks at still says so.
IntentKept ==
  \A t \in accepted \cap journal :
    state[t] = "cancelled" \/ (handle = "cancelled" /\ cur = t)

\* A queued file disappears only because it went through or because the user
\* asked for it: an old cancel never hits a new request.
NoPhantomCancel ==
  [][\A t \in journal \ journal' : t \in accepted' \cup done']_transferVars

\* An accepted cancel is carried out, unless the process dies first.
CancelSettles ==
  \A t \in Transfers :
    (t \in accepted /\ t \in journal) ~> (t \notin journal \/ t \notin accepted)

=============================================================================
