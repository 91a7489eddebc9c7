------------------------------- MODULE Outbox -------------------------------
(***************************************************************************)
(* The outgoing half of the client: the vault's durable outbox             *)
(* (mutte-store), the MLS epoch of the device (mutte-core) and the engine  *)
(* steps of mutte-client that queue, send, complete and cancel ciphertext. *)
(*                                                                         *)
(* The engine runs one operation at a time (&mut self), so an operation is *)
(* a chain of steps through "pc", one step per durable write or network    *)
(* call; only Crash, the relay and the peers come between two steps.  A    *)
(* vault write is atomic (it is rolled back when it cannot be persisted).  *)
(* An outbox item is identified by a ticket: tickets grow along the Vec, so*)
(* a ticket stands both for the envelope id and for the place in the FIFO. *)
(***************************************************************************)
EXTENDS Naturals

CONSTANTS
  Conversations,     \* encrypted chats this device is a member of
  Messages,          \* the account's own messages, by message id
  Attachments,       \* those of them that carry an uploaded file
  Inbound,           \* messages received from peers
  ConvOf,            \* the conversation of each message
  HistoryJobs,       \* chats where a HistorySync part or ack becomes due
  SendReadReceipts,  \* the vault's send_read_receipts setting
  DiskFaults,        \* may a vault write fail while the process keeps running?
  Tickets,           \* places in the outbox: Nat, or 1..n for TLC (a bound)
  MaxEpoch,          \* bound on membership changes
  MaxCrashes         \* bound on process restarts

ASSUME OutboxAssumption ==
  /\ Conversations # {}
  /\ Attachments \subseteq Messages
  /\ ConvOf \in [Messages \cup Inbound -> Conversations]
  /\ HistoryJobs \subseteq Conversations
  /\ SendReadReceipts \in BOOLEAN
  /\ DiskFaults \in BOOLEAN
  /\ Tickets \subseteq Nat
  /\ MaxEpoch \in Nat
  /\ MaxCrashes \in Nat

VARIABLES
  \* the vault: every field is durable
  outbox,            \* the queued envelopes
  delivery,          \* DeliveryState of each own message
  uploads,           \* outbound_attachments: files still being uploaded
  received,          \* inbound messages: "none", "unread" or "read" here
  owed,              \* pending_receipts
  verifiedAt,        \* epoch whose safety code the user confirmed, or 0
  \* the device: durable MLS state and staging
  epoch,             \* MLS epoch per conversation
  pendingMembership, \* own Commits not yet handed over to the outbox
  pendingCommits,    \* processed inbound Commits not yet completed
  forked,            \* chats whose group has left the branch of its peers
  \* the engine
  pc, cur,           \* step inside the current operation and its subject
  starting,          \* inside start_inner, before the frontend's commands
  historyLeft, crashes,
  \* the relay and the peers
  mailbox,           \* inbound Commits the relay still holds for this device
  announced,         \* epoch the peers have been led to
  reached,           \* own messages the relay accepted at least once
  told,              \* receipts the relay accepted at least once
  onWire             \* verdicts on chat ciphertexts accepted but not fresh

vaultVars  == <<outbox, delivery, uploads, received, owed, verifiedAt>>
deviceVars == <<epoch, pendingMembership, pendingCommits, forked>>
engineVars == <<pc, cur, starting, historyLeft, crashes>>
worldVars  == <<mailbox, announced, reached, told, onWire>>
vars == <<vaultVars, deviceVars, engineVars, worldVars>>

-----------------------------------------------------------------------------
ReceiptKind   == {"delivered", "read"}
Receipt       == ReceiptKind \X Inbound
DeliveryState == {"none", "pending", "sent", "delivered", "read", "cancelled"}
\* Welcome and DeviceSync of an addition are queued together: "sync".
EnvelopeKind  == {"application", "commit", "sync", "history"}
OutboxItem    == [id : Tickets, conv : Conversations, kind : EnvelopeKind,
                  epoch : Nat, own : SUBSET Messages,
                  receipts : SUBSET Receipt]
Commit        == [conv : Conversations, epoch : Nat]
Membership    == [conv : Conversations, epoch : Nat,
                  kind : {"addition", "removal"}]
Step          == {"idle", "send", "receipts", "apply", "ack", "mutate",
                  "stage", "complete", "membership", "commits"}
Verdict       == {"fresh", "forked", "unapplied", "unannounced", "misplaced"}
Nothing       == [conv |-> CHOOSE c \in Conversations : TRUE, epoch |-> 0]

TypeOK ==
  /\ outbox \subseteq OutboxItem
  /\ delivery \in [Messages -> DeliveryState]
  /\ uploads \subseteq Attachments
  /\ received \in [Inbound -> {"none", "unread", "read"}]
  /\ owed \subseteq Receipt
  /\ verifiedAt \in [Conversations -> Nat]
  /\ epoch \in [Conversations -> Nat]
  /\ pendingMembership \subseteq Membership
  /\ pendingCommits \subseteq Commit
  /\ forked \subseteq Conversations
  /\ pc \in Step
  /\ cur \in Commit \cup Membership
  /\ starting \in BOOLEAN
  /\ historyLeft \subseteq HistoryJobs
  /\ crashes \in Nat
  /\ mailbox \subseteq Commit
  /\ announced \in [Conversations -> Nat]
  /\ reached \subseteq Messages
  /\ told \subseteq Receipt
  /\ onWire \subseteq Verdict

Init ==
  /\ outbox = {} /\ uploads = {} /\ owed = {}
  /\ delivery = [m \in Messages |-> "none"]
  /\ received = [i \in Inbound |-> "none"]
  /\ verifiedAt = [c \in Conversations |-> 0]
  /\ epoch = [c \in Conversations |-> 1]
  /\ pendingMembership = {} /\ pendingCommits = {} /\ forked = {}
  /\ pc = "idle" /\ cur = Nothing /\ starting = FALSE
  /\ historyLeft = HistoryJobs /\ crashes = 0
  /\ mailbox = {} /\ announced = [c \in Conversations |-> 1]
  /\ reached = {} /\ told = {} /\ onWire = {}

-----------------------------------------------------------------------------
(* Reading the vault.                                                      *)

HasPendingControl(c) ==
  \E i \in outbox : i.conv = c /\ i.kind # "application"

\* The members and keys of the group: they change with the epoch.
SafetyCode(c) == epoch[c]

\* The confirmed safety code covers another member set.
Changed(c) == verifiedAt[c] \notin {0, SafetyCode(c)}

SendingAllowed(c) == ~HasPendingControl(c) /\ ~Changed(c)

IsNextTicket(t) ==
  /\ \A i \in outbox : i.id < t
  /\ t = 1 \/ \E i \in outbox : i.id + 1 = t

Item(t, c, k, own, receipts) ==
  [id |-> t, conv |-> c, kind |-> k, epoch |-> epoch[c],
   own |-> own, receipts |-> receipts]

Carried(items) == UNION {i.receipts : i \in items}
InFlight == Carried(outbox)

\* flush_outbox takes the oldest item; flush_receipt_outbox the oldest receipt.
First(items) == {i \in items : \A j \in items : i.id <= j.id}
Last(items)  == {i \in items : \A j \in items : j.id <= i.id}

-----------------------------------------------------------------------------
(* Vault transitions.                                                      *)

CancelledItems(c) == {i \in outbox : i.conv = c /\ i.kind = "application"}

\* Mutants: the dropped messages keep their label; the receipts are forgotten.
CancelWithoutLabel(c) ==
  LET dropped == CancelledItems(c) IN
  /\ outbox' = outbox \ dropped
  /\ owed' = owed \cup Carried(dropped)
  /\ UNCHANGED delivery
CancelForgetsReceipts(c) ==
  LET dropped == CancelledItems(c) IN
  /\ outbox' = outbox \ dropped
  /\ delivery' = [m \in Messages |->
                    IF \E i \in dropped : m \in i.own
                      THEN "cancelled" ELSE delivery[m]]
  /\ UNCHANGED owed

CancelApplications(c) ==
  LET dropped == CancelledItems(c) IN
  /\ outbox' = outbox \ dropped
  /\ owed' = owed \cup (Carried(dropped) \ Carried(outbox \ dropped))
  /\ delivery' = [m \in Messages |->
                    IF \E i \in dropped : m \in i.own
                      THEN "cancelled" ELSE delivery[m]]

\* Mutant: the label of the wrong direction.
CompleteAsReceived(i) ==
  /\ outbox' = outbox \ {i}
  /\ delivery' = [m \in Messages |->
                    IF m \in i.own THEN "received" ELSE delivery[m]]

CompleteOutbox(i) ==
  /\ outbox' = outbox \ {i}
  /\ delivery' = [m \in Messages |->
                    IF m \in i.own THEN "sent" ELSE delivery[m]]

ApplyReceipt(state, kind) ==
  CASE kind = "delivered" /\ state \in {"pending", "sent"} -> "delivered"
    [] kind = "read" /\ state \in {"pending", "sent", "delivered"} -> "read"
    [] OTHER -> state

-----------------------------------------------------------------------------
(* The relay accepts an envelope.  A chat ciphertext is compared with the  *)
(* epoch the members are known to have reached: that of the last own Commit*)
(* the relay accepted, or of the last inbound Commit processed here.  The  *)
(* peers follow one branch: an own Commit that was made over an unread one *)
(* is not on it, and nobody can open what this device writes from then on. *)

Known(c) == IF announced[c] < epoch[c] THEN announced[c] ELSE epoch[c]

Freshness(i) ==
  IF i.conv \in forked THEN "forked" ELSE
  CASE i.epoch = Known(i.conv) -> "fresh"
    [] i.epoch < Known(i.conv)
       /\ \E p \in pendingCommits : p.conv = i.conv -> "unapplied"
    [] i.epoch > Known(i.conv)
       /\ \E p \in pendingMembership : p.conv = i.conv -> "unannounced"
    [] OTHER -> "misplaced"

Accept(i) ==
  /\ reached' = reached \cup i.own
  /\ told' = told \cup i.receipts
  /\ announced' = IF i.kind = "commit" /\ i.conv \notin forked
                                      /\ announced[i.conv] < i.epoch
                    THEN [announced EXCEPT ![i.conv] = i.epoch]
                    ELSE announced
  /\ onWire' = IF i.kind = "application"
                 THEN onWire \cup ({Freshness(i)} \ {"fresh"}) ELSE onWire
  /\ UNCHANGED mailbox

\* The answer arrived and the vault recorded it.
Transmitted(i) ==
  /\ Accept(i) /\ CompleteOutbox(i)
  /\ UNCHANGED <<uploads, received, owed, verifiedAt>>

\* Accepted, but the answer or the vault write after it was lost.
AnswerLost(i) == Accept(i) /\ UNCHANGED vaultVars

\* Mutant: also a control item waits for the end of membership updates.
FlushableAny(i) == SendingAllowed(i.conv)

Flushable(i) == i.kind = "application" => SendingAllowed(i.conv)

-----------------------------------------------------------------------------
(* Sending what the user wrote.                                            *)

Idle == pc = "idle" /\ ~starting

Compose(m) ==
  /\ Idle /\ m \notin Attachments /\ delivery[m] = "none"
  /\ SendingAllowed(ConvOf[m])
  /\ \E t \in Tickets :
       /\ IsNextTicket(t)
       /\ outbox' = outbox \cup {Item(t, ConvOf[m], "application", {m}, {})}
  /\ delivery' = [delivery EXCEPT ![m] = "pending"]
  /\ pc' = "send"
  /\ UNCHANGED <<uploads, received, owed, verifiedAt, deviceVars, worldVars,
                 cur, starting, historyLeft, crashes>>

\* The attempt right after queueing; a failed one leaves it for the flush.
\* Mutant: the outbox is completed whatever the relay answered.
SendUnchecked ==
  /\ pc = "send" /\ pc' = "idle"
  /\ \E i \in Last(outbox) :
       /\ CompleteOutbox(i)
       /\ Accept(i) \/ UNCHANGED worldVars
  /\ UNCHANGED <<deviceVars, uploads, received, owed, verifiedAt, cur,
                 starting, historyLeft, crashes>>

SendDirect ==
  /\ pc = "send" /\ pc' = "idle"
  /\ \/ \E i \in Last(outbox) : Transmitted(i) \/ AnswerLost(i)
     \/ UNCHANGED <<vaultVars, worldVars>>
  /\ UNCHANGED <<deviceVars, cur, starting, historyLeft, crashes>>

BeginUpload(m) ==
  /\ Idle /\ m \in Attachments \ uploads /\ delivery[m] = "none"
  /\ SendingAllowed(ConvOf[m])
  /\ uploads' = uploads \cup {m}
  /\ UNCHANGED <<outbox, delivery, received, owed, verifiedAt, deviceVars,
                 engineVars, worldVars>>

\* A finished upload is announced whatever else the chat has queued.
QueueUploaded(m) ==
  /\ Idle /\ m \in uploads
  /\ \E t \in Tickets :
       /\ IsNextTicket(t)
       /\ outbox' = outbox \cup {Item(t, ConvOf[m], "application", {m}, {})}
  /\ delivery' = [delivery EXCEPT ![m] = "pending"]
  /\ uploads' = uploads \ {m}
  /\ UNCHANGED <<received, owed, verifiedAt, deviceVars, engineVars,
                 worldVars>>

(* Flushing: oldest first, and the first failure ends the flush.           *)

Flush(i) ==
  /\ Flushable(i)
  /\ Transmitted(i)
  /\ UNCHANGED <<deviceVars, engineVars>>

FlushNext     == Idle /\ \E i \in First(outbox) : Flush(i)
FlushReceipts == Idle /\ \E i \in First({j \in outbox : j.receipts # {}}) :
                           Flush(i)
FlushLost ==
  /\ Idle
  /\ \E i \in First(outbox) \cup First({j \in outbox : j.receipts # {}}) :
       Flushable(i) /\ AnswerLost(i)
  /\ UNCHANGED <<deviceVars, engineVars>>

-----------------------------------------------------------------------------
(* Receipts, in both directions.                                           *)

\* A peer's encrypted receipt for a message the relay carried.
ReceiveReceipt(m, k) ==
  /\ Idle /\ m \in reached
  /\ delivery' = [delivery EXCEPT ![m] = ApplyReceipt(@, k)]
  /\ UNCHANGED <<outbox, uploads, received, owed, verifiedAt, deviceVars,
                 engineVars, worldVars>>

AddPending(receipts) == owed' = owed \cup (receipts \ InFlight)

\* A message of a peer; "visible" when its chat is on screen (locally_read).
StoreInbound(i, visible) ==
  /\ Idle /\ received[i] = "none"
  /\ received' = [received EXCEPT ![i] = IF visible THEN "read" ELSE "unread"]
  /\ AddPending({<<"delivered", i>>} \cup
                {<<"read", j>> : j \in {k \in {i} : visible /\ SendReadReceipts}})
  /\ pc' = "receipts"
  /\ UNCHANGED <<outbox, delivery, uploads, verifiedAt, deviceVars, worldVars,
                 cur, starting, historyLeft, crashes>>

MarkRead(c) ==
  LET seen == {i \in Inbound : ConvOf[i] = c /\ received[i] = "unread"} IN
  /\ Idle /\ seen # {}
  /\ received' = [i \in Inbound |-> IF i \in seen THEN "read" ELSE received[i]]
  /\ AddPending({<<"read", i>> : i \in {j \in seen : SendReadReceipts}})
  /\ pc' = "receipts"
  /\ UNCHANGED <<outbox, delivery, uploads, verifiedAt, deviceVars, worldVars,
                 cur, starting, historyLeft, crashes>>

Batch(c, k) == {r \in owed : r[1] = k /\ ConvOf[r[2]] = c}
Batchable(c, k) == Batch(c, k) # {} /\ ~HasPendingControl(c)

\* Mutant: receipts left behind are not queued again on synchronize.
NoSyncReceipts == FALSE /\ UNCHANGED vars

SyncReceipts ==
  /\ Idle /\ \E c \in Conversations, k \in ReceiptKind : Batchable(c, k)
  /\ pc' = "receipts"
  /\ UNCHANGED <<vaultVars, deviceVars, worldVars, cur, starting, historyLeft,
                 crashes>>

\* queue_receipt: the receipts move from what is owed to the outbox.
QueueReceipt(c, k) ==
  /\ \E t \in Tickets :
       /\ IsNextTicket(t)
       /\ outbox' = outbox \cup {Item(t, c, "application", {}, Batch(c, k))}
  /\ owed' = owed \ Batch(c, k)

QueueReceiptBatch(c, k) ==
  /\ pc = "receipts" /\ Batchable(c, k) /\ QueueReceipt(c, k)
  /\ UNCHANGED <<delivery, uploads, received, verifiedAt, deviceVars,
                 engineVars, worldVars>>

ReceiptsDone ==
  /\ pc = "receipts"
  /\ ~\E c \in Conversations, k \in ReceiptKind : Batchable(c, k)
  /\ pc' = "idle"
  /\ UNCHANGED <<vaultVars, deviceVars, worldVars, cur, starting, historyLeft,
                 crashes>>

-----------------------------------------------------------------------------
(* Inbound membership Commits.                                             *)

\* The relay lets one member at a time change a group (its mutation lease);
\* it does not ask what the member has read.
Leased(c) ==
  \/ \E i \in outbox : i.conv = c /\ i.kind = "commit"
  \/ \E p \in pendingMembership : p.conv = c
  \/ pc = "mutate" /\ cur.conv = c

RelayCommit(c) ==
  /\ announced[c] < MaxEpoch /\ ~Leased(c)
  /\ announced' = [announced EXCEPT ![c] = @ + 1]
  /\ mailbox' = mailbox \cup {[conv |-> c, epoch |-> announced[c] + 1]}
  /\ UNCHANGED <<vaultVars, deviceVars, engineVars, reached, told, onWire>>

\* process_commit: a redelivery is answered from the staging record; a group
\* on another branch cannot process the Commit, and its delivery stays.
StageCommit ==
  /\ Idle
  /\ \E d \in mailbox :
       /\ \A e \in mailbox : e.conv = d.conv => d.epoch <= e.epoch
       /\ d \in pendingCommits \/ d.conv \notin forked
       /\ cur' = d
       /\ epoch' = IF d \in pendingCommits THEN epoch
                   ELSE [epoch EXCEPT ![d.conv] = d.epoch]
       /\ pendingCommits' = pendingCommits \cup {d}
  /\ pc' = "apply"
  /\ UNCHANGED <<vaultVars, worldVars, pendingMembership, forked, starting,
                 historyLeft, crashes>>

\* Mutant: an inbound Commit leaves the queued ciphertext alone.
ApplyKeepsOutbox ==
  /\ pc = "apply" /\ pc' = "ack"
  /\ UNCHANGED <<vaultVars, deviceVars, worldVars, cur, starting, historyLeft,
                 crashes>>

ApplyCommit ==
  /\ pc = "apply" /\ pc' = "ack"
  /\ CancelApplications(cur.conv)
  /\ UNCHANGED <<uploads, received, verifiedAt, deviceVars, worldVars, cur,
                 starting, historyLeft, crashes>>

\* A failed or unanswered acknowledgement ends the mailbox pass, or the
\* restore stage, with the Commit still staged.
AckFails ==
  /\ pc = "ack" /\ pc' = "idle" /\ starting' = FALSE /\ cur' = Nothing
  /\ mailbox' \in {mailbox, mailbox \ {cur}}
  /\ UNCHANGED <<vaultVars, deviceVars, historyLeft, crashes, announced,
                 reached, told, onWire>>

AckCommit ==
  /\ pc = "ack" /\ pc' = IF starting THEN "commits" ELSE "idle"
  /\ mailbox' = mailbox \ {cur}
  /\ pendingCommits' = pendingCommits \ {cur} /\ cur' = Nothing
  /\ UNCHANGED <<vaultVars, epoch, pendingMembership, forked, starting,
                 historyLeft, crashes, announced, reached, told, onWire>>

(* Own membership changes: /sync-device adds, a revocation removes.        *)

\* cancel_application_outbox comes before the Commit; what the mailbox still
\* holds is not looked at.
BeginMutation(c) ==
  /\ Idle /\ ~HasPendingControl(c) /\ ~Leased(c)
  /\ epoch[c] < MaxEpoch
  /\ CancelApplications(c)
  /\ pc' = "mutate" /\ cur' = [conv |-> c, epoch |-> epoch[c] + 1]
  /\ UNCHANGED <<uploads, received, verifiedAt, deviceVars, worldVars,
                 starting, historyLeft, crashes>>

\* add_device, remove_device: upon the group as this device knows it.
CommitMutation ==
  /\ pc = "mutate" /\ pc' = "stage"
  /\ \E k \in {"addition", "removal"} :
       cur' = [conv |-> cur.conv, epoch |-> cur.epoch, kind |-> k]
  /\ epoch' = [epoch EXCEPT ![cur.conv] = cur.epoch]
  /\ pendingMembership' = pendingMembership \cup {cur'}
  /\ forked' = IF announced[cur.conv] < cur.epoch
                 THEN forked ELSE forked \cup {cur.conv}
  /\ UNCHANGED <<vaultVars, worldVars, pendingCommits, starting, historyLeft,
                 crashes>>

\* Queue the Commit and, for an addition, Welcome and DeviceSync behind it;
\* a Commit whose envelope id is still queued is not queued again.
StageControl ==
  /\ pc = "stage" /\ pc' = "complete"
  /\ IF \E i \in outbox : i.conv = cur.conv /\ i.kind = "commit"
                          /\ i.epoch = cur.epoch
       THEN UNCHANGED outbox
       ELSE \E t, u \in Tickets :
              /\ IsNextTicket(t) /\ u = t + 1
              /\ outbox' = outbox \cup {Item(t, cur.conv, "commit", {}, {})}
                   \cup {x \in {Item(u, cur.conv, "sync", {}, {})} :
                           cur.kind = "addition"}
  /\ UNCHANGED <<delivery, uploads, received, owed, verifiedAt, deviceVars,
                 worldVars, cur, starting, historyLeft, crashes>>

CompleteMembership ==
  /\ pc = "complete" /\ pc' = IF starting THEN "membership" ELSE "idle"
  /\ pendingMembership' = pendingMembership \ {cur} /\ cur' = Nothing
  /\ UNCHANGED <<vaultVars, worldVars, epoch, pendingCommits, forked, starting,
                 historyLeft, crashes>>

\* reconcile_revoked_device first stages the removals an error left behind.
RestageRemoval ==
  /\ Idle /\ pc' = "stage"
  /\ \E p \in pendingMembership : p.kind = "removal" /\ cur' = p
  /\ UNCHANGED <<vaultVars, deviceVars, worldVars, starting, historyLeft,
                 crashes>>

-----------------------------------------------------------------------------
(* Other producers, the user's verification, failures and restarts.        *)

\* A history part or acknowledgement, queued behind whatever is waiting.
QueueHistory(c) ==
  /\ Idle /\ c \in historyLeft
  /\ historyLeft' = historyLeft \ {c}
  /\ \E t \in Tickets :
       /\ IsNextTicket(t)
       /\ outbox' = outbox \cup {Item(t, c, "history", {}, {})}
  /\ UNCHANGED <<delivery, uploads, received, owed, verifiedAt, deviceVars,
                 worldVars, pc, cur, starting, crashes>>

VerifyConversation(c) ==
  verifiedAt' = [verifiedAt EXCEPT ![c] = SafetyCode(c)]

Confirm(c) ==
  /\ Idle /\ verifiedAt[c] # SafetyCode(c) /\ VerifyConversation(c)
  /\ UNCHANGED <<outbox, delivery, uploads, received, owed, deviceVars,
                 engineVars, worldVars>>

\* The vault rolls back, and the error ends this stage of the operation.
VaultWriteFails ==
  /\ DiskFaults /\ pc \in {"apply", "stage", "receipts"}
  /\ IF pc = "stage" /\ starting
       THEN pc' = "commits" /\ UNCHANGED starting
       ELSE pc' = "idle" /\ starting' = FALSE
  /\ cur' = Nothing
  /\ UNCHANGED <<vaultVars, deviceVars, worldVars, historyLeft, crashes>>

Crash ==
  /\ crashes < MaxCrashes /\ crashes' = crashes + 1
  /\ pc' = "membership" /\ starting' = TRUE /\ cur' = Nothing
  /\ UNCHANGED <<vaultVars, deviceVars, worldVars, historyLeft>>

RestoreMembership ==
  /\ pc = "membership"
  /\ IF pendingMembership = {} THEN pc' = "commits" /\ UNCHANGED cur
     ELSE pc' = "stage" /\ cur' \in pendingMembership
  /\ UNCHANGED <<vaultVars, deviceVars, worldVars, starting, historyLeft,
                 crashes>>

\* Mutant: a restart does not redo the Commits it finds staged.
RestoreSkipsCommits ==
  /\ pc = "commits" /\ pc' = "idle" /\ starting' = FALSE
  /\ UNCHANGED <<vaultVars, deviceVars, worldVars, cur, historyLeft, crashes>>

RestoreCommits ==
  /\ pc = "commits"
  /\ IF pendingCommits = {}
       THEN pc' = "idle" /\ starting' = FALSE /\ UNCHANGED cur
       ELSE pc' = "apply" /\ cur' \in pendingCommits /\ UNCHANGED starting
  /\ UNCHANGED <<vaultVars, deviceVars, worldVars, historyLeft, crashes>>

-----------------------------------------------------------------------------
User ==
  \/ \E m \in Messages : Compose(m) \/ BeginUpload(m)
  \/ \E c \in Conversations : MarkRead(c) \/ BeginMutation(c) \/ Confirm(c)

Engine ==
  \/ SendDirect \/ FlushNext \/ FlushReceipts \/ FlushLost
  \/ \E m \in Messages : QueueUploaded(m)
  \/ SyncReceipts \/ ReceiptsDone
  \/ \E c \in Conversations, k \in ReceiptKind : QueueReceiptBatch(c, k)
  \/ \E c \in Conversations : QueueHistory(c)
  \/ StageCommit \/ ApplyCommit \/ AckFails \/ AckCommit
  \/ CommitMutation \/ StageControl \/ CompleteMembership \/ RestageRemoval
  \/ RestoreMembership \/ RestoreCommits

Peers ==
  \/ \E m \in Messages, k \in ReceiptKind : ReceiveReceipt(m, k)
  \/ \E i \in Inbound, visible \in BOOLEAN : StoreInbound(i, visible)
  \/ \E c \in Conversations : RelayCommit(c)

Next == User \/ Engine \/ Peers \/ VaultWriteFails \/ Crash

Spec == Init /\ [][Next]_vars

\* An operation that has begun runs on to its end.
Running ==
  \/ SendDirect \/ ReceiptsDone
  \/ \E c \in Conversations, k \in ReceiptKind : QueueReceiptBatch(c, k)
  \/ ApplyCommit \/ AckCommit \/ CommitMutation \/ StageControl
  \/ CompleteMembership \/ RestoreMembership \/ RestoreCommits

\* What uses up something of which there is no endless supply: an item of the
\* outbox, a delivery, an uploaded file.
Progress == FlushNext \/ AckCommit \/ \E m \in Messages : QueueUploaded(m)

\* The frontend keeps calling synchronize; a send or an acknowledgement that is
\* tried again and again is answered at last, and so is the upload of a file.
FairSpec ==
  /\ Spec /\ WF_vars(Running)
  /\ SF_vars(Progress) /\ SF_vars(SyncReceipts) /\ SF_vars(StageCommit)

-----------------------------------------------------------------------------
(* Safety.                                                                 *)

Queued(m) == {i \in outbox : m \in i.own}

\* No message is lost or sent twice over: a message labelled pending has
\* exactly one envelope in the outbox, an envelope only carries messages still
\* shown as under way, and a cancelled message can never be sent any more.
OutboxOwnsPending ==
  \A m \in Messages :
    /\ \A i, j \in Queued(m) : i = j
    /\ delivery[m] = "pending" => Queued(m) # {}
    /\ Queued(m) # {} => delivery[m] \in {"pending", "delivered", "read"}
    /\ m \in uploads => delivery[m] = "none"

\* A label never claims more than happened: what is shown as sent, delivered
\* or read was accepted by the relay.
LabelsTruthful ==
  \A m \in Messages :
    delivery[m] \in {"sent", "delivered", "read"} => m \in reached

Earned ==
  {<<"delivered", i>> : i \in {j \in Inbound : received[j] # "none"}}
  \cup {<<"read", i>> : i \in {j \in Inbound :
                                 received[j] = "read" /\ SendReadReceipts}}

\* Every receipt the user owes is in exactly one place: still pending, or in
\* one queued envelope, or accepted by the relay; cancelling the envelope at an
\* epoch change gives it back, and none is sent that was not earned.
ReceiptsAccounted ==
  /\ owed \cup InFlight \cup told = Earned
  /\ owed \cap InFlight = {}
  /\ \A i, j \in outbox : i # j => i.receipts \cap j.receipts = {}

\* The relay carries a chat ciphertext in the epoch its members have reached.
\* The only exceptions: a processed Commit whose cancellation is still to be
\* redone, an own Commit the vault could not queue, and a chat whose group left
\* the peers' branch, by an own Commit made over one it had not read.
FreshOnWire == "misplaced" \notin onWire

-----------------------------------------------------------------------------
(* Liveness.                                                               *)

\* flush_outbox ends at its first item, without sending anything: a chat
\* message whose safety code has changed, or behind which a membership update or
\* a history part of its chat is queued.
HeadRefused ==
  \E i \in First(outbox) : i.kind = "application" /\ ~SendingAllowed(i.conv)

\* What the user sent does not wait for ever: it is sent or cancelled, unless
\* from some time on the head of the outbox is always refused.
MessagesSettle ==
  \/ <>[]HeadRefused
  \/ \A m \in Messages : delivery[m] = "pending" \/ m \in uploads
                           ~> delivery[m] \notin {"none", "pending"}

\* An owed receipt reaches the relay, with the same exception.
ReceiptsSettle ==
  \/ <>[]HeadRefused
  \/ \A r \in ReceiptKind \X Inbound : r \in owed ~> r \in told

=============================================================================
