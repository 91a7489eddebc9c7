---------------------------- MODULE OutboxProofs ----------------------------
(***************************************************************************)
(* Proofs about Outbox, for every set of chats and messages, every number   *)
(* of tickets, membership changes and crashes, with and without faults.     *)
(*                                                                          *)
(* The invariants are inductive together.  The vault writes that several    *)
(* operations share (queueing one item, completing one, cancelling those of *)
(* a chat) have a lemma each: what it does to the invariants is proved once.*)
(***************************************************************************)
EXTENDS Outbox, TLAPS

\* No queued envelope is of an epoch the group has yet to reach, and chat
\* ciphertext of an earlier one waits for a processed Commit to cancel it.
NeverAhead == \A i \in outbox : i.epoch <= epoch[i.conv]

OldIsUnapplied ==
  \A i \in outbox :
    i.kind = "application" /\ i.epoch < epoch[i.conv]
      => \E p \in pendingCommits : p.conv = i.conv

\* A Commit in the mailbox is one the relay announced, and still to be
\* processed unless it is staged, or of a chat that has left its branch.
MailboxAhead ==
  \A d \in mailbox :
    /\ d.epoch <= announced[d.conv]
    /\ \/ d \in pendingCommits \/ d.conv \in forked
       \/ epoch[d.conv] < d.epoch

\* On the peers' branch, where an own Commit is under way no other is announced,
\* and a group ahead of the relay is so by an own Commit, handed over to the
\* outbox or not.
UnderWay(c) ==
  \/ \E i \in outbox : i.conv = c /\ i.kind = "commit"
  \/ \E p \in pendingMembership : p.conv = c

LeaseBooks ==
  \A c \in Conversations \ forked :
    /\ UnderWay(c) => announced[c] <= epoch[c]
    /\ announced[c] < epoch[c] =>
         \/ \E i \in outbox : /\ i.conv = c /\ i.kind = "commit"
                             /\ i.epoch = epoch[c]
         \/ \E p \in pendingMembership : p.conv = c

OwnIsLast == \A p \in pendingMembership : p.epoch = epoch[p.conv]

Epochs == NeverAhead /\ OldIsUnapplied /\ MailboxAhead /\ LeaseBooks /\ OwnIsLast

\* What each step of an operation may rely on about the chat it is busy with.
Quiet(c) == \A i \in outbox : ~(i.conv = c /\ i.kind = "application")

Sending == pc = "send" => \A i \in Last(outbox) : ~HasPendingControl(i.conv)
Mutating ==
  pc = "mutate" =>
    /\ cur.epoch = epoch[cur.conv] + 1
    /\ ~UnderWay(cur.conv) /\ Quiet(cur.conv)
Acking  == pc = "ack" => Quiet(cur.conv)
Staging ==
  /\ pc \in {"stage", "complete"} => cur \in pendingMembership
  /\ pc = "complete" => \E i \in outbox : /\ i.conv = cur.conv
                                         /\ i.kind = "commit"
                                         /\ i.epoch = cur.epoch

Subject == Sending /\ Mutating /\ Acking /\ Staging

Inv ==
  /\ TypeOK
  /\ OutboxOwnsPending
  /\ LabelsTruthful
  /\ ReceiptsAccounted
  /\ Epochs /\ Subject /\ FreshOnWire

-----------------------------------------------------------------------------
(* Typing.                                                                 *)

\* The subject of an idle engine is a Commit record.
LEMMA NothingTyped == Nothing \in Commit
  BY OutboxAssumption DEF Nothing, Commit

\* A newly queued envelope is an outbox item.
LEMMA ItemTyped ==
  ASSUME TypeOK, NEW t \in Tickets, NEW c \in Conversations,
         NEW k \in EnvelopeKind, NEW own \in SUBSET Messages,
         NEW receipts \in SUBSET Receipt
  PROVE  Item(t, c, k, own, receipts) \in OutboxItem
  BY DEF TypeOK, Item, OutboxItem

\* Cancelling the items of a chat keeps the types.
LEMMA CancelTyped ==
  ASSUME TypeOK, NEW c, CancelApplications(c)
  PROVE  /\ outbox' \subseteq outbox
         /\ delivery' \in [Messages -> DeliveryState]
         /\ owed' \subseteq Receipt
<1>1. \A i \in outbox : i.receipts \subseteq Receipt
  BY DEF TypeOK, OutboxItem
<1> QED
  BY <1>1 DEF CancelApplications, CancelledItems, Carried, TypeOK, DeliveryState

\* Completing an envelope keeps the types.
LEMMA CompleteTyped ==
  ASSUME TypeOK, NEW i \in outbox, CompleteOutbox(i)
  PROVE  outbox' \subseteq outbox /\ delivery' \in [Messages -> DeliveryState]
  BY DEF CompleteOutbox, TypeOK, DeliveryState

\* The relay's acceptance of an envelope keeps the types.
LEMMA AcceptTyped ==
  ASSUME TypeOK, NEW i \in outbox, Accept(i)
  PROVE  /\ mailbox' = mailbox
         /\ announced' \in [Conversations -> Nat]
         /\ reached' \subseteq Messages
         /\ told' \subseteq Receipt
         /\ onWire' \subseteq Verdict
<1>1. i \in OutboxItem
  BY DEF TypeOK
<1>2. Freshness(i) \in Verdict
  BY DEF Freshness, Verdict
<1> QED
  BY <1>1, <1>2 DEF Accept, TypeOK, OutboxItem

\* A new account starts well typed.
LEMMA TypeInit == Init => TypeOK
<1> SUFFICES ASSUME Init PROVE TypeOK
  OBVIOUS
<1>1. /\ delivery \in [Messages -> DeliveryState]
      /\ received \in [Inbound -> {"none", "unread", "read"}]
      /\ verifiedAt \in [Conversations -> Nat]
      /\ epoch \in [Conversations -> Nat]
      /\ announced \in [Conversations -> Nat]
  BY DEF Init, DeliveryState
<1>2. cur \in Commit \cup Membership
  BY NothingTyped DEF Init
<1> QED
  BY <1>1, <1>2, OutboxAssumption DEF Init, TypeOK, Step

\* Every step keeps the types.
LEMMA TypeNext ==
  ASSUME TypeOK, [Next]_vars
  PROVE  TypeOK'
<1> USE OutboxAssumption, NothingTyped
    DEF vaultVars, deviceVars, engineVars, worldVars, Step
<1>1. ASSUME NEW m \in Messages, Compose(m) PROVE TypeOK'
  <2>1. PICK t \in Tickets :
          outbox' = outbox \cup {Item(t, ConvOf[m], "application", {m}, {})}
    BY <1>1 DEF Compose
  <2>2. Item(t, ConvOf[m], "application", {m}, {}) \in OutboxItem
    BY ItemTyped DEF EnvelopeKind
  <2> QED
    BY <1>1, <2>1, <2>2 DEF Compose, TypeOK, DeliveryState
<1>2. ASSUME NEW m \in Messages, QueueUploaded(m) PROVE TypeOK'
  <2>1. PICK t \in Tickets :
          outbox' = outbox \cup {Item(t, ConvOf[m], "application", {m}, {})}
    BY <1>2 DEF QueueUploaded
  <2>2. Item(t, ConvOf[m], "application", {m}, {}) \in OutboxItem
    BY ItemTyped DEF EnvelopeKind
  <2> QED
    BY <1>2, <2>1, <2>2 DEF QueueUploaded, TypeOK, DeliveryState
<1>3. ASSUME NEW m \in Messages, BeginUpload(m) PROVE TypeOK'
  BY <1>3 DEF BeginUpload, TypeOK
<1>4. ASSUME NEW c \in Conversations, MarkRead(c) \/ Confirm(c) PROVE TypeOK'
  BY <1>4 DEF MarkRead, Confirm, VerifyConversation, SafetyCode, AddPending, TypeOK, Receipt, ReceiptKind
<1>5. ASSUME NEW c \in Conversations, BeginMutation(c) PROVE TypeOK'
  <2>1. outbox' \subseteq outbox /\ delivery' \in [Messages -> DeliveryState]
          /\ owed' \subseteq Receipt
    BY <1>5, CancelTyped DEF BeginMutation
  <2>2. cur' \in Commit
    BY <1>5 DEF BeginMutation, Commit, TypeOK
  <2> QED
    BY <1>5, <2>1, <2>2 DEF BeginMutation, TypeOK
<1>6. ASSUME NEW i \in outbox, Transmitted(i), UNCHANGED deviceVars,
             UNCHANGED <<cur, starting, historyLeft, crashes>>,
             pc' \in {pc, "idle"}
      PROVE  TypeOK'
  BY <1>6, AcceptTyped, CompleteTyped DEF Transmitted, TypeOK
<1>7. ASSUME NEW i \in outbox, AnswerLost(i), UNCHANGED deviceVars,
             UNCHANGED <<cur, starting, historyLeft, crashes>>,
             pc' \in {pc, "idle"}
      PROVE  TypeOK'
  BY <1>7, AcceptTyped DEF AnswerLost, TypeOK
<1>8. ASSUME SendDirect PROVE TypeOK'
  <2>1. CASE \E i \in outbox : Transmitted(i) \/ AnswerLost(i)
    BY <1>8, <2>1, <1>6, <1>7 DEF SendDirect
  <2>2. CASE UNCHANGED <<vaultVars, worldVars>>
    BY <1>8, <2>2 DEF SendDirect, TypeOK
  <2> QED
    BY <1>8, <2>1, <2>2 DEF SendDirect, Last
<1>9. ASSUME FlushNext \/ FlushReceipts PROVE TypeOK'
  <2>1. PICK i \in outbox : Flush(i)
    BY <1>9 DEF FlushNext, FlushReceipts, First
  <2> QED
    BY <2>1, <1>6 DEF Flush
<1>10. ASSUME FlushLost PROVE TypeOK'
  <2>1. PICK i \in outbox : AnswerLost(i)
    BY <1>10 DEF FlushLost, First
  <2> QED
    BY <1>10, <2>1, <1>7 DEF FlushLost
<1>11. ASSUME NEW m \in Messages, NEW k \in ReceiptKind, ReceiveReceipt(m, k)
       PROVE  TypeOK'
  BY <1>11 DEF ReceiveReceipt, ApplyReceipt, TypeOK, DeliveryState
<1>12. ASSUME NEW i \in Inbound, NEW v \in BOOLEAN, StoreInbound(i, v)
       PROVE  TypeOK'
  BY <1>12 DEF StoreInbound, AddPending, TypeOK, Receipt, ReceiptKind
<1>13. ASSUME SyncReceipts \/ ReceiptsDone PROVE TypeOK'
  BY <1>13 DEF SyncReceipts, ReceiptsDone, TypeOK
<1>14. ASSUME NEW c \in Conversations, NEW k \in ReceiptKind,
              QueueReceiptBatch(c, k)
       PROVE  TypeOK'
  <2>1. PICK t \in Tickets :
          outbox' = outbox \cup {Item(t, c, "application", {}, Batch(c, k))}
    BY <1>14 DEF QueueReceiptBatch, QueueReceipt
  <2>2. Batch(c, k) \subseteq Receipt
    BY DEF Batch, TypeOK
  <2>3. Item(t, c, "application", {}, Batch(c, k)) \in OutboxItem
    BY <2>2, ItemTyped DEF EnvelopeKind
  <2> QED
    BY <1>14, <2>1, <2>3 DEF QueueReceiptBatch, QueueReceipt, TypeOK
<1>15. ASSUME NEW c \in Conversations, RelayCommit(c) PROVE TypeOK'
  BY <1>15 DEF RelayCommit, TypeOK, Commit
<1>16. ASSUME StageCommit PROVE TypeOK'
  <2>1. PICK d \in mailbox :
          /\ cur' = d
          /\ epoch' = IF d \in pendingCommits THEN epoch
                      ELSE [epoch EXCEPT ![d.conv] = d.epoch]
          /\ pendingCommits' = pendingCommits \cup {d}
    BY <1>16 DEF StageCommit
  <2>2. d \in Commit /\ d.conv \in Conversations /\ d.epoch \in Nat
    BY DEF TypeOK, Commit
  <2>3. epoch' \in [Conversations -> Nat]
    BY <2>1, <2>2 DEF TypeOK
  <2> QED
    BY <1>16, <2>1, <2>2, <2>3 DEF StageCommit, TypeOK
<1>17. ASSUME ApplyCommit PROVE TypeOK'
  <2>1. outbox' \subseteq outbox /\ delivery' \in [Messages -> DeliveryState]
          /\ owed' \subseteq Receipt
    BY <1>17, CancelTyped DEF ApplyCommit
  <2> QED
    BY <1>17, <2>1 DEF ApplyCommit, TypeOK
<1>18. ASSUME AckFails \/ AckCommit PROVE TypeOK'
  BY <1>18 DEF AckFails, AckCommit, TypeOK
<1>19. ASSUME CommitMutation PROVE TypeOK'
  <2>1. cur.conv \in Conversations /\ cur.epoch \in Nat
    BY DEF TypeOK, Commit, Membership
  <2>2. cur' \in Membership
    BY <1>19, <2>1 DEF CommitMutation, Membership
  <2> QED
    BY <1>19, <2>1, <2>2 DEF CommitMutation, TypeOK
<1>20. ASSUME StageControl PROVE TypeOK'
  <2>1. cur.conv \in Conversations
    BY DEF TypeOK, Commit, Membership
  <2>2. \A t \in Tickets, k \in EnvelopeKind :
          Item(t, cur.conv, k, {}, {}) \in OutboxItem
    BY <2>1, ItemTyped
  <2>3. outbox' \subseteq OutboxItem
    BY <1>20, <2>2 DEF StageControl, EnvelopeKind, TypeOK
  <2> QED
    BY <1>20, <2>3 DEF StageControl, TypeOK
<1>21. ASSUME CompleteMembership \/ RestageRemoval PROVE TypeOK'
  BY <1>21 DEF CompleteMembership, RestageRemoval, TypeOK
<1>22. ASSUME NEW c \in Conversations, QueueHistory(c) PROVE TypeOK'
  <2>1. \A t \in Tickets : Item(t, c, "history", {}, {}) \in OutboxItem
    BY ItemTyped DEF EnvelopeKind
  <2> QED
    BY <1>22, <2>1 DEF QueueHistory, TypeOK
<1>23. ASSUME VaultWriteFails PROVE TypeOK'
  <2>1. starting' \in BOOLEAN
    <3>1. starting' \in {starting, FALSE}
      BY <1>23, Zenon DEF VaultWriteFails
    <3> QED
      BY <3>1, Zenon DEF TypeOK
  <2> QED
    BY <1>23, <2>1 DEF VaultWriteFails, TypeOK
<1>24. ASSUME Crash PROVE TypeOK'
  BY <1>24 DEF Crash, TypeOK
<1>25. ASSUME RestoreMembership \/ RestoreCommits PROVE TypeOK'
  BY <1>25 DEF RestoreMembership, RestoreCommits, TypeOK
<1>26. ASSUME UNCHANGED vars PROVE TypeOK'
  BY <1>26 DEF vars, TypeOK
<1> QED
  BY <1>1, <1>2, <1>3, <1>4, <1>5, <1>8, <1>9, <1>10, <1>11, <1>12, <1>13,
     <1>14, <1>15, <1>16, <1>17, <1>18, <1>19, <1>20, <1>21, <1>22, <1>23,
     <1>24, <1>25, <1>26 DEF Next, User, Engine, Peers

-----------------------------------------------------------------------------
\* What a membership change queues carries no message and no receipt.
LEMMA StagedEnvelopes ==
  ASSUME StageControl
  PROVE  \E S : /\ \A i \in S : i.own = {} /\ i.receipts = {}
                /\ outbox' = outbox \cup S
<1>1. CASE UNCHANGED outbox
  <2>1. /\ \A i \in {} : i.own = {} /\ i.receipts = {}
        /\ outbox' = outbox \cup {}
    BY <1>1
  <2> QED
    BY <2>1
<1>2. ASSUME NEW t \in Tickets, NEW u \in Tickets,
             outbox' = outbox \cup {Item(t, cur.conv, "commit", {}, {})}
                         \cup {x \in {Item(u, cur.conv, "sync", {}, {})} :
                                 cur.kind = "addition"}
      PROVE  \E S : /\ \A i \in S : i.own = {} /\ i.receipts = {}
                    /\ outbox' = outbox \cup S
  <2> DEFINE S == {Item(t, cur.conv, "commit", {}, {})}
                    \cup {x \in {Item(u, cur.conv, "sync", {}, {})} :
                            cur.kind = "addition"}
  <2>1. \A i \in S : i.own = {} /\ i.receipts = {}
    BY DEF Item
  <2>2. outbox' = outbox \cup S
    BY <1>2
  <2> QED
    BY <2>1, <2>2
<1> QED
  BY <1>1, <1>2 DEF StageControl

(* Messages and their envelopes.                                           *)

\* A message that was not sent before gets its one envelope.
LEMMA QueueOwns ==
  ASSUME TypeOK, OutboxOwnsPending,
         NEW m \in Messages, delivery[m] = "none",
         NEW i, i.own = {m}, outbox' = outbox \cup {i},
         delivery' = [delivery EXCEPT ![m] = "pending"],
         uploads' \subseteq uploads, m \notin uploads'
  PROVE  OutboxOwnsPending'
  BY DEF TypeOK, OutboxOwnsPending, Queued

\* Completing an envelope finishes all its messages.
LEMMA CompleteOwns ==
  ASSUME TypeOK, OutboxOwnsPending, NEW i \in outbox, CompleteOutbox(i),
         uploads' = uploads
  PROVE  OutboxOwnsPending'
  BY DEF TypeOK, OutboxOwnsPending, Queued, CompleteOutbox

\* So does cancelling the envelopes of a chat.
LEMMA CancelOwns ==
  ASSUME TypeOK, OutboxOwnsPending, NEW c, CancelApplications(c),
         uploads' = uploads
  PROVE  OutboxOwnsPending'
  BY DEF TypeOK, OutboxOwnsPending, Queued, CancelApplications, CancelledItems

\* Envelopes without messages change nothing.
LEMMA OthersOwn ==
  ASSUME TypeOK, OutboxOwnsPending,
         NEW S, \A i \in S : i.own = {}, outbox' = outbox \cup S,
         UNCHANGED <<delivery, uploads>>
  PROVE  OutboxOwnsPending'
  BY DEF TypeOK, OutboxOwnsPending, Queued

\* Every step keeps each message in the place its label says.
LEMMA OwnsNext ==
  ASSUME TypeOK, OutboxOwnsPending, [Next]_vars
  PROVE  OutboxOwnsPending'
<1> USE DEF vaultVars, deviceVars, engineVars, worldVars
<1>1. ASSUME NEW m \in Messages, Compose(m) \/ QueueUploaded(m)
      PROVE  OutboxOwnsPending'
  <2>1. PICK t \in Tickets :
          outbox' = outbox \cup {Item(t, ConvOf[m], "application", {m}, {})}
    BY <1>1 DEF Compose, QueueUploaded
  <2>2. Item(t, ConvOf[m], "application", {m}, {}).own = {m}
    BY DEF Item
  <2>3. delivery[m] = "none" /\ m \notin uploads' /\ uploads' \subseteq uploads
    BY <1>1 DEF Compose, QueueUploaded, OutboxOwnsPending, TypeOK
  <2> QED
    BY <1>1, <2>1, <2>2, <2>3, QueueOwns DEF Compose, QueueUploaded
<1>2. ASSUME NEW m \in Messages, BeginUpload(m) PROVE OutboxOwnsPending'
  BY <1>2 DEF BeginUpload, OutboxOwnsPending, Queued
<1>3. ASSUME NEW c \in Conversations, BeginMutation(c)
      PROVE  OutboxOwnsPending'
  BY <1>3, CancelOwns DEF BeginMutation
<1>4. ASSUME ApplyCommit PROVE OutboxOwnsPending'
  BY <1>4, CancelOwns DEF ApplyCommit
<1>5. ASSUME \E i \in outbox : Transmitted(i) \/ AnswerLost(i)
      PROVE  OutboxOwnsPending'
  BY <1>5, CompleteOwns
     DEF Transmitted, AnswerLost, OutboxOwnsPending, Queued
<1>6. ASSUME SendDirect \/ FlushNext \/ FlushReceipts \/ FlushLost
      PROVE  OutboxOwnsPending'
  <2>1. (\E i \in outbox : Transmitted(i) \/ AnswerLost(i))
          \/ UNCHANGED <<outbox, delivery, uploads>>
    BY <1>6 DEF SendDirect, FlushNext, FlushReceipts, FlushLost, Flush, First,
                Last
  <2> QED
    BY <2>1, <1>5 DEF OutboxOwnsPending, Queued
<1>7. ASSUME NEW m \in Messages, NEW k \in ReceiptKind, ReceiveReceipt(m, k)
      PROVE  OutboxOwnsPending'
  BY <1>7 DEF ReceiveReceipt, ApplyReceipt, OutboxOwnsPending, Queued, TypeOK
<1>8. ASSUME NEW c \in Conversations, NEW k \in ReceiptKind,
             QueueReceiptBatch(c, k)
      PROVE  OutboxOwnsPending'
  <2>1. PICK t \in Tickets :
          outbox' = outbox \cup {Item(t, c, "application", {}, Batch(c, k))}
    BY <1>8 DEF QueueReceiptBatch, QueueReceipt
  <2>2. Item(t, c, "application", {}, Batch(c, k)).own = {}
    BY DEF Item
  <2> QED
    BY <1>8, <2>1, <2>2, OthersOwn DEF QueueReceiptBatch, QueueReceipt
<1>9. ASSUME NEW c \in Conversations, QueueHistory(c)
      PROVE  OutboxOwnsPending'
  <2>1. PICK t \in Tickets :
          outbox' = outbox \cup {Item(t, c, "history", {}, {})}
    BY <1>9 DEF QueueHistory
  <2>2. Item(t, c, "history", {}, {}).own = {}
    BY DEF Item
  <2> QED
    BY <1>9, <2>1, <2>2, OthersOwn DEF QueueHistory
<1>10. ASSUME StageControl PROVE OutboxOwnsPending'
  BY <1>10, StagedEnvelopes, OthersOwn DEF StageControl
<1>11. ASSUME UNCHANGED <<outbox, delivery, uploads>> PROVE OutboxOwnsPending'
  BY <1>11 DEF OutboxOwnsPending, Queued
<1>12. ASSUME \/ SyncReceipts \/ ReceiptsDone \/ StageCommit \/ AckFails
              \/ AckCommit \/ CommitMutation \/ CompleteMembership
              \/ RestageRemoval \/ RestoreMembership \/ RestoreCommits
              \/ VaultWriteFails \/ Crash \/ UNCHANGED vars
       PROVE  UNCHANGED <<outbox, delivery, uploads>>
  BY <1>12 DEF SyncReceipts, ReceiptsDone, StageCommit, AckFails, AckCommit,
               CommitMutation, CompleteMembership, RestageRemoval,
               RestoreMembership, RestoreCommits, VaultWriteFails, Crash, vars
<1>13. ASSUME NEW c \in Conversations, MarkRead(c) \/ Confirm(c) \/ RelayCommit(c)
       PROVE  UNCHANGED <<outbox, delivery, uploads>>
  BY <1>13 DEF MarkRead, Confirm, RelayCommit
<1>14. ASSUME NEW i \in Inbound, NEW v \in BOOLEAN, StoreInbound(i, v)
       PROVE  UNCHANGED <<outbox, delivery, uploads>>
  BY <1>14 DEF StoreInbound
<1> QED
  BY <1>1, <1>2, <1>3, <1>4, <1>6, <1>7, <1>8, <1>9, <1>10, <1>11, <1>12,
     <1>13, <1>14 DEF Next, User, Engine, Peers
-----------------------------------------------------------------------------
(* Labels.                                                                 *)

\* Every step keeps the labels behind what the relay accepted.
LEMMA LabelsNext ==
  ASSUME TypeOK, LabelsTruthful, [Next]_vars
  PROVE  LabelsTruthful'
<1> USE DEF LabelsTruthful, TypeOK, vaultVars, deviceVars, engineVars, worldVars
<1>1. ASSUME NEW m \in Messages, Compose(m) \/ QueueUploaded(m)
      PROVE  LabelsTruthful'
  BY <1>1 DEF Compose, QueueUploaded
<1>2. ASSUME NEW c, CancelApplications(c), reached' = reached
      PROVE  LabelsTruthful'
  BY <1>2 DEF CancelApplications
<1>3. ASSUME ApplyCommit \/ \E c \in Conversations : BeginMutation(c)
      PROVE  LabelsTruthful'
  BY <1>2, <1>3 DEF ApplyCommit, BeginMutation
<1>4. ASSUME NEW i \in outbox, Transmitted(i) \/ AnswerLost(i)
      PROVE  LabelsTruthful'
  <2>1. reached' = reached \cup i.own
    BY <1>4 DEF Transmitted, AnswerLost, Accept
  <2>2. \A m \in Messages : delivery'[m] = delivery[m] \/ m \in i.own
    BY <1>4 DEF Transmitted, AnswerLost, CompleteOutbox
  <2> QED
    BY <2>1, <2>2
<1>5. ASSUME SendDirect \/ FlushNext \/ FlushReceipts \/ FlushLost
      PROVE  LabelsTruthful'
  <2>1. (\E i \in outbox : Transmitted(i) \/ AnswerLost(i))
          \/ UNCHANGED <<delivery, reached>>
    BY <1>5 DEF SendDirect, FlushNext, FlushReceipts, FlushLost, Flush, First,
                Last
  <2> QED
    BY <2>1, <1>4
<1>6. ASSUME NEW m \in Messages, NEW k \in ReceiptKind, ReceiveReceipt(m, k)
      PROVE  LabelsTruthful'
  BY <1>6 DEF ReceiveReceipt
<1>7. ASSUME NEW m \in Messages, BeginUpload(m)
      PROVE  UNCHANGED <<delivery, reached>>
  BY <1>7 DEF BeginUpload
<1>8. ASSUME \/ SyncReceipts \/ ReceiptsDone \/ StageCommit \/ AckFails
             \/ AckCommit \/ CommitMutation \/ StageControl
             \/ CompleteMembership \/ RestageRemoval \/ RestoreMembership
             \/ RestoreCommits \/ VaultWriteFails \/ Crash \/ UNCHANGED vars
      PROVE  UNCHANGED <<delivery, reached>>
  BY <1>8 DEF SyncReceipts, ReceiptsDone, StageCommit, AckFails, AckCommit,
              CommitMutation, StageControl, CompleteMembership, RestageRemoval,
              RestoreMembership, RestoreCommits, VaultWriteFails, Crash, vars
<1>9. ASSUME NEW c \in Conversations,
             \/ MarkRead(c) \/ Confirm(c) \/ RelayCommit(c) \/ QueueHistory(c)
             \/ \E k \in ReceiptKind : QueueReceiptBatch(c, k)
      PROVE  UNCHANGED <<delivery, reached>>
  BY <1>9 DEF MarkRead, Confirm, RelayCommit, QueueHistory, QueueReceiptBatch, QueueReceipt
<1>10. ASSUME NEW i \in Inbound, NEW v \in BOOLEAN, StoreInbound(i, v)
       PROVE  UNCHANGED <<delivery, reached>>
  BY <1>10 DEF StoreInbound
<1> QED
  BY <1>1, <1>3, <1>5, <1>6, <1>7, <1>8, <1>9, <1>10
     DEF Next, User, Engine, Peers

-----------------------------------------------------------------------------
(* Receipts.                                                               *)

\* A receipt is in flight when some queued envelope carries it;
LEMMA InFlightMember == \A r : r \in InFlight <=> \E i \in outbox : r \in i.receipts
  BY DEF InFlight, Carried

\* and so it is after a step.
LEMMA InFlightMemberNext ==
  \A r : r \in InFlight' <=> \E i \in outbox' : r \in i.receipts
  BY DEF InFlight, Carried

\* Queueing an envelope moves its receipts there.
LEMMA QueueAccounts ==
  ASSUME ReceiptsAccounted, NEW i, i.receipts \subseteq owed,
         outbox' = outbox \cup {i}, owed' = owed \ i.receipts,
         UNCHANGED <<received, told>>
  PROVE  ReceiptsAccounted'
<1>1. InFlight' = InFlight \cup i.receipts
  BY InFlightMember, InFlightMemberNext
<1>2. Earned' = Earned
  BY DEF Earned
<1>3. \A j \in outbox : i.receipts \cap j.receipts = {}
  BY InFlightMember DEF ReceiptsAccounted
<1> QED
  BY <1>1, <1>2, <1>3 DEF ReceiptsAccounted

\* Envelopes without receipts change nothing.
LEMMA OthersAccount ==
  ASSUME ReceiptsAccounted, NEW S, \A i \in S : i.receipts = {},
         outbox' = outbox \cup S, UNCHANGED <<owed, received, told>>
  PROVE  ReceiptsAccounted'
<1>1. InFlight' = InFlight
  BY InFlightMember, InFlightMemberNext
<1>2. Earned' = Earned
  BY DEF Earned
<1> QED
  BY <1>1, <1>2 DEF ReceiptsAccounted

\* An accepted envelope has told its receipts, completed or not.
LEMMA SendAccounts ==
  ASSUME ReceiptsAccounted, NEW i \in outbox, Transmitted(i) \/ AnswerLost(i)
  PROVE  ReceiptsAccounted'
<1>1. told' = told \cup i.receipts /\ UNCHANGED <<owed, received>>
  BY DEF Transmitted, AnswerLost, Accept, vaultVars
<1>2. outbox' \in {outbox, outbox \ {i}}
  BY DEF Transmitted, AnswerLost, CompleteOutbox, vaultVars
<1>3. InFlight' \subseteq InFlight /\ InFlight \subseteq InFlight' \cup i.receipts
        /\ i.receipts \subseteq InFlight
  BY <1>2, InFlightMember, InFlightMemberNext
<1>4. Earned' = Earned
  BY <1>1 DEF Earned
<1> QED
  BY <1>1, <1>2, <1>3, <1>4 DEF ReceiptsAccounted

\* Cancelling gives the receipts back.
LEMMA CancelAccounts ==
  ASSUME ReceiptsAccounted, NEW c, CancelApplications(c),
         UNCHANGED <<received, told>>
  PROVE  ReceiptsAccounted'
<1> DEFINE Dropped == Carried(CancelledItems(c))
           Kept    == Carried(outbox \ CancelledItems(c))
<1>1. outbox' = outbox \ CancelledItems(c)
  BY DEF CancelApplications
<1>6. owed' = owed \cup (Dropped \ Kept)
  BY DEF CancelApplications
<1>2. InFlight' = Kept
  BY <1>1 DEF InFlight, Carried
<1>3. InFlight = Dropped \cup Kept
  BY InFlightMember DEF CancelledItems, Carried
<1>4. Earned' = Earned
  BY DEF Earned
<1>5. \A i, j \in outbox' : i # j => i.receipts \cap j.receipts = {}
  BY <1>1 DEF ReceiptsAccounted
<1> QED
  BY <1>1, <1>2, <1>3, <1>4, <1>5, <1>6 DEF ReceiptsAccounted

\* What is newly earned becomes owed, unless it is already on its way.
LEMMA EarnAccounts ==
  ASSUME ReceiptsAccounted, NEW new, Earned' = Earned \cup new, AddPending(new),
         UNCHANGED <<outbox, told>>
  PROVE  ReceiptsAccounted'
<1>1. InFlight' = InFlight
  BY DEF InFlight, Carried
<1> QED
  BY <1>1 DEF ReceiptsAccounted, AddPending

\* Every step keeps the receipts' books.
LEMMA AccountsNext ==
  ASSUME TypeOK, ReceiptsAccounted, [Next]_vars
  PROVE  ReceiptsAccounted'
<1> USE DEF vaultVars, deviceVars, engineVars, worldVars
<1>1. ASSUME NEW m \in Messages, Compose(m) \/ QueueUploaded(m)
      PROVE  ReceiptsAccounted'
  <2>1. PICK t \in Tickets :
          outbox' = outbox \cup {Item(t, ConvOf[m], "application", {m}, {})}
    BY <1>1 DEF Compose, QueueUploaded
  <2>2. Item(t, ConvOf[m], "application", {m}, {}).receipts = {}
    BY DEF Item
  <2> QED
    BY <1>1, <2>1, <2>2, OthersAccount DEF Compose, QueueUploaded
<1>2. ASSUME ApplyCommit \/ \E c \in Conversations : BeginMutation(c)
      PROVE  ReceiptsAccounted'
  BY <1>2, CancelAccounts DEF ApplyCommit, BeginMutation
<1>3. ASSUME UNCHANGED <<outbox, owed, received, told>> PROVE ReceiptsAccounted'
  BY <1>3 DEF ReceiptsAccounted, InFlight, Carried, Earned
<1>4. ASSUME SendDirect \/ FlushNext \/ FlushReceipts \/ FlushLost
      PROVE  ReceiptsAccounted'
  <2>1. (\E i \in outbox : Transmitted(i) \/ AnswerLost(i))
          \/ UNCHANGED <<outbox, owed, received, told>>
    BY <1>4 DEF SendDirect, FlushNext, FlushReceipts, FlushLost, Flush, First,
                Last
  <2> QED
    BY <2>1, <1>3, SendAccounts
<1>5. ASSUME NEW i \in Inbound, NEW v \in BOOLEAN, StoreInbound(i, v)
      PROVE  ReceiptsAccounted'
  <2> DEFINE new == {<<"delivered", i>>} \cup
                    {<<"read", j>> : j \in {k \in {i} : v /\ SendReadReceipts}}
  <2>1. received' = [received EXCEPT ![i] = IF v THEN "read" ELSE "unread"]
          /\ received[i] = "none" /\ received \in [Inbound -> {"none", "unread", "read"}]
    BY <1>5 DEF StoreInbound, TypeOK
  <2>2. Earned' = Earned \cup new
    BY <2>1 DEF Earned
  <2> QED
    BY <1>5, <2>2, EarnAccounts DEF StoreInbound
<1>6. ASSUME NEW c \in Conversations, MarkRead(c) PROVE ReceiptsAccounted'
  <2> DEFINE seen == {i \in Inbound : ConvOf[i] = c /\ received[i] = "unread"}
             new  == {<<"read", i>> : i \in {j \in seen : SendReadReceipts}}
  <2>1. received' = [i \in Inbound |-> IF i \in seen THEN "read" ELSE received[i]]
    BY <1>6 DEF MarkRead
  <2>2. Earned' = Earned \cup new
    BY <2>1 DEF Earned
  <2> QED
    BY <1>6, <2>2, EarnAccounts DEF MarkRead
<1>7. ASSUME NEW c \in Conversations, NEW k \in ReceiptKind,
             QueueReceiptBatch(c, k)
      PROVE  ReceiptsAccounted'
  <2>1. PICK t \in Tickets :
          outbox' = outbox \cup {Item(t, c, "application", {}, Batch(c, k))}
    BY <1>7 DEF QueueReceiptBatch, QueueReceipt
  <2>2. Item(t, c, "application", {}, Batch(c, k)).receipts = Batch(c, k)
    BY DEF Item
  <2>3. Batch(c, k) \subseteq owed
    BY DEF Batch
  <2> QED
    BY <1>7, <2>1, <2>2, <2>3, QueueAccounts DEF QueueReceiptBatch, QueueReceipt
<1>8. ASSUME NEW c \in Conversations, QueueHistory(c) PROVE ReceiptsAccounted'
  <2>1. PICK t \in Tickets :
          outbox' = outbox \cup {Item(t, c, "history", {}, {})}
    BY <1>8 DEF QueueHistory
  <2>2. Item(t, c, "history", {}, {}).receipts = {}
    BY DEF Item
  <2> QED
    BY <1>8, <2>1, <2>2, OthersAccount DEF QueueHistory
<1>9. ASSUME StageControl PROVE ReceiptsAccounted'
  BY <1>9, StagedEnvelopes, OthersAccount DEF StageControl
<1>10. ASSUME \/ SyncReceipts \/ ReceiptsDone \/ StageCommit \/ AckFails
              \/ AckCommit \/ CommitMutation \/ CompleteMembership
              \/ RestageRemoval \/ RestoreMembership \/ RestoreCommits
              \/ VaultWriteFails \/ Crash \/ UNCHANGED vars
       PROVE  UNCHANGED <<outbox, owed, received, told>>
  BY <1>10 DEF SyncReceipts, ReceiptsDone, StageCommit, AckFails, AckCommit,
               CommitMutation, CompleteMembership, RestageRemoval,
               RestoreMembership, RestoreCommits, VaultWriteFails, Crash, vars
<1>11. ASSUME NEW c \in Conversations, Confirm(c) \/ RelayCommit(c)
       PROVE  UNCHANGED <<outbox, owed, received, told>>
  BY <1>11 DEF Confirm, RelayCommit
<1>12. ASSUME NEW m \in Messages,
              BeginUpload(m) \/ \E k \in ReceiptKind : ReceiveReceipt(m, k)
       PROVE  UNCHANGED <<outbox, owed, received, told>>
  BY <1>12 DEF BeginUpload, ReceiveReceipt
<1> QED
  BY <1>1, <1>2, <1>3, <1>4, <1>5, <1>6, <1>7, <1>8, <1>9, <1>10, <1>11, <1>12
     DEF Next, User, Engine, Peers

-----------------------------------------------------------------------------
(* Epochs: what the relay is sent.                                          *)

\* Fields of what is queued, staged and announced.
LEMMA EpochTypes ==
  ASSUME TypeOK
  PROVE  /\ \A i \in outbox : i.conv \in Conversations /\ i.epoch \in Nat
         /\ \A d \in mailbox \cup pendingCommits :
              d \in Commit /\ d.conv \in Conversations /\ d.epoch \in Nat
         /\ \A p \in pendingMembership :
              p.conv \in Conversations /\ p.epoch \in Nat
         /\ \A c \in Conversations : epoch[c] \in Nat /\ announced[c] \in Nat
         /\ cur.conv \in Conversations /\ cur.epoch \in Nat
  BY DEF TypeOK, OutboxItem, Commit, Membership

\* An envelope queued now is of the epoch the group has.
LEMMA QueueEpochs ==
  ASSUME TypeOK, Epochs,
         NEW t, NEW c \in Conversations, NEW k \in EnvelopeKind \ {"commit"},
         NEW own, NEW receipts,
         outbox' = outbox \cup {Item(t, c, k, own, receipts)},
         UNCHANGED <<epoch, pendingMembership, pendingCommits, forked, mailbox,
                     announced>>
  PROVE  Epochs'
<1> DEFINE i == Item(t, c, k, own, receipts)
<1>1. i.conv = c /\ i.kind = k /\ i.epoch = epoch[c] /\ epoch[c] \in Nat
  BY DEF Item, TypeOK
<1>2. k # "commit"
  OBVIOUS
<1>3. \A j \in outbox' : j \in outbox \/ j = i
  OBVIOUS
<1> HIDE DEF i
<1>4. NeverAhead' /\ OldIsUnapplied'
  BY <1>1, <1>3 DEF Epochs, NeverAhead, OldIsUnapplied
<1>5. LeaseBooks'
  BY <1>1, <1>2, <1>3 DEF Epochs, LeaseBooks, UnderWay
<1>6. MailboxAhead' /\ OwnIsLast'
  BY DEF Epochs, MailboxAhead, OwnIsLast
<1> QED
  BY <1>4, <1>5, <1>6 DEF Epochs

\* Cancelling the chat ciphertext of a chat leaves the Commits and makes the
\* chat quiet.
LEMMA CancelEpochs ==
  ASSUME TypeOK, Epochs, NEW c, CancelApplications(c),
         UNCHANGED <<epoch, pendingMembership, pendingCommits, forked, mailbox,
                     announced>>
  PROVE  Epochs' /\ Quiet(c)' /\ outbox' \subseteq outbox
<1>1. outbox' = outbox \ CancelledItems(c)
  BY DEF CancelApplications
<1>2. \A i : i \in outbox' <=>
               i \in outbox /\ ~(i.conv = c /\ i.kind = "application")
  BY <1>1 DEF CancelledItems
<1>3. NeverAhead' /\ OldIsUnapplied' /\ MailboxAhead' /\ OwnIsLast'
  BY <1>2 DEF Epochs, NeverAhead, OldIsUnapplied, MailboxAhead, OwnIsLast
<1>4. LeaseBooks'
  BY <1>2 DEF Epochs, LeaseBooks, UnderWay
<1> QED
  BY <1>2, <1>3, <1>4 DEF Epochs, Quiet

\* An accepted Commit is announced, and leaves the outbox with that.
LEMMA SendEpochs ==
  ASSUME TypeOK, Epochs, NEW i \in outbox, Transmitted(i) \/ AnswerLost(i),
         UNCHANGED deviceVars
  PROVE  Epochs'
<1>1. outbox' \in {outbox, outbox \ {i}}
  BY DEF Transmitted, AnswerLost, CompleteOutbox, vaultVars
<1>2. /\ announced' = IF i.kind = "commit" /\ i.conv \notin forked
                           /\ announced[i.conv] < i.epoch
                        THEN [announced EXCEPT ![i.conv] = i.epoch]
                        ELSE announced
      /\ mailbox' = mailbox
  BY DEF Transmitted, AnswerLost, Accept
<1>3. UNCHANGED <<epoch, pendingMembership, pendingCommits, forked>>
  BY DEF deviceVars
<1>4. /\ \A c \in Conversations :
           /\ announced[c] <= announced'[c]
           /\ announced'[c] # announced[c] => announced'[c] <= epoch[c]
      /\ i.kind = "commit" /\ i.conv \notin forked
           => i.epoch <= announced'[i.conv]
  BY <1>2, EpochTypes DEF TypeOK, Epochs, NeverAhead
<1>5. \A c \in Conversations : announced'[c] \in Nat
  BY <1>2, EpochTypes DEF TypeOK
<1>6. NeverAhead' /\ OldIsUnapplied' /\ OwnIsLast'
  BY <1>1, <1>3 DEF Epochs, NeverAhead, OldIsUnapplied, OwnIsLast
<1>7. MailboxAhead'
  BY <1>2, <1>3, <1>4, <1>5, EpochTypes DEF Epochs, MailboxAhead
<1>8. ASSUME NEW c \in Conversations \ forked, UnderWay(c)'
      PROVE  announced'[c] <= epoch'[c]
  <2>1. UnderWay(c)
    BY <1>1, <1>3, <1>8 DEF UnderWay
  <2> QED
    BY <2>1, <1>3, <1>4 DEF Epochs, LeaseBooks
<1>9. ASSUME NEW c \in Conversations \ forked, announced'[c] < epoch'[c]
      PROVE  \/ \E j \in outbox' : /\ j.conv = c /\ j.kind = "commit"
                                   /\ j.epoch = epoch'[c]
             \/ \E p \in pendingMembership' : p.conv = c
  <2>1. announced[c] < epoch[c]
    BY <1>9, <1>3, <1>4, <1>5, EpochTypes
  <2>2. CASE \E p \in pendingMembership : p.conv = c
    BY <2>2, <1>3
  <2>3. CASE \E j \in outbox : /\ j.conv = c /\ j.kind = "commit"
                               /\ j.epoch = epoch[c]
    <3>1. PICK j \in outbox : /\ j.conv = c /\ j.kind = "commit"
                              /\ j.epoch = epoch[c]
      BY <2>3
    <3>2. j # i
      BY <3>1, <1>3, <1>4, <1>5, <1>9, EpochTypes
    <3> QED
      BY <3>1, <3>2, <1>1, <1>3
  <2> QED
    BY <2>1, <2>2, <2>3 DEF Epochs, LeaseBooks
<1>10. LeaseBooks'
  BY <1>3, <1>8, <1>9 DEF LeaseBooks
<1> QED
  BY <1>6, <1>7, <1>10 DEF Epochs

-----------------------------------------------------------------------------
\* The steps that touch neither the outbox, nor a Commit, nor an epoch.
LEMMA EpochsSame ==
  ASSUME Epochs,
         UNCHANGED <<outbox, epoch, pendingMembership, pendingCommits, forked,
                     mailbox, announced>>
  PROVE  Epochs'
<1>1. NeverAhead' /\ OldIsUnapplied' /\ MailboxAhead' /\ OwnIsLast'
  BY DEF Epochs, NeverAhead, OldIsUnapplied, MailboxAhead, OwnIsLast
<1>2. LeaseBooks'
  BY DEF Epochs, LeaseBooks, UnderWay
<1> QED
  BY <1>1, <1>2 DEF Epochs

\* Another member's Commit, where none of this device is under way.
LEMMA RelayEpochs ==
  ASSUME TypeOK, Epochs, NEW c \in Conversations, RelayCommit(c)
  PROVE  Epochs'
<1> DEFINE d == [conv |-> c, epoch |-> announced[c] + 1]
<1>1. /\ mailbox' = mailbox \cup {d}
      /\ announced' = [announced EXCEPT ![c] = @ + 1]
      /\ ~UnderWay(c)
      /\ UNCHANGED <<outbox, epoch, pendingMembership, pendingCommits, forked>>
  BY DEF RelayCommit, Leased, UnderWay, vaultVars, deviceVars
<1>2. /\ announced'[c] = announced[c] + 1
      /\ \A e \in Conversations : e # c => announced'[e] = announced[e]
  BY <1>1 DEF TypeOK
<1>3. /\ c \notin forked => epoch[c] <= announced[c]
      /\ epoch[c] \in Nat /\ announced[c] \in Nat
  BY <1>1, EpochTypes DEF Epochs, LeaseBooks, UnderWay
<1>4. d.conv = c /\ d.epoch = announced[c] + 1
  OBVIOUS
<1> HIDE DEF d
<1>5. NeverAhead' /\ OldIsUnapplied' /\ OwnIsLast'
  BY <1>1 DEF Epochs, NeverAhead, OldIsUnapplied, OwnIsLast
<1>6. MailboxAhead'
  BY <1>1, <1>2, <1>3, <1>4, EpochTypes DEF Epochs, MailboxAhead
<1>7. LeaseBooks'
  <2>1. \A e \in Conversations : UnderWay(e)' <=> UnderWay(e)
    BY <1>1 DEF UnderWay
  <2> QED
    BY <1>1, <1>2, <1>3, <2>1, EpochTypes DEF Epochs, LeaseBooks
<1> QED
  BY <1>5, <1>6, <1>7 DEF Epochs

\* A processed Commit moves the group on; none of this device is under way.
LEMMA StageEpochs ==
  ASSUME TypeOK, Epochs, StageCommit
  PROVE  Epochs'
<1>1. PICK d \in mailbox :
        /\ \A e \in mailbox : e.conv = d.conv => d.epoch <= e.epoch
        /\ d \in pendingCommits \/ d.conv \notin forked
        /\ epoch' = IF d \in pendingCommits THEN epoch
                    ELSE [epoch EXCEPT ![d.conv] = d.epoch]
        /\ pendingCommits' = pendingCommits \cup {d}
  BY DEF StageCommit
<1>2. UNCHANGED <<outbox, pendingMembership, forked, mailbox, announced>>
  BY DEF StageCommit, vaultVars, worldVars
<1>3. d \in Commit /\ d.conv \in Conversations /\ d.epoch \in Nat
  BY EpochTypes
<1>4. d.epoch <= announced[d.conv]
  BY DEF Epochs, MailboxAhead
<1>5. CASE d \in pendingCommits
  <2>1. UNCHANGED <<epoch, pendingCommits>>
    BY <1>1, <1>5
  <2> QED
    BY <2>1, <1>2, EpochsSame
<1>6. CASE d \notin pendingCommits
  <2>1. /\ epoch'[d.conv] = d.epoch
        /\ \A c \in Conversations : c # d.conv => epoch'[c] = epoch[c]
    BY <1>1, <1>3, <1>6 DEF TypeOK
  <2>2. epoch[d.conv] < d.epoch /\ d.conv \notin forked
    BY <1>1, <1>6 DEF Epochs, MailboxAhead
  <2>3. ~UnderWay(d.conv)
    BY <2>2, <1>3, <1>4, EpochTypes DEF Epochs, LeaseBooks
  <2>4. NeverAhead'
    BY <1>2, <2>1, <2>2, <1>3, EpochTypes DEF Epochs, NeverAhead
  <2>5. OldIsUnapplied'
    BY <1>1, <1>2, <2>1, EpochTypes DEF Epochs, OldIsUnapplied
  <2>6. MailboxAhead'
    <3>1. \A e \in mailbox : e.conv = d.conv /\ e # d => d.epoch < e.epoch
      <4> SUFFICES ASSUME NEW e \in mailbox, e.conv = d.conv, e # d
                   PROVE  d.epoch < e.epoch
        OBVIOUS
      <4>1. e.epoch # d.epoch
        BY EpochTypes DEF Commit
      <4> QED
        BY <4>1, <1>1, EpochTypes
    <3> QED
      BY <1>1, <1>2, <2>1, <3>1, EpochTypes DEF Epochs, MailboxAhead
  <2>7. OwnIsLast'
    BY <1>2, <2>1, <2>3, EpochTypes DEF Epochs, OwnIsLast, UnderWay
  <2>8. LeaseBooks'
    <3>1. \A c \in Conversations : UnderWay(c)' <=> UnderWay(c)
      BY <1>2 DEF UnderWay
    <3>2. ~(announced[d.conv] < d.epoch)
      BY <1>3, <1>4, EpochTypes
    <3> QED
      BY <1>2, <2>1, <2>3, <3>1, <3>2 DEF Epochs, LeaseBooks
  <2> QED
    BY <2>4, <2>5, <2>6, <2>7, <2>8 DEF Epochs
<1> QED
  BY <1>5, <1>6

\* A completed Commit leaves a quiet chat behind.
LEMMA AckEpochs ==
  ASSUME TypeOK, Epochs, Subject, AckCommit
  PROVE  Epochs'
<1>1. /\ UNCHANGED <<outbox, epoch, pendingMembership, forked, announced>>
      /\ mailbox' = mailbox \ {cur}
      /\ pendingCommits' = pendingCommits \ {cur}
  BY DEF AckCommit, vaultVars
<1>2. Quiet(cur.conv)
  BY DEF AckCommit, Subject, Acking
<1>3. OldIsUnapplied'
  BY <1>1, <1>2 DEF Epochs, OldIsUnapplied, Quiet
<1>4. MailboxAhead' /\ NeverAhead' /\ OwnIsLast'
  BY <1>1 DEF Epochs, MailboxAhead, NeverAhead, OwnIsLast
<1>5. LeaseBooks'
  BY <1>1 DEF Epochs, LeaseBooks, UnderWay
<1> QED
  BY <1>3, <1>4, <1>5 DEF Epochs

\* An own Commit moves a quiet group on: one epoch beyond the relay, or off the
\* branch of its peers.
LEMMA MutateEpochs ==
  ASSUME TypeOK, Epochs, Subject, CommitMutation
  PROVE  Epochs' /\ cur' \in pendingMembership'
<1> DEFINE c == cur.conv
<1>1. /\ UNCHANGED <<outbox, pendingCommits, mailbox, announced>>
      /\ epoch' = [epoch EXCEPT ![c] = cur.epoch]
      /\ pendingMembership' = pendingMembership \cup {cur'}
      /\ cur'.conv = c /\ cur'.epoch = cur.epoch
      /\ forked' = IF announced[c] < cur.epoch THEN forked ELSE forked \cup {c}
  BY DEF CommitMutation, vaultVars, worldVars
<1>2. /\ cur.epoch = epoch[c] + 1
      /\ ~UnderWay(c) /\ Quiet(c)
  BY DEF CommitMutation, Subject, Mutating
<1>3. c \in Conversations /\ epoch[c] \in Nat
  BY EpochTypes
<1>4. /\ epoch'[c] = epoch[c] + 1
      /\ \A d \in Conversations : d # c => epoch'[d] = epoch[d]
  BY <1>1, <1>2, <1>3 DEF TypeOK
<1> HIDE DEF c
<1>5. NeverAhead'
  BY <1>1, <1>3, <1>4, EpochTypes DEF Epochs, NeverAhead
<1>6. OldIsUnapplied'
  BY <1>1, <1>2, <1>4, EpochTypes DEF Epochs, OldIsUnapplied, Quiet
<1>7. MailboxAhead'
  <2>1. c \notin forked' => announced[c] <= epoch[c]
    BY <1>1, <1>2, <1>3, EpochTypes
  <2>2. \A d \in mailbox :
          d.conv = c => d \in pendingCommits \/ c \in forked'
    BY <2>1, <1>1, <1>3, EpochTypes DEF Epochs, MailboxAhead
  <2> QED
    BY <2>2, <1>1, <1>4, EpochTypes DEF Epochs, MailboxAhead
<1>8. OwnIsLast'
  BY <1>1, <1>2, <1>4, EpochTypes DEF Epochs, OwnIsLast, UnderWay
<1>9. LeaseBooks'
  <2>1. \A d \in Conversations : d # c => (UnderWay(d)' <=> UnderWay(d))
    BY <1>1 DEF UnderWay
  <2>2. c \notin forked' => announced[c] <= epoch'[c]
    BY <1>1, <1>2, <1>3, <1>4, EpochTypes
  <2>3. \E p \in pendingMembership' : p.conv = c
    BY <1>1
  <2>4. ASSUME NEW d \in Conversations \ forked', d # c, announced[d] < epoch[d]
        PROVE  \/ \E i \in outbox' : /\ i.conv = d /\ i.kind = "commit"
                                     /\ i.epoch = epoch'[d]
               \/ \E p \in pendingMembership' : p.conv = d
    BY <2>4, <1>1, <1>4 DEF Epochs, LeaseBooks
  <2>5. \A d \in Conversations \ forked' : UnderWay(d)' => announced'[d] <= epoch'[d]
    BY <2>1, <2>2, <1>1, <1>4 DEF Epochs, LeaseBooks
  <2> QED
    BY <2>3, <2>4, <2>5, <1>1, <1>4 DEF LeaseBooks
<1> QED
  BY <1>1, <1>5, <1>6, <1>7, <1>8, <1>9 DEF Epochs

\* Queueing an own Commit, or finding it queued.
LEMMA ControlEpochs ==
  ASSUME TypeOK, Epochs, Subject, StageControl
  PROVE  /\ Epochs'
         /\ \E i \in outbox' : /\ i.conv = cur.conv /\ i.kind = "commit"
                               /\ i.epoch = cur.epoch
<1>1. /\ UNCHANGED <<epoch, pendingMembership, pendingCommits, forked,
                     mailbox, announced>>
      /\ cur \in pendingMembership
  BY DEF StageControl, deviceVars, worldVars, Subject, Staging
<1>2. cur.epoch = epoch[cur.conv] /\ cur.conv \in Conversations
  BY <1>1, EpochTypes DEF Epochs, OwnIsLast
<1>3. CASE /\ UNCHANGED outbox
           /\ \E i \in outbox : /\ i.conv = cur.conv /\ i.kind = "commit"
                                /\ i.epoch = cur.epoch
  BY <1>1, <1>3, EpochsSame
<1>4. ASSUME NEW t \in Tickets, NEW u \in Tickets,
             outbox' = outbox \cup {Item(t, cur.conv, "commit", {}, {})}
                         \cup {x \in {Item(u, cur.conv, "sync", {}, {})} :
                                 cur.kind = "addition"}
      PROVE  /\ Epochs'
             /\ \E i \in outbox' : /\ i.conv = cur.conv /\ i.kind = "commit"
                                   /\ i.epoch = cur.epoch
  <2> DEFINE a == Item(t, cur.conv, "commit", {}, {})
             b == Item(u, cur.conv, "sync", {}, {})
  <2>1. /\ a.conv = cur.conv /\ a.kind = "commit" /\ a.epoch = epoch[cur.conv]
        /\ b.conv = cur.conv /\ b.kind = "sync" /\ b.epoch = epoch[cur.conv]
    BY DEF Item
  <2>2. outbox \subseteq outbox' /\ outbox' \subseteq outbox \cup {a, b} /\ a \in outbox'
    BY <1>4
  <2> HIDE DEF a, b
  <2>3. epoch[cur.conv] \in Nat
    BY <1>2, EpochTypes
  <2>4. NeverAhead'
    BY <1>1, <2>1, <2>2, <2>3 DEF Epochs, NeverAhead
  <2>5. OldIsUnapplied'
    BY <1>1, <2>1, <2>2, <2>3 DEF Epochs, OldIsUnapplied
  <2>6. MailboxAhead' /\ OwnIsLast'
    BY <1>1 DEF Epochs, MailboxAhead, OwnIsLast
  <2>7. LeaseBooks'
    <3>1. \A c \in Conversations : UnderWay(c)' => UnderWay(c)
      BY <1>1, <2>1, <2>2 DEF UnderWay
    <3> QED
      BY <1>1, <2>2, <3>1 DEF Epochs, LeaseBooks
  <2> QED
    BY <2>1, <2>2, <2>4, <2>5, <2>6, <2>7, <1>2 DEF Epochs
<1> QED
  BY <1>3, <1>4 DEF StageControl

\* A Commit is taken off the group's list when the outbox has it.
LEMMA CompleteEpochs ==
  ASSUME TypeOK, Epochs, Subject, CompleteMembership
  PROVE  Epochs'
<1>1. /\ UNCHANGED <<outbox, epoch, pendingCommits, forked, mailbox, announced>>
      /\ pendingMembership' = pendingMembership \ {cur}
  BY DEF CompleteMembership, vaultVars, worldVars
<1>2. /\ cur \in pendingMembership
      /\ \E i \in outbox : /\ i.conv = cur.conv /\ i.kind = "commit"
                           /\ i.epoch = cur.epoch
  BY DEF CompleteMembership, Subject, Staging
<1>3. cur.epoch = epoch[cur.conv]
  BY <1>2 DEF Epochs, OwnIsLast
<1>4. NeverAhead' /\ OldIsUnapplied' /\ MailboxAhead' /\ OwnIsLast'
  BY <1>1 DEF Epochs, NeverAhead, OldIsUnapplied, MailboxAhead, OwnIsLast
<1>5. LeaseBooks'
  <2>1. \A c \in Conversations : UnderWay(c)' => UnderWay(c)
    BY <1>1 DEF UnderWay
  <2> QED
    BY <1>1, <1>2, <1>3, <2>1 DEF Epochs, LeaseBooks
<1> QED
  BY <1>4, <1>5 DEF Epochs

-----------------------------------------------------------------------------
\* Every step keeps the epochs in order.
LEMMA EpochsNext ==
  ASSUME TypeOK, Epochs, Subject, [Next]_vars
  PROVE  Epochs'
<1> USE DEF vaultVars, deviceVars, engineVars, worldVars
<1>1. ASSUME NEW m \in Messages, Compose(m) \/ QueueUploaded(m) PROVE Epochs'
  <2>1. PICK t \in Tickets :
          outbox' = outbox \cup {Item(t, ConvOf[m], "application", {m}, {})}
    BY <1>1 DEF Compose, QueueUploaded
  <2>2. ConvOf[m] \in Conversations /\ "application" \in EnvelopeKind \ {"commit"}
    BY OutboxAssumption DEF EnvelopeKind
  <2> QED
    BY <1>1, <2>1, <2>2, QueueEpochs DEF Compose, QueueUploaded
<1>2. ASSUME NEW c \in Conversations, NEW k \in ReceiptKind,
             QueueReceiptBatch(c, k)
      PROVE  Epochs'
  <2>1. PICK t \in Tickets :
          outbox' = outbox \cup {Item(t, c, "application", {}, Batch(c, k))}
    BY <1>2 DEF QueueReceiptBatch, QueueReceipt
  <2>2. "application" \in EnvelopeKind \ {"commit"}
    BY DEF EnvelopeKind
  <2> QED
    BY <1>2, <2>1, <2>2, QueueEpochs DEF QueueReceiptBatch
<1>3. ASSUME NEW c \in Conversations, QueueHistory(c) PROVE Epochs'
  <2>1. PICK t \in Tickets :
          outbox' = outbox \cup {Item(t, c, "history", {}, {})}
    BY <1>3 DEF QueueHistory
  <2>2. "history" \in EnvelopeKind \ {"commit"}
    BY DEF EnvelopeKind
  <2> QED
    BY <1>3, <2>1, <2>2, QueueEpochs DEF QueueHistory
<1>4. ASSUME ApplyCommit \/ \E c \in Conversations : BeginMutation(c)
      PROVE  Epochs'
  BY <1>4, CancelEpochs DEF ApplyCommit, BeginMutation
<1>5. ASSUME SendDirect \/ FlushNext \/ FlushReceipts \/ FlushLost
      PROVE  Epochs'
  <2>1. UNCHANGED deviceVars
    BY <1>5 DEF SendDirect, FlushNext, FlushReceipts, FlushLost, Flush
  <2>2. \/ \E i \in outbox : Transmitted(i) \/ AnswerLost(i)
        \/ UNCHANGED <<outbox, mailbox, announced>>
    BY <1>5 DEF SendDirect, FlushNext, FlushReceipts, FlushLost, Flush, First,
                Last
  <2> QED
    BY <2>1, <2>2, SendEpochs, EpochsSame
<1>6. ASSUME NEW c \in Conversations, RelayCommit(c) PROVE Epochs'
  BY <1>6, RelayEpochs
<1>7. ASSUME AckFails PROVE Epochs'
  <2>1. /\ UNCHANGED <<outbox, epoch, pendingMembership, pendingCommits, forked,
                       announced>>
        /\ mailbox' \subseteq mailbox
    BY <1>7 DEF AckFails
  <2> QED
    BY <2>1 DEF Epochs, NeverAhead, OldIsUnapplied, MailboxAhead, OwnIsLast,
                LeaseBooks, UnderWay
<1>8. ASSUME \/ SyncReceipts \/ ReceiptsDone \/ RestageRemoval \/ Crash
             \/ RestoreMembership \/ RestoreCommits \/ VaultWriteFails
             \/ UNCHANGED vars
      PROVE  Epochs'
  BY <1>8, EpochsSame
     DEF SyncReceipts, ReceiptsDone, RestageRemoval, Crash, RestoreMembership,
         RestoreCommits, VaultWriteFails, vars
<1>9. ASSUME NEW c \in Conversations, MarkRead(c) \/ Confirm(c) PROVE Epochs'
  BY <1>9, EpochsSame DEF MarkRead, Confirm
<1>10. ASSUME NEW m \in Messages,
              BeginUpload(m) \/ \E k \in ReceiptKind : ReceiveReceipt(m, k)
       PROVE  Epochs'
  BY <1>10, EpochsSame DEF BeginUpload, ReceiveReceipt
<1>11. ASSUME NEW i \in Inbound, NEW v \in BOOLEAN, StoreInbound(i, v)
       PROVE  Epochs'
  BY <1>11, EpochsSame DEF StoreInbound
<1> QED
  BY <1>1, <1>2, <1>3, <1>4, <1>5, <1>6, <1>7, <1>8, <1>9, <1>10, <1>11,
     StageEpochs, AckEpochs, MutateEpochs, ControlEpochs, CompleteEpochs
     DEF Next, User, Engine, Peers

\* A step of the engine's operation leaves its subject as the next one needs
\* it; no one else touches it.
LEMMA SubjectNext ==
  ASSUME TypeOK, Epochs, Subject, [Next]_vars
  PROVE  Subject'
<1> USE DEF vaultVars, deviceVars, engineVars, worldVars
<1>1. ASSUME NEW m \in Messages, Compose(m) PROVE Subject'
  <2>1. PICK t \in Tickets :
          /\ IsNextTicket(t)
          /\ outbox' = outbox \cup {Item(t, ConvOf[m], "application", {m}, {})}
    BY <1>1 DEF Compose
  <2> DEFINE i == Item(t, ConvOf[m], "application", {m}, {})
  <2>2. i.id = t /\ i.conv = ConvOf[m] /\ i.kind = "application"
    BY DEF Item
  <2>3. \A j \in outbox : j.id < t /\ j.id \in Nat /\ t \in Nat
    BY <2>1, OutboxAssumption DEF IsNextTicket, TypeOK, OutboxItem
  <2>4. i \in outbox' /\ outbox' = outbox \cup {i}
    BY <2>1
  <2> HIDE DEF i
  <2>5. \A j \in outbox : j \notin Last(outbox')
    BY <2>2, <2>3, <2>4 DEF Last
  <2>6. Last(outbox') \subseteq {i}
    BY <2>4, <2>5 DEF Last
  <2>7. ~HasPendingControl(ConvOf[m])'
    BY <1>1, <2>2, <2>4 DEF Compose, SendingAllowed, HasPendingControl
  <2>8. pc' = "send"
    BY <1>1 DEF Compose
  <2>9. Sending'
    BY <2>2, <2>6, <2>7 DEF Sending
  <2> QED
    BY <2>8, <2>9 DEF Subject, Mutating, Acking, Staging
<1>2. ASSUME NEW c \in Conversations, BeginMutation(c) PROVE Subject'
  <2>1. /\ pc' = "mutate" /\ cur' = [conv |-> c, epoch |-> epoch[c] + 1]
        /\ UNCHANGED <<epoch, pendingMembership>>
    BY <1>2 DEF BeginMutation
  <2>2. ~UnderWay(c)
    BY <1>2 DEF BeginMutation, Leased, UnderWay
  <2>3. Quiet(c)' /\ outbox' \subseteq outbox
    BY <1>2, CancelEpochs DEF BeginMutation
  <2>4. ~UnderWay(c)'
    BY <2>1, <2>2, <2>3 DEF UnderWay
  <2>5. Mutating'
    BY <2>1, <2>3, <2>4 DEF Mutating, Quiet
  <2> QED
    BY <2>1, <2>5 DEF Subject, Sending, Acking, Staging
<1>3. ASSUME ApplyCommit PROVE Subject'
  <2>1. pc' = "ack" /\ cur' = cur
    BY <1>3 DEF ApplyCommit
  <2>2. Quiet(cur.conv)'
    BY <1>3, CancelEpochs DEF ApplyCommit
  <2>3. Acking'
    BY <2>1, <2>2 DEF Acking, Quiet
  <2> QED
    BY <2>1, <2>3 DEF Subject, Sending, Mutating, Staging
<1>4. ASSUME CommitMutation PROVE Subject'
  <2>1. pc' = "stage" /\ cur' \in pendingMembership'
    BY <1>4, MutateEpochs DEF CommitMutation
  <2> QED
    BY <2>1 DEF Subject, Sending, Mutating, Acking, Staging
<1>5. ASSUME StageControl PROVE Subject'
  <2>1. /\ pc' = "complete" /\ UNCHANGED <<cur, pendingMembership>>
        /\ cur \in pendingMembership
    BY <1>5 DEF StageControl, Subject, Staging
  <2>2. \E i \in outbox' : /\ i.conv = cur.conv /\ i.kind = "commit"
                           /\ i.epoch = cur.epoch
    BY <1>5, ControlEpochs
  <2> QED
    BY <2>1, <2>2 DEF Subject, Sending, Mutating, Acking, Staging
<1>6. ASSUME RestageRemoval \/ RestoreMembership PROVE Subject'
  <2>1. /\ pc' \in {"stage", "commits"} /\ pendingMembership' = pendingMembership
        /\ pc' = "stage" => cur' \in pendingMembership
    BY <1>6 DEF RestageRemoval, RestoreMembership
  <2> QED
    BY <2>1 DEF Subject, Sending, Mutating, Acking, Staging
<1>7. ASSUME pc' \in {"idle", "receipts", "apply", "membership", "commits"}
      PROVE  Subject'
  BY <1>7 DEF Subject, Sending, Mutating, Acking, Staging
<1>8. ASSUME \/ SendDirect \/ SyncReceipts \/ ReceiptsDone \/ StageCommit
             \/ AckFails \/ AckCommit \/ CompleteMembership \/ RestoreCommits
             \/ VaultWriteFails \/ Crash
      PROVE  pc' \in {"idle", "receipts", "apply", "membership", "commits"}
  BY <1>8 DEF SendDirect, SyncReceipts, ReceiptsDone, StageCommit, AckFails,
              AckCommit, CompleteMembership, RestoreCommits, VaultWriteFails,
              Crash
<1>9. ASSUME \/ FlushNext \/ FlushReceipts \/ FlushLost
             \/ \E m \in Messages :
                  \/ QueueUploaded(m) \/ BeginUpload(m)
                  \/ \E k \in ReceiptKind : ReceiveReceipt(m, k)
             \/ \E i \in Inbound, v \in BOOLEAN : StoreInbound(i, v)
             \/ \E c \in Conversations :
                  \/ MarkRead(c) \/ Confirm(c) \/ QueueHistory(c)
                  \/ \E k \in ReceiptKind : QueueReceiptBatch(c, k)
      PROVE  pc' \in {"idle", "receipts"}
  BY <1>9 DEF FlushNext, FlushReceipts, FlushLost, Flush, QueueUploaded,
              BeginUpload, ReceiveReceipt, StoreInbound, MarkRead, Confirm,
              QueueHistory, QueueReceiptBatch, Idle
<1>10. ASSUME NEW c \in Conversations, RelayCommit(c) PROVE Subject'
  <2>1. /\ UNCHANGED <<outbox, epoch, pendingMembership, pc, cur>>
        /\ announced' = [announced EXCEPT ![c] = @ + 1]
        /\ ~(pc = "mutate" /\ cur.conv = c)
    BY <1>10 DEF RelayCommit, Leased
  <2>2. Mutating'
    BY <2>1, EpochTypes DEF Subject, Mutating, UnderWay, Quiet, TypeOK
  <2>3. Sending' /\ Acking' /\ Staging'
    BY <2>1 DEF Subject, Sending, Acking, Staging, Quiet, HasPendingControl
  <2> QED
    BY <2>2, <2>3 DEF Subject
<1>11. ASSUME UNCHANGED vars PROVE Subject'
  BY <1>11 DEF vars, Subject, Sending, Mutating, Acking, Staging, Quiet,
               UnderWay, HasPendingControl
<1> QED
  BY <1>1, <1>2, <1>3, <1>4, <1>5, <1>6, <1>7, <1>8, <1>9, <1>10, <1>11
     DEF Next, User, Engine, Peers

\* Chat ciphertext of a chat with no control envelope queued is fresh, but for
\* the three causes the property names.
LEMMA AcceptedIsPlaced ==
  ASSUME TypeOK, Epochs, NEW i \in outbox,
         i.kind = "application" => ~HasPendingControl(i.conv), Accept(i)
  PROVE  "misplaced" \in onWire' => "misplaced" \in onWire
<1>1. CASE i.kind # "application"
  BY <1>1 DEF Accept
<1>2. CASE i.kind = "application"
  <2> DEFINE c == i.conv
  <2>1. /\ i.epoch \in Nat /\ c \in Conversations
        /\ epoch[c] \in Nat /\ announced[c] \in Nat
    BY EpochTypes
  <2>2. i.epoch <= epoch[c]
    BY DEF Epochs, NeverAhead
  <2>3. i.epoch < epoch[c] => \E p \in pendingCommits : p.conv = c
    BY <1>2 DEF Epochs, OldIsUnapplied
  <2>4. c \notin forked /\ announced[c] < epoch[c]
          => \E p \in pendingMembership : p.conv = c
    BY <1>2, <2>1 DEF Epochs, LeaseBooks, HasPendingControl
  <2>5. CASE c \notin forked /\ announced[c] < epoch[c]
    <3>1. Known(c) = announced[c]
      BY <2>5 DEF Known
    <3>2. \/ i.epoch = Known(c)
          \/ i.epoch < Known(c) /\ \E p \in pendingCommits : p.conv = c
          \/ i.epoch > Known(c) /\ \E p \in pendingMembership : p.conv = c
      BY <3>1, <2>1, <2>3, <2>4, <2>5
    <3> QED
      BY <3>2, <1>2 DEF Accept, Freshness
  <2>6. CASE c \notin forked /\ ~(announced[c] < epoch[c])
    <3>1. Known(c) = epoch[c]
      BY <2>6 DEF Known
    <3>2. \/ i.epoch = Known(c)
          \/ i.epoch < Known(c) /\ \E p \in pendingCommits : p.conv = c
      BY <3>1, <2>1, <2>2, <2>3
    <3> QED
      BY <3>2, <1>2 DEF Accept, Freshness
  <2>7. CASE c \in forked
    BY <1>2, <2>7 DEF Accept, Freshness
  <2> QED
    BY <2>5, <2>6, <2>7
<1> QED
  BY <1>1, <1>2

\* Every step sends fresh ciphertext, or for a named cause.
LEMMA FreshNext ==
  ASSUME TypeOK, Epochs, Subject, FreshOnWire, [Next]_vars
  PROVE  FreshOnWire'
<1> USE DEF vaultVars, deviceVars, engineVars, worldVars, FreshOnWire
<1>1. ASSUME NEW i \in outbox, Transmitted(i) \/ AnswerLost(i),
             i.kind = "application" => ~HasPendingControl(i.conv)
      PROVE  FreshOnWire'
  BY <1>1, AcceptedIsPlaced DEF Transmitted, AnswerLost
<1>2. ASSUME FlushNext \/ FlushReceipts \/ FlushLost PROVE FreshOnWire'
  <2>1. PICK i \in outbox : Flushable(i) /\ (Transmitted(i) \/ AnswerLost(i))
    BY <1>2 DEF FlushNext, FlushReceipts, FlushLost, Flush, First
  <2> QED
    BY <2>1, <1>1 DEF Flushable, SendingAllowed
<1>3. ASSUME SendDirect PROVE FreshOnWire'
  <2>1. CASE \E i \in Last(outbox) : Transmitted(i) \/ AnswerLost(i)
    <3>1. PICK i \in Last(outbox) : Transmitted(i) \/ AnswerLost(i)
      BY <2>1
    <3>2. i \in outbox /\ ~HasPendingControl(i.conv)
      BY <1>3, <3>1 DEF SendDirect, Subject, Sending, Last
    <3> QED
      BY <3>1, <3>2, <1>1
  <2>2. CASE UNCHANGED worldVars
    BY <2>2
  <2> QED
    BY <1>3, <2>1, <2>2 DEF SendDirect
<1>4. ASSUME \/ SyncReceipts \/ ReceiptsDone \/ StageCommit \/ AckFails
             \/ AckCommit \/ CommitMutation \/ StageControl \/ ApplyCommit
             \/ CompleteMembership \/ RestageRemoval \/ RestoreMembership
             \/ RestoreCommits \/ VaultWriteFails \/ Crash \/ UNCHANGED vars
      PROVE  onWire' = onWire
  BY <1>4 DEF SyncReceipts, ReceiptsDone, StageCommit, AckFails, AckCommit,
              CommitMutation, StageControl, ApplyCommit, CompleteMembership,
              RestageRemoval, RestoreMembership, RestoreCommits,
              VaultWriteFails, Crash, vars
<1>5. ASSUME NEW c \in Conversations,
             \/ MarkRead(c) \/ Confirm(c) \/ RelayCommit(c) \/ QueueHistory(c)
             \/ BeginMutation(c)
             \/ \E k \in ReceiptKind : QueueReceiptBatch(c, k)
      PROVE  onWire' = onWire
  BY <1>5 DEF MarkRead, Confirm, RelayCommit, QueueHistory, BeginMutation,
              QueueReceiptBatch
<1>6. ASSUME NEW m \in Messages,
             \/ Compose(m) \/ QueueUploaded(m) \/ BeginUpload(m)
             \/ \E k \in ReceiptKind : ReceiveReceipt(m, k)
      PROVE  onWire' = onWire
  BY <1>6 DEF Compose, QueueUploaded, BeginUpload, ReceiveReceipt
<1>7. ASSUME NEW i \in Inbound, NEW v \in BOOLEAN, StoreInbound(i, v)
      PROVE  onWire' = onWire
  BY <1>7 DEF StoreInbound
<1> QED
  BY <1>2, <1>3, <1>4, <1>5, <1>6, <1>7 DEF Next, User, Engine, Peers

-----------------------------------------------------------------------------
\* The invariant holds for a new account.
LEMMA InvInit == Init => Inv
<1> SUFFICES ASSUME Init PROVE Inv
  OBVIOUS
<1>1. TypeOK
  BY TypeInit
<1>2. OutboxOwnsPending
  BY DEF Init, OutboxOwnsPending, Queued
<1>3. LabelsTruthful
  BY DEF Init, LabelsTruthful
<1>4. ReceiptsAccounted
  <2>1. InFlight = {}
    BY InFlightMember DEF Init
  <2>2. Earned = {}
    BY DEF Init, Earned
  <2> QED
    BY <2>1, <2>2 DEF Init, ReceiptsAccounted
<1>5. Epochs
  BY DEF Init, Epochs, NeverAhead, OldIsUnapplied, MailboxAhead, LeaseBooks,
         UnderWay, OwnIsLast
<1>6. Subject /\ FreshOnWire
  BY DEF Init, Subject, Sending, Mutating, Acking, Staging, FreshOnWire
<1> QED
  BY <1>1, <1>2, <1>3, <1>4, <1>5, <1>6 DEF Inv

\* The invariant holds in every state the client can reach.
THEOREM Invariance == Spec => []Inv
<1>1. Inv /\ [Next]_vars => Inv'
  BY TypeNext, OwnsNext, LabelsNext, AccountsNext, EpochsNext, SubjectNext,
     FreshNext DEF Inv
<1> QED
  BY <1>1, InvInit, PTL DEF Spec

\* Every variable keeps its type.
THEOREM TypeCorrect == Spec => []TypeOK
<1>1. Inv => TypeOK
  BY DEF Inv
<1> QED
  BY Invariance, <1>1, PTL

\* No message is lost, queued twice, or sent after it was cancelled.
THEOREM NoneLost == Spec => []OutboxOwnsPending
<1>1. Inv => OutboxOwnsPending
  BY DEF Inv
<1> QED
  BY Invariance, <1>1, PTL

\* A label never claims more than the relay has confirmed.
THEOREM TruthfulLabels == Spec => []LabelsTruthful
<1>1. Inv => LabelsTruthful
  BY DEF Inv
<1> QED
  BY Invariance, <1>1, PTL

\* No receipt is lost, sent unearned, or queued twice.
THEOREM ReceiptBooks == Spec => []ReceiptsAccounted
<1>1. Inv => ReceiptsAccounted
  BY DEF Inv
<1> QED
  BY Invariance, <1>1, PTL

\* The relay carries chat ciphertext of the epoch its members have reached,
\* unless a processed Commit still waits for its cancellation, the vault could
\* not queue an own Commit, or the chat's group left the peers' branch by an own
\* Commit made over an unread one.
THEOREM FreshCiphertext == Spec => []FreshOnWire
<1>1. Inv => FreshOnWire
  BY DEF Inv
<1> QED
  BY Invariance, <1>1, PTL
=============================================================================
