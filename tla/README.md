# A TLA+ model of the Mutte client

Mutte is an end-to-end encrypted messenger. The repository holds its terminal
client: `apps/mutte` (the user interface), `crates/mutte-client` (the engine
and the relay client), `crates/mutte-core` (the MLS device), `crates/mutte-store`
(the encrypted vault) and `crates/mutte-protocol` (shared types). The relay
server is another program; it appears here only as the client uses it.

This directory models the parts of the client whose correctness depends on
orders of events that a unit test seldom reaches: durable writes and network
answers that fail one at a time, restarts, redelivery, group membership that
changes under queued ciphertext, cancels that race the work they cancel, several
devices that must come to one decision, and a user whose attention is elsewhere.

## 1. The system

### Parts and state

| Part | State | Operations | What must be right |
|---|---|---|---|
| Vault, outbox (`mutte-store/src/lib.rs`) | `outbox`, messages with their `DeliveryState`, `pending_receipts`, `outbound_attachments` | queue message / control / receipt / history, complete, cancel at an epoch change | no message lost or doubled, labels true, receipts conserved |
| Device (`mutte-core/src/device.rs`) | MLS groups; staging lists: `pending_applications`, `pending_commits`, `pending_removals`, `pending_additions`; one image in memory, one on disk | encrypt, decrypt and stage, process a Commit, create a Commit, complete each | nothing opened and lost; an own Commit created once |
| Engine (`mutte-client/src/engine.rs`) | snapshot of the chats; one operation at a time (`&mut self`) | commands, `synchronize`, `start_inner` (restore) | acknowledgement after durability; no stale ciphertext |
| Transfer control (`mutte-client/src/transfer.rs`) | per attachment a shared cancellation state and a lease in a registry | cancel, `begin_commit`, register, sweep, resume | a cancel is obeyed or refused, never both |
| Attachment files (`mutte-store/src/attachment.rs`) | encrypted queue of chunks, partial download | append, resume, publish, remove | resumed bytes are the right ones; publication is atomic |
| History sync (`engine.rs`, `mutte-store`) | outbound transfer with `next_part`, inbound parts, acknowledgements | capture, manifest, chunks, finalise, acknowledge, prune | a new device gets each message once; a transfer ends |
| Direct chats (`engine.rs`, `device.rs`) | one-time keys at the relay, MLS group, chat record, queued Welcome | find, claim, create, queue, join | the peer is invited to one chat, and every invited device joins it |
| Membership of own devices (`engine.rs`, `main.rs`) | pending revocation, device events, relay lease | link, sync, revoke, elect, reconcile | a revoked device leaves every chat |
| Sessions and sign-out (`session_control.rs`, `main.rs`, `mutte-client/src/lib.rs`) | identity file, released files, a vault per device and account, locator, sign-out intent | adopt, authorize by browser or email, open, save, activate, request and finish a sign-out | signed out for good; never asked to approve needlessly; never locked out |
| Composer and holds (`app.rs`, `personal_ui.rs`, `personal.rs`) | drafts per scope, held texts on disk and in memory, their timers | type, hold, restore, discard, send, recover | a text is sent once, where it was typed, and not while the user is away |
| Polls and reactions (`polls.rs`, `engine.rs`) | none: computed from the messages | create, vote, close, react, fold | all members see the same result |
| Read state and alerts (`engine.rs`, `mutte-store`, `app.rs`, `notifications.rs`) | read marks and counters on disk and in the engine, the visible scope, a pending alert | deliver, mark read, import | read means seen; counters agree |
| Keepsakes, photos, reminders | small records in the vault | set, clear | local rules |
| Relay client (`mutte-client/src/lib.rs`) | none | HTTP, WebSocket | answers, failures and lost answers |
| User interface (`apps/mutte/src`) | main loop, focus, panes, dialogs, keys waiting for replay | timer, input | calls the engine one operation at a time; cancels from another task |

### How they interact

The frontend owns one engine and calls it with `&mut self`, so two engine
operations never overlap. While a fetch or a transfer is under way the frontend
still reads the terminal: focus changes are noted and keys wait to be replayed
(`app.rs`). What does interleave with an operation, between any
two of its awaits and writes, is: the relay and the peers, a crash, and the
cancellation of a transfer, which goes through the shared
`ActiveAttachmentTransfers` and not through the engine. Inside an operation the
hard part is that vault and device are two files and the relay a third party:
each handler is a chain of durable writes and calls, and an error in the middle
leaves the earlier ones in place. The files of a session are many and never
replaced together; the personal document and the vault are two more. Several
devices of one account see the same events and Commits at different times, and
decide each for itself who acts. The staging lists of the device exist to make
the second half of such a chain repeatable; the restore stage of `start_inner`
repeats it.

## 2. Modules

| Module | Models |
|---|---|
| `Outbox` | the vault's outbox, labels, receipts, uploads' announcement, the epoch and the Commit staging of the device, the engine chains that touch them, the relay's acceptance |
| `Inbox` | mailbox fetch, decryption with its staging record, presentation, acknowledgement, completion; memory and disk of the device apart |
| `ExactlyOnce` | the abstract promise of the inbound side: each delivery shown once, in order, and forgotten by the relay only then. `Inbox` implements it |
| `AttachmentTransfer` | the control of a transfer (idle, cancelled, committing), the registry, the lease, the sweep, the resumed uploads and downloads, the frontend's cancel |
| `Handoff` | an own membership Commit from the MLS group through the outbox to the relay: memory and disk of the device apart, the vault, the relay's lease, revocation events, restarts |
| `History` | the history of a chat on its way to a new device, on both devices: capture, addition, parts, import, acknowledgement, resume, with Commits of other members between |
| `DirectChat` | beginning a direct chat, from both ends: claim, group, record with Welcome, send, join |
| `Polls` | the fold of votes and reactions over the events of a chat, as pure operators |
| `Conversation` | `DirectChat` composed with `Polls`: events written by devices whose clocks differ, sent, lost, cancelled, received |
| `Revocation` | several devices of one account and their peers: asking for and approving a revocation, the device events, the election, the relay's lease and order of Commits |
| `Session` | launch, adoption of released files, authorization, opening and activating a vault, sign-out |
| `Chunks` | one file from its hash through the encrypted chunks at the relay to the reader's partial file, its check and the vault's record |
| `FileDialogs` | the picker and the details of a received file, upon `Chunks` |
| `ReadState` | what is on the screen, what becomes read, the two counters, the pending alert |
| `Composer` | drafts, held texts with their timers, their hand-over to the outbox |
| `MC*` | instances for TLC, one for each specification above that a run checks |
| `OutboxProofs`, `HistoryProofs`, `SessionProofs`, `ComposerProofs`, `RevocationProofs` | theorems about the module of that name |
| `InboundProofs` | theorems about `Inbox` and `ReadState` |
| `AttachmentProofs` | theorems about `AttachmentTransfer`, `Chunks` and `FileDialogs` |
| `MembershipProofs` | theorems about `Handoff` and about `Conversation` with `DirectChat` and `Polls` |

Modules whose theorems stand in one proof module have names of their own for what
every specification has: `TransferSpec`, `DialogSpec`, `ReadSpec`, `ChatSpec`, with
`...Init`, `...Next` and `...TypeOK` alike.

A definition whose comment begins with "Mutant:" is a plausible mistake in the
definition that follows it; no specification uses it. With it in place of the
right one, TLC finds the property that PROJECT.json names beside it violated.

### Outbox

An engine operation is a chain through `pc`; each step is one durable write or
one network call with everything the code does to state alongside. `Compose`
then `SendDirect` is `send_chat_message`; `StageCommit`, `ApplyCommit`,
`AckCommit` is an inbound Commit; `BeginMutation`, `CommitMutation`,
`StageControl`, `CompleteMembership` is `/sync-device` or a revocation; the
same later steps are run by `RestoreMembership` and `RestoreCommits` after a
`Crash`. `AnswerLost` is a send the relay accepted whose answer, or whose
completion in the vault, was lost. An envelope's ticket is both its id and its
place in the `Vec`.

Abstractions. The epoch number stands for the member set and the safety-code
fingerprint. The other members are always present, so a Commit always has
recipients. Welcome and DeviceSync are one `sync` item. A receipt batch is the
whole group of one chat and kind (`pending_receipt_batches` makes another batch every
256 ids). The relay gives its mutation lease to one member at a time (`Leased`),
whatever that member has read: an own Commit made over an unread one (`CommitMutation`
with `announced[c]` ahead) leaves the peers' branch, and the chat is `forked` from
then on. Writes of the device file do not fail here; `Inbox` and `Handoff` are where they do. Between two
operations any command may follow, a superset of what the frontend does.

### Inbox

A delivery is its id. `spent` is the ratchet's used keys, `staged` the staging
records, and `diskSpent`, `diskStaged` what the last successful `persist` wrote;
a failed `persist` may or may not have replaced the file (`rename` done,
directory not synced). A `Crash` reads the disk. `Unreadable` is ciphertext
sent behind the Commit that ended its epoch: MLS keeps no past epoch. A failing
vault write after the message is shown (queueing its receipts) has the state of
`AckFails` with the mailbox unchanged.

### AttachmentTransfer

`BeginCommit`/`Cancel` are the two sides of the mutex in
`AttachmentCancellation`; `Register`, `Drop`, `Released`, `Prepare` and
`ListCancelled` are those of the registry. The control and its registry entry are
one record. The ghost `accepted` remembers that a cancel was answered with
success; a new request of the same attachment clears it unless a cancel stands.
A cancel lives in memory only: `Crash` forgets it, and the model says so.
Uploads and downloads are resumed from one snapshot. Network work ends by itself,
by success or failure.

### Handoff

One chat in which this device is the elected committer. `image` is the group in
memory with its unfinished mutations, `disk` what the last write of the device
file left. `TakeEvent`, `Restage`, `Rotated`/`Refused`/`Acquire`, `Create`,
`Stage`, `Complete`, `Acknowledge` are `reconcile_revoked_device`; `SyncDevice`
takes the same steps with `Claim` (the key package) between. `Crash` reads the
disk and runs `restore_pending_membership`: `RestoreNext` leads back into
`Stage` and `Complete`. A failing `persist` leaves memory ahead of the disk, or
the disk written and the caller told otherwise. `PersistElsewhere` is any other
operation of the device: it writes the whole image. `DiskFaults` switches the
failing writes off.

Abstractions. Other members remain in the group, so every Commit has recipients.
The outbox entry of a Commit stands for the Welcome and DeviceSync queued with
it. The outbox is a set: the lease orders what the relay takes. The lease is
exclusive, is consumed with its Commit and does not expire; the relay takes a
repeated envelope for the one it knows. The ghosts are `made`, which numbers the
Commits, and `orphan`: a restart has come back to a group older than a Commit
already queued or sent.

### History

`Capture` to `PartsDone` are `sync_device` and, from `Resume` on,
`resume_history_sync`; `ReadMembership`, `Apply`, `QueueAck`, `Consume` are the
target's mailbox pass; `ReadAck` and `ReadCommit` the source's. `NextPart` is
`next_history_payload` with the write that queues the part and moves the cursor.
The snapshot is rebuilt from the vault for every part (`Stale` is the failing
comparison of its hash), so what is staged depends on labels that receipts
change. `PeerCommit` is a Commit of another member, before the addition of the target
or after it; the source reads it when it comes to it, and the target when it is a
member. `Add` needs the lease only: over a Commit the source has not read it begins a
branch (`forked`), on which the target is joined, while the source cannot open the peers'
Commit any more, nor what is behind it in its mailbox.

Abstractions. A chat has one transfer, to the one new device. A chunk holds one
message and a hash is what it is the hash of. "join" stands for the Commit, the
Welcome and the DeviceSync of an addition. Delivered and Read are one label. The
target's acknowledgement goes to the relay at once: how an outbox delivers, and
that a send whose answer is lost is repeated without harm, is `Outbox`. No chat
message of the source waits ahead of the parts (what then happens is
the first of the departures below). A lease left taken by a failed mutation is in `Handoff`. A
sync of several chats is a sequence of single ones. Device-file writes are
atomic; the pruning of old transfers and the size limits are left out. The
target may fail and restart any number of times, the source `MaxMishaps` times.

### DirectChat, Polls and Conversation

`Found`, `ClaimPackages`, `PackageRefused`, `CreateConversation` and `QueueWelcome` are
`start_direct_chat`; `Join` is the Welcome in `process_mailbox_message`. The relay
keeps one sequence `wire`, of which each device reads what is addressed to it,
and gives an envelope it already has no second place. One-time keys are
published by a launch only, 32 of them; each attempt, broken off or not, burns
one per device of the peer, and a device that has none left is not invited
(`Claimed`), which nobody is told. `QueueWelcome` writes the chat record and the
Welcome in one commit, which is what `OneInvitation` rests on: a group left
behind by a crash before it is never seen again.

`Polls` computes what a device shows from the messages it holds, sorted by the
time their sender wrote (`InOrder`), as `PollState::fold` and `reactions_for` do. In
`Conversation` a time is a rank: a device's own clock does not go back, those of
two devices are unrelated. `MembershipChanges` is the effect of a Commit on the
chat's queued messages (`Outbox` has the Commit itself): it cancels also what the
relay had accepted when the answer was lost, and then the author does not count
an event that all others do. `EveryoneAgrees` excepts exactly that (`Astray`).

Abstractions. One emoji, one poll, one pair of accounts. A group does not change
its members here. With two starters each could make a chat before it reads the
other's Welcome; `/dm` then asks to choose from the list. A chat whose handle is
not resolved is not found by `direct_conversation_index`, and a second one is
made; the model has every handle resolved.

### Revocation

Each device runs `sync_mailbox` again and again: `Poll`, `FetchDevices`, the
events one by one, `Send`, then `Read`. A Commit is a node with the node it was
made upon; the peers follow the first that the relay accepts upon the node they
are at. `Elected` is the smallest device that is a member by this device's group
and active by the list it fetched, so two devices can elect differently: their
groups and lists differ. The relay's lease is exclusive, as
`contracts/openapi.yaml` says, and says nothing of what its holder has read.

`ClaimPackage` and `AddDevice` are `/sync-device`: the lease and the key package
(`adding`), then the Commit. In between the device may be revoked, and the elected
committer, which does not see the addition, acknowledges the event; the Commit then
takes the device in, and no event is left that would take it out again.

`Excused` names how a revoked device can stay in a chat after everybody has
acknowledged the event: no device was up to date when it handled it (`blind`),
the elected one was itself revoked or behind (`relied`), or the removal was made
upon a node that the peers had left, which happens because events are handled
before the mailbox is read (`astray`). A device is `Behind` when its group lacks a target
that the peers' group has, that a queued Commit adds, or whose key package another
device has claimed for an addition. `LeftBehindWithCause` says that there is
no fourth way. `RevocationSettles` excepts besides a lease that stays taken (`Leaked`):
an addition that fails between the claim and its Commit does not give it back.

Abstractions. Taking the lease and claiming the key are one step, and so are making
and queueing a Commit; `Handoff` takes both apart. A device that was told of the
revocation only after its claim adds the target all the same, as the code does: the
list of devices is not asked for again.
A failing `poll_device_revocation` ends the pass before the events, as `Fault`
does. One chat.

### Session

Every `pc` is one durable write or one request of `main.rs`,
`session_control.rs` or the vault's session functions, so `Crash` stands between
any two. `UseSession` to `RequestLink`, `EnterToken`, `FinishEmail` are the device
and email authorization with their lost answers: the relay hands a token out
once, and a client whose one answer was lost finds its device in conflict and
replaces its identity (`HandoffLost`, `RetireIdentity`, `RenewIdentity`).
`BeginFinish` to `ForgetIntent` is `session_control::finish`, run at launch and after the
app has closed. `Init` has a fresh install and every state that a released
version leaves.

Abstractions. One relay origin. A vault is its session: its other content is in
the other modules. The owner of the account approves, revokes and closes the
browser when they like.

### Chunks and FileDialogs

The source file may change at any time; `validate_source` hashes it at the start
of an attempt, and a chunk read later carries what the file then holds. If it
changes inside an attempt (`midway`), the chunks at the relay are a mixture, and
every download fails its check and is never finished. `AnnouncedIsWhole` says that
nothing else can spoil an announced file. `validate_source` compares size and hash; the
picker's `validate_unchanged` compares path, size and time of change, and the model takes
every edit for one that these show. The relay keeps the file: that it may expire there is
left out. Recipients are fixed by
`begin_attachment_upload`; a device that is added before the announcement is
queued is in neither list (`latecomers`). `CancelDownload` clears the vault's
request before it removes the partial file, and a request made later resumes
what a failing removal left.

`FileDialogs` follows the picker's `review` and `Confirm`, the second check in
`send_attachment_from_dialog`, and what it shows when the transfer ended. The
ghost `crossed` is an edit between that check and the hash: the file is then sent
as hashed. The ghost `refused` is a session that the relay ended in the flush
after the file had been sent: the picker stays open and says that it could not
send. A transfer begun from a dialog owns the client, so `Background` stops.

Abstractions. One file, sent once; the registry of controls and the races of a
cancel are in `AttachmentTransfer`. Encryption, nonces and padding are left out:
a chunk is the content it was made from.

### ReadState

The terminal's events are a queue. `ReadEvent` is one turn of the main loop
(`observe_terminal_focus`, the key's handler, `update_visibility`), `StartSync` to
`EndSync` a fetch with the arrivals in it, and `Replay` a key that was pressed
meanwhile. A handler is a function on the program's state, because most of them
end in the same `SetSelectedVisible` and may fail at four places (`Outcome`).
`Deliver` is `present_chat_message` with `store_inbound`, `Import` the end of a
history.

`ReadInSight` excepts three replayed keys (`open`, `close` and `jump`): a thread
opened, closed or jumped to by a key that waited is marked read although the focus
was lost meanwhile. The
startup assumes that the window has the focus, and so does `ReadInit`.

Abstractions. Messages of the own account come as read and are left out, and so
is the selection of an older message by hand. Notification modes, quiet hours and followed threads only
filter alerts. The counters do not reach the limit of their type.

### Composer

`disk` is the personal document, `personal` the frontend's copy. `SubmitHold`
marks a due hold on the disk, `Execute` is the engine's `SendMessage` with its
three ends (done; refused before the vault queued it; queued and yet an error),
`SettleHold` removes or keeps the hold. `Recover` is what a restart, a lost focus
or a failed write makes of the holds. `StartTransfer` to `EndTransfer` is
`run_attachment_command`, which reads the terminal itself: a focus lost there is
`left = "missed"`.

`SentOnceWhereTyped` lets a text go out twice only after the user was told
(`warned`): a send that failed after it was queued, or a hold of uncertain fate
that they restored.

Abstractions. Each text is typed once, and there is one hold of it. Of several
due holds any may be first. The outbox counts to two.

## 3. Runs

| Run | Checks | Instance | Distinct states |
|---|---|---|---|
| `outbox_one` | `OutboxOwnsPending`, `LabelsTruthful`, `ReceiptsAccounted`, `FreshOnWire` | one chat, a text and a file, one inbound message, one history job, vault faults, a membership change (by a peer, by this device, or by both over each other), one crash | 3,432,464 |
| `outbox_live` | `MessagesSettle`, `ReceiptsSettle` | one chat, a file, one inbound message, one history job, read receipts on, no vault faults, one crash | 251,794 |
| `inbox` | `NoPoison`, `ImplementsPromise`, `Consumed` | five deliveries (a Welcome, a Commit, an unreadable one), faults, two crashes | 9,480 |
| `transfer` | `CancelHonoured`, `IntentKept`, `NoPhantomCancel`, `CancelSettles` | an upload and two downloads, faults, a crash | 25,885 |
| `handoff` | `ForkNeedsOrphan`, `ChainInOrder`, `AckedIsQueued`, `RemovalSettles` | one revocation, one addition, faults, three crashes | 10,974 |
| `history` | `DoneIsHeld`, `ImportAnswered`, `ShutOutWithCause`, `TransferEnds` | two chats, two messages (one own) and two foreign Commits in the first; one mishap of the source | 729,617 |
| `session` | `SignOutComplete`, `AskedOnlyWhenNeeded`, `AlwaysSignsIn`, `SignOutFinishes` | two accounts, released files or none, three faults | 423,049 |
| `revocation` | `LeftBehindWithCause`, `RevocationSettles` | three devices, two of them in the chat and the third to be added; the first and the third are revocable and the second asks; one Commit of a peer, two faults | 440,972 |
| `chunks` | `AnnouncedIsWhole`, `MissedWithCause`, `PickerKeepsItsWord`, `DownloadSettles` | three chunks, two devices in the chat and one to come, two edits, two faults | 178,481 |
| `readstate` | `ReadBooks`, `ReadInSight`, `ShownIsRead` | two chats, one of them with a message and a reply in its thread, three terminal events, one fault | 565,114 |
| `composer` | `SentOnceWhereTyped`, `HoldsSurvive`, `AwayNeverSends` | two texts, two scopes, two faults, the texts symmetric | 1,942,000 |
| `conversation` | `EveryoneAgrees`, `OneInvitation`, `InvitedJoin` | one device and two of the peer (one with a single key), two chats, three events, one fault | 186,972 |

Every specification states the types of its variables in a type invariant; section 4
says which of them are proved. They are no runs of their own. Every invariant and every
action property of the table is also a theorem; what only the runs show is liveness:
`MessagesSettle`, `ReceiptsSettle`, `Consumed`, `CancelSettles`, `RemovalSettles`,
`TransferEnds`, `AlwaysSignsIn`, `SignOutFinishes`, `RevocationSettles`,
`DownloadSettles`, `ShownIsRead` and `InvitedJoin`.

The liveness of `Outbox` has an instance of its own, since the state graph of its safety
run is too large for it.

Bounds. `Tickets` is 1..8 and no run uses the seventh, so the outbox is
not cut. `MaxEpoch` 2 lets a chat change its members once on each branch, which is what
every `Outbox` property is about: a peer's Commit, an own one, or an own one over the
peer's. One crash reaches every
recovery step from every point; a second only repeats it. `inbox` allows two and
`handoff` three because their memory and disk differ in more ways: a fork takes a
failed write, a crash and a second attempt. The history bound (`HistoryJobs`)
makes one part due. In `history` two messages make the order of parts and a gap
possible, foreign Commits come before the addition, after it or both, the second chat has
an empty transcript (imported with its manifest) and shares queue, mailbox and resume with
the first; one mishap interrupts any
step of the source and the rest is repeated.

In `session` three faults are a lost handoff, a crash in the rotation that follows
and a sign-out, which together reach every file. In `revocation` one Commit of a
peer and one fault are what each cause needs, and a second fault breaks off another
operation beside; three devices are the fewest with a committer, a target and one that
relies on the committer. The first, which the election prefers, is a target and so is
the third, whose addition meets its revocation. In `chunks` three chunks have a first, a middle and a last one, two edits
change a file and change it back. In `readstate` three events are, around a fetch, a
key between two focus changes, or two keys and the loss of the focus before they are
replayed; a message that arrives in that fetch is unread in the scope of the key. The
second chat is the one the user turns to while messages come to the first. In `composer` two texts make two
holds due in one turn, and two faults a failed send and a failed write after it.
In `conversation` three events are a poll, a vote and its close or a second vote;
the single key of `b2` makes the second attempt leave it out.

Deadlock is checked in `transfer`, `session`, `revocation`, `readstate` and
`composer`, which have no final state. In the other runs the bounded system may stop:
everything is sent and read.

### Departures

Where the code, as modelled, does something else than its own words say. The
models have each behaviour; the properties above are stated so that they hold with
it, and the formula given here is the one that does not hold.

* A message queued ahead of a membership update blocks both. `flush_outbox_matching`
  refuses an application item while its chat has a control item queued
  (`engine.rs:2646`, where `ensure_conversation_sending_allowed` says "membership
  update is queued; wait for its encrypted delivery", `engine.rs:3275`). When the
  application item is the older of the two it is the head, is refused for ever, and the
  control item behind it is never reached; the outbox stops for all chats. In
  `Outbox`, `[]<>` "no control item is queued" does not hold under `FairSpec` with
  a history job. `MessagesSettle` and `ReceiptsSettle` are checked with one and
  except exactly this state when it lasts (`<>[]HeadRefused`).
* Own Commits do not wait for the mailbox. `sync_device` (`engine.rs:2069`) and
  `reconcile_revoked_device` (`engine.rs:2541`) take the relay's lease, "exclusive" by
  `contracts/openapi.yaml`, and make a Commit upon the group as it is;
  `synchronize` handles revocation events (`engine.rs:2577`) before it reads the mailbox
  (`engine.rs:2592`). Upon a Commit that is still unread this is a second one of the
  same epoch: the device, and who is added by it, go on without the peers. "The group is
  on the peers' branch" does not hold in `Outbox`, `History` and `Revocation`; the first
  two call such a chat `forked`, the third such a removal `astray`, and their properties
  name it as an exception.
* A revoked device can be added. Between the claim of its key package
  (`engine.rs:2075`) and the queued Commit (`engine.rs:2128`) the revocation may be
  approved and acknowledged by everybody; the addition is not looked at again.
  "A device is not in the chat once everybody has acknowledged its revocation" does not
  hold in `Revocation`, for this among the causes of `Excused`.
* A label goes back. `complete_outbox` (`mutte-store/src/lib.rs:1868`) writes
  `Sent` unconditionally; a receipt that overtook the lost answer of the send is
  undone by the retry. "`delivery[m]` never falls from delivered or read to sent" does
  not hold of a step of `Outbox`.
* New messages are cancelled with old ones. `apply_pending_commit`
  (`engine.rs:2976`) cancels the chat's queue again for a Commit that is handled a
  second time. "Only ciphertext of an older epoch is cancelled" does not hold.
* Two Commits of one epoch. `remove_device` (`device.rs:530`) changes the group in
  memory before it writes it. If that write fails, a second attempt finds the
  Commit in memory and queues it; a crash before the next successful write of the
  image leaves the Commit in the outbox and the old group on disk, and the next
  attempt makes a second Commit upon it. `ForkNeedsOrphan` shows that there is no
  other way.
* The history leaves out what was answered. `history_snapshot`
  (`mutte-store/src/lib.rs:2068`) takes messages labelled `Sent` or `Received`
  only, so an own message that was delivered or read is not in the history, and
  the receipt field of a history message is never filled. In `Chunks` this is one
  of the two ways to `latecomers`.
* A held text outlives an absence. "Holds stay local. Leaving the
  terminal makes them drafts." (`personal_ui.rs:520`); a focus lost and gained
  again while a file transfer reads the terminal (`app.rs:853`) does not suspend
  them, and they are sent in the turn that follows. `AwayNeverSends` with `left[t] # "never"` does not hold.
* Terminal alerts know two settings. `Notifications::received`
  (`notifications.rs:52`) looks at the alert mode only, while the panel says of
  a conversation's policy "Following never overrides Off." (`personal_ui.rs:495`):
  a conversation set to Off still alerts the terminal. `ReadState` models the
  mode that alerts.
* "Closed · results are final" (`personal_ui.rs:773`). The fold goes by the time
  the sender wrote, so a vote with an earlier time that arrives after the close
  still counts. `EveryoneAgrees` is about devices that have got the same events
  for that reason.

Three more behaviours of the history appear as the
exceptions of `TransferEnds` and `ShutOutWithCause`: a receipt that arrives
between capture and the last part makes every later attempt of that transfer fail
(`sync_device` says that a retry refreshes the journal "until the first encrypted
history part is staged", but once the device is in the group only
`resume_history_sync` retries, and it does not); parts of an older epoch, overtaken by another member's Commit, stop the
target's mailbox; and after a Welcome that the vault could not queue, parts
resumed before the next restart go ahead of it.

### Fairness

The frontend calls `synchronize` on a timer and on every relay hint, so what
`synchronize` does is attempted for ever; an operation that has begun runs to
its end (weak fairness of `Running`). Sends, acknowledgements and file writes may
fail any number of times but not for ever (strong fairness of the successful
action). Nothing is assumed of the user, of the peers or of crashes.
In `outbox_live` the steps of `Progress` share one strong fairness, in which an item, an
acknowledgement at the relay or an upload succeeds at last when they are tried again and
again. `MessagesSettle` and `ReceiptsSettle` except a head of the queue that is
refused from some time on for ever (`<>[]HeadRefused`): by a changed safety code, which only
the user can lift, or by a history envelope behind it, which nobody can. `Consumed` excepts what is behind an unreadable
delivery: the mailbox pass stops there at each attempt.
In `handoff` the events are fetched and a lease is asked for until it is had;
`RemovalSettles` excepts a lease that a failed mutation has left taken (`Leaked`),
which the model's relay never takes back. In `history` the source polls
(`Resume`, `Progress`), the target reads; each action of `Progress` uses up
something of which there is no endless supply, so strong fairness of their
disjunction is enough. `TransferEnds` says that a transfer to a device of the group does not stay open for ever
(an open one can only end as done), and excepts the cases above and a source that has left
the peers' branch with a Commit unread (`Blocked`): of a chat whose own transfer is stale
it says nothing, only that the others come to their end.
`FreshOnWire` says what lets old ciphertext out: the restore stage stops at the
first failed acknowledgement, and a later flush may send ciphertext older than a
Commit already processed (`unapplied`), or one an own Commit has overtaken that
the vault could not queue (`unannounced`); and in a chat that is `forked` no ciphertext
is of an epoch the peers share.

In `session` the program runs, the user launches it again and goes on with the
prompt, the owner approves what is asked for and time passes; authorization and
approval are strongly fair because expiries and lost answers interrupt them. In
`revocation` every device that is not revoked goes on polling, nothing more: what
is refused is taken up by a later pass. In `chunks` both ends try again with every
synchronization, and a command that has begun ends; `DownloadSettles` excepts the
mixture, an altered file and a withdrawn request. In `readstate` fetches begin and
end (their calls have time limits) and waiting keys are replayed between them. In
`conversation` devices flush and read again and again; `InvitedJoin` starts from a
chat that its maker lists. `composer` states nothing about liveness: a hold may
wait for its owner for ever.

## 4. Proofs

Every theorem holds for any chats, messages, deliveries, transfers, devices, accounts
and texts, for any placing of faults, restarts and edits, and for any bound on them. The
assumptions are those named in the modules (`OutboxAssumption`, `InboxAssumption`,
`TransferAssumption`, `HandoffAssumption`, `HistoryAssumption`, `SessionAssumption`,
`ComposerAssumption`, `ChunksAssumption`, `RevocationAssumption`,
`ReadStateAssumption`, `DirectChatAssumption`). They type the constants and say that
a placeholder such as `None` is none of the values, that there is a chat, that a device
is not both added and removed, that devices are finitely many numbers where an election
is by the smallest, that messages are finitely many where they are counted, and that a
thread and an edit stay within their chat.

Almost no invariant is inductive as it stands. Each proof module begins with the
strengthening, in named parts, and goes on to one lemma per operation; TLC checked
every strengthening on the instance of section 3 before it was proved.

**Outbox** (`OutboxProofs`: `TypeCorrect`, `NoneLost`, `TruthfulLabels`, `ReceiptBooks`,
`FreshCiphertext`). `OutboxOwnsPending` is not inductive alone: that the direct send
finds the item it queued, and that completing an envelope sent before makes no false
claim, need the types of the staged envelopes (control items carry no message and no
receipt) and the labels. `FreshOnWire` needs the epochs: chat ciphertext of an old
epoch waits for a staged Commit that will cancel it (`OldIsUnapplied`), a Commit in
the mailbox is beyond the group or staged (`MailboxAhead`), and the group is ahead of
the relay only by an own Commit that is queued or still listed (`LeaseBooks`, for the
chats that are not `forked`). The order of the queue is not needed.

**Inbound** (`InboundProofs`). For `Inbox`: `TypeCorrect`, `NeverPoisoned`,
`DurableBeforeAck`, `Implements`. The fetched batch is a prefix of the mailbox
(`BatchIsPrefix`), what precedes an opened delivery has been shown (`SpentInOrder`),
and the delivery under way stands where `pc` says (`InProgress`); the refinement of
`ExactlyOnce` follows step by step with `shown` and `mailbox` mapped to themselves.
For `ReadState`: `ReadInvariance`, `BooksAgree`, `MarksInSight`. Each function a handler is
made of keeps the books of the state it is given (`Booked`: both copies agree, each
counter is the number of unread messages, and a receipt is owed for what was delivered or
read) and marks only messages of the scope shown when it returns (`Marks`), so a turn of
the loop, which is several of them in a row, does so too. Besides, nothing is visible
while a fetch is in flight, a thread is open only in its own chat (`InPlace`), and the
frontend's idea of the focus is what the last event says.

**Attachments** (`AttachmentProofs`). For `AttachmentTransfer`: `TransferTypeCorrect`,
`CancelIsHonoured`, `IntentIsKept`, `NoPhantom`; the invariant ties the control of the
leased transfer to the step the engine is in. For `Chunks` and `FileDialogs`:
`TypeCorrect`, `AnnouncedFileIsWhole`, `OnlyLatecomersMiss`, `PickerIsHonest`. What is
at the relay was read while the source was unchanged, unless it was edited inside an
attempt (`ReadWhole`); an attempt counts no chunk the relay does not have, and an announcement is
queued only behind the last chunk (`Kept`); a member was there at the beginning or is
among the latecomers (`Reached`); and a message leaves the state in which the picker may
begin one by `Begin` only (`Reviewed`).

**Membership** (`MembershipProofs`). For `Handoff`: `TypeCorrect`,
`NoForkWithoutOrphan`, `OrderedChain`, `AcknowledgedIsQueued`. Commits are numbered as
they are made and the group is never behind a queued one without an orphan (`Numbers`);
a changed target has its Commit queued or beside the group (`WellKept`), and the engine
looks there before it acknowledges (`Subject`); the lease is held for the head of the
group until the relay has it (`LeaseBooks`). For `Conversation`: `ChatInvariance`,
`InvitesOnce`, `AllAgree`. A device begins a chat only while it lists none (`Starts`) and
lists it together with the queued Welcome (`Keeps`), so it has one Welcome at most
(`OneOwn`); it sends nothing of a chat while the Welcome is queued (`Wired`, `Waits`), and a
mailbox is read in order, so who was invited has joined when the rest comes (`Took`).
`AllAgree` is `EveryoneAgrees`: what a device has of its own is sent, waits or was
cancelled, everything else came from the relay (`Holds`); the author of what is on the
wire has it (`Authored`), and so has who has read it (`Got`). Two devices that
have read everything, with nothing waiting and nothing cancelled on the way, therefore
hold the same events (`SameEvents`), and what they show is computed from the set of these
in the order of their times (`SameView`). That this order exists and that
the fold is the one of the code is what `Polls` defines, not a theorem.

**History** (`HistoryProofs`: `TypeCorrect`, `DropsOnlyWhatIsHeld`,
`ImportsAreAnswered`, `ShutOutForCause`). A part in flight shows that the manifest was
queued, after which the transcript is not refreshed (`PartsStarted`); an acknowledgement
in flight shows that the target has imported what it names (`Imports`); only captured
transfers are staged (`Captured`); and a target in the middle of a part has it at the
head of its mailbox (`Handling`). `ShutOutForCause` adds the order of what is sent, as
long as no Welcome was refused: nothing of a chat leaves before its Welcome (`Outside`,
`WelcomeSent`, `PartsBehind`), the changes in the target's mailbox are in order and without
a gap (`ChangesInOrder`), and a part is behind the change that made its epoch
(`PartsInOrder`). An addition over an unread Commit sets the last change of the chat back,
which nothing on its way to the target can tell, because nothing of the chat is
(`Outside`); the unread Commit is on another branch (`CommitsAnnounced`).

**Session** (`SessionProofs`: `TypeCorrect`, `SignOutIsComplete`, `AskedOnlyIfNeeded`,
`OneSessionPerDevice`). A sign-out clears the one vault bound to its session, so there
must be no other session of that device (`Unique`), which the relay sees to: it gives
none to a device it knows (`Known`, `Fresh`). The steps of `finish` leave nothing behind
(`Clearing`), and nothing is written for a device that was signed out, because from the
saved session on there is no intent and the device in memory is that of the identity file
(`Running`). A device that is to be approved has no session in any file (`Unbound`).

**Revocation** (`RevocationProofs`: `TypeCorrect`, `LeftBehindForCause`). A device that
acknowledged an event has queued the removal, has left it to a smaller device, was
behind, or the target was out for good (`Dealt`, from `Handled` at the step before);
a queued removal is upon the node the peers are at, or is `astray` (`Timely`); only the holder of the
lease has one (`Queues`), or has claimed a key for an addition (`Claims`), so a target is
out for good only when no addition of it is queued or to be made. Among the devices that were not behind each leaves it to a
smaller one only, so the smallest of them did not; that there is a smallest is the
well-foundedness of the natural numbers.

**Composer** (`ComposerProofs`: `TypeCorrect`, `SentOnce`, `HoldsAreKept`,
`NotSentWhileAway`). A text has one place, the composer of its scope (`Placed`), and
beside it at most the hold it was restored from (`Copies`); the copy of the holds in
memory is a recovery ahead of the disk at most (`Agree`) and marks a text as being
submitted only while the loop is about it (`Looping`); so a text handed over without a
warning is nowhere from where it could be sent again (`NeverAgain`), and went to its
own scope (`AtHome`). No hold runs whose owner was seen to leave (`Away`).

What stays with TLC. Liveness under fairness, listed in section 3, is out of the
prover's reach. So are statements about what a recursive definition computes for every
input: of `ReadTypeOK` the conjunct on the waiting keys, which are filtered with
`SelectSeq`, is model-checked only, and nothing is proved of the values of a
`Tally` beyond that equal events give equal ones. `DirectTypeOK` and `ChatTypeOK`
are proved as far as `Typed` and `Holds` say the same.

## 5. Plan

Done: the modules of section 2, their runs, and for every invariant and action property
of these runs a theorem.

Next, in this order:

1. An abstract specification of the outbox (each message accepted by the relay once, or
   cancelled, with a label that only says what happened) and of the revocation, with
   proofs that `Outbox` and `Revocation` implement them, as `Inbox` implements
   `ExactlyOnce`.
2. Action properties beside the state invariants: a label is raised by an accepted
   receipt only, a history transfer is given up only when it was acknowledged, a
   confirmed sign-out is never forgotten.
3. `History`: pruning of completed transfers.
4. `Outbox`: switching `send_read_receipts`.

## 6. Not modelled

Drawing, layout, themes, the palette and command parsing; desktop integration; the
WebSocket, which only wakes the loop that polls anyway; HTTP framing and protocol
size limits; file formats, encryption of the files and migration of old contents;
keepsakes, photos and reminders, whose changes are single writes of the personal
document; notification modes and quiet hours, which only filter what is announced;
moving through folders and previews of files; the safety code's words; the relay
beyond what the client relies on. PROJECT.json lists each with its reason, and the
hazards no property covers.
