------------------------------- MODULE History -------------------------------
(***************************************************************************)
(* History sync: how the messages of a chat get from this device to a new  *)
(* device of the same account, and how their arrival is acknowledged       *)
(* (mutte-store and mutte-client on both sides, the relay in between).     *)
(*                                                                         *)
(* The source captures a snapshot, adds the device to the group, queues    *)
(* the Welcome and then a manifest and the chunks; the target imports them *)
(* when the last chunk is in and answers.  A chunk carries one message, a  *)
(* hash is what it is the hash of, "join" stands for the Commit, Welcome   *)
(* and DeviceSync of the addition.  Each device runs one operation at a    *)
(* time, a chain of durable writes and calls through "pc" or "tpc".        *)
(***************************************************************************)
EXTENDS Naturals, Sequences, FiniteSets

CONSTANTS
  Chats,        \* chats of the account that the target is not in yet
  Messages,     \* their messages: numbers, in the order they were sent
  Own,          \* those of the account itself
  ChatOf,       \* the chat of each message
  MaxEpoch,     \* epoch to which other members bring each chat at most
  MaxMishaps    \* bound on failing writes and restarts of the source

ASSUME HistoryAssumption ==
  /\ Chats # {} /\ Messages \subseteq Nat
  /\ Own \subseteq Messages
  /\ ChatOf \in [Messages -> Chats]
  /\ MaxEpoch \in [Chats -> Nat] /\ MaxMishaps \in Nat

VARIABLES
  \* the source device
  label,         \* DeliveryState of each message
  out,           \* outbound_history_transfers, by chat
  member,        \* is the target in the group, is its Welcome queued?
  epoch,         \* MLS epoch of each chat
  queue,         \* outbox, as far as it is for the target
  pc, cur, todo, \* step of the operation, its chat, chats still to resume
  mishaps,
  \* the relay
  latest,        \* epoch of the last Commit it accepted in each chat, on the
                 \* source's branch
  mail, reply,   \* mailboxes of the target and of the source
  forked,        \* chats where the peers do not follow the source's Commit
  \* the target device
  tEpoch,        \* its MLS epoch in each chat, 0 before it has joined
  in,            \* inbound_history_transfers, by chat
  have,          \* messages in its vault
  tpc,
  \* history
  refused        \* has a vault write refused to queue a Welcome?

sourceVars == <<label, out, member, epoch, queue, pc, cur, todo, mishaps>>
opVars     == <<pc, cur, todo, mishaps>>
relayVars  == <<latest, mail, reply, forked>>
targetVars == <<tEpoch, in, have, tpc>>
vars == <<sourceVars, relayVars, targetVars, refused>>

-----------------------------------------------------------------------------
\* Delivered and Read are one label here: either makes another snapshot.
Label      == {"none", "sent", "received", "receipted"}
Transcript == UNION {[ids -> BOOLEAN] : ids \in SUBSET Messages}
Chunk      == Messages \X BOOLEAN
Outbound   == [state : {"none", "open", "done"}, transcript : Transcript,
               manifest : BOOLEAN, staged : SUBSET Messages,
               earlier : SUBSET Chats]
Inbound    == [state : {"none", "open", "done"}, transcript : Transcript,
               got : SUBSET Chunk, acked : BOOLEAN]
Envelope   == [kind : {"join", "commit"}, chat : Chats, epoch : Nat]
                \cup [kind : {"manifest", "ack"}, chat : Chats, epoch : Nat,
                      transcript : Transcript]
                \cup [kind : {"chunk"}, chat : Chats, epoch : Nat, chunk : Chunk]
Step       == {"idle", "lease", "stage", "parts", "resume", "restore",
               "restage"}

TypeOK ==
  /\ label \in [Messages -> Label]
  /\ out \in [Chats -> Outbound]
  /\ member \in [Chats -> {"out", "added", "queued"}]
  /\ epoch \in [Chats -> Nat] /\ latest \in [Chats -> Nat]
  /\ queue \in Seq(Envelope)
  /\ mail \in Seq(Envelope) /\ reply \in Seq(Envelope) /\ forked \subseteq Chats
  /\ pc \in Step /\ cur \in Chats /\ todo \subseteq Chats /\ mishaps \in Nat
  /\ tEpoch \in [Chats -> Nat]
  /\ in \in [Chats -> Inbound]
  /\ have \subseteq Messages
  /\ tpc \in {"read", "ack", "consume"}
  /\ refused \in BOOLEAN

\* Between two operations "cur" means nothing.
NoChat == CHOOSE c \in Chats : TRUE

Init ==
  /\ label = [m \in Messages |-> "none"]
  /\ out = [c \in Chats |-> [state |-> "none", transcript |-> <<>>,
                             manifest |-> FALSE, staged |-> {}, earlier |-> {}]]
  /\ member = [c \in Chats |-> "out"]
  /\ epoch = [c \in Chats |-> 1] /\ latest = epoch
  /\ queue = <<>> /\ mail = <<>> /\ reply = <<>> /\ forked = {}
  /\ pc = "idle" /\ cur = NoChat /\ todo = {} /\ mishaps = 0
  /\ tEpoch = [c \in Chats |-> 0]
  /\ in = [c \in Chats |-> [state |-> "none", transcript |-> <<>>,
                            got |-> {}, acked |-> FALSE]]
  /\ have = {} /\ tpc = "read" /\ refused = FALSE

-----------------------------------------------------------------------------
(* The messages of the source.                                             *)

\* A message is stored before the target is in the chat; later ones reach the
\* target by themselves.
Arrive(m) ==
  /\ pc = "idle" /\ label[m] = "none" /\ member[ChatOf[m]] = "out"
  /\ label' = [label EXCEPT ![m] = IF m \in Own THEN "sent" ELSE "received"]
  /\ UNCHANGED <<out, member, epoch, queue, opVars, relayVars, targetVars,
                 refused>>

\* A receipt of a peer raises the label of an own message.
Raise(m) ==
  /\ pc = "idle" /\ m \in Own /\ label[m] = "sent"
  /\ label' = [label EXCEPT ![m] = "receipted"]
  /\ UNCHANGED <<out, member, epoch, queue, opVars, relayVars, targetVars,
                 refused>>

\* normalize_history_message: of the label only the receipt is kept.
Snapshot(ids) == [m \in ids |-> label[m] = "receipted"]

\* history_snapshot without ids
Capturable(c) ==
  {m \in Messages : ChatOf[m] = c /\ label[m] \in {"sent", "received"}}

-----------------------------------------------------------------------------
(* sync_device                                                             *)

Stop   == pc' = "idle" /\ cur' = NoChat /\ todo' = {}
Abort  == Stop /\ UNCHANGED mishaps
Mishap == mishaps < MaxMishaps /\ mishaps' = mishaps + 1

Open(c) == out[c].state = "open"
NoParts(c) == ~out[c].manifest

\* begin_history_transfer: a transfer of which no part is queued is refreshed.
Capture(c) ==
  /\ pc = "idle" /\ member[c] = "out"
  /\ out' = [out EXCEPT ![c] =
       IF out[c].state = "none"
       THEN [state |-> "open", transcript |-> Snapshot(Capturable(c)),
             manifest |-> FALSE, staged |-> {},
             earlier |-> {d \in Chats : out[d].state # "none"}]
       ELSE IF NoParts(c) THEN [@ EXCEPT !.transcript = Snapshot(Capturable(c))]
       ELSE @]
  /\ pc' = "lease" /\ cur' = c
  /\ UNCHANGED <<label, member, epoch, queue, todo, mishaps, relayVars,
                 targetVars, refused>>

\* The relay refuses the lease or the key package.
LeaseRefused ==
  /\ pc = "lease" /\ Abort
  /\ UNCHANGED <<label, out, member, epoch, queue, relayVars, targetVars,
                 refused>>

\* The lease keeps others from changing the group; it does not say that its
\* holder has read every Commit.  One made over an unread one is a branch that
\* the peers do not follow.
Add ==
  /\ pc = "lease"
  /\ forked' = IF epoch[cur] = latest[cur] THEN forked ELSE forked \cup {cur}
  /\ latest' = [latest EXCEPT ![cur] = epoch[cur]]
  /\ member' = [member EXCEPT ![cur] = "added"]
  /\ epoch' = [epoch EXCEPT ![cur] = @ + 1]
  /\ pc' = "stage"
  /\ UNCHANGED <<label, out, queue, cur, todo, mishaps, mail, reply, targetVars,
                 refused>>

\* stage_addition and complete_addition
Stage ==
  /\ pc \in {"stage", "restage"}
  /\ queue' = Append(queue,
                     [kind |-> "join", chat |-> cur, epoch |-> epoch[cur]])
  /\ member' = [member EXCEPT ![cur] = "queued"]
  /\ pc' = IF pc = "stage" THEN "parts" ELSE "restore"
  /\ UNCHANGED <<label, out, epoch, cur, todo, mishaps, relayVars, targetVars,
                 refused>>

StageFails ==
  /\ pc \in {"stage", "restage"} /\ Mishap /\ Stop
  /\ refused' = TRUE
  /\ UNCHANGED <<label, out, member, epoch, queue, relayVars, targetVars>>

-----------------------------------------------------------------------------
(* grant_history_attachments and queue_history_transfer, run by            *)
(* sync_device and, for every unfinished transfer, by resume_history_sync. *)

\* Mutant: a transfer is resumed only from its beginning.
UnfinishedFresh == {c \in Chats : Open(c) /\ member[c] # "out" /\ NoParts(c)}

Unfinished == {c \in Chats : Open(c) /\ member[c] # "out"}

Resume ==
  /\ pc = "idle" /\ Unfinished # {}
  /\ pc' = "resume" /\ todo' = Unfinished
  /\ UNCHANGED <<label, out, member, epoch, queue, cur, mishaps, relayVars,
                 targetVars, refused>>

\* The transfers in the order of their capture.
ResumeNext ==
  /\ pc = "resume"
  /\ \E c \in todo :
       /\ todo \cap out[c].earlier = {}
       /\ cur' = c /\ todo' = todo \ {c}
  /\ pc' = "parts"
  /\ UNCHANGED <<label, out, member, epoch, queue, mishaps, relayVars,
                 targetVars, refused>>

\* The snapshot is rebuilt for every part, and must still have the hash.
Rebuilt(c) == Snapshot(DOMAIN out[c].transcript)
Stale(c)   == out[c].transcript # Rebuilt(c)
ToStage(c) == DOMAIN out[c].transcript \ out[c].staged

PartsStale ==
  /\ pc = "parts" /\ Stale(cur) /\ Abort
  /\ UNCHANGED <<label, out, member, epoch, queue, relayVars, targetVars,
                 refused>>

\* The relay does not grant a file, or a write fails.
PartsFail ==
  /\ pc = "parts" /\ Mishap /\ Stop
  /\ UNCHANGED <<label, out, member, epoch, queue, relayVars, targetVars,
                 refused>>

ManifestOf(c) == [kind |-> "manifest", chat |-> c, epoch |-> epoch[c],
                  transcript |-> out[c].transcript]
ChunkOf(c, m) == [kind |-> "chunk", chat |-> c, epoch |-> epoch[c],
                  chunk |-> <<m, Snapshot({m})[m]>>]

\* Mutant: the cursor is one ahead.
NextPartSkips(c) ==
  \/ /\ NoParts(c)
     /\ queue' = Append(queue, ManifestOf(c))
     /\ out' = [out EXCEPT ![c].manifest = TRUE]
  \/ /\ ~NoParts(c)
     /\ \E m \in ToStage(c) :
          /\ queue' = Append(queue, ChunkOf(c, m))
          /\ out' = [out EXCEPT ![c].staged = @ \cup {m + 1}]

\* next_history_payload and queue_history_part: the part and the cursor are
\* one write.
NextPart(c) ==
  \/ /\ NoParts(c)
     /\ queue' = Append(queue, ManifestOf(c))
     /\ out' = [out EXCEPT ![c].manifest = TRUE]
  \/ /\ ~NoParts(c)
     /\ \E m \in ToStage(c) :
          /\ \A n \in ToStage(c) : m <= n
          /\ queue' = Append(queue, ChunkOf(c, m))
          /\ out' = [out EXCEPT ![c].staged = @ \cup {m}]

\* Mutant: the rebuilt snapshot is not compared.
QueueUnchecked ==
  /\ pc = "parts" /\ NextPart(cur)
  /\ UNCHANGED <<label, member, epoch, opVars, relayVars, targetVars, refused>>

QueuePart ==
  /\ pc = "parts" /\ ~Stale(cur) /\ NextPart(cur)
  /\ UNCHANGED <<label, member, epoch, opVars, relayVars, targetVars, refused>>

PartsDone ==
  /\ pc = "parts" /\ ~Stale(cur)
  /\ ~NoParts(cur) /\ ToStage(cur) = {}
  /\ pc' = IF todo = {} THEN "idle" ELSE "resume"
  /\ cur' = NoChat
  /\ UNCHANGED <<label, out, member, epoch, queue, todo, mishaps, relayVars,
                 targetVars, refused>>

-----------------------------------------------------------------------------
(* The relay: mailboxes in the order of acceptance.                        *)

Send ==
  /\ pc = "idle" /\ queue # <<>>
  /\ LET e == Head(queue) IN
       /\ mail' = Append(mail, e)
       /\ latest' = IF e.kind = "join" THEN [latest EXCEPT ![e.chat] = e.epoch]
                                       ELSE latest
  /\ queue' = Tail(queue)
  /\ UNCHANGED <<label, out, member, epoch, opVars, reply, forked, targetVars,
                 refused>>

\* The lease is free before the addition, and once the Commit of it is in.
LeaseFree(c) ==
  member[c] = "out" \/ (member[c] = "queued" /\ epoch[c] <= latest[c])

\* Another member changes the group; its Commit goes to the members it knows of.
\* (On another branch than the source's it adds nothing: see ReadCommit.)
PeerCommit(c) ==
  /\ c \notin forked /\ LeaseFree(c) /\ latest[c] < MaxEpoch[c]
  /\ latest' = [latest EXCEPT ![c] = @ + 1]
  /\ LET e == [kind |-> "commit", chat |-> c, epoch |-> latest[c] + 1] IN
       /\ mail' = IF member[c] = "queued" THEN Append(mail, e) ELSE mail
       /\ reply' = Append(reply, e)
  /\ UNCHANGED <<sourceVars, forked, targetVars, refused>>

-----------------------------------------------------------------------------
(* The target.  A delivery it cannot open, or refuses, ends the pass over  *)
(* its mailbox each time.                                                  *)

ReadMembership ==
  /\ tpc = "read" /\ mail # <<>>
  /\ LET e == Head(mail) IN
       /\ \/ e.kind = "join"
          \/ e.kind = "commit" /\ tEpoch[e.chat] + 1 = e.epoch
       /\ tEpoch' = [tEpoch EXCEPT ![e.chat] = e.epoch]
  /\ mail' = Tail(mail)
  /\ UNCHANGED <<sourceVars, latest, reply, forked, in, have, tpc, refused>>

Chunks(t) == {<<m, t[m]>> : m \in DOMAIN t}

\* What apply_history_sync makes of a manifest or a chunk.
Applied(e) ==
  LET r == in[e.chat] IN
    IF e.kind = "manifest" /\ r.state = "none"
    THEN [r EXCEPT !.state = "open", !.transcript = e.transcript]
    ELSE IF e.kind = "chunk" /\ r.state = "open"
    THEN [r EXCEPT !.got = @ \cup {e.chunk}]
    ELSE r

Counted(r) ==
  r.state = "open" /\ Cardinality(r.got) >= Cardinality(DOMAIN r.transcript)

\* A second manifest that differs.
Conflicts(e) ==
  /\ e.kind = "manifest" /\ in[e.chat].state # "none"
  /\ in[e.chat].transcript # e.transcript

\* A chunk without a manifest, or a second one that differs.
Unfitting(e) ==
  /\ e.kind = "chunk"
  /\ \/ in[e.chat].state = "none"
     \/ /\ in[e.chat].state = "open"
        /\ \E g \in in[e.chat].got : g[1] = e.chunk[1] /\ g # e.chunk

\* Also a transcript that does not hash to what the manifest said.
Refused(e) ==
  \/ Conflicts(e) \/ Unfitting(e)
  \/ Counted(Applied(e)) /\ Applied(e).got # Chunks(Applied(e).transcript)

\* decrypt_history_sync: past epochs are not kept.
Decryptable(e) == e.epoch = tEpoch[e.chat]

\* inbound_history_outcome, after this part
Imported(r) == Counted(r) \/ r.state = "done"

Finalized(r) == [r EXCEPT !.state = "done", !.got = {}]

\* Mutant: the acknowledgement is left to a later resume.
ApplyUnanswered ==
  /\ tpc = "read" /\ mail # <<>>
  /\ LET e == Head(mail)
         r == Applied(e)
     IN
       /\ e.kind \in {"manifest", "chunk"} /\ Decryptable(e)
       /\ ~Refused(e)
       /\ in' = [in EXCEPT ![e.chat] = IF Counted(r) THEN Finalized(r) ELSE r]
       /\ have' = IF Counted(r) THEN have \cup DOMAIN r.transcript ELSE have
  /\ tpc' = "consume"
  /\ UNCHANGED <<sourceVars, relayVars, tEpoch, refused>>

\* present_history_sync, first write: a complete transfer is imported at once.
Apply ==
  /\ tpc = "read" /\ mail # <<>>
  /\ LET e == Head(mail)
         r == Applied(e)
     IN
       /\ e.kind \in {"manifest", "chunk"} /\ Decryptable(e)
       /\ ~Refused(e)
       /\ in' = [in EXCEPT ![e.chat] = IF Counted(r) THEN Finalized(r) ELSE r]
       /\ have' = IF Counted(r) THEN have \cup DOMAIN r.transcript ELSE have
       /\ tpc' = IF Imported(r) THEN "ack" ELSE "consume"
  /\ UNCHANGED <<sourceVars, relayVars, tEpoch, refused>>

\* Mutant: a transfer that has begun is acknowledged.
AckDueEarly(c) == in[c].state # "none" /\ ~in[c].acked

AckDue(c) == in[c].state = "done" /\ ~in[c].acked

\* queue_pending_history_acknowledgements: in the same pass, or at a resume.
QueueAck(c) ==
  /\ tpc \in {"read", "ack"} /\ AckDue(c)
  /\ reply' = Append(reply, [kind |-> "ack", chat |-> c, epoch |-> tEpoch[c],
                             transcript |-> in[c].transcript])
  /\ in' = [in EXCEPT ![c].acked = TRUE]
  /\ UNCHANGED <<sourceVars, latest, mail, forked, tEpoch, have, tpc, refused>>

Consume ==
  /\ tpc = "consume" \/ (tpc = "ack" /\ \A c \in Chats : ~AckDue(c))
  /\ tpc' = "read" /\ mail' = Tail(mail)
  /\ UNCHANGED <<sourceVars, latest, reply, forked, tEpoch, in, have, refused>>

\* A write or call fails, or the target restarts: the delivery comes again.
TargetFails ==
  /\ tpc # "read" /\ tpc' = "read"
  /\ UNCHANGED <<sourceVars, relayVars, tEpoch, in, have, refused>>

-----------------------------------------------------------------------------
(* The source reads its mailbox.                                           *)

ReadAck ==
  /\ pc = "idle" /\ reply # <<>>
  /\ LET e == Head(reply) IN
       /\ e.kind = "ack" /\ e.epoch = epoch[e.chat]
       /\ e.transcript = out[e.chat].transcript
       /\ out' = [out EXCEPT ![e.chat].state = "done"]
  /\ reply' \in {reply, Tail(reply)}
  /\ UNCHANGED <<label, member, epoch, queue, opVars, latest, mail, forked,
                 targetVars, refused>>

\* What is unread when the source begins a branch stays so, and what comes
\* behind it is not reached any more.
ReadCommit ==
  /\ pc = "idle" /\ reply # <<>>
  /\ LET e == Head(reply) IN
       /\ e.kind = "commit" /\ e.chat \notin forked /\ e.epoch = epoch[e.chat] + 1
       /\ epoch' = [epoch EXCEPT ![e.chat] = e.epoch]
  /\ reply' = Tail(reply)
  /\ UNCHANGED <<label, out, member, queue, opVars, latest, mail, forked,
                 targetVars, refused>>

\* Mutant: it does not.
CrashForgets ==
  /\ Mishap /\ pc' = "idle" /\ cur' = NoChat /\ todo' = {}
  /\ UNCHANGED <<label, out, member, epoch, queue, relayVars, targetVars,
                 refused>>

\* A restart first queues what an addition has left behind.
Crash ==
  /\ Mishap
  /\ pc' = "restore" /\ cur' = NoChat /\ todo' = {}
  /\ UNCHANGED <<label, out, member, epoch, queue, relayVars, targetVars,
                 refused>>

RestoreNext ==
  /\ pc = "restore"
  /\ \E c \in Chats : member[c] = "added" /\ cur' = c
  /\ pc' = "restage"
  /\ UNCHANGED <<label, out, member, epoch, queue, todo, mishaps, relayVars,
                 targetVars, refused>>

RestoreDone ==
  /\ pc = "restore" /\ \A c \in Chats : member[c] # "added"
  /\ Abort
  /\ UNCHANGED <<label, out, member, epoch, queue, relayVars, targetVars,
                 refused>>

-----------------------------------------------------------------------------
Next ==
  \/ \E m \in Messages : Arrive(m) \/ Raise(m)
  \/ \E c \in Chats : Capture(c) \/ PeerCommit(c) \/ QueueAck(c)
  \/ LeaseRefused \/ Add \/ Stage \/ StageFails
  \/ Resume \/ ResumeNext \/ QueuePart \/ PartsStale \/ PartsFail \/ PartsDone
  \/ Send \/ ReadMembership \/ Apply \/ Consume \/ TargetFails
  \/ ReadAck \/ ReadCommit
  \/ Crash \/ RestoreNext \/ RestoreDone

Spec == Init /\ [][Next]_vars

\* An operation that has begun runs on to its end.
Running ==
  LeaseRefused \/ Add \/ Stage \/ StageFails \/ ResumeNext \/ PartsStale
    \/ PartsFail \/ PartsDone \/ RestoreNext \/ RestoreDone

\* What is tried again and again until it succeeds; each uses up something of
\* which there is no endless supply, so none can keep the others waiting.
Progress ==
  \/ QueuePart \/ Send \/ Consume \/ (\E c \in Chats : QueueAck(c))
  \/ (ReadAck /\ reply' # reply) \/ ReadCommit

\* Both clients poll.
FairSpec ==
  /\ Spec /\ WF_vars(Running) /\ WF_vars(ReadMembership \/ Apply)
  /\ SF_vars(Resume) /\ SF_vars(Progress)

-----------------------------------------------------------------------------
Readable(e) ==
  \/ e.kind = "join"
  \/ e.kind = "commit" /\ tEpoch[e.chat] + 1 = e.epoch
  \/ e.kind \in {"manifest", "chunk"} /\ Decryptable(e)

\* The source drops its journal of a transfer only when the target holds every
\* message of it.
DoneIsHeld ==
  \A c \in Chats :
    out[c].state = "done" => DOMAIN out[c].transcript \subseteq have

\* An import is not forgotten by the relay before its acknowledgement is
\* queued, whichever write fails.
ImportAnswered ==
  \A c \in Chats :
    AckDue(c) => mail # <<>> /\ Head(mail).chat = c
                   /\ Head(mail).kind \in {"manifest", "chunk"}

\* The target is shut out of what it is sent only by another member's Commit
\* that overtook it, or by a Welcome that the vault refused to queue (the
\* restore stage stops at the first it cannot queue).
ShutOutWithCause ==
  mail # <<>> /\ ~Readable(Head(mail)) =>
    LET e == Head(mail) IN e.epoch < tEpoch[e.chat] \/ refused

\* The source cannot open what is of an earlier epoch, or a Commit that it had
\* not read when it made its own.
Unreadable(e) ==
  e.epoch < epoch[e.chat] \/ (e.kind = "commit" /\ e.chat \in forked)

\* What can keep the transfer of a chat from ending: a receipt that came
\* between capture and staging, in this chat or one resumed before it, or a
\* delivery that its receiver cannot open.
Blocked(c) ==
  \/ \E d \in out[c].earlier \cup {c} : Open(d) /\ Stale(d)
  \/ mail # <<>> /\ ~Readable(Head(mail))
  \/ reply # <<>> /\ Unreadable(Head(reply))

\* No transfer to a device that is in the group stays open for ever, unless it
\* is blocked again and again.
TransferEnds ==
  \A c \in Chats : []<>(Open(c) /\ member[c] # "out" => Blocked(c))
=============================================================================
