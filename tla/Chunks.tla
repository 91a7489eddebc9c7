------------------------------- MODULE Chunks -------------------------------
(***************************************************************************)
(* One file on its way: the chunks the sender encrypts from a source file  *)
(* that may change (prepare, validate_source, encrypt_chunk), what the     *)
(* relay keeps of them, the message that announces the file, and the       *)
(* partial file a reader resumes, verifies and publishes                   *)
(* (AttachmentDownload).  Devices join and leave the chat meanwhile.       *)
(*                                                                         *)
(* The source is "original" when it has the content that was hashed when   *)
(* the upload began; a chunk carries the content it was read from, and     *)
(* encryption is left out.  Module AttachmentTransfer has the registry of  *)
(* controls and the races of a cancellation with these steps; module       *)
(* Outbox has the queue the announcement waits in.                         *)
(***************************************************************************)
EXTENDS Naturals, Sequences

CONSTANTS
  Count,      \* chunks of the file
  Others,     \* devices that are, or may come to be, in the chat
  Present,    \* those that are in it at first
  Reader,     \* the device whose download is followed
  MaxEdits,   \* bound on changes of the source file
  MaxFaults   \* bound on failures, restarts and changes of the chat

ASSUME ChunksAssumption ==
  /\ Count \in Nat
  /\ Present \subseteq Others /\ Present # {} /\ Reader \in Others
  /\ MaxEdits \in Nat /\ MaxFaults \in Nat

VARIABLES
  \* the sender
  source,      \* what is in the source file
  message,     \* outbound_attachments, then the message that announces it
  recipients,  \* devices fixed when the upload began
  pc, have,    \* the attempt, and the chunks it knows the relay to have
  members,     \* the other devices of the MLS group
  captured,    \* history for these devices holds the message
  \* the relay
  stored,      \* per chunk: the content it was made from, or "none"
  complete,
  told,        \* devices the message or its history was sent to
  \* the reader
  requested, saved,   \* VaultAttachment.download_requested, local_path
  part, torn,  \* the partial file: whole chunks, and a rest behind them
  final,       \* the published file
  step,        \* the reader's attempt
  \* ghosts and bounds
  midway,      \* the source changed inside an attempt
  latecomers,  \* devices that came between the beginning and the queueing
  edits, faults

senderVars == <<source, message, recipients, pc, have, members, captured>>
relayVars  == <<stored, complete, told>>
readerVars == <<requested, saved, part, torn, final, step>>
ghostVars  == <<midway, latecomers, edits, faults>>
vars == <<senderVars, relayVars, readerVars, ghostVars>>

-----------------------------------------------------------------------------
Index   == 1 .. Count
Content == {"original", "changed"}
Announced == message \in {"sent", "receipted"}

TypeOK ==
  /\ source \in Content
  /\ message \in {"none", "uploading", "queued", "sent", "receipted",
                  "cancelled"}
  /\ recipients \subseteq Others /\ members \subseteq Others
  /\ captured \subseteq Others /\ told \subseteq Others
  /\ pc \in {"idle", "send", "announce"} /\ have \subseteq Index
  /\ pc # "idle" => message = "uploading"
  /\ stored \in [Index -> Content \cup {"none"}] /\ complete \in BOOLEAN
  /\ requested \in BOOLEAN /\ saved \in BOOLEAN /\ torn \in BOOLEAN
  /\ part \in Seq(Content \cup {"torn"})
  /\ final \in {"none", "good", "altered"}
  /\ step \in {"idle", "fetch", "record"}
  /\ midway \in BOOLEAN /\ latecomers \subseteq Others
  /\ edits \in Nat /\ faults \in Nat

Init ==
  /\ source = "original" /\ message = "none" /\ recipients = {}
  /\ pc = "idle" /\ have = {} /\ members = Present /\ captured = {}
  /\ stored = [i \in Index |-> "none"] /\ complete = FALSE /\ told = {}
  /\ requested = FALSE /\ saved = FALSE /\ part = <<>> /\ torn = FALSE
  /\ final = "none" /\ step = "idle"
  /\ midway = FALSE /\ latecomers = {} /\ edits = 0 /\ faults = 0

Fault == faults < MaxFaults /\ faults' = faults + 1

-----------------------------------------------------------------------------
(* The relay's attachment calls.                                           *)

\* start_attachment tells which chunks an earlier attempt has left there.
Uploaded == {i \in Index : stored[i] # "none"}

\* upload_attachment_chunk, of what the source holds now.
PutChunk(i) == stored' = [stored EXCEPT ![i] = source]

\* delete_attachment
DeleteAttachment ==
  stored' = [i \in Index |-> "none"] /\ complete' = FALSE

\* complete_attachment
Completed == complete' = TRUE

\* attachment_chunk answers when the next chunk is there.
Available == Len(part) < Count /\ stored[Len(part) + 1] # "none"

\* grant_attachment_recipient
GrantRecipient(d) == told' = told \cup {d}

-----------------------------------------------------------------------------
(* The sender.                                                             *)

\* prepare hashes the file as it is now, whatever it was before.
Prepare == source = "original"

\* begin_attachment_upload_scoped: the recipients are those of now, and there
\* must be one.
RecordUpload ==
  /\ members # {} /\ recipients' = members
  /\ message' = "uploading"

\* send_attachment, up to the first attempt.
BeginUpload ==
  /\ message = "none" /\ Prepare /\ RecordUpload
  /\ UNCHANGED <<source, pc, have, members, captured, relayVars, readerVars,
                 ghostVars>>

Edit ==
  /\ edits < MaxEdits /\ edits' = edits + 1
  /\ source' = CASE message = "none"     -> source
                [] source = "original"   -> "changed"
                [] OTHER                 -> "original"
  /\ midway' = (midway \/ pc = "send")
  /\ UNCHANGED <<message, recipients, pc, have, members, captured, relayVars,
                 readerVars, latecomers, faults>>

\* Mutant: a resumed upload does not look at the source.
StartUnvalidated ==
  /\ message = "uploading" /\ pc = "idle"
  /\ have' = Uploaded
  /\ pc' = IF complete THEN "announce" ELSE "send"
  /\ UNCHANGED <<source, message, recipients, members, captured, relayVars,
                 readerVars, ghostVars>>

\* validate_source: the content is still the one that was hashed.
Unchanged == source = "original"

\* Each attempt hashes the source again, then asks the relay what it has.
StartAttempt ==
  /\ message = "uploading" /\ pc = "idle" /\ Unchanged
  /\ have' = Uploaded
  /\ pc' = IF complete THEN "announce" ELSE "send"
  /\ UNCHANGED <<source, message, recipients, members, captured, relayVars,
                 readerVars, ghostVars>>

\* The lowest missing chunk is read and sent; a lost answer ends the attempt.
UploadChunk ==
  /\ pc = "send"
  /\ \E i \in Index \ have :
       /\ \A j \in Index \ have : i <= j
       /\ PutChunk(i)
       /\ \/ have' = have \cup {i} /\ UNCHANGED <<pc, faults>>
          \/ Fault /\ pc' = "idle" /\ UNCHANGED have
  /\ UNCHANGED <<source, message, recipients, members, captured, complete,
                 told, readerVars, midway, latecomers, edits>>

CompleteUpload ==
  /\ pc = "send" /\ have = Index /\ Completed
  /\ \/ pc' = "announce" /\ UNCHANGED faults
     \/ Fault /\ pc' = "idle"
  /\ UNCHANGED <<source, message, recipients, have, members, captured, stored,
                 told, readerVars, midway, latecomers, edits>>

\* queue_uploaded_attachment: the upload becomes a queued message.
Announce ==
  /\ pc = "announce" /\ pc' = "idle" /\ message' = "queued"
  /\ UNCHANGED <<source, recipients, have, members, captured, relayVars,
                 readerVars, ghostVars>>

\* The attempt fails: a network error, a vault write, the end of the process.
AttemptFails ==
  /\ pc # "idle" /\ pc' = "idle" /\ Fault
  /\ UNCHANGED <<source, message, recipients, have, members, captured,
                 relayVars, readerVars, midway, latecomers, edits>>

\* /cancel-upload deletes what the relay has, then forgets the upload; the
\* second may fail.  A cancellation from the list of transfers is local.
CancelUpload ==
  /\ message = "uploading" /\ pc = "idle"
  /\ \/ DeleteAttachment /\ message' = "cancelled" /\ UNCHANGED faults
     \/ DeleteAttachment /\ Fault /\ UNCHANGED message
     \/ message' = "cancelled" /\ UNCHANGED <<stored, complete, faults>>
  /\ UNCHANGED <<source, recipients, pc, have, members, captured, told,
                 readerVars, midway, latecomers, edits>>

\* The relay hands the message to the recipients named in it.
Send ==
  /\ message = "queued" /\ pc = "idle" /\ message' = "sent"
  /\ told' = told \cup recipients
  /\ UNCHANGED <<source, recipients, pc, have, members, captured, stored,
                 complete, readerVars, ghostVars>>

PeerReceipt ==
  /\ message = "sent" /\ pc = "idle" /\ message' = "receipted"
  /\ UNCHANGED <<source, recipients, pc, have, members, captured, relayVars,
                 readerVars, ghostVars>>

\* Mutant: a queued announcement outlives the change of the group.
AddKeepsQueue(d) ==
  /\ pc = "idle" /\ d \in Others \ (Present \cup members) /\ Fault
  /\ members' = members \cup {d}
  /\ captured' = IF message = "sent" THEN captured \cup {d} ELSE captured
  /\ latecomers' = IF message = "uploading" THEN latecomers \cup {d}
                                            ELSE latecomers
  /\ UNCHANGED <<source, message, recipients, pc, have, relayVars, readerVars,
                 midway, edits>>

\* sync_device: a queued message is cancelled, a sent one is in the history
\* for the new device, one with a receipt is not (see module History).
Add(d) ==
  /\ pc = "idle" /\ d \in Others \ (Present \cup members) /\ Fault
  /\ members' = members \cup {d}
  /\ message' = IF message = "queued" THEN "cancelled" ELSE message
  /\ captured' = IF message = "sent" THEN captured \cup {d} ELSE captured
  /\ latecomers' = IF message \in {"uploading", "receipted"}
                     THEN latecomers \cup {d} ELSE latecomers
  /\ UNCHANGED <<source, recipients, pc, have, relayVars, readerVars, midway,
                 edits>>

\* history_attachment_ids: the file belongs to a message of d's history.
InHistoryOf(d) == d \in captured

\* grant_history_attachments, before the history is sent.
Grant(d) ==
  /\ pc = "idle" /\ InHistoryOf(d) /\ d \notin told /\ GrantRecipient(d)
  /\ UNCHANGED <<senderVars, stored, complete, readerVars, ghostVars>>

Leave(d) ==
  /\ pc = "idle" /\ d \in (members \cap Present) \ {Reader} /\ Fault
  /\ members' = members \ {d}
  /\ message' = IF message = "queued" THEN "cancelled" ELSE message
  /\ UNCHANGED <<source, recipients, pc, have, captured, relayVars, readerVars,
                 midway, latecomers, edits>>

-----------------------------------------------------------------------------
(* The reader.                                                             *)

Request ==
  /\ Reader \in told /\ step = "idle" /\ ~saved /\ ~requested
  /\ requested' = TRUE
  /\ UNCHANGED <<senderVars, relayVars, saved, part, torn, final, step,
                 ghostVars>>

\* Mutant: the rest of an unfinished write counts as a chunk.
ResumeTorn ==
  /\ part' = IF torn THEN Append(part, "torn") ELSE part
  /\ torn' = FALSE

\* resume_at cuts the partial file to whole chunks.
Resume == torn' = FALSE /\ UNCHANGED part

\* pending_attachment_downloads
Wanted == requested /\ ~saved

\* A published file is taken as it is; one that fails its check ends the
\* attempt for good.
StartDownload ==
  /\ Wanted /\ step = "idle"
  /\ \/ final = "good" /\ step' = "record" /\ UNCHANGED <<part, torn>>
     \/ final = "none" /\ step' = "fetch" /\ Resume
  /\ UNCHANGED <<senderVars, relayVars, requested, saved, final, ghostVars>>

FetchChunk ==
  /\ step = "fetch" /\ Available
  /\ part' = Append(part, stored[Len(part) + 1])
  /\ UNCHANGED <<senderVars, relayVars, requested, saved, torn, final, step,
                 ghostVars>>

Verified == \A i \in 1 .. Len(part) : part[i] = "original"

\* finish: the whole file is compared with the hash, then renamed.
Finish ==
  /\ step = "fetch" /\ Len(part) >= Count
  /\ IF Verified THEN final' = "good" /\ part' = <<>> /\ step' = "record"
                 ELSE step' = "idle" /\ UNCHANGED <<final, part>>
  /\ UNCHANGED <<senderVars, relayVars, requested, saved, torn, ghostVars>>

\* complete_attachment_download looks at the file once more.
Record ==
  /\ step = "record" /\ step' = "idle"
  /\ IF final = "good" THEN saved' = TRUE /\ requested' = FALSE
                       ELSE UNCHANGED <<saved, requested>>
  /\ UNCHANGED <<senderVars, relayVars, part, torn, final, ghostVars>>

\* A failed call or write; an interrupted write leaves a rest behind.
DownloadFails ==
  /\ step # "idle" /\ step' = "idle" /\ Fault
  /\ torn' \in (IF step = "fetch" /\ Len(part) < Count THEN BOOLEAN
                                                       ELSE {torn})
  /\ UNCHANGED <<senderVars, relayVars, requested, saved, part, final, midway,
                 latecomers, edits>>

\* The vault forgets the request, then the partial file is removed, or not.
CancelDownload ==
  /\ requested /\ step = "idle" /\ requested' = FALSE
  /\ \/ part' = <<>> /\ torn' = FALSE /\ UNCHANGED faults
     \/ Fault /\ UNCHANGED <<part, torn>>
  /\ UNCHANGED <<senderVars, relayVars, saved, final, step, midway, latecomers,
                 edits>>

\* The user removes or changes the published file.
Disturb ==
  /\ final = "good" /\ Fault /\ final' \in {"none", "altered"}
  /\ UNCHANGED <<senderVars, relayVars, requested, saved, part, torn, step,
                 midway, latecomers, edits>>

\* reconcile_download_cache, at the next start: a file that is gone can be
\* asked for again.
Reconcile ==
  /\ saved /\ final = "none" /\ step = "idle"
  /\ saved' = FALSE
  /\ UNCHANGED <<senderVars, relayVars, requested, part, torn, final, step,
                 ghostVars>>

-----------------------------------------------------------------------------
Sender == StartAttempt \/ UploadChunk \/ CompleteUpload \/ Announce \/ Send
Download == StartDownload \/ FetchChunk \/ Finish \/ Record
ReaderSide == Request \/ Download \/ DownloadFails \/ CancelDownload \/ Disturb
                \/ Reconcile
SenderRest == Sender \/ AttemptFails \/ CancelUpload \/ PeerReceipt
                \/ \E d \in Others : Add(d) \/ Grant(d) \/ Leave(d)

Next == BeginUpload \/ Edit \/ SenderRest \/ ReaderSide

\* Both ends try again with every synchronization.
Spec == Init /\ [][Next]_vars /\ WF_vars(Sender) /\ WF_vars(Download)
          /\ \A d \in Others : WF_vars(Grant(d))

-----------------------------------------------------------------------------
\* However often an upload was broken off and resumed, an announced file is
\* there in full, and with the content that was announced unless the source
\* changed while chunks were being read in one attempt.
AnnouncedIsWhole ==
  message \in {"queued", "sent", "receipted"} =>
    /\ complete
    /\ \A i \in Index : stored[i] # "none"
    /\ midway \/ \A i \in Index : stored[i] = "original"

\* A device of the chat misses an announced file only when it came while the
\* file was uploaded, or after a receipt for it: it is not among the recipients
\* fixed at the beginning, and no history holds the message.
MissedWithCause ==
  Announced => members \subseteq told \cup captured \cup latecomers

\* A requested file is had in the end, through failed attempts, torn writes
\* and restarts, unless what was uploaded is a mixture, the published file was
\* altered or the request is withdrawn.
DownloadSettles ==
  requested ~> (saved \/ ~requested \/ midway \/ final = "altered")
=============================================================================
