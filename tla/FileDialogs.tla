---------------------------- MODULE FileDialogs ----------------------------
(***************************************************************************)
(* The two dialogs of the terminal around one file.  The picker shows what *)
(* will be sent (ChosenFile::inspect), asks for a confirmation and checks  *)
(* the file again before the transfer begins; it stays open when nothing   *)
(* was queued, so that the user can try again, and closes when the file    *)
(* will go out by itself.  The details of a received file are a copy of    *)
(* the message, from which the download is asked for.                      *)
(*                                                                         *)
(* A transfer begun from a dialog owns the client until it ends: nothing   *)
(* else happens on that side meanwhile, but the file may be edited and the *)
(* terminal may be closed.  Folders and the keys that only move a mark are *)
(* left out; one file is followed, sent once.                              *)
(***************************************************************************)
EXTENDS Chunks

VARIABLES
  dialog,   \* the picker
  seen,     \* version of the file that was inspected for the review
  begun,    \* ghost: version of the file that was hashed
  crossed,  \* ghost: edited between the last check and the hash
  refused,  \* ghost: the session ended just after the file was sent
  details   \* the details of the received file, as copied

dialogVars == <<dialog, seen, begun, crossed, refused, details>>
allVars    == <<vars, dialogVars>>

None == MaxEdits + 1

DialogTypeOK ==
  /\ TypeOK
  /\ dialog \in {"closed", "browse", "review", "chosen", "checked", "sending"}
  /\ seen \in 0 .. None /\ begun \in 0 .. None
  /\ crossed \in BOOLEAN /\ refused \in BOOLEAN
  /\ details \in {"closed", "offer", "fetching", "saved"}

DialogInit ==
  /\ Init /\ dialog = "closed" /\ seen = None /\ begun = None
  /\ crossed = FALSE /\ refused = FALSE /\ details = "closed"

-----------------------------------------------------------------------------
(* The picker.                                                             *)

OpenPicker ==
  /\ dialog = "closed" /\ message = "none" /\ dialog' = "browse"
  /\ UNCHANGED <<vars, seen, begun, crossed, refused, details>>

\* ChosenFile::inspect, of the entry or the path the user names.
Inspect == seen' = edits

Review ==
  /\ dialog = "browse" /\ message = "none" /\ dialog' = "review" /\ Inspect
  /\ UNCHANGED <<vars, begun, crossed, refused, details>>

\* Esc, Back and Cancel.
GoBack ==
  /\ \/ dialog = "review" /\ dialog' \in {"browse", "closed"}
     \/ dialog = "browse" /\ dialog' = "closed"
  /\ UNCHANGED <<vars, seen, begun, crossed, refused, details>>

\* validate_unchanged: the same path, size and time of modification.
AsReviewed == seen = edits

\* Enter upon Send: the file and its destination are set aside.
Confirm ==
  /\ dialog = "review" /\ message = "none" /\ AsReviewed
  /\ dialog' = "chosen"
  /\ UNCHANGED <<vars, seen, begun, crossed, refused, details>>

\* Mutant: the file is not looked at again when its turn comes.
TakeChosenUnchecked ==
  /\ dialog = "chosen" /\ dialog' = "checked"
  /\ UNCHANGED <<vars, seen, begun, crossed, refused, details>>

\* send_attachment_from_dialog, at the next turn of the loop.
TakeChosen ==
  /\ dialog = "chosen"
  /\ dialog' = IF AsReviewed THEN "checked" ELSE "review"
  /\ UNCHANGED <<vars, seen, begun, crossed, refused, details>>

Begin ==
  /\ dialog = "checked" /\ dialog' = "sending"
  /\ BeginUpload /\ begun' = edits
  /\ UNCHANGED <<seen, crossed, refused, details>>

\* Mutant: only a queued announcement counts, not an unfinished upload.
SendPendingQueuedOnly == message' = "queued"

\* attachment_send_pending: the file goes out without being asked for again.
SendPending == message' \in {"uploading", "queued"}

\* The transfer has failed: the picker stays open only for another attempt.
AfterFailure == IF SendPending THEN "closed" ELSE "review"

\* Nothing was begun: offline, a changed safety code, a failing write.
NotBegun ==
  /\ dialog = "checked" /\ Fault
  /\ UNCHANGED <<senderVars, relayVars, readerVars, midway, latecomers, edits>>
  /\ dialog' = AfterFailure
  /\ UNCHANGED <<seen, begun, crossed, refused, details>>

\* A step of the transfer the dialog waits for; an attempt that is broken off
\* ends it.
Uploads ==
  /\ dialog = "sending"
  /\ StartAttempt \/ UploadChunk \/ CompleteUpload \/ Announce \/ AttemptFails
  /\ dialog' = IF pc' = "idle" /\ message' = "uploading" THEN AfterFailure
                                                        ELSE dialog
  /\ UNCHANGED <<seen, begun, crossed, refused, details>>

\* The source is not what was hashed, or the relay does not answer at all.
CannotStart ==
  /\ dialog = "sending" /\ message = "uploading" /\ pc = "idle"
  /\ \/ ~Unchanged /\ UNCHANGED faults
     \/ Fault
  /\ UNCHANGED <<senderVars, relayVars, readerVars, midway, latecomers, edits>>
  /\ dialog' = AfterFailure
  /\ UNCHANGED <<seen, begun, crossed, refused, details>>

\* flush_outbox sends the announcement.  When the relay ends the session while
\* later envelopes are sent, the command fails although the file has gone out.
AnnouncementSent ==
  /\ dialog = "sending" /\ Send
  /\ \/ dialog' = "closed" /\ UNCHANGED refused
     \/ dialog' = AfterFailure /\ refused' = TRUE
  /\ UNCHANGED <<seen, begun, crossed, details>>

\* Offline, or the session has ended before the announcement was sent.
NotAnnounced ==
  /\ dialog = "sending" /\ message = "queued" /\ Fault
  /\ UNCHANGED <<senderVars, relayVars, readerVars, midway, latecomers, edits>>
  /\ dialog' = AfterFailure
  /\ UNCHANGED <<seen, begun, crossed, refused, details>>

\* Ctrl+C, or the end of the process.
Quit ==
  /\ dialog # "closed" /\ dialog' = "closed" /\ Fault
  /\ pc' = "idle"
  /\ UNCHANGED <<source, message, recipients, have, members, captured,
                 relayVars, readerVars, midway, latecomers, edits>>
  /\ UNCHANGED <<seen, begun, crossed, refused, details>>

\* The file is edited at any time.
Edited ==
  /\ Edit /\ crossed' = (crossed \/ dialog = "checked")
  /\ UNCHANGED <<dialog, seen, begun, refused, details>>

\* The timer and commands, while no transfer owns the client.
Background ==
  /\ dialog \notin {"checked", "sending"} /\ SenderRest
  /\ UNCHANGED dialogVars

-----------------------------------------------------------------------------
(* The details of a received file.                                         *)

OpenDetails ==
  /\ details = "closed" /\ Reader \in told /\ step = "idle"
  /\ details' = IF saved THEN "saved" ELSE "offer"
  /\ UNCHANGED <<vars, dialog, seen, begun, crossed, refused>>

CloseDetails ==
  /\ details \in {"offer", "saved"} /\ details' = "closed"
  /\ UNCHANGED <<vars, dialog, seen, begun, crossed, refused>>

\* Enter: the vault is asked, not the copy; a file that has come meanwhile is
\* not fetched again.
AskForDownload ==
  /\ details = "offer" /\ step = "idle"
  /\ IF saved THEN details' = "saved" /\ UNCHANGED vars
     ELSE /\ details' = "fetching"
          /\ Request \/ (requested /\ UNCHANGED vars)
  /\ UNCHANGED <<dialog, seen, begun, crossed, refused>>

\* The download ends, well or not, and the copy is taken again; a file that
\* cannot even be looked at stays with its request.
Downloading ==
  /\ details = "fetching" /\ (Download \/ DownloadFails)
  /\ details' = CASE step' # "idle" -> details
                  [] saved'         -> "saved"
                  [] OTHER          -> "offer"
  /\ UNCHANGED <<dialog, seen, begun, crossed, refused>>

\* The published file fails its check, or a chunk is not there.
DownloadRefused ==
  /\ details = "fetching"
  /\ \/ step = "idle" /\ final = "altered"
     \/ step = "fetch" /\ Len(part) < Count /\ ~Available
  /\ step' = "idle" /\ details' = "offer"
  /\ UNCHANGED <<senderVars, relayVars, requested, saved, part, torn, final,
                 ghostVars>>
  /\ UNCHANGED <<dialog, seen, begun, crossed, refused>>

ReaderBackground ==
  /\ details # "fetching" /\ ReaderSide
  /\ UNCHANGED dialogVars

-----------------------------------------------------------------------------
DialogNext ==
  \/ OpenPicker \/ Review \/ GoBack \/ Confirm \/ TakeChosen \/ Begin
  \/ NotBegun \/ Uploads \/ CannotStart \/ AnnouncementSent \/ NotAnnounced
  \/ Quit \/ Edited \/ Background
  \/ OpenDetails \/ CloseDetails \/ AskForDownload \/ Downloading
  \/ DownloadRefused \/ ReaderBackground

\* Both ends try again with every synchronization, and a command ends.
DialogSpec ==
  /\ DialogInit /\ [][DialogNext]_allVars
  /\ WF_allVars(TakeChosen \/ Begin \/ Uploads \/ CannotStart \/ AnnouncementSent)
  /\ WF_allVars(Background /\ Sender)
  /\ \A d \in Others : WF_allVars(Background /\ Grant(d))
  /\ WF_allVars(Downloading \/ DownloadRefused)
  /\ WF_allVars(ReaderBackground /\ Download)

-----------------------------------------------------------------------------
\* What is sent is what the user has reviewed, unless it was edited in the
\* moment between the last check and the hash; and the picker offers another
\* attempt only when the file will not go out by itself, unless the session
\* ended just after it had been sent.
PickerKeepsItsWord ==
  /\ begun # None => begun = seen \/ crossed
  /\ dialog = "review" => message \in {"none", "cancelled"} \/ refused
=============================================================================
