-------------------------- MODULE AttachmentProofs --------------------------
(***************************************************************************)
(* Proofs about attachments: first about Chunks and FileDialogs together,  *)
(* for files of any number of chunks, any devices and any number of edits, *)
(* failures and changes of the chat, then about AttachmentTransfer.        *)
(*                                                                         *)
(* The argument for AnnouncedIsWhole: what the relay has, in one attempt   *)
(* or from earlier ones, was read while the source was unchanged (ReadWhole), *)
(* the attempt knows no chunk the relay does not have, and nothing is      *)
(* deleted once an announcement is queued (Kept).  For MissedWithCause:    *)
(* every member was there at the beginning or came too late (Reached).     *)
(* For PickerKeepsItsWord: a message leaves the state in which the picker  *)
(* may begin one only by Begin (Reviewed).                                 *)
(***************************************************************************)
EXTENDS FileDialogs, AttachmentTransfer, TLAPS

\* Outside a change in the middle of an attempt, chunks are of the original.
ReadWhole ==
  ~midway => /\ \A i \in Index : stored[i] \in {"none", "original"}
             /\ pc = "send" => source = "original"

\* The chunks an attempt counts are at the relay, and so is a complete file.
Kept ==
  /\ pc = "send" => have \subseteq Uploaded
  /\ complete => Uploaded = Index
  /\ pc = "announce" \/ message \in {"queued", "sent", "receipted"} => complete

Reached ==
  /\ message \in {"uploading", "queued"} => members \subseteq recipients \cup latecomers
  /\ MissedWithCause

Reviewed ==
  /\ begun # None => message # "none" /\ (begun = seen \/ crossed)
  /\ dialog \in {"chosen", "checked"} => message = "none"
  /\ dialog = "checked" => seen = edits \/ crossed
  /\ dialog = "review" => message \in {"none", "cancelled"} \/ refused

Inv ==
  /\ DialogTypeOK /\ edits <= MaxEdits
  /\ ReadWhole /\ Kept /\ Reached /\ Reviewed

-----------------------------------------------------------------------------
(* Which steps touch the file on its way out.                              *)

\* A step of the sender that succeeds, or loses an answer, in any dialog.
OnItsWay ==
  \/ StartAttempt \/ UploadChunk \/ CompleteUpload \/ Announce \/ Send
  \/ CancelUpload \/ PeerReceipt
  \/ \E d \in Others : Add(d) \/ Grant(d) \/ Leave(d)

\* Nothing is sent; an attempt may end.
Still ==
  /\ UNCHANGED <<source, message, recipients, have, members, captured, relayVars,
                 midway, latecomers, edits>>
  /\ pc' \in {pc, "idle"}

\* A step of the dialogs is one of the transfer, the beginning, an edit, or none.
LEMMA FileStep ==
  ASSUME [DialogNext]_allVars
  PROVE  BeginUpload \/ Edit \/ OnItsWay \/ Still
<1> USE DEF OnItsWay, Still, vars, allVars, dialogVars, senderVars, readerVars, ghostVars
<1>1. ReaderSide => Still
  BY DEF ReaderSide, Request, Download, StartDownload, FetchChunk, Finish, Record,
     DownloadFails, CancelDownload, Disturb, Reconcile
<1>2. AttemptFails => Still
  BY DEF AttemptFails
<1>3. UNCHANGED vars => Still
  OBVIOUS
<1>4. CASE Background \/ ReaderBackground
  BY <1>1, <1>2, <1>4 DEF Background, ReaderBackground, SenderRest, Sender
<1>5. CASE Uploads \/ AnnouncementSent
  BY <1>2, <1>5 DEF Uploads, AnnouncementSent
<1>6. CASE NotBegun \/ CannotStart \/ NotAnnounced \/ Quit \/ DownloadRefused
  BY <1>6 DEF NotBegun, CannotStart, NotAnnounced, Quit, DownloadRefused
<1>7. CASE AskForDownload \/ Downloading
  BY <1>1, <1>3, <1>7 DEF AskForDownload, Downloading, ReaderSide
<1>8. CASE Begin \/ Edited
  BY <1>8 DEF Begin, Edited
<1>9. CASE \/ OpenPicker \/ Review \/ GoBack \/ Confirm \/ TakeChosen
           \/ OpenDetails \/ CloseDetails \/ UNCHANGED allVars
  BY <1>3, <1>9 DEF OpenPicker, Review, GoBack, Confirm, TakeChosen, OpenDetails,
     CloseDetails
<1> QED
  BY <1>4, <1>5, <1>6, <1>7, <1>8, <1>9 DEF DialogNext

-----------------------------------------------------------------------------
(* Types, in parts.                                                        *)

SenderTyped ==
  /\ source \in Content
  /\ message \in {"none", "uploading", "queued", "sent", "receipted", "cancelled"}
  /\ recipients \subseteq Others /\ members \subseteq Others /\ captured \subseteq Others
  /\ pc \in {"idle", "send", "announce"} /\ have \subseteq Index
  /\ pc # "idle" => message = "uploading"

RelayTyped ==
  /\ stored \in [Index -> Content \cup {"none"}] /\ complete \in BOOLEAN
  /\ told \subseteq Others

ReaderTyped ==
  /\ requested \in BOOLEAN /\ saved \in BOOLEAN /\ torn \in BOOLEAN
  /\ part \in Seq(Content \cup {"torn"})
  /\ final \in {"none", "good", "altered"} /\ step \in {"idle", "fetch", "record"}

GhostsTyped ==
  /\ midway \in BOOLEAN /\ latecomers \subseteq Others
  /\ edits \in Nat /\ edits <= MaxEdits /\ faults \in Nat

DialogsTyped ==
  /\ dialog \in {"closed", "browse", "review", "chosen", "checked", "sending"}
  /\ seen \in 0 .. None /\ begun \in 0 .. None
  /\ crossed \in BOOLEAN /\ refused \in BOOLEAN
  /\ details \in {"closed", "offer", "fetching", "saved"}

LEMMA TypeParts ==
  /\ DialogTypeOK /\ edits <= MaxEdits <=>
       SenderTyped /\ RelayTyped /\ ReaderTyped /\ GhostsTyped /\ DialogsTyped
  /\ (DialogTypeOK /\ edits <= MaxEdits)' <=>
       (SenderTyped /\ RelayTyped /\ ReaderTyped /\ GhostsTyped /\ DialogsTyped)'
BY DEF DialogTypeOK, TypeOK, SenderTyped, RelayTyped, ReaderTyped, GhostsTyped,
   DialogsTyped

\* Every step of the file on its way keeps the sender's and the relay's types.
LEMMA FileTyped ==
  ASSUME SenderTyped, RelayTyped, [DialogNext]_allVars
  PROVE  SenderTyped' /\ RelayTyped'
<1> USE DEF SenderTyped, RelayTyped, senderVars, relayVars
<1>1. CASE BeginUpload
  BY <1>1 DEF BeginUpload, RecordUpload
<1>2. CASE Edit
  BY <1>2 DEF Edit, Content
<1>3. CASE StartAttempt
  BY <1>3 DEF StartAttempt, Uploaded
<1>4. CASE UploadChunk
  <2>1. PICK i \in Index : /\ PutChunk(i) /\ have' \in {have, have \cup {i}}
                           /\ pc' \in {pc, "idle"}
    BY <1>4 DEF UploadChunk
  <2>2. stored' \in [Index -> Content \cup {"none"}]
    BY <2>1 DEF PutChunk
  <2> QED
    BY <1>4, <2>1, <2>2 DEF UploadChunk
<1>5. CASE CompleteUpload \/ Announce
  BY <1>5 DEF CompleteUpload, Completed, Announce
<1>6. CASE CancelUpload
  BY <1>6 DEF CancelUpload, DeleteAttachment
<1>7. CASE Send \/ PeerReceipt
  BY <1>7 DEF Send, PeerReceipt
<1>8. ASSUME NEW d \in Others, Add(d) \/ Grant(d) \/ Leave(d)
      PROVE  SenderTyped' /\ RelayTyped'
  BY <1>8 DEF Add, Grant, GrantRecipient, Leave
<1>9. CASE Still
  BY <1>9 DEF Still
<1> QED
  BY <1>1, <1>2, <1>3, <1>4, <1>5, <1>6, <1>7, <1>8, <1>9, FileStep DEF OnItsWay

\* The reader's files keep their types: a chunk is appended only when it is there.
LEMMA FilesTyped ==
  ASSUME ReaderTyped, RelayTyped, [DialogNext]_allVars
  PROVE  ReaderTyped'
<1> USE DEF ReaderTyped, readerVars
<1>0. /\ UNCHANGED readerVars \/ DownloadRefused
      \/ Request \/ Download \/ DownloadFails \/ CancelDownload \/ Disturb \/ Reconcile
  BY ZenonT(30)
     DEF DialogNext, OpenPicker, Review, GoBack, Confirm, TakeChosen, Begin,
         BeginUpload, NotBegun, Uploads, StartAttempt, UploadChunk, CompleteUpload,
         Announce, AttemptFails, CannotStart, AnnouncementSent, Send, NotAnnounced,
         Quit, Edited, Edit, Background, SenderRest, Sender, CancelUpload,
         PeerReceipt, Add, Grant, Leave, OpenDetails, CloseDetails, AskForDownload,
         Downloading, ReaderBackground, ReaderSide, vars, allVars
<1>1. CASE UNCHANGED readerVars
  BY <1>1
<1>2. CASE DownloadRefused
  BY <1>2 DEF DownloadRefused
<1>3. CASE Request \/ CancelDownload \/ Disturb \/ Reconcile
  <2>1. <<>> \in Seq(Content \cup {"torn"})
    OBVIOUS
  <2> QED
    BY <1>3, <2>1 DEF Request, CancelDownload, Disturb, Reconcile
<1>4. CASE DownloadFails
  BY <1>4 DEF DownloadFails
<1>5. CASE Download
  <2>1. CASE StartDownload
    BY <2>1 DEF StartDownload, Resume
  <2>2. CASE FetchChunk
    <3>1. Len(part) + 1 \in Index
      <4>1. Len(part) \in Nat /\ Len(part) < Count
        BY <2>2 DEF FetchChunk, Available
      <4> QED
        BY <4>1, ChunksAssumption DEF Index
    <3>2. stored[Len(part) + 1] \in Content
      BY <2>2, <3>1 DEF FetchChunk, Available, RelayTyped
    <3> QED
      BY <2>2, <3>2 DEF FetchChunk
  <2>3. CASE Finish
    <3>1. <<>> \in Seq(Content \cup {"torn"})
      OBVIOUS
    <3> QED
      BY <2>3, <3>1 DEF Finish
  <2>4. CASE Record
    BY <2>4 DEF Record
  <2> QED
    BY <1>5, <2>1, <2>2, <2>3, <2>4 DEF Download
<1> QED
  BY <1>0, <1>1, <1>2, <1>3, <1>4, <1>5

\* So do the history, the bounds and the dialogs.
LEMMA RestTyped ==
  ASSUME Inv, [DialogNext]_allVars
  PROVE  GhostsTyped' /\ DialogsTyped'
<1>0. SenderTyped /\ RelayTyped /\ ReaderTyped /\ GhostsTyped /\ DialogsTyped
  BY TypeParts DEF Inv
<1>1. /\ midway' \in BOOLEAN /\ latecomers' \subseteq Others
      /\ edits' \in Nat /\ edits' <= MaxEdits
  <2> USE <1>0, ChunksAssumption DEF GhostsTyped, ghostVars
  <2>1. CASE BeginUpload
    BY <2>1 DEF BeginUpload
  <2>2. CASE Edit
    <3>1. midway' \in BOOLEAN
      BY <2>2 DEF Edit
    <3> QED
      BY <2>2, <3>1 DEF Edit
  <2>3. CASE OnItsWay
    <3>1. UNCHANGED <<midway, edits>>
      BY <2>3 DEF OnItsWay, StartAttempt, UploadChunk, CompleteUpload, Announce,
         Send, CancelUpload, PeerReceipt, Add, Grant, Leave
    <3>2. latecomers' \subseteq Others
      BY <2>3 DEF OnItsWay, StartAttempt, UploadChunk, CompleteUpload, Announce,
         Send, CancelUpload, PeerReceipt, Add, Grant, Leave
    <3> QED
      BY <3>1, <3>2
  <2>4. CASE Still
    BY <2>4 DEF Still
  <2> QED
    BY <2>1, <2>2, <2>3, <2>4, FileStep
<1>2. faults' \in Nat
  <2>1. Fault \/ UNCHANGED faults
    BY ZenonT(60)
       DEF DialogNext, OpenPicker, Review, GoBack, Confirm, TakeChosen, Begin,
           BeginUpload, NotBegun, Uploads, StartAttempt, UploadChunk, CompleteUpload,
           Announce, AttemptFails, CannotStart, AnnouncementSent, Send, NotAnnounced,
           Quit, Edited, Edit, Background, SenderRest, Sender, CancelUpload,
           PeerReceipt, Add, Grant, Leave, OpenDetails, CloseDetails, AskForDownload,
           Downloading, DownloadRefused, ReaderBackground, ReaderSide, Request,
           Download, StartDownload, FetchChunk, Finish, Record, DownloadFails,
           CancelDownload, Disturb, Reconcile, ghostVars, vars, allVars
  <2> QED
    BY <1>0, <2>1 DEF Fault, GhostsTyped
<1>3. DialogsTyped'
  <2>0. None \in Nat /\ edits \in 0 .. None
    BY <1>0, ChunksAssumption DEF None, GhostsTyped
  <2> USE <1>0, <2>0 DEF DialogsTyped
  <2>1. CASE OpenPicker \/ Review \/ GoBack \/ Confirm \/ TakeChosen \/ Quit
    BY <2>1 DEF OpenPicker, Review, Inspect, GoBack, Confirm, TakeChosen, Quit
  <2>2. CASE Begin \/ NotBegun \/ Uploads \/ CannotStart \/ NotAnnounced
    BY <2>2 DEF Begin, NotBegun, Uploads, CannotStart, NotAnnounced, AfterFailure
  <2>3. CASE AnnouncementSent
    BY <2>3 DEF AnnouncementSent, AfterFailure
  <2>4. CASE Edited
    <3>1. crossed' \in BOOLEAN
      BY <2>4 DEF Edited
    <3> QED
      BY <2>4, <3>1 DEF Edited
  <2>5. CASE OpenDetails \/ CloseDetails \/ AskForDownload \/ Downloading \/ DownloadRefused
    BY <2>5 DEF OpenDetails, CloseDetails, AskForDownload, Downloading, DownloadRefused
  <2>6. CASE UNCHANGED dialogVars
    BY <2>6 DEF dialogVars
  <2> QED
    BY <2>1, <2>2, <2>3, <2>4, <2>5, <2>6
       DEF DialogNext, Background, ReaderBackground, allVars
<1> QED
  BY <1>1, <1>2, <1>3 DEF GhostsTyped

-----------------------------------------------------------------------------
(* The file on its way.                                                    *)

\* Chunks are read while the source is the one that was hashed.
LEMMA ReadWholeNext ==
  ASSUME Inv, [DialogNext]_allVars
  PROVE  ReadWhole'
<1>0. SenderTyped /\ RelayTyped /\ ReadWhole /\ midway \in BOOLEAN
  BY TypeParts DEF Inv, GhostsTyped
<1> USE <1>0 DEF ReadWhole, SenderTyped, RelayTyped, senderVars, relayVars, ghostVars
<1>1. CASE BeginUpload
  BY <1>1 DEF BeginUpload
<1>2. CASE Edit
  BY <1>2 DEF Edit
<1>3. CASE StartAttempt
  BY <1>3 DEF StartAttempt, Unchanged
<1>4. CASE UploadChunk
  <2>1. PICK i \in Index : PutChunk(i) /\ pc' \in {pc, "idle"}
    BY <1>4 DEF UploadChunk
  <2>2. /\ UNCHANGED <<midway, source>> /\ pc = "send"
        /\ \A j \in Index : stored'[j] = IF j = i THEN source ELSE stored[j]
    BY <1>4, <2>1 DEF UploadChunk, PutChunk
  <2> QED
    BY <2>1, <2>2
<1>5. CASE CancelUpload
  BY <1>5 DEF CancelUpload, DeleteAttachment
<1>6. CASE CompleteUpload \/ Announce \/ Send \/ PeerReceipt
  BY <1>6 DEF CompleteUpload, Announce, Send, PeerReceipt
<1>7. CASE \E d \in Others : Add(d) \/ Grant(d) \/ Leave(d)
  BY <1>7 DEF Add, Grant, Leave
<1>8. CASE Still
  BY <1>8 DEF Still
<1> QED
  BY <1>1, <1>2, <1>3, <1>4, <1>5, <1>6, <1>7, <1>8, FileStep DEF OnItsWay

\* What an attempt counts is at the relay, and stays there once it is announced.
LEMMA KeptNext ==
  ASSUME Inv, [DialogNext]_allVars
  PROVE  Kept'
<1>0. SenderTyped /\ RelayTyped /\ Kept
  BY TypeParts DEF Inv
<1> USE <1>0 DEF Kept, SenderTyped, RelayTyped, Uploaded, senderVars, relayVars
<1>1. CASE BeginUpload
  BY <1>1 DEF BeginUpload, RecordUpload
<1>2. CASE Edit
  BY <1>2 DEF Edit
<1>3. CASE StartAttempt
  BY <1>3 DEF StartAttempt
<1>4. CASE UploadChunk
  <2>1. PICK i \in Index :
          PutChunk(i) /\ have' \in {have, have \cup {i}} /\ pc' \in {pc, "idle"}
    BY <1>4 DEF UploadChunk
  <2>2. /\ UNCHANGED <<complete, message, source>> /\ pc = "send"
        /\ \A j \in Index : stored'[j] = IF j = i THEN source ELSE stored[j]
    BY <1>4, <2>1 DEF UploadChunk, PutChunk
  <2>3. Uploaded' = Uploaded \cup {i}
    BY <2>2 DEF Content
  <2> QED
    BY <2>1, <2>2, <2>3
<1>5. CASE CompleteUpload
  BY <1>5 DEF CompleteUpload, Completed
<1>6. CASE Announce \/ Send \/ PeerReceipt
  BY <1>6 DEF Announce, Send, PeerReceipt
<1>7. CASE CancelUpload
  BY <1>7 DEF CancelUpload, DeleteAttachment
<1>8. CASE \E d \in Others : Add(d) \/ Grant(d) \/ Leave(d)
  BY <1>8 DEF Add, Grant, Leave
<1>9. CASE Still
  BY <1>9 DEF Still
<1> QED
  BY <1>1, <1>2, <1>3, <1>4, <1>5, <1>6, <1>7, <1>8, <1>9, FileStep DEF OnItsWay

\* Who comes is told, gets the history, or came too late.
LEMMA ReachedNext ==
  ASSUME Inv, [DialogNext]_allVars
  PROVE  Reached'
<1>0. SenderTyped /\ Reached
  BY TypeParts DEF Inv
<1> USE <1>0 DEF Reached, MissedWithCause, Announced, SenderTyped, senderVars, relayVars, ghostVars
<1>1. CASE BeginUpload
  BY <1>1 DEF BeginUpload, RecordUpload
<1>2. CASE Edit
  BY <1>2 DEF Edit
<1>3. CASE StartAttempt \/ UploadChunk \/ CompleteUpload
  BY <1>3 DEF StartAttempt, UploadChunk, CompleteUpload
<1>4. CASE Announce \/ Send \/ PeerReceipt
  BY <1>4 DEF Announce, Send, PeerReceipt
<1>5. CASE CancelUpload
  BY <1>5 DEF CancelUpload
<1>6. ASSUME NEW d \in Others, Add(d) \/ Grant(d) \/ Leave(d)
      PROVE  Reached'
  <2>1. CASE Add(d)
    BY <2>1 DEF Add
  <2>2. CASE Grant(d) \/ Leave(d)
    BY <2>2 DEF Grant, GrantRecipient, Leave
  <2> QED
    BY <1>6, <2>1, <2>2
<1>7. CASE Still
  BY <1>7 DEF Still
<1> QED
  BY <1>1, <1>2, <1>3, <1>4, <1>5, <1>6, <1>7, FileStep DEF OnItsWay

-----------------------------------------------------------------------------
(* The picker.                                                             *)

\* Only Begin takes a message out of the state the picker found it in.
LEMMA SettledMessage ==
  ASSUME TypeOK, SenderRest
  PROVE  /\ message = "none" => message' = "none"
         /\ message # "none" => message' # "none"
         /\ message = "cancelled" => message' = "cancelled"
BY DEF TypeOK, SenderRest, Sender, StartAttempt, UploadChunk, CompleteUpload, Announce,
   Send, AttemptFails, CancelUpload, PeerReceipt, Add, Grant, Leave, senderVars

\* The reader's side leaves what is sent, and when it was edited, alone.
LEMMA ReaderApart ==
  ASSUME ReaderSide
  PROVE  UNCHANGED <<message, edits>>
BY DEF ReaderSide, Request, Download, StartDownload, FetchChunk, Finish, Record,
   DownloadFails, CancelDownload, Disturb, Reconcile, senderVars, ghostVars

\* The file that is begun is the one that was reviewed.
LEMMA ReviewedNext ==
  ASSUME Inv, [DialogNext]_allVars
  PROVE  Reviewed'
<1>0. Reviewed /\ TypeOK /\ None \in Nat /\ (pc # "idle" => message = "uploading")
  BY ChunksAssumption DEF Inv, DialogTypeOK, TypeOK, None
<1> USE <1>0 DEF Reviewed, None, vars, dialogVars, allVars, senderVars, ghostVars
<1>1. CASE OpenPicker \/ GoBack
  BY <1>1 DEF OpenPicker, GoBack
<1>2. CASE Review
  BY <1>2 DEF Review, Inspect
<1>3. CASE Confirm \/ TakeChosen
  BY <1>3 DEF Confirm, TakeChosen, AsReviewed
<1>4. CASE Begin
  BY <1>4 DEF Begin, BeginUpload, RecordUpload
<1>5. CASE NotBegun
  BY <1>5 DEF NotBegun, AfterFailure
<1>6. CASE Uploads
  <2>1. /\ message = "uploading" /\ message' \in {"uploading", "queued"}
        /\ UNCHANGED edits
    BY <1>6 DEF Uploads, StartAttempt, UploadChunk, CompleteUpload, Announce, AttemptFails
  <2>2. dialog' \in {"closed", "sending"}
    BY <1>6, <2>1 DEF Uploads, AfterFailure, SendPending
  <2> QED
    BY <1>6, <2>1, <2>2 DEF Uploads
<1>7. CASE CannotStart \/ NotAnnounced
  BY <1>7 DEF CannotStart, NotAnnounced, AfterFailure, SendPending
<1>8. CASE AnnouncementSent
  BY <1>8 DEF AnnouncementSent, Send, AfterFailure, SendPending
<1>9. CASE Quit
  BY <1>9 DEF Quit
<1>10. CASE Edited
  BY <1>10 DEF Edited, Edit
<1>11. CASE Background
  <2>1. UNCHANGED edits
    BY <1>11 DEF Background, SenderRest, Sender, StartAttempt, UploadChunk, CompleteUpload,
       Announce, Send, AttemptFails, CancelUpload, PeerReceipt, Add, Grant, Leave
  <2> QED
    BY <1>11, <2>1, SettledMessage DEF Background
<1>12. CASE OpenDetails \/ CloseDetails
  BY <1>12 DEF OpenDetails, CloseDetails
<1>13. CASE AskForDownload \/ Downloading \/ DownloadRefused \/ ReaderBackground
  <2>1. UNCHANGED <<message, edits, dialog, seen, begun, crossed, refused>>
    BY <1>13, ReaderApart DEF AskForDownload, Downloading, DownloadRefused,
       ReaderBackground, ReaderSide
  <2> QED
    BY <2>1
<1>14. CASE UNCHANGED allVars
  BY <1>14
<1> QED
  BY <1>1, <1>2, <1>3, <1>4, <1>5, <1>6, <1>7, <1>8, <1>9, <1>10, <1>11, <1>12,
     <1>13, <1>14 DEF DialogNext

-----------------------------------------------------------------------------
(* The invariant, and what follows.                                        *)

\* Nothing has been sent and no dialog is open at first.
LEMMA InitInv == DialogInit => Inv
<1> SUFFICES ASSUME DialogInit PROVE Inv
  OBVIOUS
<1> USE ChunksAssumption DEF DialogInit, Init
<1>1. SenderTyped /\ RelayTyped
  BY DEF SenderTyped, RelayTyped, Content
<1>2. ReaderTyped
  <2>1. <<>> \in Seq(Content \cup {"torn"})
    OBVIOUS
  <2>2. requested \in BOOLEAN /\ saved \in BOOLEAN /\ torn \in BOOLEAN
    OBVIOUS
  <2> QED
    BY <2>1, <2>2 DEF ReaderTyped
<1>3. GhostsTyped
  <2>1. midway \in BOOLEAN
    OBVIOUS
  <2> QED
    BY <2>1 DEF GhostsTyped
<1>4. DialogsTyped
  <2>1. crossed \in BOOLEAN /\ refused \in BOOLEAN
    OBVIOUS
  <2>2. seen \in 0 .. None /\ begun \in 0 .. None
    BY DEF None
  <2> QED
    BY <2>1, <2>2 DEF DialogsTyped
<1>5. ReadWhole /\ Kept /\ Reached /\ Reviewed
  BY DEF ReadWhole, Kept, Reached, MissedWithCause, Announced, Reviewed
<1> QED
  BY <1>1, <1>2, <1>3, <1>4, <1>5, TypeParts DEF Inv

\* The invariant holds however attempts, writes and dialogs are cut short.
THEOREM Invariance == DialogSpec => []Inv
<1>1. DialogInit => Inv
  BY InitInv
<1>2. Inv /\ [DialogNext]_allVars => Inv'
  <2> SUFFICES ASSUME Inv, [DialogNext]_allVars PROVE Inv'
    OBVIOUS
  <2>1. SenderTyped /\ RelayTyped /\ ReaderTyped
    BY TypeParts DEF Inv
  <2>2. (DialogTypeOK /\ edits <= MaxEdits)'
    BY <2>1, FileTyped, FilesTyped, RestTyped, TypeParts
  <2> QED
    BY <2>2, ReadWholeNext, KeptNext, ReachedNext, ReviewedNext DEF Inv
<1> QED
  BY <1>1, <1>2, PTL DEF DialogSpec

\* Every variable keeps its type; an attempt only runs while a file is uploading.
THEOREM TypeCorrect == DialogSpec => []DialogTypeOK
<1>1. Inv => DialogTypeOK
  BY DEF Inv
<1> QED
  BY <1>1, Invariance, PTL

\* However often an upload was broken off and resumed, an announced file is
\* there in full, and as it was announced unless it was changed in an attempt.
THEOREM AnnouncedFileIsWhole == DialogSpec => []AnnouncedIsWhole
<1>1. Inv => AnnouncedIsWhole
  <2> SUFFICES ASSUME Inv, message \in {"queued", "sent", "receipted"}
               PROVE  /\ complete
                      /\ \A i \in Index : stored[i] # "none"
                      /\ midway \/ \A i \in Index : stored[i] = "original"
    BY DEF AnnouncedIsWhole
  <2>1. complete /\ \A i \in Index : stored[i] # "none"
    BY DEF Inv, Kept, Uploaded
  <2> QED
    BY <2>1 DEF Inv, ReadWhole
<1> QED
  BY <1>1, Invariance, PTL

\* A device of the chat misses an announced file only when it came while the
\* file was uploaded, or after a receipt for it.
THEOREM OnlyLatecomersMiss == DialogSpec => []MissedWithCause
<1>1. Inv => MissedWithCause
  BY DEF Inv, Reached
<1> QED
  BY <1>1, Invariance, PTL

\* What is sent is what the user has reviewed, unless it was edited after the
\* last check, and another attempt is offered only when the file will not go
\* out by itself.
THEOREM PickerIsHonest == DialogSpec => []PickerKeepsItsWord
<1>1. Inv => PickerKeepsItsWord
  BY DEF Inv, Reviewed, PickerKeepsItsWord
<1> QED
  BY <1>1, Invariance, PTL

-----------------------------------------------------------------------------
(***************************************************************************)
(* Cancelling, module AttachmentTransfer, for every set of transfers and   *)
(* any number of crashes.                                                  *)
(*                                                                         *)
(* CancelHonoured and IntentKept need to know where the engine is: a file  *)
(* being transferred is queued (Place), a file about to be recorded has    *)
(* lost its last chance to be cancelled (Decided), and the control of an   *)
(* explicit request is only handed over while it is about that request     *)
(* (Handle).  NoPhantomCancel needs the converse of IntentKept: a control  *)
(* that says cancelled belongs to an accepted cancel of the same queueing  *)
(* (Traced).                                                               *)
(***************************************************************************)
SweepStep == {"prepare", "list", "sweep", "refresh"}

LeaseMatches == active = IF InAttempt THEN {cur} ELSE {}

\* Which transfer the engine is about, and what it still has to do.
Place ==
  /\ engine = "idle" => cur = Nobody
  /\ engine = "resume" => cur = Nobody /\ after = "resume"
  /\ engine \in SweepStep /\ after \in {"resume", "end"} => cur = Nobody
  /\ engine \in SweepStep /\ after \in {"request", "cancel"} => cur \in Transfers
  /\ engine \in {"enter", "request", "cancel", "register"} \/ InAttempt
       => cur \in Transfers
  /\ engine \in {"enter", "request"} => after = "request"
  /\ (engine \in {"enter"} \cup SweepStep \cup {"request"} /\ after = "request")
       => cur \notin done
  /\ engine \in {"register", "transfer", "commit"} => cur \in journal
  /\ engine \in {"register"} \/ InAttempt => after \in {"resume", "request"}
  /\ ~(engine \in {"resume", "register"} \/ InAttempt) => left = {}
  /\ left \subseteq journal \ {cur}
  /\ engine # "sweep" => todo = {}

Handle ==
  /\ handle \in {"none", "open", "cancelled"}
  /\ handle # "none" => /\ engine \in {"enter", "request", "register"} \cup SweepStep
                        /\ after = "request"

Decided ==
  /\ engine = "commit" => state[cur] = "committed" /\ cur \notin accepted
  /\ engine = "cleanup" => state[cur] = "cancelled"
  /\ \A t \in Transfers : state[t] = "open" => t \notin done

\* IntentKept, with the only step at which the handle stands in for the entry.
IntentKnown ==
  \A t \in accepted \cap journal :
    state[t] = "cancelled" \/ (handle = "cancelled" /\ cur = t /\ engine = "register")

Traced ==
  /\ \A t \in journal : state[t] = "cancelled" => t \in accepted
  /\ \A t \in todo : state[t] = "cancelled"
  /\ engine = "register" /\ handle = "cancelled" => cur \in accepted
  /\ engine = "request" => \A t \in Transfers \ journal : state[t] = "none"

TransferInv ==
  /\ TransferTypeOK
  /\ LeaseMatches
  /\ Place
  /\ Handle
  /\ Decided
  /\ IntentKnown
  /\ Traced
  /\ CancelHonoured

-----------------------------------------------------------------------------
\* The invariant holds in a new process with an empty queue.
LEMMA InitTransferInv == TransferInit => TransferInv
<1> SUFFICES ASSUME TransferInit PROVE TransferInv
  OBVIOUS
<1> USE DEF TransferInit
<1>1. TransferTypeOK
  BY DEF TransferTypeOK, ControlState, Step
<1>2. LeaseMatches /\ Place /\ Handle
  BY DEF LeaseMatches, Place, Handle, InAttempt, SweepStep
<1>3. Decided /\ IntentKnown /\ Traced /\ CancelHonoured
  BY DEF Decided, IntentKnown, Traced, CancelHonoured
<1> QED
  BY <1>1, <1>2, <1>3 DEF TransferInv

\* Every step of the frontend and of the engine keeps it.
LEMMA TransferInvNext ==
  ASSUME TransferInv, [TransferNext]_transferVars
  PROVE  TransferInv'
<1> USE TransferAssumption
    DEF TransferInv, TransferTypeOK, ControlState, Step, LeaseMatches, Place, Handle, Decided,
        IntentKnown, Traced, CancelHonoured, InAttempt, SweepStep,
        vaultVars, registryVars, engineVars
<1>1. ASSUME NEW t \in Transfers, Cancel(t) PROVE TransferInv'
  BY <1>1 DEF Cancel
<1>2. ASSUME CancelHandle PROVE TransferInv'
  BY <1>2 DEF CancelHandle
<1>3. ASSUME SyncBegin PROVE TransferInv'
  BY <1>3 DEF SyncBegin
<1>4. ASSUME NEW t \in Transfers, RequestBegin(t) \/ CancelBegin(t) PROVE TransferInv'
  BY <1>4 DEF RequestBegin, CancelBegin
<1>5. ASSUME Enter PROVE TransferInv'
  BY <1>5 DEF Enter
<1>6. ASSUME PrepareQueue PROVE TransferInv'
  BY <1>6 DEF PrepareQueue, Prepared
<1>7. ASSUME ListCancelled PROVE TransferInv'
  BY <1>7 DEF ListCancelled
<1>8. ASSUME NEW t \in Transfers, SweepOne(t) \/ SweepFails(t) PROVE TransferInv'
  BY <1>8 DEF SweepOne, SweepFails
<1>9. ASSUME SweepDone PROVE TransferInv'
  BY <1>9 DEF SweepDone
<1>10. ASSUME Refresh PROVE TransferInv'
  BY <1>10 DEF Refresh, Prepared
<1>11. ASSUME RequestTransfer PROVE TransferInv'
  BY <1>11 DEF RequestTransfer
<1>12. ASSUME RequestFails \/ ResumeDone \/ CancelCommandFails PROVE TransferInv'
  BY <1>12 DEF RequestFails, ResumeDone, CancelCommandFails, EndOperation
<1>13. ASSUME NEW t \in Transfers, ResumeNext(t) PROVE TransferInv'
  BY <1>13 DEF ResumeNext
<1>14. ASSUME Register PROVE TransferInv'
  BY <1>14 DEF Register
<1>15. ASSUME Interrupt \/ TransferFails PROVE TransferInv'
  BY <1>15 DEF Interrupt, TransferFails
<1>16. ASSUME BeginCommit PROVE TransferInv'
  BY <1>16 DEF BeginCommit
<1>17. ASSUME Commit \/ CommitFails PROVE TransferInv'
  BY <1>17 DEF Commit, CommitFails
<1>18. ASSUME Settle PROVE TransferInv'
  BY <1>18 DEF Settle
<1>19. ASSUME Cleanup \/ CleanupFails PROVE TransferInv'
  BY <1>19 DEF Cleanup, CleanupFails
<1>20. ASSUME Drop PROVE TransferInv'
  BY <1>20 DEF Drop, Released, EndOperation
<1>21. ASSUME CancelCommand PROVE TransferInv'
  BY <1>21 DEF CancelCommand, EndOperation
<1>22. ASSUME Crash PROVE TransferInv'
  BY <1>22 DEF Crash
<1>23. ASSUME UNCHANGED transferVars PROVE TransferInv'
  BY <1>23 DEF transferVars
<1> QED
  BY <1>1, <1>2, <1>3, <1>4, <1>5, <1>6, <1>7, <1>8, <1>9, <1>10, <1>11,
     <1>12, <1>13, <1>14, <1>15, <1>16, <1>17, <1>18, <1>19, <1>20, <1>21,
     <1>22, <1>23 DEF TransferNext, Frontend, Operation, Running, Sweeping, Failing

\* Inv holds in every reachable state.
LEMMA TransferInvariance == TransferSpec => []TransferInv
<1>1. TransferInv /\ [TransferNext]_transferVars => TransferInv'
  BY TransferInvNext
<1> QED
  BY <1>1, InitTransferInv, PTL DEF TransferSpec

\* Every variable keeps its type, and a lease is only held for the transfer
\* the engine is about.
THEOREM TransferTypeCorrect == TransferSpec => []TransferTypeOK
<1>1. TransferInv => TransferTypeOK
  BY DEF TransferInv
<1> QED
  BY TransferInvariance, <1>1, PTL

\* A late cancel never claims success: a file whose cancel was accepted is not
\* recorded as done.
THEOREM CancelIsHonoured == TransferSpec => []CancelHonoured
<1>1. TransferInv => CancelHonoured
  BY DEF TransferInv
<1> QED
  BY TransferInvariance, <1>1, PTL

\* An accepted cancel of a queued file is never forgotten.
THEOREM IntentIsKept == TransferSpec => []IntentKept
<1>1. TransferInv => IntentKept
  BY DEF TransferInv, IntentKnown, IntentKept
<1> QED
  BY TransferInvariance, <1>1, PTL

-----------------------------------------------------------------------------
\* A step that takes a file off the queue recorded it or obeyed the user.
LEMMA StepNotPhantom ==
  ASSUME TransferInv, [TransferNext]_transferVars
  PROVE  \A t \in journal \ journal' : t \in accepted' \cup done'
<1> USE DEF TransferInv, Traced, Decided, TransferTypeOK, vaultVars
<1>1. ASSUME NEW t \in Transfers, SweepOne(t) \/ SweepFails(t)
      PROVE  \A u \in journal \ journal' : u \in accepted'
  BY <1>1 DEF SweepOne, SweepFails
<1>2. ASSUME Cleanup PROVE \A u \in journal \ journal' : u \in accepted'
  BY <1>2 DEF Cleanup
<1>3. ASSUME Commit PROVE \A u \in journal \ journal' : u \in done'
  BY <1>3 DEF Commit
<1>4. ASSUME CancelCommand PROVE \A u \in journal \ journal' : u \in accepted'
  BY <1>4 DEF CancelCommand
<1>5. ASSUME NEW t \in Transfers,
             Cancel(t) \/ RequestBegin(t) \/ CancelBegin(t) \/ ResumeNext(t)
      PROVE  journal' = journal
  BY <1>5 DEF Cancel, RequestBegin, CancelBegin, ResumeNext
<1>6. ASSUME \/ CancelHandle \/ SyncBegin \/ Enter \/ PrepareQueue \/ ListCancelled
             \/ SweepDone \/ Refresh \/ RequestTransfer \/ RequestFails
             \/ CancelCommandFails \/ ResumeDone \/ Register \/ Interrupt
             \/ TransferFails \/ BeginCommit \/ Settle \/ Drop \/ CommitFails
             \/ CleanupFails \/ Crash \/ UNCHANGED transferVars
      PROVE  journal \subseteq journal'
  BY <1>6 DEF CancelHandle, SyncBegin, Enter, PrepareQueue, ListCancelled, SweepDone,
              Refresh, RequestTransfer, RequestFails, CancelCommandFails, ResumeDone,
              Register, Interrupt, TransferFails, BeginCommit, Settle, Drop,
              CommitFails, CleanupFails, Crash, transferVars
<1> QED
  BY <1>1, <1>2, <1>3, <1>4, <1>5, <1>6
     DEF TransferNext, Frontend, Operation, Running, Sweeping, Failing

\* An old cancel never hits a new request.
THEOREM NoPhantom == TransferSpec => NoPhantomCancel
<1>1. TransferInv /\ [TransferNext]_transferVars
        => [\A t \in journal \ journal' : t \in accepted' \cup done']_transferVars
  BY StepNotPhantom
<1> QED
  BY <1>1, TransferInvariance, PTL DEF TransferSpec, NoPhantomCancel
=============================================================================
