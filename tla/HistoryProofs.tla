---------------------------- MODULE HistoryProofs ----------------------------
(***************************************************************************)
(* Proofs about History, for any chats, messages and bounds.  The argument *)
(* follows a transfer: parts in flight show that the manifest was queued,  *)
(* so the transcript is not refreshed any more; an acknowledgement in      *)
(* flight shows that the target has imported what it names.                *)
(***************************************************************************)
EXTENDS History, TLAPS

IsPart(e) == e.kind \in {"manifest", "chunk"}
On(s)     == {s[i] : i \in DOMAIN s}

\* A part is in flight, or known to the target, only after the manifest was
\* queued.
PartsStarted ==
  /\ \A e \in On(queue) \cup On(mail) : IsPart(e) => out[e.chat].manifest
  /\ \A c \in Chats : in[c].state # "none" => out[c].manifest

\* What is imported is in the vault, and an acknowledgement names an import.
Imports ==
  /\ \A c \in Chats : in[c].state = "done" => DOMAIN in[c].transcript \subseteq have
  /\ \A e \in On(reply) :
       e.kind = "ack" => /\ in[e.chat].state = "done"
                         /\ e.transcript = in[e.chat].transcript

Finished ==
  \A c \in Chats : out[c].state = "done" => out[c].manifest

\* Only what was captured is staged.
Captured ==
  /\ pc \in {"lease", "stage", "parts"} => out[cur].state # "none"
  /\ \A c \in todo : out[c].state # "none"
  /\ \A c \in Chats : out[c].manifest => out[c].state # "none"

\* Where the target is in the handling of the head of its mailbox.
Handling ==
  /\ tpc # "read" => mail # <<>> /\ IsPart(Head(mail))
  /\ tpc = "consume" => in[Head(mail).chat].state # "done"

(* The order of what is sent, as long as no Welcome was refused.            *)

Changes(e) == e.kind \in {"join", "commit"}

\* The target has in its mailbox, or has read, the last change of the chat.
Caught(c) ==
  \/ tEpoch[c] = latest[c]
  \/ \E e \in On(mail) : Changes(e) /\ e.chat = c /\ e.epoch = latest[c]

\* An addition without its Welcome is under way or about to be restored.
Welcomed ==
  /\ \A c \in Chats : member[c] = "added" =>
       pc \in {"restore", "restage"} \/ (pc = "stage" /\ cur = c)
  /\ pc = "lease" => member[cur] = "out"
  /\ pc \in {"stage", "restage"} => member[cur] = "added"
  /\ pc = "parts" => member[cur] = "queued"
  /\ \A c \in todo : member[c] = "queued"

\* Nothing of a chat is sent before the Welcome.
Outside ==
  \A c \in Chats : member[c] # "queued" =>
    /\ \A e \in On(queue) \cup On(mail) : e.chat # c
    /\ tEpoch[c] = 0
    /\ IF member[c] = "added" THEN epoch[c] = latest[c] + 1
                             ELSE epoch[c] <= latest[c]

\* A chat has its Welcome in the outbox, once, or it was sent and the source is
\* no further than the relay.
WelcomeSent ==
  /\ \A c \in Chats : member[c] = "queued" =>
       \/ Caught(c) /\ epoch[c] <= latest[c]
       \/ \E e \in On(queue) : e.kind = "join" /\ e.chat = c
  /\ \A e \in On(queue) :
       e.kind = "join" => e.epoch = epoch[e.chat] /\ latest[e.chat] < e.epoch
  /\ \A i, j \in DOMAIN queue :
       queue[i].kind = "join" /\ queue[j].kind = "join"
         /\ queue[i].chat = queue[j].chat => i = j

\* A queued part is behind its Welcome, or the Welcome was sent.
AfterWelcome(c, i) ==
  \/ Caught(c) /\ queue[i].epoch <= latest[c]
  \/ \E j \in DOMAIN queue :
       /\ j < i /\ queue[j].kind = "join" /\ queue[j].chat = c
       /\ queue[i].epoch <= queue[j].epoch

PartsBehind ==
  /\ \A e \in On(queue) : e.kind \in {"join", "manifest", "chunk"}
  /\ \A c \in Chats, i \in DOMAIN queue :
       IsPart(queue[i]) /\ queue[i].chat = c => AfterWelcome(c, i)

\* The changes in the target's mailbox are in order and without a gap.
ChangesInOrder ==
  /\ \A c \in Chats : tEpoch[c] <= latest[c]
  /\ \A e \in On(mail) :
       Changes(e) => tEpoch[e.chat] < e.epoch /\ e.epoch <= latest[e.chat]
  /\ \A i, j \in DOMAIN mail :
       i < j /\ Changes(mail[i]) /\ Changes(mail[j]) /\ mail[i].chat = mail[j].chat
         => mail[i].epoch < mail[j].epoch
  /\ \A i \in DOMAIN mail : mail[i].kind = "commit" =>
       \/ tEpoch[mail[i].chat] + 1 = mail[i].epoch
       \/ \E j \in DOMAIN mail :
            /\ j < i /\ Changes(mail[j]) /\ mail[j].chat = mail[i].chat
            /\ mail[j].epoch + 1 = mail[i].epoch

\* A part comes after the change that made its epoch.
PartsInOrder ==
  /\ \A e \in On(mail) : Changes(e) \/ IsPart(e)
  /\ \A i \in DOMAIN mail : IsPart(mail[i]) =>
       \/ mail[i].epoch <= tEpoch[mail[i].chat]
       \/ \E j \in DOMAIN mail :
            /\ j < i /\ Changes(mail[j]) /\ mail[j].chat = mail[i].chat
            /\ mail[i].epoch <= mail[j].epoch

CommitsAnnounced ==
  \A e \in On(reply) :
    e.kind = "commit" => e.chat \in forked \/ e.epoch <= latest[e.chat]

InTransit ==
  /\ Outside /\ WelcomeSent /\ PartsBehind
  /\ ChangesInOrder /\ PartsInOrder /\ CommitsAnnounced

Order   == Welcomed /\ InTransit
InOrder == ~refused => Order

Inv == /\ TypeOK /\ Captured /\ PartsStarted /\ Imports /\ Finished
       /\ DoneIsHeld /\ Handling /\ ImportAnswered /\ InOrder

-----------------------------------------------------------------------------
\* What the queues hold after an envelope is put in or taken out.
LEMMA Appended ==
  ASSUME NEW s \in Seq(Envelope), NEW e \in Envelope
  PROVE  /\ Append(s, e) \in Seq(Envelope) /\ Append(s, e) # <<>>
         /\ On(Append(s, e)) = On(s) \cup {e}
         /\ s # <<>> => Head(Append(s, e)) = Head(s)
<1>1. Append(s, e) \in Seq(Envelope) /\ Append(s, e) # <<>>
  <2>1. Append(s, e) \in Seq(Envelope) /\ Len(Append(s, e)) = Len(s) + 1
    OBVIOUS
  <2>2. Len(s) \in Nat /\ Len(<<>>) = 0
    OBVIOUS
  <2> QED
    BY <2>1, <2>2
<1>2. s # <<>> => Head(Append(s, e)) = Head(s)
  OBVIOUS
<1>3. On(Append(s, e)) = On(s) \cup {e}
  <2>1. /\ DOMAIN s = 1 .. Len(s) /\ DOMAIN Append(s, e) = 1 .. Len(s) + 1
        /\ Len(s) \in Nat
    OBVIOUS
  <2>2. /\ \A i \in DOMAIN s : Append(s, e)[i] = s[i]
        /\ Append(s, e)[Len(s) + 1] = e
    OBVIOUS
  <2> QED
    BY <2>1, <2>2 DEF On
<1> QED
  BY <1>1, <1>2, <1>3

\* What is taken out of a queue leaves no more in it.
LEMMA TakenOut ==
  ASSUME NEW s \in Seq(Envelope), s # <<>>
  PROVE  /\ Tail(s) \in Seq(Envelope) /\ On(Tail(s)) \subseteq On(s)
         /\ Head(s) \in Envelope /\ Head(s) \in On(s)
<1>1. Tail(s) \in Seq(Envelope) /\ Head(s) \in Envelope
  OBVIOUS
<1>2. Len(s) \in Nat /\ Len(s) >= 1 /\ DOMAIN s = 1 .. Len(s) /\ Head(s) = s[1]
  OBVIOUS
<1>3. Head(s) \in On(s)
  BY <1>2 DEF On
<1>4. On(Tail(s)) \subseteq On(s)
  <2>1. /\ DOMAIN Tail(s) = 1 .. Len(s) - 1
        /\ \A i \in 1 .. Len(s) - 1 : Tail(s)[i] = s[i + 1]
    BY <1>2
  <2> QED
    BY <1>2, <2>1 DEF On
<1> QED
  BY <1>1, <1>3, <1>4

\* A queue holds envelopes.
LEMMA OnTyped ==
  ASSUME NEW s \in Seq(Envelope)
  PROVE  On(s) \subseteq Envelope
BY DEF On

\* The kinds of envelopes are envelopes.
LEMMA Envelopes ==
  ASSUME NEW c \in Chats, NEW n \in Nat
  PROVE  /\ \A k \in {"join", "commit"} :
              [kind |-> k, chat |-> c, epoch |-> n] \in Envelope
         /\ \A k \in {"manifest", "ack"}, t \in Transcript :
              [kind |-> k, chat |-> c, epoch |-> n, transcript |-> t] \in Envelope
         /\ \A x \in Chunk :
              [kind |-> "chunk", chat |-> c, epoch |-> n, chunk |-> x] \in Envelope
BY DEF Envelope

\* The fields of an envelope.
LEMMA Fields ==
  ASSUME NEW e \in Envelope
  PROVE  /\ e.chat \in Chats /\ e.epoch \in Nat
         /\ e.kind \in {"join", "commit", "manifest", "ack", "chunk"}
         /\ e.kind \in {"manifest", "ack"} => e.transcript \in Transcript
         /\ e.kind = "chunk" => e.chunk \in Chunk
BY DEF Envelope

\* What is captured is a transcript.
LEMMA Snapshots ==
  ASSUME NEW ids \in SUBSET Messages
  PROVE  Snapshot(ids) \in Transcript
BY DEF Snapshot, Transcript

\* So is the transcript of nothing.
LEMMA Empty == <<>> \in Transcript
<1>1. <<>> \in [1 .. 0 -> BOOLEAN] /\ 1 .. 0 = {}
  OBVIOUS
<1> QED
  BY <1>1 DEF Transcript

\* A transcript is of messages.
LEMMA DomainOf ==
  ASSUME NEW t \in Transcript
  PROVE  DOMAIN t \subseteq Messages
BY DEF Transcript

-----------------------------------------------------------------------------
\* The initial states satisfy the invariant.
LEMMA InitInv == Init => Inv
<1> SUFFICES ASSUME Init PROVE Inv
  OBVIOUS
<1>1. On(queue) = {} /\ On(mail) = {} /\ On(reply) = {}
  BY DEF Init, On
<1>2. TypeOK
  <2>1. NoChat \in Chats
    BY HistoryAssumption DEF NoChat
  <2>2. out \in [Chats -> Outbound] /\ in \in [Chats -> Inbound]
    BY Empty DEF Init, Outbound, Inbound
  <2>3. label \in [Messages -> Label]
    BY DEF Init, Label
  <2>4. /\ member \in [Chats -> {"out", "added", "queued"}]
        /\ epoch \in [Chats -> Nat] /\ latest \in [Chats -> Nat]
        /\ tEpoch \in [Chats -> Nat]
    BY DEF Init
  <2>5. queue \in Seq(Envelope) /\ mail \in Seq(Envelope) /\ reply \in Seq(Envelope)
    BY DEF Init
  <2>6. /\ pc \in Step /\ cur \in Chats /\ todo \subseteq Chats /\ mishaps \in Nat
        /\ have \subseteq Messages /\ tpc \in {"read", "ack", "consume"}
        /\ refused \in BOOLEAN /\ forked \subseteq Chats
    BY <2>1 DEF Init, Step
  <2> QED
    BY <2>2, <2>3, <2>4, <2>5, <2>6 DEF TypeOK
<1>3. \A c \in Chats : in[c].state = "none" /\ out[c].state = "none"
  BY DEF Init
<1>4. PartsStarted /\ Imports /\ Finished /\ DoneIsHeld
  BY <1>1, <1>3 DEF PartsStarted, Imports, Finished, DoneIsHeld
<1>5. Handling /\ ImportAnswered
  BY <1>3 DEF Init, Handling, ImportAnswered, AckDue
<1>6. Captured
  BY DEF Init, Captured
<1>7. Welcomed /\ Outside /\ WelcomeSent
  BY <1>1 DEF Init, Welcomed, Outside, WelcomeSent
<1>8. PartsBehind /\ ChangesInOrder /\ PartsInOrder /\ CommitsAnnounced
  <2>1. DOMAIN queue = {} /\ DOMAIN mail = {}
    BY DEF Init
  <2>2. \A c \in Chats : tEpoch[c] <= latest[c]
    BY DEF Init
  <2> QED
    BY <1>1, <2>1, <2>2
    DEF PartsBehind, ChangesInOrder, PartsInOrder, CommitsAnnounced
<1>9. InOrder
  BY <1>7, <1>8 DEF InOrder, Order, InTransit
<1> QED
  BY <1>2, <1>4, <1>5, <1>6, <1>9 DEF Inv

-----------------------------------------------------------------------------
\* What the steps of the target make of its record of a transfer.
LEMMA AppliedType ==
  ASSUME TypeOK, NEW e \in Envelope
  PROVE  /\ Applied(e) \in Inbound /\ Finalized(Applied(e)) \in Inbound
         /\ DOMAIN Applied(e).transcript \subseteq Messages
<1>1. in[e.chat] \in Inbound
  BY Fields DEF TypeOK
<1>2. Applied(e) \in Inbound
  <2>1. CASE e.kind = "manifest" /\ in[e.chat].state = "none"
    <3>1. e.transcript \in Transcript
      BY Fields, <2>1
    <3> QED
      BY <1>1, <2>1, <3>1 DEF Applied, Inbound
  <2>2. CASE e.kind = "chunk" /\ in[e.chat].state = "open"
    <3>1. e.chunk \in Chunk
      BY Fields, <2>2
    <3> QED
      BY <1>1, <2>2, <3>1 DEF Applied, Inbound
  <2>3. CASE /\ ~(e.kind = "manifest" /\ in[e.chat].state = "none")
             /\ ~(e.kind = "chunk" /\ in[e.chat].state = "open")
    BY <1>1, <2>3 DEF Applied
  <2> QED
    BY <2>1, <2>2, <2>3
<1>3. Finalized(Applied(e)) \in Inbound
  BY <1>2 DEF Finalized, Inbound
<1>4. DOMAIN Applied(e).transcript \subseteq Messages
  BY <1>2, DomainOf DEF Inbound
<1> QED
  BY <1>2, <1>3, <1>4

\* A part may be queued.
LEMMA PartQueued ==
  ASSUME TypeOK, NEW c \in Chats, NextPart(c)
  PROVE  /\ \E e \in Envelope :
              /\ queue' = Append(queue, e) /\ IsPart(e) /\ e.chat = c
         /\ out' \in [Chats -> Outbound]
         /\ \A d \in Chats : /\ out'[d].manifest = (out[d].manifest \/ d = c)
                             /\ out'[d].transcript = out[d].transcript
                             /\ out'[d].state = out[d].state
<1> DEFINE o == out[c]
<1>1. /\ o \in Outbound /\ o.transcript \in Transcript /\ epoch[c] \in Nat
      /\ out \in [Chats -> Outbound]
  BY DEF TypeOK, Outbound
<1>2. CASE NoParts(c) /\ queue' = Append(queue, ManifestOf(c))
           /\ out' = [out EXCEPT ![c].manifest = TRUE]
  <2>1. ManifestOf(c) \in Envelope /\ IsPart(ManifestOf(c)) /\ ManifestOf(c).chat = c
    BY <1>1 DEF ManifestOf, Envelope, IsPart
  <2> QED
    BY <1>1, <1>2, <2>1 DEF Outbound
<1>3. CASE ~NoParts(c) /\ \E m \in ToStage(c) :
             /\ queue' = Append(queue, ChunkOf(c, m))
             /\ out' = [out EXCEPT ![c].staged = @ \cup {m}]
  <2>1. PICK m \in ToStage(c) : /\ queue' = Append(queue, ChunkOf(c, m))
                                /\ out' = [out EXCEPT ![c].staged = @ \cup {m}]
    BY <1>3
  <2>2. m \in Messages
    BY <1>1, DomainOf DEF ToStage
  <2>3. ChunkOf(c, m) \in Envelope /\ IsPart(ChunkOf(c, m)) /\ ChunkOf(c, m).chat = c
    <3>1. Snapshot({m})[m] \in BOOLEAN
      BY DEF Snapshot
    <3> QED
      BY <1>1, <2>2, <3>1 DEF ChunkOf, Chunk, Envelope, IsPart
  <2>4. out[c].manifest = TRUE
    BY <1>1, <1>3 DEF NoParts, Outbound
  <2> QED
    BY <1>1, <2>1, <2>2, <2>3, <2>4 DEF Outbound
<1> QED
  BY <1>2, <1>3 DEF NextPart

-----------------------------------------------------------------------------
\* Every step keeps the types.  That Consume finds a head is not a matter of
\* types alone.
LEMMA TypeNext == TypeOK /\ Handling /\ [Next]_vars => TypeOK'
<1> SUFFICES ASSUME TypeOK, Handling, [Next]_vars PROVE TypeOK'
  OBVIOUS
<1> USE DEF sourceVars, opVars, relayVars, targetVars
<1>0. Mishap => mishaps' \in Nat
  BY DEF Mishap, TypeOK
<1>1. NoChat \in Chats
  BY HistoryAssumption DEF NoChat
<1>2. ASSUME NEW m \in Messages, Arrive(m) \/ Raise(m) PROVE TypeOK'
  BY <1>2 DEF Arrive, Raise, TypeOK, Label
<1>3. ASSUME NEW c \in Chats, Capture(c) PROVE TypeOK'
  <2>1. Snapshot(Capturable(c)) \in Transcript
    BY Snapshots DEF Capturable
  <2>2. out[c] \in Outbound
    BY DEF TypeOK
  <2>3. out' \in [Chats -> Outbound]
    <3> DEFINE t == Snapshot(Capturable(c))
    <3>1. [state |-> "open", transcript |-> t, manifest |-> FALSE, staged |-> {},
           earlier |-> {d \in Chats : out[d].state # "none"}] \in Outbound
      BY <2>1 DEF Outbound
    <3>2. [out[c] EXCEPT !.transcript = t] \in Outbound
      BY <2>1, <2>2 DEF Outbound
    <3> HIDE DEF t
    <3> QED
      BY <1>3, <2>2, <3>1, <3>2 DEF Capture, TypeOK, t
  <2> QED
    BY <1>3, <2>3 DEF Capture, TypeOK, Step
<1>4. CASE LeaseRefused
  BY <1>1, <1>4 DEF LeaseRefused, Abort, Stop, TypeOK, Step
<1>5. CASE Add
  BY <1>5 DEF Add, TypeOK, Step
<1>6. CASE Stage
  <2>1. [kind |-> "join", chat |-> cur, epoch |-> epoch[cur]] \in Envelope
    BY DEF TypeOK, Envelope
  <2>2. queue' \in Seq(Envelope)
    BY <1>6, <2>1, Appended DEF Stage, TypeOK
  <2> QED
    BY <1>6, <2>2 DEF Stage, TypeOK, Step
<1>7. CASE StageFails \/ PartsFail
  BY <1>0, <1>1, <1>7 DEF StageFails, PartsFail, Stop, TypeOK, Step
<1>8. CASE Resume
  BY <1>8 DEF Resume, Unfinished, TypeOK, Step
<1>9. CASE ResumeNext
  BY <1>9 DEF ResumeNext, TypeOK, Step
<1>10. CASE PartsStale
  BY <1>1, <1>10 DEF PartsStale, Abort, Stop, TypeOK, Step
<1>11. CASE QueuePart
  <2>1. NextPart(cur) /\ cur \in Chats
    BY <1>11 DEF QueuePart, TypeOK
  <2>2. /\ out' \in [Chats -> Outbound]
        /\ \E e \in Envelope : queue' = Append(queue, e)
    BY <2>1, PartQueued
  <2>3. queue' \in Seq(Envelope)
    BY <2>2, Appended DEF TypeOK
  <2> QED
    BY <1>11, <2>2, <2>3 DEF QueuePart, TypeOK
<1>12. CASE PartsDone
  BY <1>1, <1>12 DEF PartsDone, TypeOK, Step
<1>13. CASE Send
  <2>1. Head(queue) \in Envelope /\ Tail(queue) \in Seq(Envelope)
    BY <1>13, TakenOut DEF Send, TypeOK
  <2>2. mail' \in Seq(Envelope)
    BY <1>13, <2>1, Appended DEF Send, TypeOK
  <2>3. latest' \in [Chats -> Nat]
    BY <1>13, <2>1, Fields DEF Send, TypeOK
  <2> QED
    BY <1>13, <2>1, <2>2, <2>3 DEF Send, TypeOK
<1>14. ASSUME NEW c \in Chats, PeerCommit(c) PROVE TypeOK'
  <2>1. latest[c] + 1 \in Nat
    BY DEF TypeOK
  <2>2. [kind |-> "commit", chat |-> c, epoch |-> latest[c] + 1] \in Envelope
    BY <2>1 DEF Envelope
  <2>3. mail' \in Seq(Envelope) /\ reply' \in Seq(Envelope)
    BY <1>14, <2>2, Appended DEF PeerCommit, TypeOK
  <2> QED
    BY <1>14, <2>1, <2>3 DEF PeerCommit, TypeOK
<1>15. CASE ReadMembership
  <2>1. Head(mail) \in Envelope /\ Tail(mail) \in Seq(Envelope)
    BY <1>15, TakenOut DEF ReadMembership, TypeOK
  <2>2. tEpoch' \in [Chats -> Nat]
    BY <1>15, <2>1, Fields DEF ReadMembership, TypeOK
  <2> QED
    BY <1>15, <2>1, <2>2 DEF ReadMembership, TypeOK
<1>16. CASE Apply
  <2> DEFINE e == Head(mail)
             r == Applied(e)
  <2>1. e \in Envelope
    BY <1>16, TakenOut DEF Apply, Imported, TypeOK
  <2>2. r \in Inbound /\ Finalized(r) \in Inbound /\ DOMAIN r.transcript \subseteq Messages
    BY <2>1, AppliedType
  <2>3. /\ in' = [in EXCEPT ![e.chat] = IF Counted(r) THEN Finalized(r) ELSE r]
        /\ have' = IF Counted(r) THEN have \cup DOMAIN r.transcript ELSE have
        /\ tpc' \in {"ack", "consume"}
        /\ UNCHANGED <<sourceVars, relayVars, tEpoch, refused>>
    BY <1>16 DEF Apply
  <2> HIDE DEF e, r
  <2>4. in' \in [Chats -> Inbound] /\ have' \subseteq Messages
    BY <2>2, <2>3 DEF TypeOK
  <2> QED
    BY <2>3, <2>4 DEF TypeOK
<1>17. ASSUME NEW c \in Chats, QueueAck(c) PROVE TypeOK'
  <2>1. in[c] \in Inbound /\ in[c].transcript \in Transcript /\ tEpoch[c] \in Nat
    BY DEF TypeOK, Inbound
  <2>2. [kind |-> "ack", chat |-> c, epoch |-> tEpoch[c],
         transcript |-> in[c].transcript] \in Envelope
    BY <2>1 DEF Envelope
  <2>3. reply' \in Seq(Envelope)
    BY <1>17, <2>2, Appended DEF QueueAck, TypeOK
  <2>4. [in[c] EXCEPT !.acked = TRUE] \in Inbound
    BY <2>1 DEF Inbound
  <2>5. in' \in [Chats -> Inbound]
    BY <1>17, <2>4 DEF QueueAck, TypeOK
  <2> QED
    BY <1>17, <2>3, <2>5 DEF QueueAck, TypeOK
<1>18. CASE Consume
  <2>1. mail # <<>>
    BY <1>18 DEF Consume, Handling
  <2>2. mail' \in Seq(Envelope)
    BY <1>18, <2>1, TakenOut DEF Consume, TypeOK
  <2> QED
    BY <1>18, <2>2 DEF Consume, TypeOK
<1>19. CASE TargetFails
  BY <1>19 DEF TargetFails, TypeOK
<1>20. CASE ReadAck
  <2>1. Head(reply) \in Envelope /\ Tail(reply) \in Seq(Envelope)
    BY <1>20, TakenOut DEF ReadAck, TypeOK
  <2> DEFINE c == Head(reply).chat
  <2>2. c \in Chats
    BY <2>1, Fields
  <2>4. out' = [out EXCEPT ![c].state = "done"]
    BY <1>20 DEF ReadAck
  <2> HIDE DEF c
  <2>3. [out[c] EXCEPT !.state = "done"] \in Outbound
    <3>1. out[c] \in Outbound
      BY <2>2 DEF TypeOK
    <3> QED
      BY <3>1 DEF Outbound
  <2>5. out' \in [Chats -> Outbound]
    BY <2>2, <2>3, <2>4 DEF TypeOK
  <2> QED
    BY <1>20, <2>1, <2>5 DEF ReadAck, TypeOK
<1>21. CASE ReadCommit
  <2>1. Head(reply) \in Envelope /\ Tail(reply) \in Seq(Envelope)
    BY <1>21, TakenOut DEF ReadCommit, TypeOK
  <2>2. epoch' \in [Chats -> Nat]
    BY <1>21, <2>1, Fields DEF ReadCommit, TypeOK
  <2> QED
    BY <1>21, <2>1, <2>2 DEF ReadCommit, TypeOK
<1>22. CASE Crash
  BY <1>0, <1>1, <1>22 DEF Crash, TypeOK, Step
<1>23. CASE RestoreNext
  BY <1>23 DEF RestoreNext, TypeOK, Step
<1>24. CASE RestoreDone
  BY <1>1, <1>24 DEF RestoreDone, Abort, Stop, TypeOK, Step
<1>25. CASE UNCHANGED vars
  BY <1>25 DEF vars, TypeOK
<1> QED
  BY <1>2, <1>3, <1>4, <1>5, <1>6, <1>7, <1>8, <1>9, <1>10, <1>11, <1>12,
     <1>13, <1>14, <1>15, <1>16, <1>17, <1>18, <1>19, <1>20, <1>21, <1>22,
     <1>23, <1>24, <1>25 DEF Next

-----------------------------------------------------------------------------
(* The rest of the invariant, over what it speaks of.                      *)

Books == /\ PartsStarted /\ Imports /\ Finished
         /\ DoneIsHeld /\ Handling /\ ImportAnswered

\* Steps that leave the transfers, the queues and the target alone.
LEMMA BooksKept ==
  ASSUME Inv, UNCHANGED <<out, queue, mail, reply, in, have>>, tpc' \in {tpc, "read"}
  PROVE  Books'
BY DEF Inv, Books, PartsStarted, Imports, Finished, DoneIsHeld, Handling,
       ImportAnswered, AckDue, IsPart, On

\* A transfer is captured again only before its first part.
LEMMA BooksCapture ==
  ASSUME Inv, NEW c \in Chats, Capture(c)
  PROVE  Books'
<1>1. /\ UNCHANGED <<queue, mail, reply, in, have, tpc>>
      /\ out \in [Chats -> Outbound]
  BY DEF Capture, relayVars, targetVars, Inv, TypeOK
<1>2. \A d \in Chats : out[d].manifest => out'[d] = out[d]
  BY <1>1 DEF Capture, NoParts, Inv, Captured
<1>3. \A d \in Chats : out'[d].state = "done" => out'[d] = out[d]
  <2>1. out[c].state = "done" => out[c].manifest
    BY DEF Inv, Finished
  <2> QED
    BY <1>1, <1>2, <2>1 DEF Capture
<1>4. PartsStarted' /\ Imports'
  <2>1. On(queue) \cup On(mail) \subseteq Envelope
    BY OnTyped DEF Inv, TypeOK
  <2>2. \A e \in On(queue) \cup On(mail) : e.chat \in Chats
    BY <2>1, Fields
  <2> QED
    BY <1>1, <1>2, <2>2 DEF Inv, PartsStarted, Imports, On, IsPart
<1>5. Finished' /\ DoneIsHeld'
  BY <1>1, <1>2, <1>3 DEF Inv, Finished, DoneIsHeld
<1>6. Handling' /\ ImportAnswered'
  BY <1>1 DEF Inv, Handling, ImportAnswered, AckDue, IsPart
<1> QED
  BY <1>4, <1>5, <1>6 DEF Books

\* A part is queued: the manifest at the latest with it.
LEMMA BooksQueuePart ==
  ASSUME Inv, QueuePart
  PROVE  Books'
<1>1. /\ NextPart(cur) /\ cur \in Chats /\ queue \in Seq(Envelope)
      /\ UNCHANGED <<mail, reply, in, have, tpc>>
  BY DEF QueuePart, relayVars, targetVars, Inv, TypeOK
<1>2. PICK e \in Envelope : /\ queue' = Append(queue, e)
                            /\ IsPart(e) /\ e.chat = cur
  BY <1>1, PartQueued DEF Inv
<1>3. \A d \in Chats : /\ out'[d].manifest = (out[d].manifest \/ d = cur)
                       /\ out'[d].transcript = out[d].transcript
                       /\ out'[d].state = out[d].state
  BY <1>1, PartQueued DEF Inv
<1>4. On(queue') = On(queue) \cup {e}
  BY <1>1, <1>2, Appended
<1>5. \A x \in On(queue) \cup On(mail) : x.chat \in Chats
  BY OnTyped, Fields DEF Inv, TypeOK
<1>6. PartsStarted' /\ Imports'
  <2>1. On(mail)' = On(mail) /\ On(queue)' = On(queue) \cup {e}
    BY <1>1, <1>4 DEF On
  <2>2. PartsStarted'
    BY <1>1, <1>2, <1>3, <1>5, <2>1 DEF Inv, PartsStarted, IsPart
  <2>3. Imports'
    BY <1>1 DEF Inv, Imports, On
  <2> QED
    BY <2>2, <2>3
<1>7. Finished' /\ DoneIsHeld'
  BY <1>1, <1>3 DEF Inv, Finished, DoneIsHeld
<1>8. Handling' /\ ImportAnswered'
  BY <1>1 DEF Inv, Handling, ImportAnswered, AckDue, IsPart
<1> QED
  BY <1>6, <1>7, <1>8 DEF Books

\* A Welcome is queued.
LEMMA BooksStage ==
  ASSUME Inv, Stage
  PROVE  Books'
<1> DEFINE e == [kind |-> "join", chat |-> cur, epoch |-> epoch[cur]]
<1>1. /\ e \in Envelope /\ ~IsPart(e) /\ queue \in Seq(Envelope)
      /\ queue' = Append(queue, e)
      /\ UNCHANGED <<out, mail, reply, in, have, tpc>>
  BY DEF Stage, relayVars, targetVars, Inv, TypeOK, Envelope, IsPart
<1> HIDE DEF e
<1>2. On(queue') = On(queue) \cup {e}
  BY <1>1, Appended
<1> QED
  BY <1>1, <1>2 DEF Inv, Books, PartsStarted, Imports, Finished, DoneIsHeld,
     Handling, ImportAnswered, AckDue, IsPart, On

\* The head of the queue moves to the mailbox.
LEMMA BooksSend ==
  ASSUME Inv, Send
  PROVE  Books'
<1> DEFINE e == Head(queue)
<1>1. /\ queue # <<>> /\ queue \in Seq(Envelope) /\ mail \in Seq(Envelope)
      /\ mail' = Append(mail, e) /\ queue' = Tail(queue)
      /\ UNCHANGED <<out, reply, in, have, tpc>>
  BY DEF Send, targetVars, Inv, TypeOK
<1>2. e \in Envelope /\ e \in On(queue) /\ On(Tail(queue)) \subseteq On(queue)
  BY <1>1, TakenOut
<1> HIDE DEF e
<1>3. /\ On(mail') = On(mail) \cup {e} /\ mail' # <<>>
      /\ mail # <<>> => Head(mail') = Head(mail)
  BY <1>1, <1>2, Appended
<1>4. On(queue') \cup On(mail') \subseteq On(queue) \cup On(mail)
  BY <1>1, <1>2, <1>3
<1>5. PartsStarted' /\ Imports' /\ Finished' /\ DoneIsHeld'
  <2>1. /\ On(queue)' \cup On(mail)' \subseteq On(queue) \cup On(mail)
        /\ On(reply)' = On(reply)
    BY <1>1, <1>4 DEF On
  <2>2. PartsStarted'
    BY <1>1, <2>1 DEF Inv, PartsStarted, IsPart
  <2>3. Imports'
    BY <1>1, <2>1 DEF Inv, Imports
  <2>4. Finished' /\ DoneIsHeld'
    BY <1>1 DEF Inv, Finished, DoneIsHeld
  <2> QED
    BY <2>2, <2>3, <2>4
<1>6. Handling' /\ ImportAnswered'
  BY <1>1, <1>3 DEF Inv, Handling, ImportAnswered, AckDue, IsPart
<1> QED
  BY <1>5, <1>6 DEF Books

\* A peer's Commit goes to the source, and to the target once it is a member.
LEMMA BooksPeerCommit ==
  ASSUME Inv, NEW c \in Chats, PeerCommit(c)
  PROVE  Books'
<1> DEFINE e == [kind |-> "commit", chat |-> c, epoch |-> latest[c] + 1]
<1>1. latest[c] + 1 \in Nat
  BY DEF Inv, TypeOK
<1>2. /\ e \in Envelope /\ ~IsPart(e) /\ e.kind # "ack"
      /\ mail \in Seq(Envelope) /\ reply \in Seq(Envelope)
      /\ mail' \in {mail, Append(mail, e)} /\ reply' = Append(reply, e)
      /\ UNCHANGED <<out, queue, in, have, tpc>>
  BY <1>1 DEF PeerCommit, sourceVars, targetVars, Inv, TypeOK, Envelope, IsPart
<1> HIDE DEF e
<1>3. /\ On(mail') \subseteq On(mail) \cup {e}
      /\ mail # <<>> => mail' # <<>> /\ Head(mail') = Head(mail)
      /\ On(reply') = On(reply) \cup {e}
  BY <1>2, Appended
<1>4. PartsStarted' /\ Imports' /\ Finished' /\ DoneIsHeld'
  BY <1>2, <1>3 DEF Inv, PartsStarted, Imports, Finished, DoneIsHeld, IsPart, On
<1>5. Handling' /\ ImportAnswered'
  BY <1>2, <1>3 DEF Inv, Handling, ImportAnswered, AckDue, IsPart
<1> QED
  BY <1>4, <1>5 DEF Books

\* The target joins or follows: no import is open at such a head.
LEMMA BooksReadMembership ==
  ASSUME Inv, ReadMembership
  PROVE  Books'
<1>1. /\ mail # <<>> /\ mail \in Seq(Envelope) /\ ~IsPart(Head(mail))
      /\ tpc = "read" /\ mail' = Tail(mail)
      /\ UNCHANGED <<out, queue, reply, in, have, tpc>>
  BY DEF ReadMembership, sourceVars, Inv, TypeOK, IsPart
<1>2. On(mail') \subseteq On(mail)
  BY <1>1, TakenOut
<1>3. \A c \in Chats : ~AckDue(c)
  BY <1>1 DEF Inv, ImportAnswered, IsPart
<1>4. PartsStarted' /\ Imports' /\ Finished' /\ DoneIsHeld'
  BY <1>1, <1>2 DEF Inv, PartsStarted, Imports, Finished, DoneIsHeld, IsPart, On
<1>5. Handling' /\ ImportAnswered'
  BY <1>1, <1>3 DEF Handling, ImportAnswered, AckDue
<1> QED
  BY <1>4, <1>5 DEF Books

\* A part is applied, and the transfer imported when it is complete.
LEMMA BooksApply ==
  ASSUME Inv, Apply
  PROVE  Books'
<1> DEFINE e == Head(mail)
           r == Applied(e)
           n == IF Counted(r) THEN Finalized(r) ELSE r
<1>1. /\ mail # <<>> /\ mail \in Seq(Envelope) /\ IsPart(e)
      /\ in' = [in EXCEPT ![e.chat] = n]
      /\ have' = IF Counted(r) THEN have \cup DOMAIN r.transcript ELSE have
      /\ tpc' = IF Counted(r) \/ r.state = "done" THEN "ack" ELSE "consume"
      /\ UNCHANGED <<out, queue, mail, reply>>
  BY DEF Apply, Imported, sourceVars, relayVars, Inv, TypeOK, IsPart
<1>2. e \in Envelope /\ e \in On(mail)
  BY <1>1, TakenOut
<1>3. e.chat \in Chats /\ in[e.chat] \in Inbound /\ in \in [Chats -> Inbound]
  BY <1>2, Fields DEF Inv, TypeOK
<1>4. r \in Inbound /\ n \in Inbound
  BY <1>2, AppliedType DEF Inv
<1>5. in[e.chat].state = "done" => r = in[e.chat] /\ ~Counted(r) /\ n = in[e.chat]
  BY DEF Applied, Counted
<1>6. /\ n.state = "done" => \/ Counted(r) /\ n.transcript = r.transcript
                             \/ ~Counted(r) /\ n = r
      /\ Counted(r) => r.state = "open" /\ n.state = "done"
  BY <1>4 DEF Counted, Finalized, Inbound
<1>7. r.state = "done" => in[e.chat].state = "done"
  <2>1. CASE e.kind = "manifest" /\ in[e.chat].state = "none"
    <3>1. r.state = "open"
      BY <1>3, <2>1 DEF Applied, Inbound
    <3> QED
      BY <3>1
  <2>2. CASE e.kind = "chunk" /\ in[e.chat].state = "open"
    <3>1. r.state = "open"
      BY <1>3, <2>2 DEF Applied, Inbound
    <3> QED
      BY <3>1
  <2> QED
    BY <2>1, <2>2 DEF Applied
<1>8. in' \in [Chats -> Inbound] /\ in'[e.chat] = n
      /\ \A c \in Chats : c # e.chat => in'[c] = in[c]
  <2> HIDE DEF n
  <2> QED
    BY <1>1, <1>3, <1>4
<1>9. PartsStarted'
  <2>1. out[e.chat].manifest
    BY <1>1, <1>2 DEF Inv, PartsStarted
  <2> HIDE DEF e, r, n
  <2> QED
    BY <1>1, <1>8, <2>1 DEF Inv, PartsStarted, On, IsPart
<1>10. have \subseteq have' /\ Counted(r) => DOMAIN n.transcript \subseteq have'
  <2>1. Counted(r) => n.transcript = r.transcript
    BY <1>4 DEF Finalized, Inbound
  <2> HIDE DEF e, n
  <2> QED
    BY <1>1, <2>1
<1>11. have \subseteq have'
  <2> HIDE DEF e, r, n
  <2> QED
    BY <1>1
<1> HIDE DEF e, r, n
<1>12. n.state = "done" /\ in[e.chat].state # "done" => Counted(r)
  BY <1>6, <1>7
<1>13. Imports'
  <2>1. ASSUME NEW c \in Chats, in'[c].state = "done"
        PROVE  DOMAIN in'[c].transcript \subseteq have'
    <3>1. CASE in[c].state = "done"
      BY <1>5, <1>8, <1>11, <2>1, <3>1 DEF Inv, Imports
    <3>2. CASE in[c].state # "done"
      BY <1>8, <1>10, <1>11, <1>12, <2>1, <3>2
    <3> QED
      BY <3>1, <3>2
  <2>2. On(reply)' = On(reply) /\ \A x \in On(reply) : x.chat \in Chats
    BY <1>1, OnTyped, Fields DEF Inv, TypeOK, On
  <2>3. \A c \in Chats : in[c].state = "done" => in'[c] = in[c]
    BY <1>5, <1>8
  <2> QED
    BY <2>1, <2>2, <2>3 DEF Inv, Imports
<1>14. Finished' /\ DoneIsHeld'
  BY <1>1, <1>11 DEF Inv, Finished, DoneIsHeld
<1>15. Handling'
  BY <1>1, <1>6, <1>7, <1>8, <1>3 DEF Handling, IsPart, e
<1>16. ImportAnswered'
  BY <1>1, <1>8 DEF Inv, ImportAnswered, AckDue, IsPart, e
<1> QED
  BY <1>9, <1>13, <1>14, <1>15, <1>16 DEF Books

\* The acknowledgement of an import is queued.
LEMMA BooksQueueAck ==
  ASSUME Inv, NEW c \in Chats, QueueAck(c)
  PROVE  Books'
<1> DEFINE e == [kind |-> "ack", chat |-> c, epoch |-> tEpoch[c],
                 transcript |-> in[c].transcript]
<1>1. /\ in \in [Chats -> Inbound] /\ in[c].state = "done" /\ tpc \in {"read", "ack"}
      /\ reply' = Append(reply, e) /\ reply \in Seq(Envelope)
      /\ in' = [in EXCEPT ![c].acked = TRUE]
      /\ UNCHANGED <<out, queue, mail, have, tpc>>
  BY DEF QueueAck, AckDue, sourceVars, Inv, TypeOK
<1>2. in[c].transcript \in Transcript /\ tEpoch[c] \in Nat
  BY <1>1 DEF Inv, TypeOK, Inbound
<1>3. e \in Envelope
  BY <1>2 DEF Envelope
<1>4. e.chat = c /\ e.transcript = in[c].transcript
  OBVIOUS
<1> HIDE DEF e
<1>5. On(reply)' = On(reply) \cup {e}
  BY <1>1, <1>3, Appended
<1>6. \A d \in Chats : /\ in'[d].state = in[d].state
                       /\ in'[d].transcript = in[d].transcript
                       /\ in'[d].acked = (in[d].acked \/ d = c)
  BY <1>1 DEF Inbound
<1>7. \A x \in On(reply) : x.chat \in Chats
  BY OnTyped, Fields DEF Inv, TypeOK
<1>8. PartsStarted'
  BY <1>1, <1>6 DEF Inv, PartsStarted, IsPart, On
<1>9. Imports'
  BY <1>1, <1>4, <1>5, <1>6, <1>7 DEF Inv, Imports
<1>10. Finished' /\ DoneIsHeld' /\ Handling'
  BY <1>1 DEF Inv, Finished, DoneIsHeld, Handling, IsPart
<1>11. ImportAnswered'
  BY <1>1, <1>6 DEF Inv, ImportAnswered, AckDue
<1> QED
  BY <1>8, <1>9, <1>10, <1>11 DEF Books

\* A delivery is consumed when nothing is left to acknowledge.
LEMMA BooksConsume ==
  ASSUME Inv, Consume
  PROVE  Books'
<1>1. /\ mail # <<>> /\ mail \in Seq(Envelope) /\ mail' = Tail(mail)
      /\ tpc' = "read" /\ UNCHANGED <<out, queue, reply, in, have>>
  BY DEF Consume, sourceVars, Inv, Handling, TypeOK
<1>2. On(mail') \subseteq On(mail)
  BY <1>1, TakenOut
<1>3. \A c \in Chats : ~AckDue(c)
  BY DEF Consume, Inv, Handling, ImportAnswered, AckDue
<1>4. PartsStarted' /\ Imports' /\ Finished' /\ DoneIsHeld'
  BY <1>1, <1>2 DEF Inv, PartsStarted, Imports, Finished, DoneIsHeld, IsPart, On
<1>5. Handling' /\ ImportAnswered'
  BY <1>1, <1>3 DEF Handling, ImportAnswered, AckDue
<1> QED
  BY <1>4, <1>5 DEF Books

\* The source drops its journal: an acknowledgement in flight names an import.
LEMMA BooksReadAck ==
  ASSUME Inv, ReadAck
  PROVE  Books'
<1> DEFINE e == Head(reply)
           c == e.chat
<1>1. /\ reply # <<>> /\ reply \in Seq(Envelope) /\ e.kind = "ack"
      /\ e.transcript = out[c].transcript
      /\ out' = [out EXCEPT ![c].state = "done"] /\ reply' \in {reply, Tail(reply)}
      /\ UNCHANGED <<queue, mail, in, have, tpc>>
  BY DEF ReadAck, targetVars, Inv, TypeOK
<1>2. e \in On(reply) /\ c \in Chats /\ On(Tail(reply)) \subseteq On(reply)
  BY <1>1, TakenOut, Fields
<1>3. in[c].state = "done" /\ out[c].transcript = in[c].transcript
  BY <1>1, <1>2 DEF Inv, Imports
<1>4. out[c].manifest /\ DOMAIN out[c].transcript \subseteq have
  BY <1>2, <1>3 DEF Inv, Imports, PartsStarted
<1> HIDE DEF e, c
<1>5. \A d \in Chats : /\ out'[d].manifest = out[d].manifest
                       /\ out'[d].transcript = out[d].transcript
                       /\ d # c => out'[d].state = out[d].state
  BY <1>1 DEF Inv, TypeOK, Outbound
<1>6. On(reply') \subseteq On(reply)
  BY <1>1, <1>2
<1>7. \A x \in On(queue) \cup On(mail) : x.chat \in Chats
  BY OnTyped, Fields DEF Inv, TypeOK
<1>8. PartsStarted'
  <2>1. On(mail)' = On(mail) /\ On(queue)' = On(queue)
    BY <1>1 DEF On
  <2> QED
    BY <1>1, <1>5, <1>7, <2>1 DEF Inv, PartsStarted, IsPart
<1>9. Imports'
  BY <1>1, <1>6 DEF Inv, Imports, On
<1>10. Finished' /\ DoneIsHeld'
  BY <1>1, <1>4, <1>5 DEF Inv, Finished, DoneIsHeld
<1>11. Handling' /\ ImportAnswered'
  BY <1>1 DEF Inv, Handling, ImportAnswered, AckDue, IsPart
<1> QED
  BY <1>8, <1>9, <1>10, <1>11 DEF Books

\* The source reads a change of the group: no record is touched.
LEMMA BooksReadCommit ==
  ASSUME Inv, ReadCommit
  PROVE  Books'
<1>1. /\ reply # <<>> /\ reply \in Seq(Envelope) /\ reply' = Tail(reply)
      /\ UNCHANGED <<out, queue, mail, in, have, tpc>>
  BY DEF ReadCommit, targetVars, Inv, TypeOK
<1>2. On(reply') \subseteq On(reply)
  BY <1>1, TakenOut
<1> QED
  BY <1>1, <1>2 DEF Inv, Books, PartsStarted, Imports, Finished, DoneIsHeld,
     Handling, ImportAnswered, AckDue, IsPart, On

-----------------------------------------------------------------------------
(* The order of what is sent.                                              *)

\* The places in a queue that has got one more envelope,
LEMMA AppendedAt ==
  ASSUME NEW s \in Seq(Envelope), NEW e \in Envelope
  PROVE  /\ DOMAIN Append(s, e) = DOMAIN s \cup {Len(s) + 1}
         /\ DOMAIN s \subseteq Nat /\ Len(s) + 1 \in Nat
         /\ \A i \in DOMAIN s : i < Len(s) + 1 /\ Append(s, e)[i] = s[i]
         /\ Append(s, e)[Len(s) + 1] = e
<1>1. DOMAIN s = 1 .. Len(s) /\ Len(s) \in Nat
  OBVIOUS
<1>2. DOMAIN Append(s, e) = 1 .. Len(s) + 1
  OBVIOUS
<1>3. /\ \A i \in 1 .. Len(s) : Append(s, e)[i] = s[i]
      /\ Append(s, e)[Len(s) + 1] = e
  OBVIOUS
<1> QED
  BY <1>1, <1>2, <1>3

\* and in one that has lost its head.
LEMMA TakenAt ==
  ASSUME NEW s \in Seq(Envelope), s # <<>>
  PROVE  /\ DOMAIN s \subseteq Nat \ {0} /\ 1 \in DOMAIN s /\ s[1] = Head(s)
         /\ DOMAIN Tail(s) \subseteq Nat \ {0}
         /\ \A i \in DOMAIN Tail(s) : i + 1 \in DOMAIN s /\ Tail(s)[i] = s[i + 1]
         /\ \A i \in DOMAIN s : i # 1 => /\ i - 1 \in DOMAIN Tail(s)
                                         /\ Tail(s)[i - 1] = s[i]
<1>1. DOMAIN s = 1 .. Len(s) /\ Len(s) \in Nat /\ Len(s) >= 1 /\ s[1] = Head(s)
  OBVIOUS
<1>2. /\ DOMAIN Tail(s) = 1 .. Len(s) - 1
      /\ \A i \in 1 .. Len(s) - 1 : Tail(s)[i] = s[i + 1]
  BY <1>1
<1> QED
  BY <1>1, <1>2

\* The fields of what is queued and in the mailboxes.
LEMMA InFlightTypes ==
  ASSUME TypeOK
  PROVE  /\ queue \in Seq(Envelope) /\ mail \in Seq(Envelope)
         /\ reply \in Seq(Envelope)
         /\ \A e \in On(queue) \cup On(mail) \cup On(reply) :
              e \in Envelope /\ e.chat \in Chats /\ e.epoch \in Nat
         /\ \A i \in DOMAIN queue : queue[i] \in On(queue)
         /\ \A i \in DOMAIN mail : mail[i] \in On(mail)
         /\ \A c \in Chats : /\ epoch[c] \in Nat /\ latest[c] \in Nat
                             /\ tEpoch[c] \in Nat
         /\ cur \in Chats /\ todo \subseteq Chats
<1>1. /\ queue \in Seq(Envelope) /\ mail \in Seq(Envelope) /\ reply \in Seq(Envelope)
      /\ \A c \in Chats : /\ epoch[c] \in Nat /\ latest[c] \in Nat
                          /\ tEpoch[c] \in Nat
      /\ cur \in Chats /\ todo \subseteq Chats
  BY DEF TypeOK
<1>2. On(queue) \cup On(mail) \cup On(reply) \subseteq Envelope
  BY <1>1, OnTyped
<1>3. \A e \in Envelope : e.chat \in Chats /\ e.epoch \in Nat
  BY Fields
<1> QED
  BY <1>1, <1>2, <1>3 DEF On

\* What is sent is in order with what was sent already.
LEMMA TransitKept ==
  ASSUME InTransit, UNCHANGED <<member, epoch, queue, latest, mail, forked, tEpoch>>,
         \A e \in On(reply)' : e.kind = "commit" => e \in On(reply)
  PROVE  InTransit'
<1>1. On(queue)' = On(queue) /\ On(mail)' = On(mail)
  BY DEF On
<1>2. \A c : Caught(c)' <=> Caught(c)
  BY <1>1 DEF Caught
<1>3. Outside' /\ CommitsAnnounced'
  BY <1>1 DEF InTransit, Outside, CommitsAnnounced
<1>4. WelcomeSent' /\ PartsBehind'
  BY <1>1, <1>2 DEF InTransit, WelcomeSent, PartsBehind, AfterWelcome
<1>5. ChangesInOrder' /\ PartsInOrder'
  BY <1>1 DEF InTransit, ChangesInOrder, PartsInOrder
<1> QED
  BY <1>3, <1>4, <1>5 DEF InTransit

\* The device is added: nothing of the chat is sent yet, and what the source
\* has not read is left on another branch.
LEMMA TransitAdd ==
  ASSUME Inv, Order, Add
  PROVE  InTransit'
<1>1. /\ member' = [member EXCEPT ![cur] = "added"]
      /\ epoch' = [epoch EXCEPT ![cur] = @ + 1]
      /\ latest' = [latest EXCEPT ![cur] = epoch[cur]]
      /\ member[cur] = "out"
      /\ UNCHANGED <<queue, mail, reply, tEpoch>>
  BY DEF Add, targetVars, Order, Welcomed
<1>2. TypeOK /\ InTransit
  BY DEF Inv, Order
<1>3. /\ cur \in Chats /\ epoch[cur] \in Nat /\ latest[cur] \in Nat
      /\ epoch[cur] <= latest[cur] /\ tEpoch[cur] = 0
      /\ \A e \in On(queue) \cup On(mail) : e.chat # cur /\ e.chat \in Chats
  BY <1>1, <1>2, InFlightTypes DEF InTransit, Outside
<1>4. /\ member'[cur] = "added" /\ latest'[cur] = epoch[cur]
      /\ epoch'[cur] = latest'[cur] + 1
      /\ \A c \in Chats : c # cur =>
           member'[c] = member[c] /\ epoch'[c] = epoch[c] /\ latest'[c] = latest[c]
  BY <1>1, <1>2, <1>3 DEF TypeOK
<1>5. On(queue)' = On(queue) /\ On(mail)' = On(mail) /\ On(reply)' = On(reply)
  BY <1>1 DEF On
<1>6. \A c \in Chats : c # cur => (Caught(c)' <=> Caught(c))
  BY <1>1, <1>4, <1>5 DEF Caught
<1>7. Outside'
  BY <1>1, <1>2, <1>3, <1>4, <1>5 DEF InTransit, Outside
<1>8. WelcomeSent'
  BY <1>1, <1>2, <1>3, <1>4, <1>5, <1>6 DEF InTransit, WelcomeSent
<1>9. PartsBehind'
  <2>1. \A x \in On(queue)' : x.kind \in {"join", "manifest", "chunk"}
    BY <1>2, <1>5 DEF InTransit, PartsBehind
  <2>2. ASSUME NEW c \in Chats, NEW i \in DOMAIN queue',
               IsPart(queue'[i]), queue'[i].chat = c
        PROVE  AfterWelcome(c, i)'
    <3>1. c # cur
      BY <1>1, <1>3, <2>2 DEF On
    <3>2. AfterWelcome(c, i)
      BY <1>1, <1>2, <2>2 DEF InTransit, PartsBehind
    <3> QED
      BY <1>1, <1>4, <1>6, <3>1, <3>2 DEF AfterWelcome
  <2> QED
    BY <2>1, <2>2 DEF PartsBehind, IsPart
<1>10. ChangesInOrder'
  <2>1. \A c \in Chats : tEpoch'[c] <= latest'[c]
    BY <1>1, <1>2, <1>3, <1>4 DEF InTransit, ChangesInOrder
  <2>2. \A e \in On(mail)' : latest'[e.chat] = latest[e.chat]
    BY <1>3, <1>4, <1>5
  <2> QED
    BY <1>1, <1>2, <1>5, <2>1, <2>2 DEF InTransit, ChangesInOrder
<1>11. PartsInOrder'
  BY <1>1, <1>2, <1>5 DEF InTransit, PartsInOrder
<1>12. CommitsAnnounced'
  <2> SUFFICES ASSUME NEW e \in On(reply)', e.kind = "commit"
               PROVE  e.chat \in forked' \/ e.epoch <= latest'[e.chat]
    BY DEF CommitsAnnounced
  <2>1. e.chat \in Chats /\ (e.chat \in forked \/ e.epoch <= latest[e.chat])
    BY <1>2, <1>5, InFlightTypes DEF InTransit, CommitsAnnounced
  <2>2. CASE epoch[cur] = latest[cur]
    <3>1. latest'[e.chat] = latest[e.chat] /\ forked' = forked
      BY <1>4, <2>1, <2>2 DEF Add
    <3> QED
      BY <2>1, <3>1
  <2>3. CASE epoch[cur] # latest[cur]
    <3>1. forked' = forked \cup {cur}
      BY <2>3 DEF Add
    <3> QED
      BY <1>4, <2>1, <3>1
  <2> QED
    BY <2>2, <2>3
<1> QED
  BY <1>7, <1>8, <1>9, <1>10, <1>11, <1>12 DEF InTransit

\* The Welcome is queued, once for a chat.
LEMMA TransitStage ==
  ASSUME Inv, Order, Stage
  PROVE  InTransit'
<1> DEFINE e == [kind |-> "join", chat |-> cur, epoch |-> epoch[cur]]
           n == Len(queue) + 1
<1>1. /\ member' = [member EXCEPT ![cur] = "queued"]
      /\ queue' = Append(queue, e) /\ member[cur] = "added"
      /\ UNCHANGED <<epoch, latest, mail, reply, forked, tEpoch>>
  BY DEF Stage, relayVars, targetVars, Order, Welcomed
<1>2. TypeOK /\ InTransit
  BY DEF Inv, Order
<1>3. /\ e \in Envelope /\ e.kind = "join" /\ e.chat = cur /\ e.epoch = epoch[cur]
      /\ queue \in Seq(Envelope)
  BY <1>2, InFlightTypes, Envelopes
<1> HIDE DEF e
<1>4. /\ On(queue)' = On(queue) \cup {e} /\ On(mail)' = On(mail)
      /\ On(reply)' = On(reply)
  <2>1. On(Append(queue, e)) = On(queue) \cup {e}
    BY <1>3, Appended
  <2> QED
    BY <1>1, <2>1 DEF On
<1>5. /\ DOMAIN queue' = DOMAIN queue \cup {n} /\ n \in Nat
      /\ DOMAIN queue \subseteq Nat
      /\ \A i \in DOMAIN queue : i < n /\ queue'[i] = queue[i]
      /\ queue'[n] = e
  BY <1>1, <1>3, AppendedAt
<1> HIDE DEF n
<1>6. \A c : Caught(c)' <=> Caught(c)
  BY <1>1, <1>4 DEF Caught
<1>7. /\ \A x \in On(queue) : x.chat # cur
      /\ epoch[cur] = latest[cur] + 1 /\ latest[cur] \in Nat /\ cur \in Chats
  BY <1>1, <1>2, InFlightTypes DEF InTransit, Outside
<1>8. /\ member'[cur] = "queued"
      /\ \A c \in Chats : c # cur => member'[c] = member[c]
  BY <1>1, <1>2 DEF TypeOK
<1>9. Outside'
  BY <1>1, <1>2, <1>3, <1>4, <1>8 DEF InTransit, Outside
<1>10. WelcomeSent'
  <2>1. \A c \in Chats : member'[c] = "queued" =>
          \/ Caught(c)' /\ epoch'[c] <= latest'[c]
          \/ \E x \in On(queue)' : x.kind = "join" /\ x.chat = c
    BY <1>1, <1>2, <1>3, <1>4, <1>6, <1>8 DEF InTransit, WelcomeSent
  <2>2. \A x \in On(queue)' :
          x.kind = "join" => x.epoch = epoch'[x.chat] /\ latest'[x.chat] < x.epoch
    BY <1>1, <1>2, <1>3, <1>4, <1>7 DEF InTransit, WelcomeSent
  <2>3. \A i \in DOMAIN queue : queue'[i].chat # cur
    BY <1>2, <1>5, <1>7, InFlightTypes
  <2>4. \A i, j \in DOMAIN queue' :
          queue'[i].kind = "join" /\ queue'[j].kind = "join"
            /\ queue'[i].chat = queue'[j].chat => i = j
    BY <1>2, <1>3, <1>5, <2>3 DEF InTransit, WelcomeSent
  <2> QED
    BY <2>1, <2>2, <2>4 DEF WelcomeSent
<1>11. PartsBehind'
  <2>1. \A x \in On(queue)' : x.kind \in {"join", "manifest", "chunk"}
    BY <1>2, <1>3, <1>4 DEF InTransit, PartsBehind
  <2>2. ASSUME NEW c \in Chats, NEW i \in DOMAIN queue',
               IsPart(queue'[i]), queue'[i].chat = c
        PROVE  AfterWelcome(c, i)'
    <3>1. i \in DOMAIN queue /\ queue'[i] = queue[i]
      BY <1>3, <1>5, <2>2 DEF IsPart
    <3>2. AfterWelcome(c, i)
      BY <1>2, <2>2, <3>1 DEF InTransit, PartsBehind
    <3> QED
      BY <1>1, <1>5, <1>6, <3>1, <3>2 DEF AfterWelcome
  <2> QED
    BY <2>1, <2>2 DEF PartsBehind, IsPart
<1>12. ChangesInOrder' /\ PartsInOrder' /\ CommitsAnnounced'
  BY <1>1, <1>2, <1>4 DEF InTransit, ChangesInOrder, PartsInOrder, CommitsAnnounced
<1> QED
  BY <1>9, <1>10, <1>11, <1>12 DEF InTransit

\* A part is queued behind the Welcome of its chat.
LEMMA TransitPart ==
  ASSUME Inv, Order, QueuePart
  PROVE  InTransit'
<1> DEFINE n == Len(queue) + 1
<1>1. /\ pc = "parts" /\ NextPart(cur)
      /\ UNCHANGED <<member, epoch, latest, mail, reply, forked, tEpoch>>
  BY DEF QueuePart, relayVars, targetVars
<1>2. TypeOK /\ InTransit /\ member[cur] = "queued" /\ cur \in Chats
  BY <1>1, InFlightTypes DEF Inv, Order, Welcomed
<1>3. PICK e \in Envelope : /\ queue' = Append(queue, e) /\ IsPart(e)
                            /\ e.chat = cur /\ e.epoch = epoch[cur]
  <2>1. CASE queue' = Append(queue, ManifestOf(cur))
    <3>1. out[cur].transcript \in Transcript /\ epoch[cur] \in Nat
      BY <1>2 DEF TypeOK, Outbound
    <3>2. /\ ManifestOf(cur) \in Envelope /\ IsPart(ManifestOf(cur))
          /\ ManifestOf(cur).chat = cur /\ ManifestOf(cur).epoch = epoch[cur]
      BY <1>2, <3>1 DEF ManifestOf, Envelope, IsPart
    <3> QED
      BY <2>1, <3>2
  <2>2. CASE \E m \in ToStage(cur) : queue' = Append(queue, ChunkOf(cur, m))
    <3>1. PICK m \in ToStage(cur) : queue' = Append(queue, ChunkOf(cur, m))
      BY <2>2
    <3>2. m \in Messages /\ epoch[cur] \in Nat
      <4>1. out[cur].transcript \in Transcript
        BY <1>2 DEF TypeOK, Outbound
      <4> QED
        BY <1>2, <4>1, DomainOf, InFlightTypes DEF ToStage
    <3>3. Snapshot({m})[m] \in BOOLEAN
      BY DEF Snapshot
    <3>4. /\ ChunkOf(cur, m) \in Envelope /\ IsPart(ChunkOf(cur, m))
          /\ ChunkOf(cur, m).chat = cur /\ ChunkOf(cur, m).epoch = epoch[cur]
      BY <1>2, <3>2, <3>3 DEF ChunkOf, Chunk, Envelope, IsPart
    <3> QED
      BY <3>1, <3>4
  <2> QED
    BY <1>1, <2>1, <2>2 DEF NextPart
<1>4. /\ On(queue)' = On(queue) \cup {e} /\ On(mail)' = On(mail)
      /\ On(reply)' = On(reply)
  <2>1. On(Append(queue, e)) = On(queue) \cup {e}
    BY <1>2, InFlightTypes, Appended
  <2> QED
    BY <1>1, <1>3, <2>1 DEF On
<1>5. /\ DOMAIN queue' = DOMAIN queue \cup {n} /\ n \in Nat
      /\ DOMAIN queue \subseteq Nat
      /\ \A i \in DOMAIN queue : i < n /\ queue'[i] = queue[i]
      /\ queue'[n] = e
  BY <1>2, <1>3, InFlightTypes, AppendedAt
<1> HIDE DEF n
<1>6. \A c : Caught(c)' <=> Caught(c)
  BY <1>1, <1>4 DEF Caught
<1>7. Outside'
  BY <1>1, <1>2, <1>3, <1>4 DEF InTransit, Outside
<1>8. WelcomeSent'
  <2>1. e.kind # "join"
    BY <1>3 DEF IsPart
  <2> QED
    BY <1>1, <1>2, <1>4, <1>5, <1>6, <2>1 DEF InTransit, WelcomeSent
<1>9. PartsBehind'
  <2>1. \A x \in On(queue)' : x.kind \in {"join", "manifest", "chunk"}
    BY <1>2, <1>3, <1>4 DEF InTransit, PartsBehind, IsPart
  <2>2. ASSUME NEW c \in Chats, NEW i \in DOMAIN queue',
               IsPart(queue'[i]), queue'[i].chat = c
        PROVE  AfterWelcome(c, i)'
    <3>1. CASE i \in DOMAIN queue
      <4>1. queue'[i] = queue[i]
        BY <1>5, <3>1
      <4>2. AfterWelcome(c, i)
        BY <1>2, <2>2, <3>1, <4>1 DEF InTransit, PartsBehind
      <4> QED
        BY <1>1, <1>5, <1>6, <3>1, <4>2 DEF AfterWelcome
    <3>2. CASE i = n
      <4>1. CASE Caught(cur) /\ epoch[cur] <= latest[cur]
        BY <1>1, <1>3, <1>5, <1>6, <2>2, <3>2, <4>1 DEF AfterWelcome
      <4>2. CASE \E x \in On(queue) : x.kind = "join" /\ x.chat = cur
        <5>1. PICK j \in DOMAIN queue : queue[j].kind = "join" /\ queue[j].chat = cur
          BY <4>2 DEF On
        <5>2. queue[j].epoch = epoch[cur] /\ epoch[cur] \in Nat
          BY <1>2, <5>1, InFlightTypes DEF InTransit, WelcomeSent
        <5> QED
          BY <1>3, <1>5, <2>2, <3>2, <5>1, <5>2 DEF AfterWelcome
      <4> QED
        BY <1>2, <4>1, <4>2 DEF InTransit, WelcomeSent
    <3> QED
      BY <1>5, <2>2, <3>1, <3>2
  <2> QED
    BY <2>1, <2>2 DEF PartsBehind, IsPart
<1>10. ChangesInOrder' /\ PartsInOrder' /\ CommitsAnnounced'
  BY <1>1, <1>2, <1>4 DEF InTransit, ChangesInOrder, PartsInOrder, CommitsAnnounced
<1> QED
  BY <1>7, <1>8, <1>9, <1>10 DEF InTransit

\* A chat whose last change the target has or gets keeps that while parts are
\* added or read.
LEMMA CaughtGrows ==
  ASSUME NEW c, Caught(c), On(mail) \subseteq On(mail)',
         latest'[c] = latest[c], tEpoch' = tEpoch
  PROVE  Caught(c)'
  BY DEF Caught

\* The Welcome reaches the relay: the first change of its chat.
LEMMA TransitSendWelcome ==
  ASSUME Inv, Order, Send, Head(queue).kind = "join"
  PROVE  InTransit'
<1>0. PICK d \in Chats : d = Head(queue).chat
  <2>1. Head(queue) \in Envelope
    BY TakenOut DEF Send, Inv, TypeOK
  <2> QED
    BY <2>1, Fields
<1> DEFINE e == Head(queue)
           n == Len(mail) + 1
<1>1. /\ queue # <<>> /\ queue' = Tail(queue) /\ mail' = Append(mail, e)
      /\ latest' = [latest EXCEPT ![d] = e.epoch]
      /\ UNCHANGED <<member, epoch, reply, forked, tEpoch>>
  BY <1>0 DEF Send, targetVars
<1>2. TypeOK /\ InTransit
  BY DEF Inv, Order
<1>3. /\ e \in On(queue) /\ e \in Envelope /\ On(Tail(queue)) \subseteq On(queue)
      /\ d \in Chats /\ e.epoch \in Nat /\ e.kind = "join" /\ e.chat = d
  BY <1>0, <1>1, <1>2, TakenOut, InFlightTypes
<1>4. /\ DOMAIN queue \subseteq Nat \ {0} /\ 1 \in DOMAIN queue /\ queue[1] = e
      /\ DOMAIN queue' \subseteq Nat \ {0}
      /\ \A i \in DOMAIN queue' : i + 1 \in DOMAIN queue /\ queue'[i] = queue[i + 1]
      /\ \A i \in DOMAIN queue : i # 1 => /\ i - 1 \in DOMAIN queue'
                                          /\ queue'[i - 1] = queue[i]
  BY <1>1, <1>2, TakenAt, InFlightTypes
<1>5. /\ DOMAIN mail' = DOMAIN mail \cup {n} /\ n \in Nat
      /\ DOMAIN mail \subseteq Nat
      /\ \A i \in DOMAIN mail : i < n /\ mail'[i] = mail[i]
      /\ mail'[n] = e
  BY <1>1, <1>2, <1>3, AppendedAt, InFlightTypes
<1>6. On(mail)' = On(mail) \cup {e} /\ On(reply)' = On(reply)
        /\ On(queue)' \subseteq On(queue)
        /\ On(queue) \subseteq On(queue)' \cup {e}
  <2>1. On(Append(mail, e)) = On(mail) \cup {e}
    BY <1>2, <1>3, InFlightTypes, Appended
  <2>2. On(queue) \subseteq On(queue)' \cup {e}
    BY <1>4 DEF On
  <2> QED
    BY <1>1, <1>3, <2>1, <2>2 DEF On
<1>7. /\ e.epoch = epoch[d] /\ latest[d] < e.epoch /\ member[d] = "queued"
  BY <1>2, <1>3 DEF InTransit, WelcomeSent, Outside, TypeOK
<1>8. /\ latest'[d] = e.epoch /\ latest[d] \in Nat
      /\ \A c \in Chats : c # d => latest'[c] = latest[c]
      /\ \A c \in Chats : latest[c] <= latest'[c] /\ latest[c] \in Nat
                            /\ latest'[c] \in Nat
  BY <1>1, <1>2, <1>3, <1>7, InFlightTypes DEF TypeOK
<1> HIDE DEF e, n
<1>9. \A i \in DOMAIN queue' : queue'[i].kind = "join" => queue'[i].chat # d
  <2> SUFFICES ASSUME NEW i \in DOMAIN queue', queue'[i].kind = "join",
                      queue'[i].chat = d
               PROVE  FALSE
    OBVIOUS
  <2>1. i + 1 \in DOMAIN queue /\ queue[i + 1].kind = "join"
          /\ queue[i + 1].chat = queue[1].chat /\ queue[1].kind = "join"
    BY <1>3, <1>4
  <2>2. i + 1 = 1 /\ i \in Nat \ {0}
    BY <1>2, <1>4, <2>1 DEF InTransit, WelcomeSent
  <2> QED
    BY <2>2
<1>10. Caught(d)'
  BY <1>3, <1>6, <1>8 DEF Caught, Changes
<1>11. \A c \in Chats : c # d => (Caught(c) => Caught(c)')
  BY <1>1, <1>6, <1>8, CaughtGrows
<1>12. Outside'
  BY <1>1, <1>2, <1>3, <1>6, <1>7, <1>8 DEF InTransit, Outside
<1>13. WelcomeSent'
  <2>1. ASSUME NEW c \in Chats, member'[c] = "queued"
        PROVE  \/ Caught(c)' /\ epoch'[c] <= latest'[c]
               \/ \E x \in On(queue)' : x.kind = "join" /\ x.chat = c
    <3>1. CASE c = d
      BY <1>1, <1>2, <1>7, <1>8, <1>10, <3>1, InFlightTypes
    <3>2. CASE c # d
      BY <1>1, <1>2, <1>3, <1>6, <1>8, <1>11, <2>1, <3>2 DEF InTransit, WelcomeSent
    <3> QED
      BY <3>1, <3>2
  <2>2. ASSUME NEW x \in On(queue)', x.kind = "join"
        PROVE  x.epoch = epoch'[x.chat] /\ latest'[x.chat] < x.epoch
    <3>1. x.chat # d /\ x \in On(queue) /\ x.chat \in Chats
      BY <1>2, <1>6, <1>9, <2>2, InFlightTypes DEF On
    <3> QED
      BY <1>1, <1>2, <1>8, <2>2, <3>1 DEF InTransit, WelcomeSent
  <2>3. ASSUME NEW i \in DOMAIN queue', NEW j \in DOMAIN queue',
               queue'[i].kind = "join", queue'[j].kind = "join",
               queue'[i].chat = queue'[j].chat
        PROVE  i = j
    <3>1. i + 1 = j + 1 /\ i \in Nat /\ j \in Nat
      BY <1>2, <1>4, <2>3 DEF InTransit, WelcomeSent
    <3> QED
      BY <3>1
  <2> QED
    BY <2>1, <2>2, <2>3 DEF WelcomeSent
<1>14. PartsBehind'
  <2>1. \A x \in On(queue)' : x.kind \in {"join", "manifest", "chunk"}
    BY <1>2, <1>6 DEF InTransit, PartsBehind
  <2>2. ASSUME NEW c \in Chats, NEW i \in DOMAIN queue',
               IsPart(queue'[i]), queue'[i].chat = c
        PROVE  AfterWelcome(c, i)'
    <3>1. i + 1 \in DOMAIN queue /\ queue'[i] = queue[i + 1] /\ i \in Nat
      BY <1>4
    <3>2. AfterWelcome(c, i + 1)
      BY <1>2, <2>2, <3>1 DEF InTransit, PartsBehind
    <3>3. queue[i + 1].epoch \in Nat
      BY <1>2, <3>1, InFlightTypes
    <3>4. CASE Caught(c) /\ queue[i + 1].epoch <= latest[c]
      <4>1. Caught(c)' /\ queue'[i].epoch <= latest'[c]
        BY <1>8, <1>10, <1>11, <3>1, <3>3, <3>4
      <4> QED
        BY <4>1 DEF AfterWelcome
    <3>5. CASE \E j \in DOMAIN queue :
                 /\ j < i + 1 /\ queue[j].kind = "join" /\ queue[j].chat = c
                 /\ queue[i + 1].epoch <= queue[j].epoch
      <4>1. PICK j \in DOMAIN queue :
                 /\ j < i + 1 /\ queue[j].kind = "join" /\ queue[j].chat = c
                 /\ queue[i + 1].epoch <= queue[j].epoch
        BY <3>5
      <4>2. CASE j = 1
        <5>1. Caught(c)' /\ queue'[i].epoch <= latest'[c]
          BY <1>3, <1>4, <1>8, <1>10, <3>1, <4>1, <4>2
        <5> QED
          BY <5>1 DEF AfterWelcome
      <4>3. CASE j # 1
        <5>1. j - 1 \in DOMAIN queue' /\ queue'[j - 1] = queue[j] /\ j - 1 < i
          BY <1>4, <3>1, <4>1, <4>3
        <5> QED
          BY <3>1, <4>1, <5>1 DEF AfterWelcome
      <4> QED
        BY <4>2, <4>3
    <3> QED
      BY <3>2, <3>4, <3>5 DEF AfterWelcome
  <2> QED
    BY <2>1, <2>2 DEF PartsBehind, IsPart
<1>15. ChangesInOrder'
  <2>1. \A c \in Chats : tEpoch'[c] <= latest'[c]
    BY <1>1, <1>2, <1>8, InFlightTypes DEF InTransit, ChangesInOrder
  <2>2. ASSUME NEW x \in On(mail)', Changes(x)
        PROVE  tEpoch'[x.chat] < x.epoch /\ x.epoch <= latest'[x.chat]
    <3>1. CASE x \in On(mail)
      BY <1>1, <1>2, <1>8, <2>2, <3>1, InFlightTypes DEF InTransit, ChangesInOrder
    <3>2. CASE x = e
      BY <1>1, <1>2, <1>3, <1>7, <1>8, <3>2, InFlightTypes DEF InTransit, ChangesInOrder
    <3> QED
      BY <1>6, <3>1, <3>2
  <2>3. ASSUME NEW i \in DOMAIN mail', NEW j \in DOMAIN mail', i < j,
               Changes(mail'[i]), Changes(mail'[j]), mail'[i].chat = mail'[j].chat
        PROVE  mail'[i].epoch < mail'[j].epoch
    <3>1. i \in DOMAIN mail /\ mail'[i] = mail[i]
      BY <1>5, <2>3
    <3>2. CASE j \in DOMAIN mail
      BY <1>2, <1>5, <2>3, <3>1, <3>2 DEF InTransit, ChangesInOrder
    <3>3. CASE j = n
      <4>1. mail[i] \in On(mail) /\ mail[i].chat = d /\ mail[i].epoch \in Nat
        BY <1>2, <1>3, <1>5, <2>3, <3>1, <3>3, InFlightTypes
      <4>2. mail[i].epoch <= latest[d]
        BY <1>2, <2>3, <3>1, <4>1 DEF InTransit, ChangesInOrder
      <4> QED
        BY <1>3, <1>5, <1>7, <1>8, <3>1, <3>3, <4>1, <4>2
    <3> QED
      BY <1>5, <3>2, <3>3
  <2>4. ASSUME NEW i \in DOMAIN mail', mail'[i].kind = "commit"
        PROVE  \/ tEpoch'[mail'[i].chat] + 1 = mail'[i].epoch
               \/ \E j \in DOMAIN mail' :
                    /\ j < i /\ Changes(mail'[j]) /\ mail'[j].chat = mail'[i].chat
                    /\ mail'[j].epoch + 1 = mail'[i].epoch
    <3>1. i \in DOMAIN mail /\ mail'[i] = mail[i]
      BY <1>3, <1>5, <2>4
    <3>2. CASE tEpoch[mail[i].chat] + 1 = mail[i].epoch
      BY <1>1, <1>5, <2>4, <3>1, <3>2
    <3>3. ASSUME NEW j \in DOMAIN mail, j < i, Changes(mail[j]),
                 mail[j].chat = mail[i].chat, mail[j].epoch + 1 = mail[i].epoch
          PROVE  \E k \in DOMAIN mail' :
                   /\ k < i /\ Changes(mail'[k]) /\ mail'[k].chat = mail'[i].chat
                   /\ mail'[k].epoch + 1 = mail'[i].epoch
      BY <1>5, <3>1, <3>3
    <3> QED
      BY <1>2, <2>4, <3>1, <3>2, <3>3 DEF InTransit, ChangesInOrder
  <2> QED
    BY <2>1, <2>2, <2>3, <2>4 DEF ChangesInOrder, Changes
<1>16. PartsInOrder'
  <2>1. \A x \in On(mail)' : Changes(x) \/ IsPart(x)
    BY <1>2, <1>3, <1>6 DEF InTransit, PartsInOrder, Changes
  <2>2. ASSUME NEW i \in DOMAIN mail', IsPart(mail'[i])
        PROVE  \/ mail'[i].epoch <= tEpoch'[mail'[i].chat]
               \/ \E j \in DOMAIN mail' :
                    /\ j < i /\ Changes(mail'[j]) /\ mail'[j].chat = mail'[i].chat
                    /\ mail'[i].epoch <= mail'[j].epoch
    <3>1. i \in DOMAIN mail /\ mail'[i] = mail[i]
      BY <1>3, <1>5, <2>2 DEF IsPart
    <3> QED
      BY <1>1, <1>2, <1>5, <2>2, <3>1 DEF InTransit, PartsInOrder
  <2> QED
    BY <2>1, <2>2 DEF PartsInOrder, Changes, IsPart
<1>17. CommitsAnnounced'
  BY <1>1, <1>2, <1>6, <1>8, InFlightTypes DEF InTransit, CommitsAnnounced
<1> QED
  BY <1>12, <1>13, <1>14, <1>15, <1>16, <1>17 DEF InTransit

\* A part reaches the relay: the change it comes after is there already.
LEMMA TransitSendPart ==
  ASSUME Inv, Order, Send, Head(queue).kind # "join"
  PROVE  InTransit'
<1>0. PICK d \in Chats : d = Head(queue).chat
  <2>1. Head(queue) \in Envelope
    BY TakenOut DEF Send, Inv, TypeOK
  <2> QED
    BY <2>1, Fields
<1> DEFINE e == Head(queue)
           n == Len(mail) + 1
<1>1. /\ queue # <<>> /\ queue' = Tail(queue) /\ mail' = Append(mail, e)
      /\ UNCHANGED <<member, epoch, latest, reply, forked, tEpoch>>
  BY DEF Send, targetVars
<1>2. TypeOK /\ InTransit
  BY DEF Inv, Order
<1>3. /\ e \in On(queue) /\ e \in Envelope /\ On(Tail(queue)) \subseteq On(queue)
      /\ e.epoch \in Nat /\ e.kind # "join" /\ e.chat = d
  BY <1>0, <1>1, <1>2, TakenOut, InFlightTypes
<1>4. /\ DOMAIN queue \subseteq Nat \ {0} /\ 1 \in DOMAIN queue /\ queue[1] = e
      /\ DOMAIN queue' \subseteq Nat \ {0}
      /\ \A i \in DOMAIN queue' : i + 1 \in DOMAIN queue /\ queue'[i] = queue[i + 1]
      /\ \A i \in DOMAIN queue : i # 1 => /\ i - 1 \in DOMAIN queue'
                                          /\ queue'[i - 1] = queue[i]
  BY <1>1, <1>2, TakenAt, InFlightTypes
<1>5. /\ DOMAIN mail' = DOMAIN mail \cup {n} /\ n \in Nat
      /\ DOMAIN mail \subseteq Nat
      /\ \A i \in DOMAIN mail : i < n /\ mail'[i] = mail[i]
      /\ mail'[n] = e
  BY <1>1, <1>2, <1>3, AppendedAt, InFlightTypes
<1>6. On(mail)' = On(mail) \cup {e} /\ On(reply)' = On(reply)
        /\ On(queue)' \subseteq On(queue)
        /\ On(queue) \subseteq On(queue)' \cup {e}
  <2>1. On(Append(mail, e)) = On(mail) \cup {e}
    BY <1>2, <1>3, InFlightTypes, Appended
  <2>2. On(queue) \subseteq On(queue)' \cup {e}
    BY <1>4 DEF On
  <2> QED
    BY <1>1, <1>3, <2>1, <2>2 DEF On
<1>7. IsPart(e) /\ ~Changes(e)
  BY <1>2, <1>3 DEF InTransit, PartsBehind, IsPart, Changes
<1>8. Caught(d) /\ e.epoch <= latest[d]
  <2>1. AfterWelcome(d, 1)
    BY <1>2, <1>3, <1>4, <1>7 DEF InTransit, PartsBehind
  <2>2. \A j \in DOMAIN queue : ~(j < 1)
    BY <1>4
  <2> QED
    BY <1>4, <2>1, <2>2 DEF AfterWelcome
<1> HIDE DEF e, n
<1>9. \A c : Caught(c) => Caught(c)'
  BY <1>1, <1>6, CaughtGrows
<1>10. Outside'
  BY <1>1, <1>2, <1>3, <1>6 DEF InTransit, Outside
<1>11. WelcomeSent'
  <2>1. \A c \in Chats : member'[c] = "queued" =>
          \/ Caught(c)' /\ epoch'[c] <= latest'[c]
          \/ \E x \in On(queue)' : x.kind = "join" /\ x.chat = c
    BY <1>1, <1>2, <1>3, <1>6, <1>9 DEF InTransit, WelcomeSent
  <2>2. ASSUME NEW i \in DOMAIN queue', NEW j \in DOMAIN queue',
               queue'[i].kind = "join", queue'[j].kind = "join",
               queue'[i].chat = queue'[j].chat
        PROVE  i = j
    <3>1. i + 1 = j + 1 /\ i \in Nat /\ j \in Nat
      BY <1>2, <1>4, <2>2 DEF InTransit, WelcomeSent
    <3> QED
      BY <3>1
  <2>3. \A x \in On(queue)' :
          x.kind = "join" => x.epoch = epoch'[x.chat] /\ latest'[x.chat] < x.epoch
    BY <1>1, <1>2, <1>6 DEF InTransit, WelcomeSent
  <2> QED
    BY <2>1, <2>2, <2>3 DEF WelcomeSent
<1>12. PartsBehind'
  <2>1. \A x \in On(queue)' : x.kind \in {"join", "manifest", "chunk"}
    BY <1>2, <1>6 DEF InTransit, PartsBehind
  <2>2. ASSUME NEW c \in Chats, NEW i \in DOMAIN queue',
               IsPart(queue'[i]), queue'[i].chat = c
        PROVE  AfterWelcome(c, i)'
    <3>1. i + 1 \in DOMAIN queue /\ queue'[i] = queue[i + 1] /\ i \in Nat
      BY <1>4
    <3>2. AfterWelcome(c, i + 1)
      BY <1>2, <2>2, <3>1 DEF InTransit, PartsBehind
    <3>3. CASE Caught(c) /\ queue[i + 1].epoch <= latest[c]
      BY <1>1, <1>9, <3>1, <3>3 DEF AfterWelcome
    <3>4. ASSUME NEW j \in DOMAIN queue, j < i + 1, queue[j].kind = "join",
                 queue[j].chat = c, queue[i + 1].epoch <= queue[j].epoch
          PROVE  AfterWelcome(c, i)'
      <4>1. j # 1
        BY <1>3, <1>4, <3>4
      <4>2. j - 1 \in DOMAIN queue' /\ queue'[j - 1] = queue[j] /\ j - 1 < i
        BY <1>4, <3>1, <3>4, <4>1
      <4> QED
        BY <3>1, <3>4, <4>2 DEF AfterWelcome
    <3> QED
      BY <3>2, <3>3, <3>4 DEF AfterWelcome
  <2> QED
    BY <2>1, <2>2 DEF PartsBehind, IsPart
<1>13. ChangesInOrder'
  <2>1. \A i \in DOMAIN mail' : Changes(mail'[i]) => i \in DOMAIN mail
    BY <1>5, <1>7
  <2>2. \A i \in DOMAIN mail' : mail'[i].kind = "commit" => i \in DOMAIN mail
    BY <2>1 DEF Changes
  <2>3. /\ \A c \in Chats : tEpoch'[c] <= latest'[c]
        /\ \A x \in On(mail)' :
             Changes(x) => tEpoch'[x.chat] < x.epoch /\ x.epoch <= latest'[x.chat]
    BY <1>1, <1>2, <1>6, <1>7 DEF InTransit, ChangesInOrder
  <2>4. \A i, j \in DOMAIN mail' :
          i < j /\ Changes(mail'[i]) /\ Changes(mail'[j])
            /\ mail'[i].chat = mail'[j].chat => mail'[i].epoch < mail'[j].epoch
    BY <1>2, <1>5, <2>1 DEF InTransit, ChangesInOrder
  <2>5. ASSUME NEW i \in DOMAIN mail', mail'[i].kind = "commit"
        PROVE  \/ tEpoch'[mail'[i].chat] + 1 = mail'[i].epoch
               \/ \E j \in DOMAIN mail' :
                    /\ j < i /\ Changes(mail'[j]) /\ mail'[j].chat = mail'[i].chat
                    /\ mail'[j].epoch + 1 = mail'[i].epoch
    <3>1. i \in DOMAIN mail /\ mail'[i] = mail[i]
      BY <1>5, <2>2, <2>5
    <3>2. \/ tEpoch[mail[i].chat] + 1 = mail[i].epoch
          \/ \E j \in DOMAIN mail :
               /\ j < i /\ Changes(mail[j]) /\ mail[j].chat = mail[i].chat
               /\ mail[j].epoch + 1 = mail[i].epoch
      BY <1>2, <2>5, <3>1 DEF InTransit, ChangesInOrder
    <3>3. \A j \in DOMAIN mail : j \in DOMAIN mail' /\ mail'[j] = mail[j]
      BY <1>5
    <3> QED
      BY <1>1, <3>1, <3>2, <3>3
  <2> QED
    BY <2>3, <2>4, <2>5 DEF ChangesInOrder, Changes
<1>14. PartsInOrder'
  <2>1. \A x \in On(mail)' : Changes(x) \/ IsPart(x)
    BY <1>2, <1>6, <1>7 DEF InTransit, PartsInOrder
  <2>2. ASSUME NEW i \in DOMAIN mail', IsPart(mail'[i])
        PROVE  \/ mail'[i].epoch <= tEpoch'[mail'[i].chat]
               \/ \E j \in DOMAIN mail' :
                    /\ j < i /\ Changes(mail'[j]) /\ mail'[j].chat = mail'[i].chat
                    /\ mail'[i].epoch <= mail'[j].epoch
    <3>1. CASE i \in DOMAIN mail
      <4>1. mail'[i] = mail[i]
        BY <1>5, <3>1
      <4> QED
        BY <1>1, <1>2, <1>5, <2>2, <3>1, <4>1 DEF InTransit, PartsInOrder
    <3>2. CASE i = n
      <4>1. CASE tEpoch[d] = latest[d]
        BY <1>1, <1>3, <1>5, <1>8, <3>2, <4>1
      <4>2. CASE \E x \in On(mail) : Changes(x) /\ x.chat = d /\ x.epoch = latest[d]
        <5>1. PICK j \in DOMAIN mail : /\ Changes(mail[j]) /\ mail[j].chat = d
                                       /\ mail[j].epoch = latest[d]
          BY <4>2 DEF On
        <5> QED
          BY <1>3, <1>5, <1>8, <3>2, <5>1
      <4> QED
        BY <1>8, <4>1, <4>2 DEF Caught
    <3> QED
      BY <1>5, <3>1, <3>2
  <2> QED
    BY <2>1, <2>2 DEF PartsInOrder, Changes, IsPart
<1>15. CommitsAnnounced'
  BY <1>1, <1>2, <1>6 DEF InTransit, CommitsAnnounced
<1> QED
  BY <1>10, <1>11, <1>12, <1>13, <1>14, <1>15 DEF InTransit

\* Another member's Commit before the addition does not concern the target.
LEMMA TransitEarlyCommit ==
  ASSUME Inv, Order, NEW d \in Chats, PeerCommit(d), member[d] # "queued"
  PROVE  InTransit'
<1> DEFINE e == [kind |-> "commit", chat |-> d, epoch |-> latest[d] + 1]
<1>1. /\ latest' = [latest EXCEPT ![d] = @ + 1] /\ reply' = Append(reply, e)
      /\ member[d] = "out"
      /\ UNCHANGED <<member, epoch, queue, mail, forked, tEpoch>>
  BY DEF PeerCommit, LeaseFree, sourceVars, targetVars
<1>2. TypeOK /\ InTransit
  BY DEF Inv, Order
<1>3. /\ latest[d] \in Nat /\ tEpoch[d] = 0 /\ epoch[d] <= latest[d]
      /\ epoch[d] \in Nat
      /\ \A x \in On(queue) \cup On(mail) : x.chat # d /\ x.chat \in Chats
  BY <1>1, <1>2, InFlightTypes DEF InTransit, Outside
<1>4. /\ latest'[d] = latest[d] + 1
      /\ \A c \in Chats : c # d => latest'[c] = latest[c]
      /\ \A c \in Chats : latest[c] <= latest'[c] /\ latest[c] \in Nat
                            /\ latest'[c] \in Nat
  <2>1. latest \in [Chats -> Nat]
    BY <1>2 DEF TypeOK
  <2> QED
    BY <1>1, <1>3, <2>1
<1>5. e \in Envelope /\ e.chat = d /\ e.epoch = latest'[d]
  BY <1>3, <1>4, Envelopes
<1> HIDE DEF e
<1>6. /\ On(reply)' = On(reply) \cup {e}
      /\ On(queue)' = On(queue) /\ On(mail)' = On(mail)
  <2>1. On(Append(reply, e)) = On(reply) \cup {e}
    BY <1>2, <1>5, InFlightTypes, Appended
  <2> QED
    BY <1>1, <2>1 DEF On
<1>7. \A c \in Chats : c # d => (Caught(c)' <=> Caught(c))
  BY <1>1, <1>4, <1>6 DEF Caught
<1>8. Outside'
  BY <1>1, <1>2, <1>3, <1>4, <1>6 DEF InTransit, Outside
<1>9. WelcomeSent'
  BY <1>1, <1>2, <1>3, <1>4, <1>6, <1>7 DEF InTransit, WelcomeSent
<1>10. PartsBehind'
  <2>1. \A x \in On(queue)' : x.kind \in {"join", "manifest", "chunk"}
    BY <1>2, <1>6 DEF InTransit, PartsBehind
  <2>2. ASSUME NEW c \in Chats, NEW i \in DOMAIN queue',
               IsPart(queue'[i]), queue'[i].chat = c
        PROVE  AfterWelcome(c, i)'
    <3>1. c # d
      BY <1>1, <1>3, <2>2 DEF On
    <3>2. AfterWelcome(c, i)
      BY <1>1, <1>2, <2>2 DEF InTransit, PartsBehind
    <3> QED
      BY <1>1, <1>4, <1>7, <3>1, <3>2 DEF AfterWelcome
  <2> QED
    BY <2>1, <2>2 DEF PartsBehind, IsPart
<1>11. ChangesInOrder'
  <2>1. \A c \in Chats : tEpoch'[c] <= latest'[c]
    BY <1>1, <1>2, <1>3, <1>4 DEF InTransit, ChangesInOrder
  <2>2. \A x \in On(mail)' : latest'[x.chat] = latest[x.chat]
    BY <1>3, <1>4, <1>6
  <2> QED
    BY <1>1, <1>2, <1>6, <2>1, <2>2 DEF InTransit, ChangesInOrder
<1>12. PartsInOrder'
  BY <1>1, <1>2, <1>6 DEF InTransit, PartsInOrder
<1>13. CommitsAnnounced'
  <2> SUFFICES ASSUME NEW x \in On(reply)', x.kind = "commit"
               PROVE  x.chat \in forked' \/ x.epoch <= latest'[x.chat]
    BY DEF CommitsAnnounced
  <2>1. CASE x \in On(reply)
    BY <1>1, <1>2, <1>4, <2>1, InFlightTypes DEF InTransit, CommitsAnnounced
  <2>2. CASE x = e
    BY <1>4, <1>5, <2>2
  <2> QED
    BY <1>6, <2>1, <2>2
<1> QED
  BY <1>8, <1>9, <1>10, <1>11, <1>12, <1>13 DEF InTransit

\* Another member's Commit follows the last change of the chat.
LEMMA TransitPeerCommit ==
  ASSUME Inv, Order, NEW d \in Chats, PeerCommit(d), member[d] = "queued"
  PROVE  InTransit'
<1> DEFINE e == [kind |-> "commit", chat |-> d, epoch |-> latest[d] + 1]
           n == Len(mail) + 1
<1>1. /\ member[d] = "queued" /\ epoch[d] <= latest[d]
      /\ latest' = [latest EXCEPT ![d] = @ + 1]
      /\ mail' = Append(mail, e) /\ reply' = Append(reply, e)
      /\ UNCHANGED <<member, epoch, queue, forked, tEpoch>>
  BY DEF PeerCommit, LeaseFree, sourceVars, targetVars
<1>2. TypeOK /\ InTransit
  BY DEF Inv, Order
<1>3. /\ e \in Envelope /\ e.kind = "commit" /\ e.chat = d
      /\ e.epoch = latest[d] + 1 /\ latest[d] \in Nat
  <2>1. latest[d] \in Nat /\ latest[d] + 1 \in Nat
    BY <1>2, InFlightTypes
  <2> QED
    BY <2>1, Envelopes
<1>4. /\ latest'[d] = latest[d] + 1
      /\ \A c \in Chats : c # d => latest'[c] = latest[c]
      /\ \A c \in Chats : latest[c] <= latest'[c] /\ latest[c] \in Nat
                            /\ latest'[c] \in Nat
  <2>1. latest \in [Chats -> Nat]
    BY <1>2 DEF TypeOK
  <2> QED
    BY <1>1, <1>3, <2>1
<1> HIDE DEF e
<1>5. /\ DOMAIN mail' = DOMAIN mail \cup {n} /\ n \in Nat
      /\ DOMAIN mail \subseteq Nat
      /\ \A i \in DOMAIN mail : i < n /\ mail'[i] = mail[i]
      /\ mail'[n] = e
  BY <1>1, <1>2, <1>3, AppendedAt, InFlightTypes
<1>6. /\ On(mail)' = On(mail) \cup {e} /\ On(reply)' = On(reply) \cup {e}
      /\ On(queue)' = On(queue)
  <2>1. /\ On(Append(mail, e)) = On(mail) \cup {e}
        /\ On(Append(reply, e)) = On(reply) \cup {e}
    BY <1>2, <1>3, InFlightTypes, Appended
  <2> QED
    BY <1>1, <2>1 DEF On
<1> HIDE DEF n
<1>7. \A x \in On(queue) : x.kind = "join" => x.chat # d
  BY <1>1, <1>2, <1>3, InFlightTypes DEF InTransit, WelcomeSent
<1>8. Caught(d)
  BY <1>1, <1>2, <1>7 DEF InTransit, WelcomeSent
<1>9. Changes(e) /\ ~IsPart(e)
  BY <1>3 DEF Changes, IsPart
<1>10. Caught(d)'
  BY <1>3, <1>4, <1>6, <1>9 DEF Caught
<1>11. \A c \in Chats : c # d => (Caught(c) => Caught(c)')
  BY <1>1, <1>4, <1>6, CaughtGrows
<1>12. Outside'
  BY <1>1, <1>2, <1>3, <1>4, <1>6 DEF InTransit, Outside
<1>13. WelcomeSent'
  <2>1. ASSUME NEW c \in Chats, member'[c] = "queued"
        PROVE  \/ Caught(c)' /\ epoch'[c] <= latest'[c]
               \/ \E x \in On(queue)' : x.kind = "join" /\ x.chat = c
    <3>1. CASE c = d
      BY <1>1, <1>2, <1>4, <1>10, <3>1, InFlightTypes
    <3>2. CASE c # d
      BY <1>1, <1>2, <1>4, <1>6, <1>11, <2>1, <3>2 DEF InTransit, WelcomeSent
    <3> QED
      BY <3>1, <3>2
  <2>2. \A x \in On(queue)' :
          x.kind = "join" => x.epoch = epoch'[x.chat] /\ latest'[x.chat] < x.epoch
    BY <1>1, <1>2, <1>4, <1>6, <1>7, InFlightTypes DEF InTransit, WelcomeSent
  <2>3. \A i, j \in DOMAIN queue' :
          queue'[i].kind = "join" /\ queue'[j].kind = "join"
            /\ queue'[i].chat = queue'[j].chat => i = j
    BY <1>1, <1>2 DEF InTransit, WelcomeSent
  <2> QED
    BY <2>1, <2>2, <2>3 DEF WelcomeSent
<1>14. PartsBehind'
  <2>1. \A x \in On(queue)' : x.kind \in {"join", "manifest", "chunk"}
    BY <1>2, <1>6 DEF InTransit, PartsBehind
  <2>2. ASSUME NEW c \in Chats, NEW i \in DOMAIN queue',
               IsPart(queue'[i]), queue'[i].chat = c
        PROVE  AfterWelcome(c, i)'
    <3>1. AfterWelcome(c, i) /\ queue[i].epoch \in Nat
      BY <1>1, <1>2, <2>2, InFlightTypes DEF InTransit, PartsBehind
    <3>2. CASE Caught(c) /\ queue[i].epoch <= latest[c]
      <4>1. Caught(c)' /\ queue'[i].epoch <= latest'[c]
        BY <1>1, <1>4, <1>10, <1>11, <3>1, <3>2
      <4> QED
        BY <4>1 DEF AfterWelcome
    <3> QED
      BY <1>1, <3>1, <3>2 DEF AfterWelcome
  <2> QED
    BY <2>1, <2>2 DEF PartsBehind, IsPart
<1>15. ChangesInOrder'
  <2>1. \A c \in Chats : tEpoch'[c] <= latest'[c]
    BY <1>1, <1>2, <1>4, InFlightTypes DEF InTransit, ChangesInOrder
  <2>2. ASSUME NEW x \in On(mail)', Changes(x)
        PROVE  tEpoch'[x.chat] < x.epoch /\ x.epoch <= latest'[x.chat]
    <3>1. CASE x \in On(mail)
      BY <1>1, <1>2, <1>4, <2>2, <3>1, InFlightTypes DEF InTransit, ChangesInOrder
    <3>2. CASE x = e
      BY <1>1, <1>2, <1>3, <1>4, <3>2, InFlightTypes DEF InTransit, ChangesInOrder
    <3> QED
      BY <1>6, <3>1, <3>2
  <2>3. ASSUME NEW i \in DOMAIN mail', NEW j \in DOMAIN mail', i < j,
               Changes(mail'[i]), Changes(mail'[j]), mail'[i].chat = mail'[j].chat
        PROVE  mail'[i].epoch < mail'[j].epoch
    <3>1. i \in DOMAIN mail /\ mail'[i] = mail[i]
      BY <1>5, <2>3
    <3>2. CASE j \in DOMAIN mail
      BY <1>2, <1>5, <2>3, <3>1, <3>2 DEF InTransit, ChangesInOrder
    <3>3. CASE j = n
      <4>1. mail[i] \in On(mail) /\ mail[i].chat = d /\ mail[i].epoch \in Nat
        BY <1>2, <1>3, <1>5, <2>3, <3>1, <3>3, InFlightTypes
      <4>2. mail[i].epoch <= latest[d]
        BY <1>2, <2>3, <3>1, <4>1 DEF InTransit, ChangesInOrder
      <4> QED
        BY <1>3, <1>5, <3>1, <3>3, <4>1, <4>2
    <3> QED
      BY <1>5, <3>2, <3>3
  <2>4. ASSUME NEW i \in DOMAIN mail', mail'[i].kind = "commit"
        PROVE  \/ tEpoch'[mail'[i].chat] + 1 = mail'[i].epoch
               \/ \E j \in DOMAIN mail' :
                    /\ j < i /\ Changes(mail'[j]) /\ mail'[j].chat = mail'[i].chat
                    /\ mail'[j].epoch + 1 = mail'[i].epoch
    <3>1. CASE i \in DOMAIN mail
      <4>1. mail'[i] = mail[i]
        BY <1>5, <3>1
      <4>2. CASE tEpoch[mail[i].chat] + 1 = mail[i].epoch
        BY <1>1, <1>5, <2>4, <3>1, <4>1, <4>2
      <4>3. ASSUME NEW j \in DOMAIN mail, j < i, Changes(mail[j]),
                   mail[j].chat = mail[i].chat, mail[j].epoch + 1 = mail[i].epoch
            PROVE  \E k \in DOMAIN mail' :
                     /\ k < i /\ Changes(mail'[k]) /\ mail'[k].chat = mail'[i].chat
                     /\ mail'[k].epoch + 1 = mail'[i].epoch
        BY <1>5, <3>1, <4>1, <4>3
      <4> QED
        BY <1>2, <2>4, <3>1, <4>1, <4>2, <4>3 DEF InTransit, ChangesInOrder
    <3>2. CASE i = n
      <4>1. CASE tEpoch[d] = latest[d]
        BY <1>1, <1>3, <1>5, <3>2, <4>1
      <4>2. CASE \E x \in On(mail) : Changes(x) /\ x.chat = d /\ x.epoch = latest[d]
        <5>1. PICK j \in DOMAIN mail : /\ Changes(mail[j]) /\ mail[j].chat = d
                                       /\ mail[j].epoch = latest[d]
          BY <4>2 DEF On
        <5> QED
          BY <1>3, <1>5, <3>2, <5>1
      <4> QED
        BY <1>8, <4>1, <4>2 DEF Caught
    <3> QED
      BY <1>5, <3>1, <3>2
  <2> QED
    BY <2>1, <2>2, <2>3, <2>4 DEF ChangesInOrder, Changes
<1>16. PartsInOrder'
  <2>1. \A x \in On(mail)' : Changes(x) \/ IsPart(x)
    BY <1>2, <1>6, <1>9 DEF InTransit, PartsInOrder
  <2>2. ASSUME NEW i \in DOMAIN mail', IsPart(mail'[i])
        PROVE  \/ mail'[i].epoch <= tEpoch'[mail'[i].chat]
               \/ \E j \in DOMAIN mail' :
                    /\ j < i /\ Changes(mail'[j]) /\ mail'[j].chat = mail'[i].chat
                    /\ mail'[i].epoch <= mail'[j].epoch
    <3>1. i \in DOMAIN mail /\ mail'[i] = mail[i]
      BY <1>5, <1>9, <2>2
    <3> QED
      BY <1>1, <1>2, <1>5, <2>2, <3>1 DEF InTransit, PartsInOrder
  <2> QED
    BY <2>1, <2>2 DEF PartsInOrder, Changes, IsPart
<1>17. CommitsAnnounced'
  <2> SUFFICES ASSUME NEW x \in On(reply)', x.kind = "commit"
               PROVE  x.chat \in forked' \/ x.epoch <= latest'[x.chat]
    BY DEF CommitsAnnounced
  <2>1. CASE x \in On(reply)
    BY <1>1, <1>2, <1>4, <2>1, InFlightTypes DEF InTransit, CommitsAnnounced
  <2>2. CASE x = e
    BY <1>3, <1>4, <2>2
  <2> QED
    BY <1>6, <2>1, <2>2
<1> QED
  BY <1>12, <1>13, <1>14, <1>15, <1>16, <1>17 DEF InTransit

\* The target takes the head of its mailbox, and follows it if it is a change.
LEMMA TransitTaken ==
  ASSUME Inv, Order, mail # <<>>, mail' = Tail(mail),
         tEpoch' = IF Changes(Head(mail))
                     THEN [tEpoch EXCEPT ![Head(mail).chat] = Head(mail).epoch]
                     ELSE tEpoch,
         UNCHANGED <<member, epoch, queue, latest, reply, forked>>
  PROVE  InTransit'
<1>0. PICK d \in Chats : d = Head(mail).chat
  <2>1. Head(mail) \in Envelope
    BY TakenOut DEF Inv, TypeOK
  <2> QED
    BY <2>1, Fields
<1>1. PICK e \in Envelope : e = Head(mail)
  BY TakenOut DEF Inv, TypeOK
<1>2. TypeOK /\ InTransit
  BY DEF Inv, Order
<1>3. e \in On(mail) /\ e.epoch \in Nat /\ e.chat = d
  BY <1>0, <1>1, <1>2, TakenOut, InFlightTypes
<1>4. /\ DOMAIN mail \subseteq Nat \ {0} /\ 1 \in DOMAIN mail /\ mail[1] = e
      /\ DOMAIN mail' \subseteq Nat \ {0}
      /\ \A i \in DOMAIN mail' : i + 1 \in DOMAIN mail /\ mail'[i] = mail[i + 1]
      /\ \A i \in DOMAIN mail : i # 1 => /\ i - 1 \in DOMAIN mail'
                                         /\ mail'[i - 1] = mail[i]
  BY <1>1, <1>2, TakenAt, InFlightTypes
<1>5. /\ On(mail)' \subseteq On(mail) /\ On(mail) \subseteq On(mail)' \cup {e}
      /\ On(queue)' = On(queue) /\ On(reply)' = On(reply)
  <2>1. On(mail)' \subseteq On(mail)
    BY <1>4 DEF On
  <2>2. On(mail) \subseteq On(mail)' \cup {e}
    <3> SUFFICES ASSUME NEW i \in DOMAIN mail PROVE mail[i] \in On(mail)' \cup {e}
      BY DEF On
    <3>1. CASE i = 1
      BY <1>4, <3>1
    <3>2. CASE i # 1
      BY <1>4, <3>2 DEF On
    <3> QED
      BY <3>1, <3>2
  <2>3. On(queue)' = On(queue) /\ On(reply)' = On(reply)
    BY DEF On
  <2> QED
    BY <2>1, <2>2, <2>3
<1>6. /\ Changes(e) => /\ tEpoch'[d] = e.epoch /\ tEpoch[d] < e.epoch
                       /\ e.epoch <= latest[d]
      /\ ~Changes(e) => tEpoch' = tEpoch
      /\ \A c \in Chats : c # d => tEpoch'[c] = tEpoch[c]
  BY <1>1, <1>2, <1>3 DEF InTransit, ChangesInOrder, TypeOK
<1>7. \A c \in Chats : /\ tEpoch[c] <= tEpoch'[c] /\ tEpoch'[c] <= latest[c]
                       /\ tEpoch[c] \in Nat /\ tEpoch'[c] \in Nat
                       /\ latest[c] \in Nat
  BY <1>2, <1>3, <1>6, InFlightTypes DEF InTransit, ChangesInOrder
<1>8. \A c \in Chats : Caught(c) => Caught(c)'
  <2> SUFFICES ASSUME NEW c \in Chats, Caught(c) PROVE Caught(c)'
    OBVIOUS
  <2>1. CASE tEpoch[c] = latest[c]
    <3>1. tEpoch'[c] = latest'[c]
      BY <1>7, <2>1
    <3> QED
      BY <3>1 DEF Caught
  <2>2. ASSUME NEW x \in On(mail), Changes(x), x.chat = c, x.epoch = latest[c]
        PROVE  Caught(c)'
    <3>1. CASE x = e
      <4>1. tEpoch'[c] = latest'[c]
        BY <1>3, <1>6, <2>2, <3>1
      <4> QED
        BY <4>1 DEF Caught
    <3>2. CASE x \in On(mail)'
      BY <2>2, <3>2 DEF Caught
    <3> QED
      BY <1>5, <3>1, <3>2
  <2> QED
    BY <2>1, <2>2 DEF Caught
<1>9. Outside'
  BY <1>2, <1>3, <1>5, <1>6 DEF InTransit, Outside
<1>10. WelcomeSent'
  BY <1>2, <1>5, <1>8 DEF InTransit, WelcomeSent
<1>11. PartsBehind'
  <2>1. \A x \in On(queue)' : x.kind \in {"join", "manifest", "chunk"}
    BY <1>2, <1>5 DEF InTransit, PartsBehind
  <2>2. ASSUME NEW c \in Chats, NEW i \in DOMAIN queue',
               IsPart(queue'[i]), queue'[i].chat = c
        PROVE  AfterWelcome(c, i)'
    <3>1. AfterWelcome(c, i)
      BY <1>2, <2>2 DEF InTransit, PartsBehind
    <3> QED
      BY <1>8, <3>1 DEF AfterWelcome
  <2> QED
    BY <2>1, <2>2 DEF PartsBehind, IsPart
<1>12. \A i \in DOMAIN mail' :
         /\ i + 1 \in DOMAIN mail /\ mail'[i] = mail[i + 1] /\ 1 < i + 1
         /\ i \in Nat /\ mail[i + 1] \in On(mail) /\ mail[i + 1].chat \in Chats
         /\ mail[i + 1].epoch \in Nat
  BY <1>2, <1>4, InFlightTypes
<1>13. ChangesInOrder'
  <2>1. ASSUME NEW i \in DOMAIN mail', Changes(mail'[i])
        PROVE  /\ tEpoch'[mail'[i].chat] < mail'[i].epoch
               /\ mail'[i].epoch <= latest'[mail'[i].chat]
    <3>1. /\ tEpoch[mail'[i].chat] < mail'[i].epoch
          /\ mail'[i].epoch <= latest'[mail'[i].chat]
      BY <1>2, <1>12, <2>1 DEF InTransit, ChangesInOrder
    <3>2. CASE mail'[i].chat = d /\ Changes(e)
      <4>1. e.epoch < mail'[i].epoch
        BY <1>2, <1>3, <1>4, <1>12, <2>1, <3>2 DEF InTransit, ChangesInOrder
      <4> QED
        BY <1>6, <3>1, <3>2, <4>1
    <3> QED
      BY <1>6, <1>12, <3>1, <3>2
  <2>2. \A x \in On(mail)' :
          Changes(x) => tEpoch'[x.chat] < x.epoch /\ x.epoch <= latest'[x.chat]
    BY <2>1 DEF On
  <2>3. ASSUME NEW i \in DOMAIN mail', NEW j \in DOMAIN mail', i < j,
               Changes(mail'[i]), Changes(mail'[j]), mail'[i].chat = mail'[j].chat
        PROVE  mail'[i].epoch < mail'[j].epoch
    <3>1. i + 1 < j + 1
      BY <1>12, <2>3
    <3> QED
      BY <1>2, <1>12, <2>3, <3>1 DEF InTransit, ChangesInOrder
  <2>4. ASSUME NEW i \in DOMAIN mail', mail'[i].kind = "commit"
        PROVE  \/ tEpoch'[mail'[i].chat] + 1 = mail'[i].epoch
               \/ \E j \in DOMAIN mail' :
                    /\ j < i /\ Changes(mail'[j]) /\ mail'[j].chat = mail'[i].chat
                    /\ mail'[j].epoch + 1 = mail'[i].epoch
    <3>1. tEpoch'[mail'[i].chat] < mail'[i].epoch
      BY <2>1, <2>4 DEF Changes
    <3>2. CASE tEpoch[mail[i + 1].chat] + 1 = mail[i + 1].epoch
      BY <1>7, <1>12, <3>1, <3>2
    <3>3. ASSUME NEW j \in DOMAIN mail, j < i + 1, Changes(mail[j]),
                 mail[j].chat = mail[i + 1].chat,
                 mail[j].epoch + 1 = mail[i + 1].epoch
          PROVE  \/ tEpoch'[mail'[i].chat] + 1 = mail'[i].epoch
                 \/ \E k \in DOMAIN mail' :
                      /\ k < i /\ Changes(mail'[k]) /\ mail'[k].chat = mail'[i].chat
                      /\ mail'[k].epoch + 1 = mail'[i].epoch
      <4>1. CASE j = 1
        BY <1>3, <1>4, <1>6, <1>12, <3>3, <4>1
      <4>2. CASE j # 1
        <5>1. j - 1 \in DOMAIN mail' /\ mail'[j - 1] = mail[j] /\ j - 1 < i
          BY <1>4, <1>12, <3>3, <4>2
        <5> QED
          BY <1>12, <3>3, <5>1
      <4> QED
        BY <4>1, <4>2
    <3> QED
      BY <1>2, <1>12, <2>4, <3>2, <3>3 DEF InTransit, ChangesInOrder
  <2> QED
    BY <1>7, <2>2, <2>3, <2>4 DEF ChangesInOrder, Changes
<1>14. PartsInOrder'
  <2>1. \A x \in On(mail)' : Changes(x) \/ IsPart(x)
    BY <1>2, <1>5 DEF InTransit, PartsInOrder
  <2>2. ASSUME NEW i \in DOMAIN mail', IsPart(mail'[i])
        PROVE  \/ mail'[i].epoch <= tEpoch'[mail'[i].chat]
               \/ \E j \in DOMAIN mail' :
                    /\ j < i /\ Changes(mail'[j]) /\ mail'[j].chat = mail'[i].chat
                    /\ mail'[i].epoch <= mail'[j].epoch
    <3>1. CASE mail[i + 1].epoch <= tEpoch[mail[i + 1].chat]
      BY <1>7, <1>12, <3>1
    <3>2. ASSUME NEW j \in DOMAIN mail, j < i + 1, Changes(mail[j]),
                 mail[j].chat = mail[i + 1].chat,
                 mail[i + 1].epoch <= mail[j].epoch
          PROVE  \/ mail'[i].epoch <= tEpoch'[mail'[i].chat]
                 \/ \E k \in DOMAIN mail' :
                      /\ k < i /\ Changes(mail'[k]) /\ mail'[k].chat = mail'[i].chat
                      /\ mail'[i].epoch <= mail'[k].epoch
      <4>1. CASE j = 1
        BY <1>3, <1>4, <1>6, <1>12, <3>2, <4>1
      <4>2. CASE j # 1
        <5>1. j - 1 \in DOMAIN mail' /\ mail'[j - 1] = mail[j] /\ j - 1 < i
          BY <1>4, <1>12, <3>2, <4>2
        <5> QED
          BY <1>12, <3>2, <5>1
      <4> QED
        BY <4>1, <4>2
    <3>3. IsPart(mail[i + 1])
      BY <1>12, <2>2
    <3> QED
      BY <1>2, <1>12, <3>1, <3>2, <3>3 DEF InTransit, PartsInOrder
  <2> QED
    BY <2>1, <2>2 DEF PartsInOrder, Changes, IsPart
<1>15. CommitsAnnounced'
  BY <1>2, <1>5 DEF InTransit, CommitsAnnounced
<1> QED
  BY <1>9, <1>10, <1>11, <1>13, <1>14, <1>15 DEF InTransit

\* The source follows a Commit, no further than the relay.
LEMMA TransitReadCommit ==
  ASSUME Inv, Order, ReadCommit
  PROVE  InTransit'
<1>0. PICK d \in Chats : d = Head(reply).chat
  <2>1. Head(reply) \in Envelope
    BY TakenOut DEF ReadCommit, Inv, TypeOK
  <2> QED
    BY <2>1, Fields
<1> DEFINE e == Head(reply)
<1>1. /\ reply # <<>> /\ reply' = Tail(reply)
      /\ e.kind = "commit" /\ e.epoch = epoch[d] + 1 /\ d \notin forked
      /\ epoch' = [epoch EXCEPT ![d] = e.epoch]
      /\ UNCHANGED <<member, queue, latest, mail, forked, tEpoch>>
  BY <1>0 DEF ReadCommit, targetVars
<1>2. TypeOK /\ InTransit
  BY DEF Inv, Order
<1>3. /\ e \in On(reply) /\ On(Tail(reply)) \subseteq On(reply)
      /\ e.chat = d /\ e.epoch \in Nat
  BY <1>0, <1>1, <1>2, TakenOut, InFlightTypes
<1>4. /\ epoch'[d] = epoch[d] + 1 /\ epoch[d] \in Nat
      /\ \A c \in Chats : c # d => epoch'[c] = epoch[c]
  BY <1>1, <1>2, <1>3, InFlightTypes DEF TypeOK
<1>5. epoch'[d] <= latest[d] /\ latest[d] \in Nat
  BY <1>1, <1>2, <1>3, <1>4, InFlightTypes DEF InTransit, CommitsAnnounced
<1> HIDE DEF e
<1>6. On(queue)' = On(queue) /\ On(mail)' = On(mail) /\ On(reply)' \subseteq On(reply)
  BY <1>1, <1>3 DEF On
<1>7. \A c : Caught(c)' <=> Caught(c)
  BY <1>1, <1>6 DEF Caught
<1>8. member[d] # "added"
  BY <1>2, <1>4, <1>5 DEF InTransit, Outside
<1>9. \A x \in On(queue) : x.kind = "join" => x.chat # d
  BY <1>2, <1>4, <1>5 DEF InTransit, WelcomeSent
<1>10. Outside'
  BY <1>1, <1>2, <1>4, <1>5, <1>6, <1>8 DEF InTransit, Outside
<1>11. WelcomeSent'
  <2>1. ASSUME NEW c \in Chats, member'[c] = "queued"
        PROVE  \/ Caught(c)' /\ epoch'[c] <= latest'[c]
               \/ \E x \in On(queue)' : x.kind = "join" /\ x.chat = c
    <3>1. CASE c = d
      BY <1>1, <1>2, <1>5, <1>7, <1>9, <2>1, <3>1 DEF InTransit, WelcomeSent
    <3>2. CASE c # d
      BY <1>1, <1>2, <1>4, <1>6, <1>7, <2>1, <3>2 DEF InTransit, WelcomeSent
    <3> QED
      BY <3>1, <3>2
  <2>2. \A x \in On(queue)' :
          x.kind = "join" => x.epoch = epoch'[x.chat] /\ latest'[x.chat] < x.epoch
    BY <1>1, <1>2, <1>4, <1>6, <1>9, InFlightTypes DEF InTransit, WelcomeSent
  <2>3. \A i, j \in DOMAIN queue' :
          queue'[i].kind = "join" /\ queue'[j].kind = "join"
            /\ queue'[i].chat = queue'[j].chat => i = j
    BY <1>1, <1>2 DEF InTransit, WelcomeSent
  <2> QED
    BY <2>1, <2>2, <2>3 DEF WelcomeSent
<1>12. PartsBehind'
  BY <1>1, <1>2, <1>6, <1>7 DEF InTransit, PartsBehind, AfterWelcome
<1>13. ChangesInOrder' /\ PartsInOrder' /\ CommitsAnnounced'
  BY <1>1, <1>2, <1>6 DEF InTransit, ChangesInOrder, PartsInOrder, CommitsAnnounced
<1> QED
  BY <1>10, <1>11, <1>12, <1>13 DEF InTransit

\* Every step keeps what is sent in order, until a Welcome is refused.
LEMMA TransitNext ==
  ASSUME Inv, Order, [Next]_vars, ~refused'
  PROVE  InTransit'
<1> USE DEF sourceVars, opVars, relayVars, targetVars
<1>1. TypeOK /\ InTransit
  BY DEF Inv, Order
<1>2. ASSUME \/ LeaseRefused \/ Resume \/ ResumeNext \/ PartsStale \/ PartsFail
             \/ PartsDone \/ Crash \/ RestoreNext \/ RestoreDone
             \/ Apply \/ TargetFails \/ UNCHANGED vars
             \/ \E m \in Messages : Arrive(m) \/ Raise(m)
             \/ \E c \in Chats : Capture(c)
      PROVE  InTransit'
  <2>1. UNCHANGED <<member, epoch, queue, latest, mail, forked, tEpoch, reply>>
    BY <1>2 DEF LeaseRefused, Resume, ResumeNext, PartsStale, PartsFail,
       PartsDone, Crash, RestoreNext, RestoreDone, Apply, TargetFails, vars,
       Arrive, Raise, Capture
  <2>2. On(reply)' = On(reply)
    BY <2>1 DEF On
  <2> QED
    BY <1>1, <2>1, <2>2, TransitKept
<1>3. ASSUME NEW c \in Chats, QueueAck(c) PROVE InTransit'
  <2> DEFINE e == [kind |-> "ack", chat |-> c, epoch |-> tEpoch[c],
                   transcript |-> in[c].transcript]
  <2>1. /\ UNCHANGED <<member, epoch, queue, latest, mail, forked, tEpoch>>
        /\ reply' = Append(reply, e) /\ e.kind = "ack"
    BY <1>3 DEF QueueAck
  <2>2. e \in Envelope
    <3>1. in[c].transcript \in Transcript /\ tEpoch[c] \in Nat
      BY <1>1 DEF TypeOK, Inbound
    <3> QED
      BY <3>1 DEF Envelope
  <2> HIDE DEF e
  <2>3. On(Append(reply, e)) = On(reply) \cup {e}
    BY <1>1, <2>2, InFlightTypes, Appended
  <2>4. On(reply)' = On(reply) \cup {e}
    BY <2>1, <2>3 DEF On
  <2> QED
    BY <1>1, <2>1, <2>4, TransitKept
<1>4. CASE ReadAck
  <2>1. /\ UNCHANGED <<member, epoch, queue, latest, mail, forked, tEpoch>>
        /\ reply # <<>> /\ reply' \in {reply, Tail(reply)}
    BY <1>4 DEF ReadAck
  <2>2. On(Tail(reply)) \subseteq On(reply)
    BY <1>1, <2>1, InFlightTypes, TakenOut
  <2>3. On(reply)' \subseteq On(reply)
    BY <2>1, <2>2 DEF On
  <2> QED
    BY <1>1, <2>1, <2>3, TransitKept
<1>5. CASE ReadMembership
  <2>1. /\ mail # <<>> /\ mail' = Tail(mail) /\ Changes(Head(mail))
        /\ tEpoch' = [tEpoch EXCEPT ![Head(mail).chat] = Head(mail).epoch]
        /\ UNCHANGED <<member, epoch, queue, latest, reply, forked>>
    BY <1>5 DEF ReadMembership, Changes
  <2> QED
    BY <2>1, TransitTaken
<1>6. CASE Consume
  <2>1. /\ mail # <<>> /\ mail' = Tail(mail) /\ ~Changes(Head(mail))
        /\ UNCHANGED <<tEpoch, member, epoch, queue, latest, reply, forked>>
    BY <1>6 DEF Consume, Changes, Inv, Handling, IsPart
  <2> QED
    BY <2>1, TransitTaken
<1>7. CASE Send
  BY <1>7, TransitSendWelcome, TransitSendPart
<1>8. CASE StageFails
  BY <1>8 DEF StageFails
<1> QED
  BY <1>2, <1>3, <1>4, <1>5, <1>6, <1>7, <1>8, TransitAdd, TransitStage,
     TransitPart, TransitEarlyCommit, TransitPeerCommit, TransitReadCommit
     DEF Next

\* So does where an addition is.
LEMMA WelcomedNext ==
  ASSUME Inv, Order, [Next]_vars, ~refused'
  PROVE  Welcomed'
<1> USE DEF opVars
<1>1. TypeOK /\ Welcomed /\ cur \in Chats /\ todo \subseteq Chats
      /\ member \in [Chats -> {"out", "added", "queued"}]
  BY DEF Inv, Order, TypeOK
<1>2. ASSUME NEW c \in Chats, Capture(c) PROVE Welcomed'
  BY <1>1, <1>2 DEF Capture, Welcomed
<1>3. CASE LeaseRefused \/ PartsStale \/ PartsFail
  BY <1>1, <1>3 DEF LeaseRefused, PartsStale, PartsFail, Abort, Stop, Welcomed
<1>4. CASE Add
  BY <1>1, <1>4 DEF Add, Welcomed
<1>5. CASE Stage
  BY <1>1, <1>5 DEF Stage, Welcomed
<1>6. CASE StageFails
  BY <1>6 DEF StageFails
<1>7. CASE Resume \/ ResumeNext
  BY <1>1, <1>7 DEF Resume, ResumeNext, Unfinished, Welcomed
<1>8. CASE PartsDone
  BY <1>1, <1>8 DEF PartsDone, Welcomed
<1>9. CASE Crash \/ RestoreNext
  BY <1>1, <1>9 DEF Crash, RestoreNext, Welcomed
<1>10. CASE RestoreDone
  BY <1>1, <1>10 DEF RestoreDone, Abort, Stop, Welcomed
<1>11. ASSUME \/ QueuePart \/ Send \/ ReadAck \/ ReadCommit
              \/ \E m \in Messages : Arrive(m) \/ Raise(m)
       PROVE  Welcomed'
  BY <1>1, <1>11 DEF QueuePart, Send, ReadAck, ReadCommit, Arrive, Raise, Welcomed
<1>12. ASSUME \/ ReadMembership \/ Apply \/ Consume \/ TargetFails
              \/ \E c \in Chats : PeerCommit(c) \/ QueueAck(c)
              \/ UNCHANGED vars
       PROVE  Welcomed'
  BY <1>1, <1>12 DEF ReadMembership, Apply, Consume, TargetFails, PeerCommit,
     QueueAck, vars, sourceVars, Welcomed
<1> QED
  BY <1>2, <1>3, <1>4, <1>5, <1>6, <1>7, <1>8, <1>9, <1>10, <1>11, <1>12 DEF Next

\* No step forgets that a Welcome was refused.
LEMMA InOrderNext ==
  ASSUME Inv, InOrder, [Next]_vars
  PROVE  InOrder'
<1>1. ~refused' => ~refused
  BY DEF Next, Arrive, Raise, Capture, PeerCommit, QueueAck, LeaseRefused, Add,
     Stage, StageFails, Resume, ResumeNext, QueuePart, PartsStale, PartsFail,
     PartsDone, Send, ReadMembership, Apply, Consume, TargetFails, ReadAck,
     ReadCommit, Crash, RestoreNext, RestoreDone, vars
<1> QED
  BY <1>1, TransitNext, WelcomedNext DEF InOrder, Order

\* With the changes in order and each part behind its own, what is at the head
\* can be read, or is of an epoch the target has left.
LEMMA HeadIsReadable ==
  ASSUME TypeOK, InOrder
  PROVE  ShutOutWithCause
<1> SUFFICES ASSUME ~refused, mail # <<>>, ~Readable(Head(mail))
             PROVE  Head(mail).epoch < tEpoch[Head(mail).chat]
  BY DEF ShutOutWithCause
<1> DEFINE e == Head(mail)
<1>1. InTransit
  BY DEF InOrder, Order
<1>2. /\ 1 \in DOMAIN mail /\ mail[1] = e /\ DOMAIN mail \subseteq Nat \ {0}
      /\ e \in On(mail) /\ e.chat \in Chats /\ e.epoch \in Nat
      /\ tEpoch[e.chat] \in Nat
  BY TakenAt, TakenOut, InFlightTypes
<1>3. \A j \in DOMAIN mail : ~(j < 1)
  BY <1>2
<1>4. e.kind # "join"
  BY DEF Readable
<1>5. e.kind # "commit"
  BY <1>1, <1>2, <1>3 DEF Readable, InTransit, ChangesInOrder
<1>6. IsPart(e)
  BY <1>1, <1>2, <1>4, <1>5 DEF InTransit, PartsInOrder, Changes
<1>7. e.epoch <= tEpoch[e.chat]
  BY <1>1, <1>2, <1>3, <1>6 DEF InTransit, PartsInOrder
<1>8. e.epoch # tEpoch[e.chat]
  BY <1>6 DEF Readable, Decryptable, IsPart
<1> QED
  BY <1>2, <1>7, <1>8

-----------------------------------------------------------------------------
\* No step makes a transfer "none" again, and only captured ones are staged.
LEMMA CapturedNext ==
  ASSUME Inv, [Next]_vars
  PROVE  Captured'
<1> USE DEF opVars
<1>1. Captured /\ TypeOK
  BY DEF Inv
<1>2. /\ out \in [Chats -> Outbound] /\ cur \in Chats /\ todo \subseteq Chats
  BY <1>1 DEF TypeOK
<1>3. ASSUME NEW c \in Chats, Capture(c) PROVE Captured'
  BY <1>1, <1>2, <1>3 DEF Capture, NoParts, Captured, Outbound
<1>4. CASE QueuePart
  <2>1. \A d \in Chats : /\ out'[d].manifest = (out[d].manifest \/ d = cur)
                         /\ out'[d].state = out[d].state
    BY <1>1, <1>2, <1>4, PartQueued DEF QueuePart
  <2> QED
    BY <1>1, <1>2, <1>4, <2>1 DEF QueuePart, Captured
<1>5. CASE ReadAck
  <2>1. /\ reply # <<>> /\ reply \in Seq(Envelope) /\ UNCHANGED <<pc, cur, todo>>
        /\ out' = [out EXCEPT ![Head(reply).chat].state = "done"]
    BY <1>1, <1>5 DEF ReadAck, TypeOK
  <2> DEFINE c == Head(reply).chat
  <2>2. c \in Chats
    BY <2>1, TakenOut, Fields
  <2>3. out' = [out EXCEPT ![c].state = "done"]
    BY <2>1
  <2> HIDE DEF c
  <2>4. \A d \in Chats : /\ out'[d].manifest = out[d].manifest
                         /\ out[d].state # "none" => out'[d].state # "none"
    BY <1>2, <2>2, <2>3 DEF Outbound
  <2> QED
    BY <1>1, <1>2, <2>1, <2>4 DEF Captured
<1>6. CASE LeaseRefused \/ PartsStale \/ StageFails \/ PartsFail
  BY <1>1, <1>6
  DEF LeaseRefused, PartsStale, StageFails, PartsFail, Abort, Stop, Captured
<1>7. CASE Add \/ Stage \/ PartsDone
  BY <1>1, <1>7 DEF Add, Stage, PartsDone, Captured
<1>8. CASE Resume \/ ResumeNext
  BY <1>1, <1>2, <1>8 DEF Resume, ResumeNext, Unfinished, Open, Captured
<1>9. CASE Crash \/ RestoreNext \/ RestoreDone
  BY <1>1, <1>9 DEF Crash, RestoreNext, RestoreDone, Abort, Stop, Captured
<1>10. CASE Send \/ ReadCommit \/ \E m \in Messages : Arrive(m) \/ Raise(m)
  BY <1>1, <1>10 DEF Send, ReadCommit, Arrive, Raise, Captured
<1>11. ASSUME \/ ReadMembership \/ Apply \/ Consume \/ TargetFails
              \/ \E c \in Chats : PeerCommit(c) \/ QueueAck(c)
       PROVE  Captured'
  BY <1>1, <1>11 DEF ReadMembership, Apply, Consume, TargetFails, PeerCommit,
     QueueAck, sourceVars, Captured
<1>12. CASE UNCHANGED vars
  BY <1>1, <1>12 DEF vars, sourceVars, Captured
<1> QED
  BY <1>3, <1>4, <1>5, <1>6, <1>7, <1>8, <1>9, <1>10, <1>11, <1>12 DEF Next

\* The invariant is inductive.
LEMMA InvNext == Inv /\ [Next]_vars => Inv'
<1> SUFFICES ASSUME Inv, [Next]_vars PROVE Inv'
  OBVIOUS
<1>1. TypeOK' /\ Captured'
  BY TypeNext, CapturedNext DEF Inv
<1>2. ASSUME \/ \E m \in Messages : Arrive(m) \/ Raise(m)
             \/ LeaseRefused \/ Add \/ StageFails \/ Resume \/ ResumeNext
             \/ PartsStale \/ PartsFail \/ PartsDone
             \/ Crash \/ RestoreNext \/ RestoreDone \/ TargetFails
             \/ UNCHANGED vars
      PROVE  Books'
  <2>1. UNCHANGED <<out, queue, mail, reply, in, have>> /\ tpc' \in {tpc, "read"}
    BY <1>2 DEF Arrive, Raise, LeaseRefused, Add, StageFails, Resume, ResumeNext,
       PartsStale, PartsFail, PartsDone, Crash, RestoreNext, RestoreDone,
       TargetFails, vars, sourceVars, relayVars, targetVars
  <2> QED
    BY <2>1, BooksKept
<1>3. Books'
  BY <1>2, BooksCapture, BooksStage, BooksQueuePart, BooksSend, BooksPeerCommit,
     BooksReadMembership, BooksApply, BooksQueueAck, BooksConsume, BooksReadAck,
     BooksReadCommit DEF Next
<1> QED
  BY <1>1, <1>3, InOrderNext DEF Inv, Books

\* So it holds in every state the system reaches.
LEMMA Invariance == Spec => []Inv
BY InitInv, InvNext, PTL DEF Spec

-----------------------------------------------------------------------------
\* Every variable keeps its type: in particular a delivery is only taken from
\* a mailbox that has one.
THEOREM TypeCorrect == Spec => []TypeOK
<1>1. Inv => TypeOK
  BY DEF Inv
<1> QED
  BY <1>1, Invariance, PTL

\* When the source drops its journal of a transfer (complete_history_transfer),
\* the target has stored every message of it.
THEOREM DropsOnlyWhatIsHeld == Spec => []DoneIsHeld
<1>1. Inv => DoneIsHeld
  BY DEF Inv
<1> QED
  BY <1>1, Invariance, PTL

\* The part that completed an import stays in the mailbox until the
\* acknowledgement is queued (present_history_sync), so it comes again when
\* that write fails.
THEOREM ImportsAreAnswered == Spec => []ImportAnswered
<1>1. Inv => ImportAnswered
  BY DEF Inv
<1> QED
  BY <1>1, Invariance, PTL

\* A target that cannot open what it was sent was overtaken by another member's
\* Commit, or the vault refused to queue a Welcome (restore_pending_membership
\* ends at the first it cannot stage). Otherwise the Welcome, the later Commits
\* and the parts of queue_history_transfer come in an order it can read.
THEOREM ShutOutForCause == Spec => []ShutOutWithCause
<1>1. Inv => ShutOutWithCause
  BY HeadIsReadable DEF Inv
<1> QED
  BY <1>1, Invariance, PTL
=============================================================================
