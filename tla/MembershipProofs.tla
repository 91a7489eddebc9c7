-------------------------- MODULE MembershipProofs --------------------------
(***************************************************************************)
(* Proofs about how a device comes into a group: Handoff and Conversation, *)
(* which share no state.                                                   *)
(*                                                                         *)
(* Handoff, for every set of devices, with and without faults, and any     *)
(* number of restarts.  Commits are numbered as they are made (Numbers),   *)
(* and the group never stands below one that was queued unless a restart   *)
(* made it forget; so a new Commit has a base no other one has.  A changed *)
(* target has its Commit queued or still beside the group that changed     *)
(* (WellKept), and the engine looks there before it acknowledges           *)
(* (Subject).  The lease is taken for the head of the group until the      *)
(* relay has it (LeaseBooks).                                              *)
(*                                                                         *)
(* Conversation, for any devices, accounts, chats and events.  A device    *)
(* begins a chat only while it lists none (Starts), and lists it together  *)
(* with the queued Welcome (Keeps), so it has one Welcome at most          *)
(* (OneOwn).  It sends nothing of a chat while the Welcome is queued, so   *)
(* the Welcome is before everything else of the chat on the wire (Wired,   *)
(* Waits); and a mailbox is read in order, so who was invited has joined   *)
(* when the rest comes (Took).  What a device has of its own is sent,      *)
(* waits or was cancelled, everything else came from the relay (Holds);    *)
(* an author has what is on the wire (Authored), a reader what it has read *)
(* (Got).  So two devices that have read everything hold the same events,  *)
(* and what they show is computed from these in the order of their times.  *)
(***************************************************************************)
EXTENDS Handoff, Conversation, WellFoundedInduction, TLAPS

-----------------------------------------------------------------------------
(* Handoff.                                                                *)

All == Known \cup image.pending \cup disk.pending

Numbers ==
  /\ \A c \in All : c.base < c.id
  /\ \A c \in image.pending : c.id <= image.head
  /\ \A c \in disk.pending : c.id <= disk.head
  /\ ~orphan => \A c \in Known : c.id <= image.head
  /\ ~orphan => \A c, d \in All : c.base = d.base => c = d

WellKept(i) ==
  /\ \A p \in i.pending : p.target \in i.changed
  /\ \A p, q \in i.pending : p.target = q.target => p = q
  /\ \A t \in i.changed : \E c \in Known \cup i.pending : c.target = t

Subject ==
  /\ pc = "stage" => cur \in image.pending
  /\ pc = "complete" => cur \in image.pending \cap outbox
  /\ pc \in {"claim", "create"} => cur.target \notin image.changed
  /\ pc = "rotate" => \A p \in image.pending : p.target # cur.target
  /\ pc = "ack" => \E c \in Known : c.target = cur.target

Sent(n) == n = 0 \/ \E d \in accepted : d.id = n

LeaseBooks ==
  /\ Sent(image.head) \/ lease = image.head
  /\ disk.head # image.head => Sent(disk.head)
  /\ pc \in {"claim", "create"} => Sent(image.head) /\ lease = made + 1
  /\ \A c \in All : Sent(c.base)

Inv ==
  /\ TypeOK
  /\ Numbers
  /\ WellKept(image) /\ WellKept(disk)
  /\ Subject
  /\ LeaseBooks
  /\ AckedIsQueued

-----------------------------------------------------------------------------
\* The invariant holds before anything was changed.
LEMMA InvInit == Init => Inv
<1> SUFFICES ASSUME Init PROVE Inv
  OBVIOUS
<1> USE HandoffAssumption
<1>1. image \in Image /\ disk \in Image /\ disk.head = 0 /\ image.head = 0
  BY DEF Init, Image
<1>2. TypeOK
  <2>1. pc \in Step /\ (pc \notin {"idle", "restore"} => cur \in Commit)
    BY DEF Init, Step
  <2>2. /\ restoring \in BOOLEAN /\ orphan \in BOOLEAN
        /\ outbox \subseteq Commit /\ accepted \subseteq Commit
        /\ revoked \subseteq Removals /\ events \subseteq revoked
    BY DEF Init
  <2>3. /\ crashes \in Nat /\ lease \in Nat /\ made \in Nat
        /\ disk.head <= image.head /\ image.head <= made
    BY <1>1 DEF Init
  <2> QED
    BY <1>1, <2>1, <2>2, <2>3 DEF TypeOK
<1>3. Numbers /\ LeaseBooks
  BY DEF Init, Numbers, LeaseBooks, All, Known, Sent
<1>4. WellKept(image) /\ WellKept(disk) /\ Subject /\ AckedIsQueued
  BY DEF Init, WellKept, Subject, AckedIsQueued
<1> QED
  BY <1>2, <1>3, <1>4 DEF Inv

\* Every step keeps the types, and memory is never behind the disk.
LEMMA TypeNext ==
  ASSUME TypeOK, Subject, [Next]_vars
  PROVE  TypeOK'
<1> USE HandoffAssumption
<1>1. CASE \E t \in Targets : Revoke(t)
  BY <1>1 DEF Revoke, TypeOK, deviceVars, engineVars, ghostVars
<1>2. ASSUME NEW t \in Targets, TakeEvent(t) \/ SyncDevice(t) PROVE TypeOK'
  BY <1>2 DEF TakeEvent, SyncDevice, TypeOK, Commit, Step, deviceVars, relayVars, ghostVars
<1>3. CASE Restage
  BY <1>3 DEF Restage, TypeOK, Image, Commit, Step, deviceVars, relayVars, ghostVars
<1>4. CASE Rotated
  BY <1>4 DEF Rotated, TypeOK, Step, deviceVars, relayVars, ghostVars
<1>5. CASE Refused \/ VaultWriteFails \/ RestoreDone
  <2>1. Abort /\ UNCHANGED <<image, disk, outbox, crashes, revoked, events,
                             lease, accepted, made, orphan>>
    BY <1>5 DEF Refused, VaultWriteFails, RestoreDone, deviceVars, relayVars,
                ghostVars
  <2> QED
    BY <2>1 DEF Abort, TypeOK, Step
<1>6. CASE Acquire
  BY <1>6 DEF Acquire, TypeOK, Step, deviceVars, ghostVars
<1>7. CASE Claim
  <2>1. CASE Abort
    <3>1. pc' = "idle" /\ restoring' = FALSE /\ lease' \in Nat
      BY <1>7, <2>1 DEF Claim, GiveBack, Abort, TypeOK
    <3> QED
      BY <1>7, <3>1 DEF Claim, GiveBack, TypeOK, Step, deviceVars, ghostVars
  <2>2. CASE pc' = "create" /\ UNCHANGED <<cur, restoring, lease>>
    BY <1>7, <2>2 DEF Claim, GiveBack, TypeOK, Step, deviceVars, ghostVars
  <2> QED
    BY <1>7, <2>1, <2>2 DEF Claim, GiveBack
<1>8. CASE Create
  <2>1. NextCommit \in Commit
    BY <1>8 DEF Create, NextCommit, Commit, TypeOK, Image
  <2>2. image' \in Image
    BY <1>8, <2>1 DEF Create, TypeOK, Image, Commit
  <2>3. image'.head = made + 1 /\ made' = made + 1 /\ (disk' = disk \/ disk' = image')
    BY <1>8 DEF Create, Persisted, PersistFailed
  <2>4. disk' \in Image /\ disk'.head <= image'.head /\ image'.head <= made'
    BY <2>2, <2>3 DEF TypeOK, Image
  <2>5. /\ \/ pc' = "stage" /\ cur' = NextCommit /\ restoring' = restoring
           \/ pc' = "idle" /\ restoring' = FALSE
        /\ made' = made + 1
        /\ UNCHANGED <<outbox, crashes, revoked, events, lease, accepted, orphan>>
    BY <1>8 DEF Create, Abort, relayVars
  <2>6. pc' \in Step /\ (pc' \notin {"idle", "restore"} => cur' \in Commit)
    BY <2>1, <2>5 DEF Step
  <2>7. restoring' \in BOOLEAN
    BY <2>5 DEF TypeOK
  <2>8. made' \in Nat
    BY <2>5 DEF TypeOK
  <2> QED
    BY <2>2, <2>4, <2>5, <2>6, <2>7, <2>8 DEF TypeOK
<1>9. CASE Stage
  BY <1>9 DEF Stage, TypeOK, Step, deviceVars, relayVars, ghostVars
<1>10. CASE Complete
  <2>1. image' \in Image /\ image'.head = image.head
    BY <1>10 DEF Complete, TypeOK, Image
  <2>2. disk' \in Image /\ disk'.head <= image'.head
    BY <1>10, <2>1 DEF Complete, Persisted, PersistFailed, TypeOK, Image
  <2> QED
    BY <1>10, <2>1, <2>2 DEF Complete, Abort, TypeOK, Step, relayVars, ghostVars
<1>11. CASE Acknowledge
  BY <1>11 DEF Acknowledge, Abort, TypeOK, Step, deviceVars, ghostVars
<1>12. CASE PersistElsewhere
  BY <1>12 DEF PersistElsewhere, Persisted, TypeOK, Image, engineVars, relayVars, ghostVars
<1>13. ASSUME NEW c \in outbox, Send(c) PROVE TypeOK'
  BY <1>13 DEF Send, Accept, TypeOK, deviceVars, engineVars, ghostVars
<1>14. CASE Crash
  BY <1>14 DEF Crash, TypeOK, Image, Step, relayVars
<1>15. CASE RestoreNext
  BY <1>15 DEF RestoreNext, TypeOK, Image, Step, deviceVars, relayVars, ghostVars
<1>16. CASE UNCHANGED vars
  BY <1>16 DEF TypeOK, vars, deviceVars, engineVars, relayVars, ghostVars
<1> QED
  BY <1>1, <1>2, <1>3, <1>4, <1>5, <1>6, <1>7, <1>8, <1>9, <1>10, <1>11,
     <1>12, <1>13, <1>14, <1>15, <1>16 DEF Next

-----------------------------------------------------------------------------
\* The steps that touch neither the image, nor the outbox, nor the lease.
Quiet ==
  /\ UNCHANGED <<image, disk, outbox, accepted, lease, made, orphan>>
  /\ pc' \in {"claim", "create"} => pc' = pc

\* What a step can be, as far as the Commits are concerned.
LEMMA StepCases ==
  ASSUME [Next]_vars
  PROVE  \/ Quiet \/ Acquire \/ Claim \/ Create \/ Stage \/ Complete
         \/ PersistElsewhere \/ (\E c \in outbox : Send(c)) \/ Crash
  BY DEF Next, Revoke, TakeEvent, SyncDevice, Restage, Rotated, Refused,
         VaultWriteFails, Acknowledge, RestoreNext, RestoreDone, Abort, Quiet,
         vars, deviceVars, engineVars, relayVars, ghostVars

\* Every step keeps the numbering, and the one history while nothing is orphaned.
LEMMA NumbersNext ==
  ASSUME TypeOK, Numbers, Subject, [Next]_vars
  PROVE  Numbers'
<1>1. CASE Quiet \/ Acquire \/ Claim
  BY <1>1 DEF Quiet, Acquire, Claim, GiveBack, Numbers, All, Known, deviceVars, ghostVars
<1>2. CASE Create
  <2> DEFINE n == NextCommit
  <2>1. /\ image' = [head |-> n.id, changed |-> image.changed \cup {n.target},
                     pending |-> image.pending \cup {n}]
        /\ n.id = made + 1 /\ n.base = image.head
        /\ disk' = disk \/ disk' = image'
        /\ UNCHANGED <<outbox, accepted, orphan>>
    BY <1>2 DEF Create, NextCommit, Persisted, PersistFailed, relayVars
  <2>2. All' \subseteq All \cup {n} /\ Known' = Known
    BY <2>1 DEF All, Known
  <2>3. /\ image.head \in Nat /\ disk.head \in Nat /\ made \in Nat
        /\ disk.head <= image.head /\ image.head <= made
        /\ All \subseteq Commit
    BY DEF TypeOK, Image, All, Known
  <2>4. \A c \in All' : c.base < c.id
    BY <2>1, <2>2, <2>3 DEF Numbers
  <2>5. /\ \A c \in image'.pending : c.id <= image'.head
        /\ ~orphan' => \A c \in Known' : c.id <= image'.head
    BY <2>1, <2>2, <2>3 DEF Numbers, All, Known, Commit
  <2>6. \A c \in disk'.pending : c.id <= disk'.head
    BY <2>1, <2>5 DEF Numbers
  <2>7. ~orphan => \A c \in All : c.base # n.base
    BY <2>1, <2>3 DEF Numbers, All, Commit
  <2>8. ~orphan' => \A c, d \in All' : c.base = d.base => c = d
    BY <2>1, <2>2, <2>7 DEF Numbers
  <2> QED
    BY <2>4, <2>5, <2>6, <2>8 DEF Numbers
<1>3. CASE Stage
  <2>1. All' = All /\ Known' = Known \cup {cur} /\ cur \in image.pending
        /\ UNCHANGED <<image, disk, orphan>>
    BY <1>3 DEF Stage, Subject, All, Known, deviceVars, relayVars, ghostVars
  <2> QED
    BY <2>1 DEF Numbers
<1>4. CASE Complete
  <2>1. /\ image'.pending \subseteq image.pending /\ image'.head = image.head
        /\ disk' = disk \/ disk' = image'
        /\ Known' = Known /\ UNCHANGED orphan
    BY <1>4 DEF Complete, Persisted, PersistFailed, TypeOK, Image, Known,
                relayVars, ghostVars
  <2>2. All' \subseteq All
    BY <2>1 DEF All
  <2> QED
    BY <2>1, <2>2 DEF Numbers
<1>5. CASE PersistElsewhere \/ \E c \in outbox : Send(c)
  <2>1. All' \subseteq All /\ Known' \subseteq Known
        /\ UNCHANGED <<image, orphan>> /\ (disk' = disk \/ disk' = image)
    BY <1>5 DEF PersistElsewhere, Persisted, Send, Accept, All, Known,
                deviceVars, relayVars, ghostVars
  <2> QED
    BY <2>1 DEF Numbers
<1>6. CASE Crash
  <2>1. /\ Known' = Known /\ All' \subseteq All /\ image' = disk /\ disk' = disk
        /\ orphan' = (orphan \/ \E c \in Known : disk.head < c.id)
    BY <1>6 DEF Crash, Known, All, relayVars
  <2>2. Known \subseteq Commit /\ disk.head \in Nat
    BY DEF TypeOK, Image, Known
  <2>3. ~orphan' => \A c \in Known : ~(disk.head < c.id)
    BY <2>1
  <2>4. \A c \in Known : c.id \in Nat
    BY <2>2 DEF Commit
  <2>5. ~orphan' => \A c \in Known' : c.id <= image'.head
    BY <2>1, <2>2, <2>3, <2>4
  <2>6. ~orphan' => ~orphan
    BY <2>1
  <2> QED
    BY <2>1, <2>5, <2>6 DEF Numbers
<1> QED
  BY <1>1, <1>2, <1>3, <1>4, <1>5, <1>6, StepCases

-----------------------------------------------------------------------------
\* Every changed target keeps its Commit, in memory and for the next restart.
LEMMA KeptNext ==
  ASSUME TypeOK, WellKept(image), WellKept(disk), Subject, [Next]_vars
  PROVE  WellKept(image)' /\ WellKept(disk)'
<1>1. CASE Quiet \/ Acquire \/ Claim
  BY <1>1 DEF Quiet, Acquire, Claim, GiveBack, WellKept, Known, deviceVars, ghostVars
<1>2. CASE Create
  <2> DEFINE n == NextCommit
  <2>1. /\ image' = [head |-> n.id, changed |-> image.changed \cup {n.target},
                     pending |-> image.pending \cup {n}]
        /\ n.target = cur.target /\ cur.target \notin image.changed
        /\ disk' = disk \/ disk' = image'
        /\ Known' = Known
    BY <1>2 DEF Create, NextCommit, Persisted, PersistFailed, relayVars, Known,
                Subject
  <2>2. WellKept(image)'
    BY <2>1 DEF WellKept
  <2> QED
    BY <2>1, <2>2 DEF WellKept
<1>3. CASE Stage \/ \E c \in outbox : Send(c)
  <2>1. Known \subseteq Known' /\ UNCHANGED <<image, disk>>
    BY <1>3 DEF Stage, Send, Accept, Known, deviceVars, relayVars
  <2> QED
    BY <2>1 DEF WellKept
<1>4. CASE Complete
  <2>1. /\ image'.pending = image.pending \ {cur}
        /\ image'.changed = image.changed
        /\ cur \in Known /\ Known' = Known
        /\ disk' = disk \/ disk' = image'
    BY <1>4 DEF Complete, Persisted, PersistFailed, TypeOK, Image, Known,
                Subject, relayVars
  <2>2. WellKept(image)'
    BY <2>1 DEF WellKept
  <2> QED
    BY <2>1, <2>2 DEF WellKept
<1>5. CASE PersistElsewhere \/ Crash
  <2>1. /\ Known' = Known
        /\ image' \in {image, disk} /\ disk' \in {image, disk}
    BY <1>5 DEF PersistElsewhere, Persisted, Crash, Known, relayVars
  <2> QED
    BY <2>1 DEF WellKept
<1> QED
  BY <1>1, <1>2, <1>3, <1>4, <1>5, StepCases

\* The engine holds on to the right Commit, and finds an unfinished one
\* before it goes on.
LEMMA SubjectNext ==
  ASSUME TypeOK, WellKept(image), Subject, [Next]_vars
  PROVE  Subject'
<1>1. CASE \E t \in Targets : Revoke(t)
  BY <1>1 DEF Revoke, Subject, Known, deviceVars, engineVars
<1>2. ASSUME NEW t \in Targets, TakeEvent(t) PROVE Subject'
  BY <1>2 DEF TakeEvent, Subject
<1>3. ASSUME NEW t \in Targets, SyncDevice(t) PROVE Subject'
  BY <1>3 DEF SyncDevice, Subject, WellKept, deviceVars
<1>4. CASE Restage
  BY <1>4 DEF Restage, Subject, deviceVars
<1>5. CASE Rotated
  BY <1>5 DEF Rotated, Subject, WellKept, Known, deviceVars, relayVars
<1>6. CASE Refused \/ VaultWriteFails \/ RestoreDone \/ Acknowledge \/ Crash
  BY <1>6 DEF Refused, VaultWriteFails, RestoreDone, Acknowledge, Abort,
              Crash, Subject
<1>7. CASE Acquire
  BY <1>7 DEF Acquire, Subject, deviceVars
<1>8. CASE Claim
  BY <1>8 DEF Claim, GiveBack, Abort, Subject, deviceVars
<1>9. CASE Create
  <2>1. \/ pc' = "stage" /\ cur' = NextCommit
        \/ pc' = "idle"
    BY <1>9 DEF Create, Abort
  <2>2. image'.pending = image.pending \cup {NextCommit}
    BY <1>9 DEF Create
  <2> QED
    BY <2>1, <2>2 DEF Subject
<1>10. CASE Stage
  BY <1>10 DEF Stage, Subject, deviceVars
<1>11. CASE Complete
  <2>1. image'.pending = image.pending \ {cur} /\ cur \in image.pending
    BY <1>11 DEF Complete, TypeOK, Image, Subject
  <2>2. pc' \in {"idle", "restore"} \/ (pc' = "rotate" /\ cur' = cur)
    BY <1>11 DEF Complete, Abort
  <2>3. \A p \in image'.pending : p.target # cur.target
    BY <2>1 DEF WellKept
  <2> QED
    BY <2>2, <2>3 DEF Subject
<1>12. CASE PersistElsewhere \/ \E c \in outbox : Send(c)
  <2>1. pc' = "idle"
    BY <1>12 DEF PersistElsewhere, Send, engineVars
  <2> QED
    BY <2>1 DEF Subject
<1>13. CASE RestoreNext
  BY <1>13 DEF RestoreNext, Subject, deviceVars
<1>14. CASE UNCHANGED vars
  BY <1>14 DEF Subject, Known, vars, deviceVars, engineVars, relayVars
<1> QED
  BY <1>1, <1>2, <1>3, <1>4, <1>5, <1>6, <1>7, <1>8, <1>9, <1>10, <1>11,
     <1>12, <1>13, <1>14 DEF Next

\* The relay's lease covers the head of the group until the relay has it.
LEMMA LeaseNext ==
  ASSUME TypeOK, Subject, LeaseBooks, [Next]_vars
  PROVE  LeaseBooks'
<1>1. CASE Quiet
  BY <1>1 DEF Quiet, LeaseBooks, Sent, All, Known
<1>2. CASE Acquire
  BY <1>2 DEF Acquire, LeaseBooks, Sent, All, Known, deviceVars, ghostVars, TypeOK
<1>3. CASE Claim
  BY <1>3 DEF Claim, GiveBack, Abort, LeaseBooks, Sent, All, Known, deviceVars, ghostVars
<1>4. CASE Create
  <2> DEFINE n == NextCommit
  <2>1. /\ image' = [head |-> n.id, changed |-> image.changed \cup {n.target},
                     pending |-> image.pending \cup {n}]
        /\ n.id = made + 1 /\ n.base = image.head
        /\ disk' = disk \/ disk' = image'
        /\ pc' \in {"stage", "idle"}
        /\ UNCHANGED <<outbox, accepted, lease>>
    BY <1>4 DEF Create, NextCommit, Persisted, PersistFailed, Abort, relayVars
  <2>2. Sent(image.head) /\ lease = made + 1 /\ Sent(disk.head)
    BY <1>4 DEF Create, LeaseBooks
  <2>3. All' \subseteq All \cup {n}
    BY <2>1 DEF All, Known
  <2> QED
    BY <2>1, <2>2, <2>3 DEF LeaseBooks, Sent
<1>5. CASE Stage
  <2>1. All' = All /\ UNCHANGED <<image, disk, lease, accepted>> /\ pc' = "complete"
    BY <1>5 DEF Stage, Subject, All, Known, deviceVars, relayVars
  <2> QED
    BY <2>1 DEF LeaseBooks, Sent
<1>6. CASE Complete
  <2>1. /\ image'.head = image.head /\ image'.pending \subseteq image.pending
        /\ disk' = disk \/ disk' = image'
        /\ UNCHANGED <<outbox, lease, accepted>>
        /\ pc' \notin {"claim", "create"}
    BY <1>6 DEF Complete, Persisted, PersistFailed, Abort, TypeOK, Image, relayVars
  <2>2. All' \subseteq All
    BY <2>1 DEF All, Known
  <2> QED
    BY <2>1, <2>2 DEF LeaseBooks, Sent
<1>7. CASE PersistElsewhere
  <2>1. UNCHANGED <<image, outbox, accepted, lease>> /\ disk' = image /\ pc' = "idle"
    BY <1>7 DEF PersistElsewhere, Persisted, engineVars, relayVars
  <2> QED
    BY <2>1 DEF LeaseBooks, Sent, All, Known
<1>8. ASSUME NEW c \in outbox, Send(c) PROVE LeaseBooks'
  <2>1. /\ UNCHANGED <<image, disk>> /\ pc' = "idle"
        /\ accepted' = accepted \cup {c}
        /\ lease' = lease \/ (lease = c.id /\ lease' = 0)
        /\ All' \subseteq All
    BY <1>8 DEF Send, Accept, All, Known, deviceVars, engineVars
  <2>2. \A k : Sent(k) => Sent(k)'
    BY <2>1 DEF Sent
  <2>3. Sent(c.id)'
    BY <2>1 DEF Sent
  <2> QED
    BY <2>1, <2>2, <2>3 DEF LeaseBooks
<1>9. CASE Crash
  <2>1. image' = disk /\ UNCHANGED <<disk, outbox, accepted, lease>> /\ pc' = "restore"
    BY <1>9 DEF Crash, relayVars
  <2>2. All' \subseteq All
    BY <2>1 DEF All, Known
  <2> QED
    BY <2>1, <2>2 DEF LeaseBooks, Sent
<1> QED
  BY <1>1, <1>2, <1>3, <1>4, <1>5, <1>6, <1>7, <1>8, <1>9, StepCases

\* Only Acknowledge takes an event away, and only with its Commit queued.
LEMMA AckedNext ==
  ASSUME TypeOK, Subject, AckedIsQueued, [Next]_vars
  PROVE  AckedIsQueued'
<1>1. Known \subseteq Known'
  BY DEF Next, Revoke, TakeEvent, SyncDevice, Restage, Rotated, Refused,
         Acquire, Claim, Create, Stage, VaultWriteFails, Complete, Acknowledge,
         PersistElsewhere, Send, Accept, Crash, RestoreNext, RestoreDone, Known,
         vars, relayVars
<1>2. CASE \E t \in Targets : Revoke(t)
  BY <1>1, <1>2 DEF Revoke, AckedIsQueued
<1>3. CASE Acknowledge
  BY <1>1, <1>3 DEF Acknowledge, AckedIsQueued, Subject
<1>4. CASE UNCHANGED <<revoked, events>>
  BY <1>1, <1>4 DEF AckedIsQueued
<1> QED
  BY <1>2, <1>3, <1>4
  DEF Next, TakeEvent, SyncDevice, Restage, Rotated, Refused, Acquire, Claim,
      GiveBack,
      Create, Stage, VaultWriteFails, Complete, PersistElsewhere, Send, Accept,
      Crash, RestoreNext, RestoreDone, vars, relayVars

-----------------------------------------------------------------------------
\* The invariant holds in every reachable state.
THEOREM Invariance == Spec => []Inv
<1>1. Inv /\ [Next]_vars => Inv'
  BY TypeNext, NumbersNext, KeptNext, SubjectNext, LeaseNext, AckedNext DEF Inv
<1> QED
  BY <1>1, InvInit, PTL DEF Spec

\* Every variable keeps its type, and memory is never behind the disk.
THEOREM TypeCorrect == Spec => []TypeOK
<1>1. Inv => TypeOK
  BY DEF Inv
<1> QED
  BY Invariance, <1>1, PTL

\* Two Commits upon the same one need a restart that forgot the first.
THEOREM NoForkWithoutOrphan == Spec => []ForkNeedsOrphan
<1>1. Inv => ForkNeedsOrphan
  BY DEF Inv, Numbers, ForkNeedsOrphan, OneCommitPerEpoch, All
<1> QED
  BY Invariance, <1>1, PTL

\* The relay gets the Commits in the order of their epochs, whatever fails.
THEOREM OrderedChain == Spec => []ChainInOrder
<1>1. Inv => ChainInOrder
  BY DEF Inv, LeaseBooks, ChainInOrder, Sent, All, Known
<1> QED
  BY Invariance, <1>1, PTL

\* No revocation is acknowledged before its removal is durably queued.
THEOREM AcknowledgedIsQueued == Spec => []AckedIsQueued
<1>1. Inv => AckedIsQueued
  BY DEF Inv
<1> QED
  BY Invariance, <1>1, PTL

-----------------------------------------------------------------------------
(* Conversation.                                                           *)

\* An envelope for the relay.
Envelope ==
  [kind : {"welcome", "poll", "vote", "close", "react", "unreact"},
   chat : Nat, by : Devices, at : {0} \cup 1 .. MaxEvents,
   val : SUBSET Options]

Founded == 1 .. Len(begun)

Typed ==
  /\ begun \in Seq([by : Devices, invited : SUBSET Devices])
  /\ step \in [Devices -> [at : {"idle", "claimed", "created"},
                           invited : SUBSET Devices]]
  /\ groups \in [Devices -> SUBSET Founded]
  /\ listed \in [Devices -> SUBSET Founded]
  /\ welcomes \in [Devices -> SUBSET Founded]
  /\ next \in [Devices -> Nat \ {0}]
  /\ wire \in Seq(Envelope)
  /\ pending \in [Devices -> SUBSET Envelope]

\* The chats a device was the one to begin.
Own(d, c) == c \in Founded /\ begun[c].by = d

OnRelay(e)    == \E i \in DOMAIN wire : wire[i] = e
Invited(c) == c \in Founded /\ OnRelay(Welcome(c))

\* A device that is about to queue a Welcome has no chat yet, and knows which
\* of its groups is the latest it made.
Starts ==
  \A d \in Devices :
    /\ step[d].at # "idle" => listed[d] = {}
    /\ step[d].at = "created" =>
         \E c \in groups[d] :
           /\ begun[c].by = d
           /\ \A b \in groups[d] : begun[b].by = d => b <= c

\* A device lists chats whose group it has; a chat it began is listed from the
\* moment its Welcome is queued; every other group came with a Welcome.
Keeps ==
  \A d \in Devices :
    /\ listed[d] \subseteq groups[d]
    /\ \A c \in welcomes[d] : Own(d, c) /\ c \in listed[d]
    /\ \A c \in listed[d] : Own(d, c) => c \in welcomes[d] \/ Invited(c)
    /\ \A c \in groups[d] : Own(d, c) \/ Invited(c)

\* A device has one Welcome at most, queued or sent.
OneOwn ==
  \A d \in Devices : \A b, c \in Founded :
    /\ Own(d, b) /\ (b \in welcomes[d] \/ Invited(b))
    /\ Own(d, c) /\ (c \in welcomes[d] \/ Invited(c))
    => b = c

\* The relay has every envelope once, the Welcome of a chat before anything
\* else of it.
Wired ==
  /\ \A i, j \in DOMAIN wire : wire[i] = wire[j] => i = j
  /\ \A i \in DOMAIN wire :
       /\ wire[i].chat \in Founded
       /\ wire[i].kind = "welcome" =>
            /\ wire[i] = Welcome(wire[i].chat)
            /\ wire[i].chat \in listed[wire[i].by]
       /\ wire[i].kind # "welcome" =>
            \E j \in DOMAIN wire : j < i /\ wire[j] = Welcome(wire[i].chat)

\* What waits to be sent again is of a chat whose Welcome has gone out.
Waits ==
  \A d \in Devices : \A e \in pending[d] :
    e.kind # "welcome" /\ Invited(e.chat)

\* A device has joined by every Welcome that it has consumed.
Took ==
  \A d \in Devices :
    /\ next[d] <= Len(wire) + 1
    /\ \A i \in DOMAIN wire :
         i < next[d] /\ wire[i].kind = "welcome" /\ d \in To(wire[i])
           => wire[i].chat \in groups[d]

ChatInv == Typed /\ Starts /\ Keeps /\ OneOwn /\ Wired /\ Waits /\ Took

-----------------------------------------------------------------------------
\* Some natural numbers have a least one.
LEMMA LeastExists ==
  ASSUME NEW S \in SUBSET Nat, S # {}
  PROVE  \E e \in S : \A o \in S : e <= o
<1> DEFINE Before == OpToRel(<, Nat)
<1>1. \A a, b \in Nat : a < b => <<a, b>> \in Before
  BY Zenon DEF OpToRel
<1>2. IsWellFoundedOn(Before, Nat)
  BY NatLessThanWellFounded, Zenon
<1> HIDE DEF Before
<1>3. PICK e \in S : \A o \in S : ~(<<o, e>> \in Before)
  BY <1>2, WFMin, Zenon
<1>4. ASSUME NEW o \in S PROVE e <= o
  <2>1. e \in Nat /\ o \in Nat
    OBVIOUS
  <2>2. ~(o < e)
    BY <1>1, <1>3, <2>1, Zenon
  <2> QED
    BY <2>1, <2>2
<1> QED
  BY <1>4

\* The first envelope of the mailbox.
LEMMA FirstOfMailbox ==
  ASSUME ChatInv, NEW d \in Devices, InMailbox(d) # {}
  PROVE  /\ Head1st(d) \in InMailbox(d)
         /\ \A j \in InMailbox(d) : Head1st(d) <= j
         /\ Head1st(d) \in DOMAIN wire /\ d \in To(wire[Head1st(d)])
         /\ next[d] <= Head1st(d)
<1>1. next[d] \in Nat \ {0} /\ Len(wire) \in Nat /\ DOMAIN wire = 1 .. Len(wire)
  BY DEF ChatInv, Typed
<1>2. InMailbox(d) \in SUBSET Nat
  BY <1>1 DEF InMailbox
<1>3. \E i \in InMailbox(d) : \A j \in InMailbox(d) : i <= j
  BY <1>2, LeastExists
<1>4. /\ Head1st(d) \in InMailbox(d)
      /\ \A j \in InMailbox(d) : Head1st(d) <= j
  BY <1>3 DEF Head1st
<1> QED
  BY <1>1, <1>4 DEF InMailbox

\* What the relay is given it has; it had everything else before.
LEMMA Posted ==
  ASSUME wire \in Seq(Envelope), NEW e \in Envelope, Post(e)
  PROVE  /\ wire' \in Seq(Envelope)
         /\ OnRelay(e)'
         /\ \A i \in DOMAIN wire : i \in DOMAIN wire' /\ wire'[i] = wire[i]
         /\ \A i \in DOMAIN wire' :
              \/ i \in DOMAIN wire
              \/ i = Len(wire) + 1 /\ wire'[i] = e /\ ~OnRelay(e)
         /\ Len(wire) \in Nat /\ DOMAIN wire = 1 .. Len(wire)
         /\ Len(wire) <= Len(wire')
<1>1. CASE OnRelay(e)
  <2>1. wire' = wire
    BY <1>1 DEF Post, OnRelay
  <2> QED
    BY <1>1, <2>1 DEF OnRelay
<1>2. CASE ~OnRelay(e)
  <2>1. wire' = Append(wire, e)
    BY <1>2 DEF Post, OnRelay
  <2>2. /\ wire' \in Seq(Envelope) /\ Len(wire') = Len(wire) + 1
        /\ DOMAIN wire' = 1 .. Len(wire) + 1
        /\ DOMAIN wire = 1 .. Len(wire) /\ Len(wire) \in Nat
        /\ wire'[Len(wire) + 1] = e
        /\ \A i \in 1 .. Len(wire) : wire'[i] = wire[i]
    BY <2>1
  <2>3. OnRelay(e)'
    BY <2>2 DEF OnRelay
  <2> QED
    BY <1>2, <2>2, <2>3
<1> QED
  BY <1>1, <1>2

LEMMA PostIsSound ==
  ASSUME ChatInv, NEW e \in Envelope, Post(e), e.chat \in Founded,
         UNCHANGED <<begun, step, groups, listed, next>>,
         e.kind = "welcome" =>
           /\ e = Welcome(e.chat)
           /\ e.chat \in listed[e.by],
         e.kind # "welcome" => Invited(e.chat)
  PROVE  /\ wire' \in Seq(Envelope) /\ Wired' /\ Took'
         /\ \A c : Invited(c) => Invited(c)'
         /\ \A c : Invited(c)' => Invited(c) \/ e = Welcome(c)
<1> wire \in Seq(Envelope) /\ Wired /\ Took /\ next \in [Devices -> Nat \ {0}]
  BY DEF ChatInv, Typed
<1>1. /\ wire' \in Seq(Envelope) /\ OnRelay(e)'
      /\ \A i \in DOMAIN wire : i \in DOMAIN wire' /\ wire'[i] = wire[i]
      /\ \A i \in DOMAIN wire' :
           \/ i \in DOMAIN wire
           \/ i = Len(wire) + 1 /\ wire'[i] = e /\ ~OnRelay(e)
      /\ Len(wire) \in Nat /\ DOMAIN wire = 1 .. Len(wire)
      /\ Len(wire) <= Len(wire')
  BY Posted
<1>2. /\ \A c : Welcome(c)' = Welcome(c) /\ \A q : To(q)' = To(q)
      /\ Founded' = Founded
  BY DEF Welcome, To, Members, Founded
<1>3. \A c : Invited(c) => Invited(c)'
  BY <1>1, <1>2 DEF Invited, OnRelay
<1>4. \A c : Invited(c)' => Invited(c) \/ e = Welcome(c)
  BY <1>1, <1>2 DEF Invited, OnRelay
<1>5. \A i, j \in DOMAIN wire' : wire'[i] = wire'[j] => i = j
  BY <1>1 DEF Wired, OnRelay
<1>6. ASSUME NEW i \in DOMAIN wire'
      PROVE  /\ wire'[i].chat \in Founded
             /\ wire'[i].kind = "welcome" =>
                  /\ wire'[i] = Welcome(wire'[i].chat)
                  /\ wire'[i].chat \in listed[wire'[i].by]
             /\ wire'[i].kind # "welcome" =>
                  \E j \in DOMAIN wire' :
                    j < i /\ wire'[j] = Welcome(wire'[i].chat)
  <2>1. CASE i \in DOMAIN wire
    BY <1>1, <2>1 DEF Wired
  <2>2. CASE i = Len(wire) + 1 /\ wire'[i] = e
    <3>1. ASSUME e.kind # "welcome"
          PROVE  \E j \in DOMAIN wire' : j < i /\ wire'[j] = Welcome(e.chat)
      <4>1. PICK j \in DOMAIN wire : wire[j] = Welcome(e.chat)
        BY <3>1 DEF Invited, OnRelay
      <4>2. j < Len(wire) + 1
        BY <1>1
      <4> QED
        BY <1>1, <2>2, <4>1, <4>2
    <3> QED
      BY <2>2, <3>1
  <2> QED
    BY <1>1, <2>1, <2>2
<1>7. Wired'
  BY <1>2, <1>5, <1>6 DEF Wired
<1>8. Took'
  <2> SUFFICES ASSUME NEW d \in Devices
               PROVE  /\ next[d] <= Len(wire') + 1
                      /\ \A i \in DOMAIN wire' :
                           /\ i < next[d] /\ wire'[i].kind = "welcome"
                           /\ d \in To(wire'[i])
                           => wire'[i].chat \in groups[d]
    BY <1>2 DEF Took
  <2>1. next[d] \in Nat /\ next[d] <= Len(wire) + 1 /\ Len(wire') \in Nat
    BY <1>1 DEF Took
  <2> QED
    BY <1>1, <2>1 DEF Took
<1> QED
  BY <1>1, <1>3, <1>4, <1>7, <1>8

\* What the relay, the vaults and the groups hold stays as it is.
LEMMA StillSame ==
  ASSUME ChatInv, UNCHANGED <<begun, groups, listed, welcomes, wire, next>>
  PROVE  /\ Keeps' /\ OneOwn' /\ Wired' /\ Took'
         /\ \A c : Invited(c)' = Invited(c)
<1>1. /\ \A c : Welcome(c)' = Welcome(c) /\ \A q : To(q)' = To(q)
      /\ Founded' = Founded /\ \A d, c : Own(d, c)' = Own(d, c)
  BY DEF Welcome, To, Members, Founded, Own
<1>2. \A c : Invited(c)' = Invited(c)
  BY <1>1 DEF Invited, OnRelay
<1>3. Keeps'
  BY <1>1, <1>2 DEF ChatInv, Keeps
<1>4. OneOwn'
  BY <1>1, <1>2 DEF ChatInv, OneOwn
<1>5. Wired'
  BY <1>1 DEF ChatInv, Wired
<1>6. Took'
  BY <1>1 DEF ChatInv, Took
<1> QED
  BY <1>2, <1>3, <1>4, <1>5, <1>6

\* A device begins or gives up.
LEMMA StepIsSound ==
  ASSUME ChatInv, UNCHANGED <<begun, groups, listed, welcomes, wire, next>>,
         UNCHANGED pending,
         NEW d \in Devices,
         NEW x \in [at : {"idle", "claimed"}, invited : SUBSET Devices],
         step' = [step EXCEPT ![d] = x],
         x.at # "idle" => listed[d] = {}
  PROVE  ChatInv'
<1>1. Typed'
  BY DEF ChatInv, Typed, Founded
<1>2. Starts'
  BY DEF ChatInv, Typed, Starts
<1>3. Waits'
  BY StillSame DEF ChatInv, Waits
<1> QED
  BY <1>1, <1>2, <1>3, StillSame DEF ChatInv

\* Messages of the outbox are given up.
LEMMA LessWaits ==
  ASSUME ChatInv, UNCHANGED <<begun, groups, listed, welcomes, wire, next>>,
         UNCHANGED step, NEW d \in Devices, NEW some \in SUBSET pending[d],
         pending' = [pending EXCEPT ![d] = some]
  PROVE  ChatInv'
<1>1. Typed'
  BY DEF ChatInv, Typed, Founded
<1>2. Starts'
  BY DEF ChatInv, Starts
<1>3. Waits'
  BY StillSame DEF ChatInv, Waits, Typed
<1> QED
  BY <1>1, <1>2, <1>3, StillSame DEF ChatInv

\* The group of a new chat is its maker's only, and its latest.
LEMMA CreateIsSound ==
  ASSUME ChatInv, NEW d \in Devices, CreateConversation(d), UNCHANGED pending
  PROVE  ChatInv'
<1>0. PICK n, new : /\ n = Len(begun) + 1
                    /\ new = [by |-> d, invited |-> step[d].invited]
  OBVIOUS
<1>1. /\ step[d].at = "claimed" /\ begun' = Append(begun, new)
      /\ UNCHANGED <<listed, welcomes, wire, next, pending>>
      /\ groups' = [groups EXCEPT ![d] = @ \cup {Len(begun')}]
      /\ \/ step' = [step EXCEPT ![d].at = "created"]
         \/ step' = [step EXCEPT ![d] = Rest]
  BY <1>0 DEF CreateConversation
<1>2. /\ new \in [by : Devices, invited : SUBSET Devices]
      /\ begun \in Seq([by : Devices, invited : SUBSET Devices])
  BY <1>0 DEF ChatInv, Typed
<1>3. /\ begun' \in Seq([by : Devices, invited : SUBSET Devices])
      /\ Len(begun') = n /\ Len(begun) \in Nat /\ begun'[n] = new
      /\ \A c \in Founded : begun'[c] = begun[c]
      /\ Founded' = Founded \cup {n} /\ n \notin Founded
  BY <1>0, <1>1, <1>2 DEF Founded
<1>4. groups' = [groups EXCEPT ![d] = @ \cup {n}]
  BY <1>1, <1>3
<1>5. /\ groups \in [Devices -> SUBSET Founded]
      /\ listed \in [Devices -> SUBSET Founded]
      /\ welcomes \in [Devices -> SUBSET Founded]
      /\ wire \in Seq(Envelope) /\ n \in Nat
      /\ step \in [Devices -> [at : {"idle", "claimed", "created"},
                               invited : SUBSET Devices]]
  BY <1>0, <1>3 DEF ChatInv, Typed
<1>6. Typed'
  <2>1. /\ groups' \in [Devices -> SUBSET Founded']
        /\ listed' \in [Devices -> SUBSET Founded']
        /\ welcomes' \in [Devices -> SUBSET Founded']
    BY <1>1, <1>3, <1>4, <1>5
  <2>2. step' \in [Devices -> [at : {"idle", "claimed", "created"},
                               invited : SUBSET Devices]]
    BY <1>1, <1>5 DEF Rest
  <2> QED
    BY <1>1, <1>3, <2>1, <2>2 DEF ChatInv, Typed, Envelope
<1>7. /\ \A c \in Founded : Welcome(c)' = Welcome(c) /\ Members(c)' = Members(c)
      /\ begun'[n].by = d
  <2>1. ASSUME NEW c \in Founded
        PROVE  Welcome(c)' = Welcome(c) /\ Members(c)' = Members(c)
    <3>1. begun'[c] = begun[c]
      BY <1>3
    <3> QED
      BY <3>1 DEF Welcome, Members
  <2>2. begun'[n].by = d
    BY <1>0, <1>3
  <2> QED
    BY <2>1, <2>2
<1>8. \A e \in Devices : \A c \in Founded : Own(e, c)' = Own(e, c)
  BY <1>3 DEF Own
<1>9. \A c \in Founded : Invited(c)' = Invited(c)
  BY <1>1, <1>3, <1>7 DEF Invited, OnRelay
<1>10. ~Invited(n)'
  <2>1. \A i \in DOMAIN wire : wire[i].chat # n
    BY <1>3 DEF ChatInv, Wired
  <2>2. Welcome(n)'.chat = n
    BY DEF Welcome
  <2> QED
    BY <1>1, <2>1, <2>2 DEF Invited, OnRelay
<1>11. Starts'
  <2> SUFFICES ASSUME NEW e \in Devices
               PROVE  /\ step'[e].at # "idle" => listed'[e] = {}
                      /\ step'[e].at = "created" =>
                           \E c \in groups'[e] :
                             /\ begun'[c].by = e
                             /\ \A b \in groups'[e] :
                                  begun'[b].by = e => b <= c
    BY DEF Starts
  <2>1. CASE e # d
    <3>1. step'[e] = step[e] /\ groups'[e] = groups[e]
      BY <1>1, <1>4, <1>5, <2>1
    <3>2. \A c \in groups[e] : begun'[c] = begun[c]
      BY <1>3, <1>5
    <3>3. ASSUME step[e].at = "created"
          PROVE  \E c \in groups[e] :
                   /\ begun'[c].by = e
                   /\ \A b \in groups[e] : begun'[b].by = e => b <= c
      <4>1. PICK c \in groups[e] :
              /\ begun[c].by = e
              /\ \A b \in groups[e] : begun[b].by = e => b <= c
        BY <3>3 DEF ChatInv, Starts
      <4> QED
        BY <3>2, <4>1
    <3> QED
      BY <1>1, <3>1, <3>3 DEF ChatInv, Starts
  <2>2. CASE e = d
    <3>1. listed'[d] = {}
      BY <1>1 DEF ChatInv, Starts
    <3>2. groups'[d] = groups[d] \cup {n}
      BY <1>4, <1>5
    <3>3. \A b \in groups'[d] : b <= n
      BY <1>0, <1>3, <1>5, <3>2 DEF Founded
    <3> QED
      BY <1>7, <2>2, <3>1, <3>2, <3>3
  <2> QED
    BY <2>1, <2>2
<1>12. Keeps'
  <2> SUFFICES ASSUME NEW e \in Devices
               PROVE  /\ listed'[e] \subseteq groups'[e]
                      /\ \A c \in welcomes'[e] : Own(e, c)' /\ c \in listed'[e]
                      /\ \A c \in listed'[e] :
                           Own(e, c)' => c \in welcomes'[e] \/ Invited(c)'
                      /\ \A c \in groups'[e] : Own(e, c)' \/ Invited(c)'
    BY DEF Keeps
  <2>1. listed'[e] = listed[e] /\ welcomes'[e] = welcomes[e]
        /\ groups[e] \subseteq groups'[e]
    BY <1>1, <1>4, <1>5
  <2>2. \A c \in groups'[e] : Own(e, c)' \/ Invited(c)'
    <3>1. \A c \in groups[e] : Own(e, c)' \/ Invited(c)'
      BY <1>5, <1>8, <1>9 DEF ChatInv, Keeps
    <3>2. Own(d, n)'
      BY <1>3, <1>7 DEF Own
    <3>3. \/ groups'[e] = groups[e]
          \/ e = d /\ groups'[e] = groups[e] \cup {n}
      <4>1. e = d => groups'[e] = groups[e] \cup {n}
        BY <1>4, <1>5
      <4>2. e # d => groups'[e] = groups[e]
        BY <1>4, <1>5
      <4> QED
        BY <4>1, <4>2
    <3> QED
      BY <3>1, <3>2, <3>3
  <2>3. \A c \in listed[e] : c \in Founded
    BY <1>5
  <2> QED
    BY <1>5, <1>8, <1>9, <2>1, <2>2, <2>3 DEF ChatInv, Keeps
<1>13. OneOwn'
  <2>1. \A e \in Devices : n \notin welcomes[e]
    BY <1>3, <1>5
  <2> SUFFICES ASSUME NEW e \in Devices, NEW b \in Founded', NEW c \in Founded',
                      Own(e, b)' /\ (b \in welcomes'[e] \/ Invited(b)'),
                      Own(e, c)' /\ (c \in welcomes'[e] \/ Invited(c)')
               PROVE  b = c
    BY DEF OneOwn
  <2>2. b \in Founded /\ c \in Founded
    BY <1>1, <1>3, <1>10, <2>1
  <2> QED
    BY <1>1, <1>8, <1>9, <2>2 DEF ChatInv, OneOwn
<1>14. Wired'
  <2>1. \A i \in DOMAIN wire : wire[i].chat \in Founded
    BY DEF ChatInv, Wired
  <2> QED
    BY <1>1, <1>3, <1>7, <2>1 DEF ChatInv, Wired
<1>15. Waits'
  BY <1>1, <1>9 DEF ChatInv, Waits, Invited
<1>16. Took'
  <2>1. \A i \in DOMAIN wire : To(wire[i])' = To(wire[i])
    BY <1>1, <1>7 DEF ChatInv, Wired, To
  <2>2. \A e \in Devices : groups[e] \subseteq groups'[e]
    BY <1>4, <1>5
  <2> QED
    BY <1>1, <2>1, <2>2 DEF ChatInv, Took
<1> QED
  BY <1>6, <1>11, <1>12, <1>13, <1>14, <1>15, <1>16 DEF ChatInv

LEMMA Elements ==
  ASSUME ChatInv
  PROVE  /\ \A i \in DOMAIN wire : wire[i] \in Envelope
         /\ \A c \in Founded : begun[c].by \in Devices
<1>1. ASSUME NEW S, NEW q \in Seq(S), NEW i \in 1 .. Len(q) PROVE q[i] \in S
  OBVIOUS
<1>2. \A i \in DOMAIN wire : wire[i] \in Envelope
  BY DEF ChatInv, Typed
<1>3. ASSUME NEW c \in Founded PROVE begun[c].by \in Devices
  <2>1. begun[c] \in [by : Devices, invited : SUBSET Devices]
    BY <1>1 DEF ChatInv, Typed, Founded
  <2> QED
    BY <2>1
<1> QED
  BY <1>2, <1>3

\* A device that lists no chat has queued and sent no Welcome.
LEMMA InvitedIsListed ==
  ASSUME ChatInv, NEW c, Invited(c)
  PROVE  c \in listed[begun[c].by] /\ begun[c].by \in Devices
<1>1. PICK i \in DOMAIN wire : wire[i] = Welcome(c)
  BY DEF Invited, OnRelay
<1>2. wire[i].kind = "welcome" /\ wire[i].chat = c /\ wire[i].by = begun[c].by
  BY <1>1 DEF Welcome
<1>3. wire[i].chat \in listed[wire[i].by]
  BY <1>2 DEF ChatInv, Wired
<1>4. begun[c].by \in Devices
  BY Elements DEF Invited
<1> QED
  BY <1>2, <1>3, <1>4

\* The Welcome of the group it made last is the only one a device queues.
LEMMA QueueIsSound ==
  ASSUME ChatInv, NEW d \in Devices, QueueWelcome(d), UNCHANGED pending
  PROVE  ChatInv'
<1> DEFINE c == Latest(d)
<1>1. CASE UNCHANGED <<listed, welcomes>>
  <2>1. step' = [step EXCEPT ![d] = Rest]
        /\ UNCHANGED <<begun, groups, wire, next>>
    BY DEF QueueWelcome
  <2>2. Rest \in [at : {"idle", "claimed"}, invited : SUBSET Devices]
        /\ Rest.at = "idle"
    BY DEF Rest
  <2> QED
    BY <1>1, <2>1, <2>2, StepIsSound
<1>2. CASE /\ listed' = [listed EXCEPT ![d] = @ \cup {c}]
           /\ welcomes' = [welcomes EXCEPT ![d] = @ \cup {c}]
  <2>0. PICK l : l = c
    OBVIOUS
  <2>1. /\ listed[d] = {}
        /\ l \in groups[d] /\ begun[l].by = d
    BY <2>0 DEF QueueWelcome, ChatInv, Starts, Latest
  <2>2. /\ step' = [step EXCEPT ![d] = Rest]
        /\ UNCHANGED <<begun, groups, wire, next, pending>>
        /\ listed' = [listed EXCEPT ![d] = @ \cup {l}]
        /\ welcomes' = [welcomes EXCEPT ![d] = @ \cup {l}]
    BY <1>2, <2>0 DEF QueueWelcome
  <2>3. /\ groups \in [Devices -> SUBSET Founded]
        /\ listed \in [Devices -> SUBSET Founded]
        /\ welcomes \in [Devices -> SUBSET Founded]
        /\ step \in [Devices -> [at : {"idle", "claimed", "created"},
                                 invited : SUBSET Devices]]
    BY DEF ChatInv, Typed
  <2>4. /\ listed'[d] = {l} /\ welcomes'[d] = welcomes[d] \cup {l}
        /\ \A e \in Devices \ {d} :
             listed'[e] = listed[e] /\ welcomes'[e] = welcomes[e]
    BY <2>1, <2>2, <2>3
  <2>5. /\ \A q : Welcome(q)' = Welcome(q) /\ Invited(q)' = Invited(q)
        /\ \A q : To(q)' = To(q)
        /\ Founded' = Founded /\ \A e, q : Own(e, q)' = Own(e, q)
    BY <2>2 DEF Welcome, To, Members, Founded, Own, Invited, OnRelay
  <2>6. l \in Founded /\ Own(d, l)
    BY <2>1, <2>3 DEF Own
  <2>7. \A q : Own(d, q) => q \notin welcomes[d] /\ ~Invited(q)
    BY <2>1, InvitedIsListed DEF ChatInv, Keeps, Own
  <2>8. Typed'
    <3>1. /\ listed' \in [Devices -> SUBSET Founded]
          /\ welcomes' \in [Devices -> SUBSET Founded]
      BY <2>2, <2>3, <2>6
    <3>2. step' \in [Devices -> [at : {"idle", "claimed", "created"},
                                 invited : SUBSET Devices]]
      BY <2>2, <2>3 DEF Rest
    <3> QED
      BY <2>2, <2>5, <3>1, <3>2 DEF ChatInv, Typed
  <2>9. Starts'
    <3> SUFFICES ASSUME NEW e \in Devices
                 PROVE  /\ step'[e].at # "idle" => listed'[e] = {}
                        /\ step'[e].at = "created" =>
                             \E q \in groups'[e] :
                               /\ begun'[q].by = e
                               /\ \A b \in groups'[e] :
                                    begun'[b].by = e => b <= q
      BY DEF Starts
    <3>1. CASE e = d
      BY <2>2, <2>3, <3>1 DEF Rest
    <3>2. CASE e # d
      <4>1. step'[e] = step[e] /\ listed'[e] = listed[e]
        BY <2>2, <2>3, <2>4, <3>2
      <4> QED
        BY <2>2, <4>1 DEF ChatInv, Starts
    <3> QED
      BY <3>1, <3>2
  <2>10. Keeps'
    <3> SUFFICES ASSUME NEW e \in Devices
                 PROVE  /\ listed'[e] \subseteq groups[e]
                        /\ \A q \in welcomes'[e] : Own(e, q) /\ q \in listed'[e]
                        /\ \A q \in listed'[e] :
                             Own(e, q) => q \in welcomes'[e] \/ Invited(q)
                        /\ \A q \in groups[e] : Own(e, q) \/ Invited(q)
      BY <2>2, <2>5 DEF Keeps
    <3>1. CASE e = d
      BY <2>1, <2>4, <2>6, <3>1 DEF ChatInv, Keeps
    <3>2. CASE e # d
      BY <2>4, <3>2 DEF ChatInv, Keeps
    <3> QED
      BY <3>1, <3>2
  <2>11. OneOwn'
    <3> SUFFICES ASSUME NEW e \in Devices, NEW b \in Founded, NEW q \in Founded,
                        Own(e, b), b \in welcomes'[e] \/ Invited(b),
                        Own(e, q), q \in welcomes'[e] \/ Invited(q)
                 PROVE  b = q
      BY <2>5 DEF OneOwn
    <3>1. CASE e = d
      BY <2>4, <2>7, <3>1
    <3>2. CASE e # d
      BY <2>4, <3>2 DEF ChatInv, OneOwn
    <3> QED
      BY <3>1, <3>2
  <2>12. Wired'
    <3>1. \A e \in Devices : listed[e] \subseteq listed'[e]
      BY <2>1, <2>4
    <3>2. \A i \in DOMAIN wire : wire[i].by \in Devices
      BY Elements DEF Envelope
    <3> QED
      BY <2>2, <2>5, <3>1, <3>2 DEF ChatInv, Wired
  <2>13. Waits' /\ Took'
    BY <2>2, <2>5 DEF ChatInv, Waits, Took
  <2> QED
    BY <2>8, <2>9, <2>10, <2>11, <2>12, <2>13 DEF ChatInv
<1> QED
  BY <1>1, <1>2 DEF QueueWelcome, Upserted

\* A Welcome that was sent is queued until the answer is there.
LEMMA SendIsSound ==
  ASSUME ChatInv, NEW d \in Devices, NEW c, SendWelcome(d, c),
         UNCHANGED pending
  PROVE  ChatInv'
<1>1. /\ c \in welcomes[d] /\ Post(Welcome(c))
      /\ UNCHANGED <<begun, step, groups, listed, next, pending>>
      /\ \/ welcomes' = [welcomes EXCEPT ![d] = @ \ {c}]
         \/ welcomes' = welcomes
  BY DEF SendWelcome
<1>2. /\ welcomes \in [Devices -> SUBSET Founded]
      /\ c \in Founded /\ c \in listed[d] /\ Own(d, c)
  BY <1>1 DEF ChatInv, Typed, Keeps
<1>3. begun[c].by = d /\ c \in Nat
  BY <1>2 DEF Own, Founded
<1>4. Welcome(c) \in Envelope /\ Welcome(c).chat = c
      /\ Welcome(c).kind = "welcome" /\ Welcome(c).by = d
  BY <1>3 DEF Welcome, Envelope
<1>5. /\ wire' \in Seq(Envelope) /\ Wired' /\ Took' /\ OnRelay(Welcome(c))'
      /\ \A q : Invited(q) => Invited(q)'
      /\ \A q : Invited(q)' => Invited(q) \/ Welcome(c) = Welcome(q)
  <2>1. OnRelay(Welcome(c))'
    <3>1. PICK e : e = Welcome(c)
      OBVIOUS
    <3>2. OnRelay(e)'
      BY <1>1, <1>4, <3>1, Posted DEF ChatInv, Typed
    <3>3. Welcome(c)' = e
      BY <1>1, <3>1 DEF Welcome
    <3> QED
      BY <3>2, <3>3 DEF OnRelay
  <2>2. PICK e : e = Welcome(c)
    OBVIOUS
  <2>3. /\ wire' \in Seq(Envelope) /\ Wired' /\ Took'
        /\ \A q : Invited(q) => Invited(q)'
        /\ \A q : Invited(q)' => Invited(q) \/ e = Welcome(q)
    BY <1>1, <1>2, <1>4, <2>2, PostIsSound
  <2> QED
    BY <2>1, <2>2, <2>3
<1>6. /\ Founded' = Founded /\ \A e, q : Own(e, q)' = Own(e, q)
  BY <1>1 DEF Founded, Own
<1>7. Invited(c)'
  BY <1>2, <1>5, <1>6 DEF Invited
<1>8. \A q : Invited(q)' => Invited(q) \/ q = c
  BY <1>5 DEF Welcome
<1>9. /\ \A e \in Devices : welcomes'[e] \subseteq welcomes[e]
      /\ \A e \in Devices : \A q \in welcomes[e] : q \in welcomes'[e] \/ q = c
  BY <1>1, <1>2
<1>10. Typed'
  <2>1. welcomes' \in [Devices -> SUBSET Founded]
    BY <1>1, <1>2
  <2> QED
    BY <1>1, <1>5, <1>6, <2>1 DEF ChatInv, Typed
<1>11. Starts'
  BY <1>1 DEF ChatInv, Starts
<1>12. Keeps'
  <2> SUFFICES ASSUME NEW e \in Devices
               PROVE  /\ listed[e] \subseteq groups[e]
                      /\ \A q \in welcomes'[e] : Own(e, q) /\ q \in listed[e]
                      /\ \A q \in listed[e] :
                           Own(e, q) => q \in welcomes'[e] \/ Invited(q)'
                      /\ \A q \in groups[e] : Own(e, q) \/ Invited(q)'
    BY <1>1, <1>6 DEF Keeps
  <2> QED
    BY <1>5, <1>7, <1>9 DEF ChatInv, Keeps
<1>13. OneOwn'
  <2> SUFFICES ASSUME NEW e \in Devices, NEW b \in Founded, NEW q \in Founded,
                      Own(e, b), b \in welcomes'[e] \/ Invited(b)',
                      Own(e, q), q \in welcomes'[e] \/ Invited(q)'
               PROVE  b = q
    BY <1>6 DEF OneOwn
  <2>1. \A r \in Founded : Own(e, r) /\ (r \in welcomes'[e] \/ Invited(r)') =>
          r \in welcomes[e] \/ Invited(r)
    BY <1>1, <1>3, <1>8, <1>9 DEF Own
  <2> QED
    BY <2>1 DEF ChatInv, OneOwn
<1>14. Waits'
  BY <1>1, <1>5 DEF ChatInv, Waits
<1> QED
  BY <1>5, <1>10, <1>11, <1>12, <1>13, <1>14 DEF ChatInv

\* The mailbox is read from its beginning: nothing that was addressed to the
\* device is passed over.
LEMMA ReadInOrder ==
  ASSUME ChatInv, NEW d \in Devices, InMailbox(d) # {},
         UNCHANGED <<begun, wire>>,
         next' = next \/ Consume(d),
         \A e \in Devices : groups[e] \subseteq groups'[e],
         wire[Head1st(d)].kind = "welcome" =>
           wire[Head1st(d)].chat \in groups'[d]
  PROVE  Took' /\ next' \in [Devices -> Nat \ {0}]
<1> PICK h : h = Head1st(d)
  OBVIOUS
<1>1. /\ h \in DOMAIN wire /\ next[d] <= h
      /\ \A j \in InMailbox(d) : h <= j
  BY FirstOfMailbox
<1>2. /\ next \in [Devices -> Nat \ {0}] /\ Len(wire) \in Nat
      /\ DOMAIN wire = 1 .. Len(wire) /\ Took
  BY DEF ChatInv, Typed
<1>3. \A q : To(q)' = To(q)
  BY DEF To, Members
<1>4. next' = next \/ next' = [next EXCEPT ![d] = h + 1]
  BY DEF Consume
<1>5. next' \in [Devices -> Nat \ {0}]
  BY <1>1, <1>2, <1>4
<1>6. Took'
  <2> SUFFICES ASSUME NEW e \in Devices
               PROVE  /\ next'[e] <= Len(wire) + 1
                      /\ \A i \in DOMAIN wire :
                           /\ i < next'[e] /\ wire[i].kind = "welcome"
                           /\ e \in To(wire[i])
                           => wire[i].chat \in groups'[e]
    BY <1>3 DEF Took
  <2>1. CASE next'[e] = next[e]
    BY <1>2, <2>1 DEF Took
  <2>2. CASE e = d /\ next'[d] = h + 1
    <3>1. h + 1 <= Len(wire) + 1
      BY <1>1, <1>2
    <3>2. ASSUME NEW i \in DOMAIN wire, i < h + 1, wire[i].kind = "welcome",
                 d \in To(wire[i])
          PROVE  wire[i].chat \in groups'[d]
      <4>1. CASE i < next[d]
        BY <1>2, <3>2, <4>1 DEF Took
      <4>2. CASE ~(i < next[d])
        <5>1. i \in InMailbox(d)
          BY <1>2, <3>2, <4>2 DEF InMailbox
        <5>2. i = h
          BY <1>1, <1>2, <3>2, <5>1
        <5> QED
          BY <3>2, <5>2
      <4> QED
        BY <4>1, <4>2
    <3> QED
      BY <2>2, <3>1, <3>2
  <2>3. next'[e] = next[e] \/ (e = d /\ next'[d] = h + 1)
    BY <1>2, <1>4
  <2> QED
    BY <2>1, <2>2, <2>3
<1> QED
  BY <1>5, <1>6

\* A device joins the chat of the Welcome that comes first.
LEMMA JoinIsSound ==
  ASSUME ChatInv, NEW d \in Devices, Join(d), UNCHANGED pending
  PROVE  ChatInv'
<1> PICK c : c = wire[Head1st(d)].chat
  OBVIOUS
<1>1. /\ Idle(d) /\ InMailbox(d) # {} /\ wire[Head1st(d)].kind = "welcome"
      /\ groups' = [groups EXCEPT ![d] = @ \cup {c}]
      /\ \/ listed' = [listed EXCEPT ![d] = @ \cup {c}]
         \/ listed' = listed
      /\ next' = next \/ Consume(d)
      /\ UNCHANGED <<begun, step, welcomes, wire, pending>>
  BY DEF Join, Joined, EnsureChat, Upserted
<1>2. /\ groups \in [Devices -> SUBSET Founded]
      /\ listed \in [Devices -> SUBSET Founded]
      /\ welcomes \in [Devices -> SUBSET Founded]
      /\ step \in [Devices -> [at : {"idle", "claimed", "created"},
                               invited : SUBSET Devices]]
  BY DEF ChatInv, Typed
<1>3. /\ Head1st(d) \in DOMAIN wire /\ d \in To(wire[Head1st(d)])
  BY <1>1, FirstOfMailbox
<1>4. /\ c \in Founded /\ wire[Head1st(d)] = Welcome(c)
  BY <1>1, <1>3 DEF ChatInv, Wired
<1>5. Invited(c) /\ ~Own(d, c)
  <2>1. OnRelay(Welcome(c))
    BY <1>3, <1>4 DEF OnRelay
  <2>2. Welcome(c).by = begun[c].by
    BY DEF Welcome
  <2>3. d # Welcome(c).by
    BY <1>3, <1>4 DEF To
  <2> QED
    BY <1>4, <2>1, <2>2, <2>3 DEF Invited, Own
<1>6. /\ \A q : Welcome(q)' = Welcome(q) /\ Invited(q)' = Invited(q)
      /\ Founded' = Founded /\ \A e, q : Own(e, q)' = Own(e, q)
  BY <1>1 DEF Welcome, Members, Founded, Own, Invited, OnRelay
<1>7. /\ groups'[d] = groups[d] \cup {c}
      /\ listed'[d] \in {listed[d], listed[d] \cup {c}}
      /\ \A e \in Devices \ {d} :
           groups'[e] = groups[e] /\ listed'[e] = listed[e]
  BY <1>1, <1>2
<1>8. Took' /\ next' \in [Devices -> Nat \ {0}]
  BY <1>1, <1>7, ReadInOrder
<1>9. Typed'
  <2>1. /\ groups' \in [Devices -> SUBSET Founded]
        /\ listed' \in [Devices -> SUBSET Founded]
    BY <1>1, <1>2, <1>4
  <2> QED
    BY <1>1, <1>6, <1>8, <2>1 DEF ChatInv, Typed
<1>10. Starts'
  <2> SUFFICES ASSUME NEW e \in Devices
               PROVE  /\ step[e].at # "idle" => listed'[e] = {}
                      /\ step[e].at = "created" =>
                           \E q \in groups'[e] :
                             /\ begun[q].by = e
                             /\ \A b \in groups'[e] :
                                  begun[b].by = e => b <= q
    BY <1>1 DEF Starts
  <2>1. CASE e = d
    BY <1>1, <2>1 DEF Idle, Rest
  <2>2. CASE e # d
    BY <1>7, <2>2 DEF ChatInv, Starts
  <2> QED
    BY <2>1, <2>2
<1>11. Keeps'
  <2> SUFFICES ASSUME NEW e \in Devices
               PROVE  /\ listed'[e] \subseteq groups'[e]
                      /\ \A q \in welcomes[e] : Own(e, q) /\ q \in listed'[e]
                      /\ \A q \in listed'[e] :
                           Own(e, q) => q \in welcomes[e] \/ Invited(q)
                      /\ \A q \in groups'[e] : Own(e, q) \/ Invited(q)
    BY <1>1, <1>6 DEF Keeps
  <2>1. CASE e = d
    BY <1>5, <1>7, <2>1 DEF ChatInv, Keeps
  <2>2. CASE e # d
    BY <1>7, <2>2 DEF ChatInv, Keeps
  <2> QED
    BY <2>1, <2>2
<1>12. OneOwn'
  BY <1>1, <1>6 DEF ChatInv, OneOwn
<1>13. Wired'
  <2>1. \A e \in Devices : listed[e] \subseteq listed'[e]
    BY <1>7
  <2>2. \A i \in DOMAIN wire : wire[i].by \in Devices
    BY Elements DEF Envelope
  <2> QED
    BY <1>1, <1>6, <2>1, <2>2 DEF ChatInv, Wired
<1>14. Waits'
  BY <1>1, <1>6 DEF ChatInv, Waits
<1> QED
  BY <1>8, <1>9, <1>10, <1>11, <1>12, <1>13, <1>14 DEF ChatInv

\* An event is shown, and then it is acknowledged or comes again.
LEMMA ReceiveIsSound ==
  ASSUME ChatInv, NEW d \in Devices, Receive(d)
  PROVE  ChatInv'
<1>1. /\ InMailbox(d) # {} /\ wire[Head1st(d)].kind # "welcome"
      /\ next' = next \/ Consume(d)
      /\ UNCHANGED <<begun, step, groups, listed, welcomes, wire, pending>>
  BY DEF Receive, Opens, groupVars
<1>2. Took' /\ next' \in [Devices -> Nat \ {0}]
  BY <1>1, ReadInOrder
<1>3. /\ \A q : Welcome(q)' = Welcome(q) /\ Invited(q)' = Invited(q)
      /\ Founded' = Founded /\ \A e, q : Own(e, q)' = Own(e, q)
  BY <1>1 DEF Welcome, Members, Founded, Own, Invited, OnRelay
<1>4. Typed' /\ Starts' /\ Keeps' /\ OneOwn' /\ Wired' /\ Waits'
  BY <1>1, <1>2, <1>3
     DEF ChatInv, Typed, Starts, Keeps, OneOwn, Wired, Waits
<1> QED
  BY <1>2, <1>4 DEF ChatInv

\* An event goes to the relay, for the first time or again.
LEMMA EventIsSound ==
  ASSUME ChatInv, NEW d \in Devices, NEW e \in Envelope,
         e.kind # "welcome", Invited(e.chat),
         Post(e) \/ UNCHANGED wire,
         UNCHANGED <<begun, step, groups, listed, welcomes, next>>,
         NEW some \in SUBSET (pending[d] \cup {e}),
         pending' = [pending EXCEPT ![d] = some]
  PROVE  ChatInv'
<1>1. /\ wire' \in Seq(Envelope) /\ Wired' /\ Took'
      /\ \A q : Invited(q)' = Invited(q)
  <2>1. CASE Post(e)
    <3>1. e.chat \in Founded
      BY DEF Invited
    <3>2. \A q : e # Welcome(q)
      BY DEF Welcome
    <3>3. /\ wire' \in Seq(Envelope) /\ Wired' /\ Took'
          /\ \A c : Invited(c) => Invited(c)'
          /\ \A c : Invited(c)' => Invited(c) \/ e = Welcome(c)
      BY <2>1, <3>1, PostIsSound
    <3>4. \A c : Invited(c)' \in BOOLEAN /\ Invited(c) \in BOOLEAN
      BY DEF Invited, OnRelay
    <3> QED
      BY <3>2, <3>3, <3>4
  <2>2. CASE UNCHANGED wire
    BY <2>2, StillSame DEF ChatInv, Typed
  <2> QED
    BY <2>1, <2>2
<1>2. Founded' = Founded /\ \A x, q : Own(x, q)' = Own(x, q)
  BY DEF Founded, Own
<1>3. Typed'
  BY <1>1, <1>2 DEF ChatInv, Typed
<1>4. Starts' /\ Keeps' /\ OneOwn'
  BY <1>1, <1>2 DEF ChatInv, Starts, Keeps, OneOwn
<1>5. Waits'
  BY <1>1 DEF ChatInv, Waits, Typed
<1> QED
  BY <1>1, <1>3, <1>4, <1>5 DEF ChatInv

\* What a device may send in has had its Welcome.
LEMMA WriteIsSound ==
  ASSUME ChatInv, NEW d \in Devices, NEW c,
         NEW kind \in {"poll", "vote", "close", "react", "unreact"},
         NEW val \in SUBSET Options, SendMessage(d, c, kind, val)
  PROVE  ChatInv'
<1>1. PICK t \in Times(d) :
        LET e == [kind |-> kind, chat |-> c, by |-> d, at |-> t, val |-> val]
        IN \/ Post(e) /\ UNCHANGED pending
           \/ /\ pending' = [pending EXCEPT ![d] = @ \cup {e}]
              /\ Post(e) \/ UNCHANGED wire
  BY DEF SendMessage
<1> PICK e : e = [kind |-> kind, chat |-> c, by |-> d, at |-> t, val |-> val]
  OBVIOUS
<1>2. /\ c \in listed[d] \cap groups[d] /\ c \notin welcomes[d]
      /\ UNCHANGED <<begun, step, groups, listed, welcomes, next>>
  BY DEF SendMessage, SendingAllowed, groupVars
<1>3. Invited(c) /\ c \in Nat
  BY <1>2 DEF ChatInv, Keeps, Invited, Founded
<1>4. t \in {0} \cup 1 .. MaxEvents
  BY DEF Times
<1>5. e \in Envelope /\ e.kind # "welcome" /\ e.chat = c
  BY <1>3, <1>4 DEF Envelope
<1>6. pending \in [Devices -> SUBSET Envelope]
  BY DEF ChatInv, Typed
<1>7. \E some \in SUBSET (pending[d] \cup {e}) :
        pending' = [pending EXCEPT ![d] = some]
  BY <1>1, <1>6
<1>8. Post(e) \/ UNCHANGED wire
  BY <1>1
<1>9. PICK some \in SUBSET (pending[d] \cup {e}) :
        pending' = [pending EXCEPT ![d] = some]
  BY <1>7
<1>10. e \in Envelope /\ e.kind # "welcome" /\ Invited(e.chat)
  BY <1>3, <1>5
<1>11. UNCHANGED <<begun, step, groups, listed, welcomes, next>>
  BY <1>2
<1> QED
  BY <1>8, <1>9, <1>10, <1>11, EventIsSound

\* At the beginning there is nothing.
LEMMA ChatInitial == ChatInit => ChatInv
<1> SUFFICES ASSUME ChatInit PROVE ChatInv
  OBVIOUS
<1> USE DEF ChatInit, DirectInit
<1>1. Founded = {} /\ wire = <<>> /\ DOMAIN wire = {} /\ Len(wire) = 0
  BY DEF Founded
<1>2. step \in [Devices -> [at : {"idle", "claimed", "created"},
                            invited : SUBSET Devices]]
      /\ \A d \in Devices : step[d].at = "idle"
  BY DEF Rest
<1>3. Typed
  BY <1>1, <1>2 DEF Typed
<1>4. Starts
  BY <1>2 DEF Starts
<1>5. Keeps /\ OneOwn /\ Wired /\ Waits /\ Took
  BY <1>1 DEF Keeps, OneOwn, Wired, Waits, Took
<1> QED
  BY <1>3, <1>4, <1>5 DEF ChatInv

\* Every step keeps the invariant.
LEMMA ChatStep == ChatInv /\ [ChatNext]_chatVars => ChatInv'
<1> SUFFICES ASSUME ChatInv, [ChatNext]_chatVars PROVE ChatInv'
  OBVIOUS
<1>1. step \in [Devices -> [at : {"idle", "claimed", "created"},
                            invited : SUBSET Devices]]
      /\ pending \in [Devices -> SUBSET Envelope]
  BY DEF ChatInv, Typed
<1>2. ASSUME UNCHANGED <<begun, step, groups, listed, welcomes, wire, next,
                         pending>>
      PROVE  ChatInv'
  BY <1>2, StillSame DEF ChatInv, Typed, Founded, Starts, Waits
<1>3. ASSUME NEW d \in Devices, UNCHANGED eventVars,
             Ask(d) \/ Found(d)
      PROVE  ChatInv'
  BY <1>2, <1>3 DEF Ask, Found, eventVars
<1>4. ASSUME NEW d \in Devices, UNCHANGED eventVars,
             \/ ClaimPackages(d) \/ PackageRefused(d) \/ Restart(d)
      PROVE  ChatInv'
  <2>1. UNCHANGED <<begun, groups, listed, welcomes, wire, next, pending>>
    BY <1>4 DEF ClaimPackages, PackageRefused, Restart, eventVars
  <2>2. CASE step' = [step EXCEPT ![d] = Rest]
    <3>1. Rest \in [at : {"idle", "claimed"}, invited : SUBSET Devices]
          /\ Rest.at = "idle"
      BY DEF Rest
    <3> QED
      BY <2>1, <2>2, <3>1, StepIsSound
  <2>3. CASE UNCHANGED step
    BY <1>2, <2>1, <2>3
  <2>4. CASE /\ listed[d] = {}
             /\ step' = [step EXCEPT ![d] = [at      |-> "claimed",
                                             invited |-> Claimed(d)]]
    <3>1. PICK x : x = [at |-> "claimed", invited |-> Claimed(d)]
      OBVIOUS
    <3>2. x \in [at : {"idle", "claimed"}, invited : SUBSET Devices]
      BY <3>1 DEF Claimed, Peers
    <3> QED
      BY <2>1, <2>4, <3>1, <3>2, StepIsSound
  <2> QED
    BY <1>4, <2>2, <2>3, <2>4
       DEF ClaimPackages, PackageRefused, Restart, DirectChats
<1>5. ASSUME NEW d \in Devices, UNCHANGED eventVars,
             CreateConversation(d) \/ QueueWelcome(d) \/ Sending(d) \/ Join(d)
      PROVE  ChatInv'
  BY <1>5, CreateIsSound, QueueIsSound, SendIsSound, JoinIsSound
     DEF eventVars, Sending
<1>6. ASSUME NEW d \in Devices, Retry(d) PROVE ChatInv'
  <2>1. PICK e \in pending[d] : Post(e) /\ MarkSent(d, e)
    BY <1>6 DEF Retry
  <2>2. e \in Envelope /\ e.kind # "welcome" /\ Invited(e.chat)
    BY <1>1, <2>1 DEF ChatInv, Waits
  <2>3. UNCHANGED <<begun, step, groups, listed, welcomes, next>>
    BY <1>6 DEF Retry, groupVars
  <2>4. \E some \in SUBSET (pending[d] \cup {e}) :
          pending' = [pending EXCEPT ![d] = some]
    BY <1>1, <2>1 DEF MarkSent
  <2> QED
    BY <2>1, <2>2, <2>3, <2>4, EventIsSound
<1>7. ASSUME NEW d \in Devices, NEW c \in Chats, Write(d, c) PROVE ChatInv'
  <2>1. \E kind \in {"poll", "vote", "close", "react", "unreact"},
           val \in SUBSET Options : SendMessage(d, c, kind, val)
    <3>1. CASE CreatePoll(d, c)
      BY <3>1 DEF CreatePoll
    <3>2. CASE Vote(d, c)
      BY <3>2 DEF Vote, Votes, ValidVote
    <3>3. CASE ClosePoll(d, c)
      BY <3>3 DEF ClosePoll
    <3>4. CASE React(d, c)
      BY <3>4 DEF React, ToggleReaction
    <3> QED
      BY <1>7, <3>1, <3>2, <3>3, <3>4 DEF Write
  <2> QED
    BY <2>1, WriteIsSound
<1>8. ASSUME NEW d \in Devices, NEW c \in Chats, MembershipChanges(d, c)
      PROVE  ChatInv'
  <2>1. UNCHANGED <<begun, step, groups, listed, welcomes, wire, next>>
    BY <1>8 DEF MembershipChanges, directVars, groupVars
  <2>2. \E some \in SUBSET pending[d] :
          pending' = [pending EXCEPT ![d] = some]
    BY <1>1, <1>8 DEF MembershipChanges
  <2> QED
    BY <2>1, <2>2, LessWaits
<1>9. CASE UNCHANGED chatVars
  BY <1>2, <1>9 DEF chatVars, directVars, groupVars, eventVars
<1> QED
  BY <1>3, <1>4, <1>5, <1>6, <1>7, <1>8, <1>9, ReceiveIsSound
     DEF ChatNext, Begin, DirectNext, Starting

\* Whatever the interleaving of creations, deliveries, sends and settlements,
\* the books of the chats agree: who founded what, who is listed, which
\* Welcome is under way, and what waits for it.
THEOREM ChatInvariance == ChatSpec => []ChatInv
BY ChatInitial, ChatStep, PTL DEF ChatSpec

\* A device invites its peer to one chat and has this chat itself, and no
\* mailbox has an event of a chat before the Welcome to it.
THEOREM InvitesOnce == ChatSpec => []OneInvitation
<1>1. ASSUME ChatInv PROVE OneInvitation
  <2>1. ASSUME NEW i \in DOMAIN wire, NEW j \in DOMAIN wire,
               wire[i].kind = "welcome", wire[j].kind = "welcome",
               wire[i].by = wire[j].by
        PROVE  i = j
    <3>1. /\ wire[i] = Welcome(wire[i].chat) /\ wire[i].chat \in Founded
          /\ wire[j] = Welcome(wire[j].chat) /\ wire[j].chat \in Founded
          /\ \A k, l \in DOMAIN wire : wire[k] = wire[l] => k = l
      BY <1>1, <2>1 DEF ChatInv, Wired
    <3>2. PICK b, c : b = wire[i].chat /\ c = wire[j].chat
      OBVIOUS
    <3>3. /\ b \in Founded /\ Invited(b) /\ begun[b].by = wire[i].by
          /\ c \in Founded /\ Invited(c) /\ begun[c].by = wire[j].by
      <4>1. Welcome(b).by = begun[b].by /\ Welcome(c).by = begun[c].by
        BY DEF Welcome
      <4>2. OnRelay(Welcome(b)) /\ OnRelay(Welcome(c))
        BY <3>1, <3>2 DEF OnRelay
      <4>3. wire[i] = Welcome(b) /\ wire[j] = Welcome(c)
        BY <3>1, <3>2
      <4> QED
        BY <3>1, <3>2, <4>1, <4>2, <4>3 DEF Invited
    <3>4. wire[i].by \in Devices
      BY <1>1, Elements DEF Envelope
    <3>5. b = c
      BY <1>1, <2>1, <3>3, <3>4 DEF ChatInv, OneOwn, Own
    <3> QED
      BY <3>1, <3>2, <3>5
  <2>2. ASSUME NEW i \in DOMAIN wire
        PROVE  /\ Invited(wire[i].chat)
               /\ wire[i].chat \in listed[begun[wire[i].chat].by]
    <3>1. Invited(wire[i].chat)
      BY <1>1 DEF ChatInv, Wired, Invited, OnRelay
    <3> QED
      BY <1>1, <3>1, InvitedIsListed
  <2>3. ASSUME NEW d \in Devices, InMailbox(d) # {},
               wire[Head1st(d)].kind # "welcome"
        PROVE  wire[Head1st(d)].chat \in groups[d]
    <3>1. PICK h : h = Head1st(d)
      OBVIOUS
    <3>2. /\ h \in DOMAIN wire /\ d \in To(wire[h])
          /\ \A j \in InMailbox(d) : h <= j
          /\ wire[h].kind # "welcome"
      BY <1>1, <2>3, <3>1, FirstOfMailbox
    <3>3. PICK c : c = wire[h].chat
      OBVIOUS
    <3>4. PICK j \in DOMAIN wire : j < h /\ wire[j] = Welcome(c)
      BY <1>1, <3>2, <3>3 DEF ChatInv, Wired
    <3>5. d \in Members(c)
      BY <3>2, <3>3 DEF To
    <3>6. CASE begun[c].by = d
      BY <1>1, <2>2, <3>1, <3>2, <3>3, <3>6 DEF ChatInv, Keeps
    <3>7. CASE begun[c].by # d
      <4>1. /\ d \in To(wire[j]) /\ wire[j].kind = "welcome"
            /\ wire[j].chat = c
        BY <3>4, <3>5, <3>7 DEF To, Welcome
      <4>2. next[d] \in Nat /\ Len(wire) \in Nat /\ DOMAIN wire = 1 .. Len(wire)
        BY <1>1 DEF ChatInv, Typed
      <4>3. j < next[d]
        BY <3>2, <3>4, <4>1, <4>2 DEF InMailbox
      <4> QED
        BY <1>1, <3>1, <3>3, <4>1, <4>3 DEF ChatInv, Took
    <3> QED
      BY <3>1, <3>3, <3>6, <3>7
  <2> QED
    BY <2>1, <2>2, <2>3 DEF OneInvitation
<1> QED
  BY <1>1, ChatInvariance, PTL

-----------------------------------------------------------------------------
(* Who has which events.                                                   *)

\* What a device has of its own is sent, waits or was cancelled; everything
\* else it has from the relay.
Holds ==
  /\ log \in [Devices -> Seq(Envelope)]
  /\ pending \in [Devices -> SUBSET Envelope]
  /\ cancelled \in [Devices -> SUBSET Envelope]
  /\ \A d \in Devices :
       /\ \A e \in pending[d] \cup cancelled[d] : e.by = d
       /\ pending[d] \subseteq Range(log[d])
       /\ \A e \in Range(log[d]) :
            /\ e.kind # "welcome"
            /\ OnRelay(e) \/ (e.by = d /\ e \in pending[d] \cup cancelled[d])

\* Who wrote an event has it.
Authored ==
  \A i \in DOMAIN wire :
    wire[i].kind # "welcome" => wire[i] \in Range(log[wire[i].by])

\* What a device has read it has.
Got ==
  \A d \in Devices : \A i \in DOMAIN wire :
    i < next[d] /\ wire[i].kind # "welcome" /\ d \in To(wire[i])
      => wire[i] \in Range(log[d])

LogInv == Holds /\ Authored /\ Got

\* What is appended is held, and all that was held before.
LEMMA Appended ==
  ASSUME NEW s \in Seq(Envelope), NEW e \in Envelope
  PROVE  /\ Append(s, e) \in Seq(Envelope)
         /\ Range(Append(s, e)) = Range(s) \cup {e}
<1>1. /\ Append(s, e) \in Seq(Envelope)
      /\ DOMAIN s = 1 .. Len(s) /\ DOMAIN Append(s, e) = 1 .. Len(s) + 1
      /\ Len(s) \in Nat
      /\ \A i \in 1 .. Len(s) : Append(s, e)[i] = s[i]
      /\ Append(s, e)[Len(s) + 1] = e
  OBVIOUS
<1>2. 1 .. Len(s) + 1 = 1 .. Len(s) \cup {Len(s) + 1}
  BY <1>1
<1> QED
  BY <1>1, <1>2 DEF Range

\* The relay gets one event more, which its author has.
LEMMA AuthoredGrows ==
  ASSUME ChatInv, Authored, NEW e \in Envelope, Post(e) \/ UNCHANGED wire,
         e.kind # "welcome" => e \in Range(log'[e.by]),
         \A d \in Devices : Range(log[d]) \subseteq Range(log'[d])
  PROVE  /\ Authored'
         /\ \A x : OnRelay(x) => OnRelay(x)'
         /\ Post(e) => OnRelay(e)'
<1>1. wire \in Seq(Envelope) /\ \A i \in DOMAIN wire : wire[i].by \in Devices
  BY Elements DEF ChatInv, Typed, Envelope
<1>2. CASE Post(e)
  <2>1. /\ OnRelay(e)'
        /\ \A i \in DOMAIN wire : i \in DOMAIN wire' /\ wire'[i] = wire[i]
        /\ \A i \in DOMAIN wire' : i \in DOMAIN wire \/ wire'[i] = e
    BY <1>1, <1>2, Posted
  <2>2. Authored'
    BY <1>1, <2>1 DEF Authored
  <2> QED
    BY <2>1, <2>2 DEF OnRelay
<1>3. CASE UNCHANGED wire /\ ~Post(e)
  BY <1>1, <1>3 DEF Authored, OnRelay
<1> QED
  BY <1>2, <1>3

\* What the relay gets nobody has read.
LEMMA GotGrows ==
  ASSUME ChatInv, Got, NEW e \in Envelope, Post(e) \/ UNCHANGED wire,
         UNCHANGED <<begun, next>>,
         \A d \in Devices : Range(log[d]) \subseteq Range(log'[d])
  PROVE  Got'
<1>1. /\ wire \in Seq(Envelope) /\ \A q : To(q)' = To(q)
      /\ \A d \in Devices : next[d] \in Nat /\ next[d] <= Len(wire) + 1
  BY DEF ChatInv, Typed, Took, To, Members
<1>2. CASE Post(e)
  <2>1. /\ \A i \in DOMAIN wire : i \in DOMAIN wire' /\ wire'[i] = wire[i]
        /\ \A i \in DOMAIN wire' : i \in DOMAIN wire \/ i = Len(wire) + 1
        /\ Len(wire) \in Nat
    BY <1>1, <1>2, Posted
  <2> SUFFICES ASSUME NEW d \in Devices, NEW i \in DOMAIN wire', i < next[d],
                      wire'[i].kind # "welcome", d \in To(wire'[i])
               PROVE  wire'[i] \in Range(log'[d])
    BY <1>1 DEF Got
  <2>2. i \in DOMAIN wire
    BY <1>1, <2>1
  <2> QED
    BY <2>1, <2>2 DEF Got
<1>3. CASE UNCHANGED wire
  BY <1>1, <1>3 DEF Got
<1> QED
  BY <1>2, <1>3

\* A device reads its mailbox in order, and has what it acknowledges.
LEMMA GotRead ==
  ASSUME ChatInv, Got, NEW d \in Devices, InMailbox(d) # {},
         UNCHANGED <<begun, wire>>, next' = next \/ Consume(d),
         \A e \in Devices : Range(log[e]) \subseteq Range(log'[e]),
         \/ wire[Head1st(d)].kind = "welcome"
         \/ wire[Head1st(d)] \in Range(log'[d])
  PROVE  Got'
<1> PICK h : h = Head1st(d)
  OBVIOUS
<1>1. /\ h \in DOMAIN wire /\ next[d] <= h
      /\ \A j \in InMailbox(d) : h <= j
  BY FirstOfMailbox
<1>2. /\ next \in [Devices -> Nat \ {0}] /\ Len(wire) \in Nat
      /\ DOMAIN wire = 1 .. Len(wire) /\ \A q : To(q)' = To(q)
  BY DEF ChatInv, Typed, To, Members
<1>3. next' = next \/ next' = [next EXCEPT ![d] = h + 1]
  BY DEF Consume
<1> SUFFICES ASSUME NEW e \in Devices, NEW i \in DOMAIN wire, i < next'[e],
                    wire[i].kind # "welcome", e \in To(wire[i])
             PROVE  wire[i] \in Range(log'[e])
  BY <1>2 DEF Got
<1>4. CASE i < next[e]
  BY <1>4 DEF Got
<1>5. CASE ~(i < next[e])
  <2>1. e = d /\ i < h + 1 /\ next[d] <= i
    BY <1>2, <1>3, <1>5
  <2>2. i \in InMailbox(d)
    BY <1>2, <2>1 DEF InMailbox
  <2>3. i = h
    BY <1>1, <1>2, <2>1, <2>2
  <2> QED
    BY <2>1, <2>3
<1> QED
  BY <1>4, <1>5

\* The beginning of a chat is none of the events.
LEMMA BeginIsNoEvent ==
  ASSUME ChatInv, LogInv, NEW d \in Devices, UNCHANGED eventVars,
         Ask(d) \/ Starting(d) \/ Sending(d) \/ Restart(d) \/ Join(d)
  PROVE  LogInv'
<1> UNCHANGED <<log, pending, cancelled>>
  BY DEF eventVars
<1>1. ASSUME Authored', Got', \A x : OnRelay(x) => OnRelay(x)' PROVE LogInv'
  BY <1>1 DEF LogInv, Holds
<1>2. CASE UNCHANGED <<begun, wire, next>>
  <2>1. /\ \A q : To(q)' = To(q) /\ \A x : OnRelay(x)' = OnRelay(x)
    BY <1>2 DEF To, Members, OnRelay
  <2> QED
    BY <1>1, <1>2, <2>1 DEF LogInv, Authored, Got
<1>3. CASE CreateConversation(d)
  <2>1. UNCHANGED <<wire, next>>
    BY <1>3 DEF CreateConversation
  <2>2. \A c \in Founded : begun'[c] = begun[c]
    <3>1. PICK new : /\ new = [by |-> d, invited |-> step[d].invited]
                     /\ begun' = Append(begun, new)
      BY <1>3 DEF CreateConversation
    <3>2. begun \in Seq([by : Devices, invited : SUBSET Devices])
      BY DEF ChatInv, Typed
    <3> QED
      BY <3>1, <3>2 DEF Founded
  <2>3. \A i \in DOMAIN wire : To(wire[i])' = To(wire[i])
    <3> SUFFICES ASSUME NEW i \in DOMAIN wire
                 PROVE  To(wire[i])' = To(wire[i])
      OBVIOUS
    <3>1. begun'[wire[i].chat] = begun[wire[i].chat]
      BY <2>2 DEF ChatInv, Wired
    <3> QED
      BY <2>1, <3>1 DEF To, Members
  <2>4. \A x : OnRelay(x)' = OnRelay(x)
    BY <2>1 DEF OnRelay
  <2> QED
    BY <1>1, <2>1, <2>3, <2>4 DEF LogInv, Authored, Got
<1>4. CASE Sending(d)
  <2>1. PICK c \in welcomes[d] : Post(Welcome(c)) /\ UNCHANGED <<begun, next>>
    BY <1>4 DEF Sending, SendWelcome
  <2>2. c \in Founded /\ begun[c].by \in Devices
    BY <2>1, Elements DEF ChatInv, Keeps, Own
  <2>3. Welcome(c) \in Envelope /\ Welcome(c).kind = "welcome"
    BY <2>2 DEF Welcome, Envelope, Founded
  <2> HIDE DEF Post
  <2>4. Authored' /\ \A x : OnRelay(x) => OnRelay(x)'
    BY <2>1, <2>3, AuthoredGrows DEF LogInv
  <2>5. Got'
    BY <2>1, <2>3, GotGrows DEF LogInv
  <2> QED
    BY <1>1, <2>4, <2>5
<1>5. CASE Join(d)
  <2>1. /\ UNCHANGED <<begun, wire>> /\ InMailbox(d) # {}
        /\ wire[Head1st(d)].kind = "welcome"
        /\ next' = next \/ Consume(d)
    BY <1>5 DEF Join
  <2>2. Got'
    BY <2>1, GotRead DEF LogInv
  <2>3. Authored' /\ \A x : OnRelay(x) => OnRelay(x)'
    BY <2>1 DEF LogInv, Authored, OnRelay
  <2> QED
    BY <1>1, <2>2, <2>3
<1>6. CASE \/ Ask(d) \/ Found(d) \/ ClaimPackages(d) \/ PackageRefused(d)
           \/ QueueWelcome(d) \/ Restart(d)
  BY <1>2, <1>6
     DEF Ask, Found, ClaimPackages, PackageRefused, QueueWelcome, Restart
<1> QED
  BY <1>3, <1>4, <1>5, <1>6 DEF Starting

\* A device sends an event it holds, for the first time or again.
LEMMA EventIsHeld ==
  ASSUME ChatInv, LogInv, NEW d \in Devices, NEW e \in Envelope,
         e.kind # "welcome", e.by = d,
         UNCHANGED <<begun, next, cancelled>>,
         log' = [log EXCEPT ![d] = Append(@, e)] \/ UNCHANGED log,
         e \in Range(log'[d]),
         Post(e) \/ UNCHANGED wire,
         NEW some \in SUBSET (pending[d] \cup {e}),
         pending' = [pending EXCEPT ![d] = some],
         \A x \in pending[d] \cup {e} : x \in some \/ (x = e /\ Post(e))
  PROVE  LogInv'
<1> HIDE DEF Post
<1>1. /\ log \in [Devices -> Seq(Envelope)]
      /\ pending \in [Devices -> SUBSET Envelope]
  BY DEF LogInv, Holds
<1>2. /\ log' \in [Devices -> Seq(Envelope)]
      /\ \A o \in Devices \ {d} : log'[o] = log[o]
      /\ Range(log'[d]) = Range(log[d]) \cup {e}
  <2>1. CASE log' = [log EXCEPT ![d] = Append(@, e)]
    BY <1>1, <2>1, Appended
  <2>2. CASE UNCHANGED log
    BY <1>1, <2>2
  <2> QED
    BY <2>1, <2>2
<1>3. \A o \in Devices : Range(log[o]) \subseteq Range(log'[o])
  BY <1>2
<1>4. /\ Authored' /\ \A x : OnRelay(x) => OnRelay(x)'
      /\ Post(e) => OnRelay(e)'
  BY <1>3, AuthoredGrows DEF LogInv
<1>5. Got'
  BY <1>3, GotGrows DEF LogInv
<1>6. /\ pending' \in [Devices -> SUBSET Envelope]
      /\ pending'[d] = some
      /\ \A o \in Devices \ {d} : pending'[o] = pending[o]
  BY <1>1
<1>7. cancelled' \in [Devices -> SUBSET Envelope]
  BY DEF LogInv, Holds
<1>8. ASSUME NEW o \in Devices
      PROVE  /\ \A x \in pending'[o] \cup cancelled'[o] : x.by = o
             /\ pending'[o] \subseteq Range(log'[o])
             /\ \A x \in Range(log'[o]) :
                  /\ x.kind # "welcome"
                  /\ \/ OnRelay(x)'
                     \/ x.by = o /\ x \in pending'[o] \cup cancelled'[o]
  <2>1. CASE o # d
    BY <1>2, <1>4, <1>6, <2>1 DEF LogInv, Holds
  <2>2. CASE o = d
    <3>1. \A x \in pending'[d] \cup cancelled'[d] : x.by = d
      BY <1>6 DEF LogInv, Holds
    <3>2. pending'[d] \subseteq Range(log'[d])
      BY <1>2, <1>6 DEF LogInv, Holds
    <3>3. \A x \in Range(log'[d]) :
            /\ x.kind # "welcome"
            /\ OnRelay(x)' \/ (x.by = d /\ x \in pending'[d] \cup cancelled'[d])
      BY <1>2, <1>4, <1>6 DEF LogInv, Holds
    <3> QED
      BY <2>2, <3>1, <3>2, <3>3
  <2> QED
    BY <2>1, <2>2
<1> QED
  BY <1>2, <1>4, <1>5, <1>6, <1>7, <1>8 DEF LogInv, Holds

\* What a device writes is in its vault before it is on its way.
LEMMA WriteIsHeld ==
  ASSUME ChatInv, LogInv, NEW d \in Devices, NEW c,
         NEW kind \in {"poll", "vote", "close", "react", "unreact"},
         NEW val \in SUBSET Options, SendMessage(d, c, kind, val)
  PROVE  LogInv'
<1>1. PICK t \in Times(d) :
        LET e == [kind |-> kind, chat |-> c, by |-> d, at |-> t, val |-> val]
        IN /\ log' = [log EXCEPT ![d] = Append(@, e)]
           /\ \/ Post(e) /\ UNCHANGED pending
              \/ /\ pending' = [pending EXCEPT ![d] = @ \cup {e}]
                 /\ Post(e) \/ UNCHANGED wire
  BY DEF SendMessage
<1> PICK e : e = [kind |-> kind, chat |-> c, by |-> d, at |-> t, val |-> val]
  OBVIOUS
<1>2. c \in groups[d] /\ UNCHANGED <<begun, next, cancelled>>
  BY DEF SendMessage, SendingAllowed, groupVars
<1>3. /\ pending \in [Devices -> SUBSET Envelope]
      /\ log \in [Devices -> Seq(Envelope)]
      /\ groups \in [Devices -> SUBSET Founded]
  BY DEF LogInv, Holds, ChatInv, Typed
<1>4. e \in Envelope /\ e.kind # "welcome" /\ e.by = d
  BY <1>2, <1>3 DEF Envelope, Times, Founded
<1>5. log' = [log EXCEPT ![d] = Append(@, e)] /\ e \in Range(log'[d])
  BY <1>1, <1>3, <1>4, Appended
<1>6. Post(e) \/ UNCHANGED wire
  BY <1>1
<1>7. PICK some \in SUBSET (pending[d] \cup {e}) :
        /\ pending' = [pending EXCEPT ![d] = some]
        /\ \A x \in pending[d] \cup {e} : x \in some \/ (x = e /\ Post(e))
  <2>1. CASE Post(e) /\ UNCHANGED pending
    <3>1. pending' = [pending EXCEPT ![d] = pending[d]]
      BY <1>3, <2>1
    <3> QED
      BY <2>1, <3>1
  <2>2. CASE pending' = [pending EXCEPT ![d] = @ \cup {e}]
    BY <2>2
  <2> QED
    BY <1>1, <2>1, <2>2
<1> HIDE DEF Post
<1> QED
  BY <1>2, <1>4, <1>5, <1>6, <1>7, EventIsHeld

\* Every step keeps what is said of the events.
LEMMA LogStep == ChatInv /\ LogInv /\ [ChatNext]_chatVars => LogInv'
<1> SUFFICES ASSUME ChatInv, LogInv, [ChatNext]_chatVars PROVE LogInv'
  OBVIOUS
<1>1. /\ log \in [Devices -> Seq(Envelope)]
      /\ pending \in [Devices -> SUBSET Envelope]
      /\ cancelled \in [Devices -> SUBSET Envelope]
  BY DEF LogInv, Holds
<1>2. ASSUME NEW d \in Devices, Retry(d) PROVE LogInv'
  <2>1. PICK e \in pending[d] : Post(e) /\ MarkSent(d, e)
    BY <1>2 DEF Retry
  <2>2. /\ e \in Envelope /\ e.kind # "welcome" /\ e.by = d
        /\ e \in Range(log[d])
    BY <1>1, <2>1 DEF LogInv, Holds
  <2>3. UNCHANGED <<begun, next, cancelled, log>>
    BY <1>2 DEF Retry, groupVars
  <2>4. PICK some \in SUBSET (pending[d] \cup {e}) :
          /\ pending' = [pending EXCEPT ![d] = some]
          /\ \A x \in pending[d] \cup {e} : x \in some \/ (x = e /\ Post(e))
    BY <1>1, <2>1 DEF MarkSent
  <2> HIDE DEF Post
  <2> QED
    BY <2>1, <2>2, <2>3, <2>4, EventIsHeld
<1>3. ASSUME NEW d \in Devices, Receive(d) PROVE LogInv'
  <2> PICK e : e = wire[Head1st(d)]
    OBVIOUS
  <2>1. /\ InMailbox(d) # {} /\ e.kind # "welcome"
        /\ log' = Presented(d, e)
        /\ next' = next \/ Consume(d)
        /\ UNCHANGED <<begun, wire, pending, cancelled>>
    BY <1>3 DEF Receive, Opens, groupVars
  <2>2. OnRelay(e) /\ e \in Envelope
    BY <2>1, FirstOfMailbox, Elements DEF OnRelay
  <2>3. /\ log' \in [Devices -> Seq(Envelope)]
        /\ \A o \in Devices \ {d} : log'[o] = log[o]
        /\ Range(log'[d]) = Range(log[d]) \cup {e}
    <3>1. CASE e \in Range(log[d])
      <4>1. log' = [log EXCEPT ![d] = log[d]]
        BY <2>1, <3>1 DEF Presented
      <4> QED
        BY <1>1, <3>1, <4>1
    <3>2. CASE e \notin Range(log[d])
      <4>1. log' = [log EXCEPT ![d] = Append(log[d], e)]
        BY <2>1, <3>2 DEF Presented
      <4>2. /\ Append(log[d], e) \in Seq(Envelope)
            /\ Range(Append(log[d], e)) = Range(log[d]) \cup {e}
        BY <1>1, <2>2, Appended
      <4> QED
        BY <1>1, <4>1, <4>2
    <3> QED
      BY <3>1, <3>2
  <2>4. \A o \in Devices : Range(log[o]) \subseteq Range(log'[o])
    BY <2>3
  <2>5. \A x : OnRelay(x)' = OnRelay(x)
    BY <2>1 DEF OnRelay
  <2>6. Got'
    BY <2>1, <2>3, <2>4, GotRead DEF LogInv
  <2>7. Authored'
    <3>1. \A i \in DOMAIN wire : wire[i].by \in Devices
      BY Elements DEF Envelope
    <3> QED
      BY <2>1, <2>4, <3>1 DEF LogInv, Authored
  <2>8. Holds'
    <3>1. \A o \in Devices :
            /\ \A x \in pending[o] \cup cancelled[o] : x.by = o
            /\ pending[o] \subseteq Range(log'[o])
      BY <2>4 DEF LogInv, Holds
    <3>2. ASSUME NEW o \in Devices, NEW x \in Range(log'[o])
          PROVE  /\ x.kind # "welcome"
                 /\ \/ OnRelay(x)
                    \/ x.by = o /\ x \in pending[o] \cup cancelled[o]
      <4>1. x \in Range(log[o]) \/ x = e
        BY <2>3
      <4> QED
        BY <2>1, <2>2, <4>1 DEF LogInv, Holds
    <3> QED
      BY <1>1, <2>1, <2>3, <2>5, <3>1, <3>2 DEF Holds
  <2> QED
    BY <2>6, <2>7, <2>8 DEF LogInv
<1>4. ASSUME NEW d \in Devices, NEW c \in Chats, Write(d, c) PROVE LogInv'
  <2>1. PICK kind \in {"poll", "vote", "close", "react", "unreact"},
             val \in SUBSET Options : SendMessage(d, c, kind, val)
    <3>1. CASE CreatePoll(d, c)
      BY <3>1 DEF CreatePoll
    <3>2. CASE Vote(d, c)
      BY <3>2 DEF Vote, Votes, ValidVote
    <3>3. CASE ClosePoll(d, c)
      BY <3>3 DEF ClosePoll
    <3>4. CASE React(d, c)
      BY <3>4 DEF React, ToggleReaction
    <3> QED
      BY <1>4, <3>1, <3>2, <3>3, <3>4 DEF Write
  <2> QED
    BY <2>1, WriteIsHeld
<1>5. ASSUME NEW d \in Devices, NEW c \in Chats, MembershipChanges(d, c)
      PROVE  LogInv'
  <2>1. /\ UNCHANGED <<begun, wire, next, log>>
        /\ pending' = [pending EXCEPT ![d] = @ \ Queued(d, c)]
        /\ cancelled' = [cancelled EXCEPT ![d] = @ \cup Queued(d, c)]
        /\ Queued(d, c) \subseteq pending[d]
    BY <1>5 DEF MembershipChanges, directVars, groupVars, Queued
  <2>2. /\ \A x : OnRelay(x)' = OnRelay(x) /\ \A q : To(q)' = To(q)
    BY <2>1 DEF OnRelay, To, Members
  <2>3. \A o \in Devices :
          /\ pending'[o] \cup cancelled'[o] = pending[o] \cup cancelled[o]
          /\ pending'[o] \subseteq pending[o]
    BY <1>1, <2>1
  <2>4. /\ pending' \in [Devices -> SUBSET Envelope]
        /\ cancelled' \in [Devices -> SUBSET Envelope]
    BY <1>1, <2>1
  <2>5. Holds'
    BY <2>1, <2>2, <2>3, <2>4 DEF LogInv, Holds
  <2>6. Authored' /\ Got'
    BY <2>1, <2>2 DEF LogInv, Authored, Got
  <2> QED
    BY <2>5, <2>6 DEF LogInv
<1>6. CASE UNCHANGED chatVars
  BY <1>6 DEF chatVars, directVars, groupVars, eventVars, LogInv, Holds,
     Authored, Got, OnRelay, To, Members
<1> QED
  BY <1>2, <1>3, <1>4, <1>5, <1>6, BeginIsNoEvent
     DEF ChatNext, Begin, DirectNext

\* At the beginning no device has an event.
LEMMA LogInitial == ChatInit => LogInv
BY DEF ChatInit, DirectInit, LogInv, Holds, Authored, Got, Range

-----------------------------------------------------------------------------
\* What counts in a chat on a device, in whatever order it came.
Held(d, c) == {e \in Range(log[d]) : e.chat = c /\ e \notin cancelled[d]}

\* The same events make the same poll and the same reactions.
LEMMA SameView ==
  ASSUME NEW d, NEW e, NEW c, Held(d, c) = Held(e, c)
  PROVE  /\ Results(d, c) = Results(e, c)
         /\ Reactions(Counted(d, c)) = Reactions(Counted(e, c))
<1>1. ASSUME NEW o PROVE Counted(o, c) = ByTime(Held(o, c))
  <2> DEFINE places == {i \in DOMAIN log[o] :
                          /\ log[o][i].chat = c
                          /\ log[o][i] \notin cancelled[o]}
             kept   == Restrict(log[o], places)
  <2>1. DOMAIN kept = places /\ \A i \in places : kept[i] = log[o][i]
    BY DEF Restrict
  <2>2. Range(kept) = {log[o][i] : i \in places}
    BY <2>1 DEF Range
  <2>3. {log[o][i] : i \in places} = Held(o, c)
    BY DEF Held, Range
  <2> QED
    BY <2>2, <2>3 DEF Counted, InOrder
<1>2. Counted(d, c) = Counted(e, c)
  BY <1>1
<1>3. Results(d, c) = Results(e, c)
  BY <1>2 DEF Results, Poll
<1> QED
  BY <1>2, <1>3

\* Devices that have got everything of a chat hold the same events of it.
LEMMA SameEvents ==
  ASSUME ChatInv, LogInv, NEW c \in Founded, Delivered(c), ~Astray(c),
         NEW d \in Devices \cap Members(c), NEW e \in Devices \cap Members(c)
  PROVE  Held(d, c) \subseteq Held(e, c)
<1> SUFFICES ASSUME NEW x \in Held(d, c) PROVE x \in Held(e, c)
  OBVIOUS
<1>1. /\ x \in Range(log[d]) /\ x.chat = c /\ x \notin cancelled[d]
      /\ x.kind # "welcome"
  BY DEF Held, LogInv, Holds
<1>2. PICK i \in DOMAIN wire : wire[i] = x
  <2>1. x \notin pending[d]
    BY <1>1 DEF Delivered
  <2> QED
    BY <1>1, <2>1 DEF LogInv, Holds, OnRelay
<1>3. x.by \in Devices
  BY <1>2, Elements DEF Envelope
<1>4. CASE x.by = e
  <2>1. x \in Range(log[e])
    BY <1>1, <1>2, <1>4 DEF LogInv, Authored
  <2>2. x \notin cancelled[e]
    BY <1>1, <1>2 DEF Astray
  <2> QED
    BY <1>1, <2>1, <2>2 DEF Held
<1>5. CASE x.by # e
  <2>1. e \in To(wire[i])
    BY <1>1, <1>2, <1>5 DEF To
  <2>2. i < next[e]
    <3>1. /\ next[e] \in Nat /\ Len(wire) \in Nat
          /\ DOMAIN wire = 1 .. Len(wire)
      BY DEF ChatInv, Typed
    <3>2. i \notin InMailbox(e)
      BY <1>1, <1>2 DEF Delivered
    <3> QED
      BY <2>1, <3>1, <3>2 DEF InMailbox
  <2>3. x \in Range(log[e])
    BY <1>1, <1>2, <2>1, <2>2 DEF LogInv, Got
  <2>4. x \notin cancelled[e]
    BY <1>5 DEF LogInv, Holds
  <2> QED
    BY <1>1, <2>3, <2>4 DEF Held
<1> QED
  BY <1>4, <1>5

\* Devices that have got the same events show the same poll and the same
\* reactions, however their clocks differ and in whatever order the events
\* came, unless one was cancelled after the relay had it.
THEOREM AllAgree == ChatSpec => []EveryoneAgrees
<1>1. ASSUME ChatInv, LogInv PROVE EveryoneAgrees
  <2> SUFFICES ASSUME NEW c \in Founded, Delivered(c), ~Astray(c),
                      NEW d \in Members(c), NEW e \in Members(c)
               PROVE  /\ Results(d, c) = Results(e, c)
                      /\ Reactions(Counted(d, c)) = Reactions(Counted(e, c))
    BY DEF EveryoneAgrees, Founded
  <2>1. Members(c) \subseteq Devices
    <3>1. ASSUME NEW S, NEW q \in Seq(S), NEW i \in 1 .. Len(q)
          PROVE  q[i] \in S
      OBVIOUS
    <3>2. begun[c] \in [by : Devices, invited : SUBSET Devices]
      BY <1>1, <3>1 DEF ChatInv, Typed, Founded
    <3> QED
      BY <3>2 DEF Members
  <2>2. d \in Devices \cap Members(c) /\ e \in Devices \cap Members(c)
    BY <2>1
  <2>3. Held(d, c) \subseteq Held(e, c) /\ Held(e, c) \subseteq Held(d, c)
    BY <1>1, <2>2, SameEvents
  <2>4. Held(d, c) = Held(e, c)
    BY <2>3
  <2> QED
    BY <2>4, SameView
<1>2. ChatInv /\ LogInv /\ [ChatNext]_chatVars => ChatInv' /\ LogInv'
  BY ChatStep, LogStep
<1>3. ChatInit => ChatInv /\ LogInv
  BY ChatInitial, LogInitial
<1> QED
  BY <1>1, <1>2, <1>3, PTL DEF ChatSpec
=============================================================================
