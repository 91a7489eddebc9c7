---------------------------- MODULE InboundProofs ----------------------------
(***************************************************************************)
(* Proofs about what comes in: Inbox and ReadState, which share no state.  *)
(*                                                                         *)
(* Inbox, for every set of deliveries, every placing of Welcomes, Commits  *)
(* and unreadable messages, and any number of crashes.  NoPoison and the   *)
(* refinement are not inductive.  The argument: a batch is a prefix of the *)
(* mailbox (BatchIsPrefix), so a delivery is opened only when all earlier  *)
(* ones are gone from the relay, hence in the vault (SpentInOrder); a      *)
(* delivery whose step is under way has used up its key (InProgress), so   *)
(* its staging record is only removed after the relay has forgotten it.    *)
(*                                                                         *)
(* ReadState, for every set of chats, messages and threads.  Each function *)
(* a handler is made of keeps the books of the state it is given (Booked)  *)
(* and marks only messages of the scope that is shown when it returns      *)
(* (Marks); a turn of the loop is two of them in a row.  Besides, nothing  *)
(* is visible while a fetch is in flight, a thread is open only in its own *)
(* chat (InPlace), and the frontend's idea of the focus is what the last   *)
(* event says, which is what makes marking by update_visibility honest.    *)
(***************************************************************************)
EXTENDS Inbox, ReadState, FiniteSetTheorems, TLAPS

Typing ==
  /\ TypeOK
  /\ shown \in [Deliveries -> {0, 1}]
  /\ batch \subseteq mailbox

BatchIsPrefix == \A e \in mailbox \ batch, b \in batch : b < e

SpentInOrder == \A d \in spent, e \in posted : e < d => shown[e] = 1

InProgress ==
  /\ pc \in {"present", "ack", "complete"} => cur \in spent
  /\ pc \in {"ack", "complete"} => shown[cur] = 1
  /\ pc = "complete" => cur \notin mailbox

Inv ==
  /\ Typing
  /\ BatchIsPrefix
  /\ SpentInOrder
  /\ InProgress
  /\ NoPoison
  /\ AckAfterDurable

-----------------------------------------------------------------------------
\* The invariant holds when the client starts for the first time.
THEOREM InvInit == Init => Inv
<1> SUFFICES ASSUME Init PROVE Inv
  OBVIOUS
<1> USE DEF Init
<1>1. Typing
  BY DEF Typing, TypeOK, Step
<1>2. BatchIsPrefix /\ SpentInOrder /\ NoPoison /\ AckAfterDurable
  BY DEF BatchIsPrefix, SpentInOrder, NoPoison, AckAfterDurable
<1>3. InProgress
  BY DEF InProgress
<1> QED
  BY <1>1, <1>2, <1>3 DEF Inv

\* A step of the relay, of the engine or of the environment keeps it.
THEOREM InvNext == Inv /\ [Next]_vars => Inv'
<1> SUFFICES ASSUME Inv, [Next]_vars PROVE Inv'
  OBVIOUS
<1> USE InboxAssumption
    DEF Inv, Typing, TypeOK, Step, BatchIsPrefix, SpentInOrder, InProgress,
        NoPoison, AckAfterDurable, relayVars, deviceVars, engineVars
<1>1. ASSUME NEW d \in Deliveries, Post(d) PROVE Inv'
  BY <1>1 DEF Post
<1>2. ASSUME NEW d \in Deliveries, Open(d) PROVE Inv'
  <2> USE <1>2 DEF Open, Known, Persisted, PersistFailed, Abort
  <2>1. Typing'
    OBVIOUS
  <2>2. BatchIsPrefix' /\ AckAfterDurable' /\ InProgress'
    OBVIOUS
  <2>3. \A e \in posted : e < d => shown[e] = 1
    OBVIOUS
  <2>4. SpentInOrder'
    BY <2>3
  <2>5. NoPoison'
    OBVIOUS
  <2> QED
    BY <2>1, <2>2, <2>4, <2>5
<1>3. ASSUME NEW d \in Deliveries, Undecryptable(d) PROVE Inv'
  BY <1>3 DEF Undecryptable, Abort
<1>4. ASSUME NEW d \in Deliveries, RestoreNext(d) PROVE Inv'
  BY <1>4 DEF RestoreNext
<1>5. ASSUME Fetch PROVE Inv'
  BY <1>5 DEF Fetch
<1>6. ASSUME BatchDone PROVE Inv'
  BY <1>6 DEF BatchDone
<1>7. ASSUME Present PROVE Inv'
  BY <1>7 DEF Present
<1>8. ASSUME PresentFails PROVE Inv'
  BY <1>8 DEF PresentFails, Abort
<1>9. ASSUME Ack PROVE Inv'
  BY <1>9 DEF Ack, AfterDelivery
<1>10. ASSUME AckFails PROVE Inv'
  BY <1>10 DEF AckFails, Abort
<1>11. ASSUME Complete PROVE Inv'
  BY <1>11 DEF Complete, AfterDelivery, Persisted, PersistFailed, Abort
<1>12. ASSUME PersistElsewhere PROVE Inv'
  BY <1>12 DEF PersistElsewhere, Persisted
<1>13. ASSUME Crash PROVE Inv'
  BY <1>13 DEF Crash
<1>14. ASSUME RestoreDone PROVE Inv'
  BY <1>14 DEF RestoreDone
<1>15. ASSUME UNCHANGED vars PROVE Inv'
  BY <1>15 DEF vars
<1> QED
  BY <1>1, <1>2, <1>3, <1>4, <1>5, <1>6, <1>7, <1>8, <1>9, <1>10, <1>11,
     <1>12, <1>13, <1>14, <1>15 DEF Next

\* Inv holds in every state the client can reach.
THEOREM Invariance == Spec => []Inv
  BY InvInit, InvNext, PTL DEF Spec

\* Every variable keeps its type; in particular no key is used up for good
\* before it is in memory, and nothing is staged that was not opened.
THEOREM TypeCorrect == Spec => []TypeOK
<1>1. Inv => TypeOK
  BY DEF Inv, Typing
<1> QED
  BY Invariance, <1>1, PTL

\* Whatever fails and however often the client restarts, no delivery that the
\* relay still holds has lost its plaintext.
THEOREM NeverPoisoned == Spec => []NoPoison
<1>1. Inv => NoPoison
  BY DEF Inv
<1> QED
  BY Invariance, <1>1, PTL

\* An acknowledgement never gets ahead of the vault.
THEOREM DurableBeforeAck == Spec => []AckAfterDurable
<1>1. Inv => AckAfterDurable
  BY DEF Inv
<1> QED
  BY Invariance, <1>1, PTL

-----------------------------------------------------------------------------
\* A step of the client is a step of the promise, or changes nothing in it.
LEMMA StepImplements ==
  ASSUME Inv, [Next]_vars
  PROVE  [Promise!Next]_(Promise!vars)
<1> USE InboxAssumption DEF Promise!Next, Promise!vars, relayVars
<1>1. ASSUME NEW d \in Deliveries, Post(d) PROVE Promise!Next
  BY <1>1 DEF Post, Promise!Post
<1>2. ASSUME Present PROVE [Promise!Next]_(Promise!vars)
  <2>1. cur \in spent /\ cur \in Deliveries /\ cur \in posted
    BY <1>2 DEF Present, Inv, InProgress, Typing, TypeOK
  <2>2. CASE shown[cur] = 0
    <3>1. \A e \in posted : e < cur => shown[e] = 1
      BY <2>1 DEF Inv, SpentInOrder
    <3>2. Promise!Show(cur)
      BY <1>2, <2>1, <2>2, <3>1 DEF Present, Promise!Show
    <3> QED
      BY <2>1, <3>2
  <2>3. CASE shown[cur] # 0
    <3>1. shown' = shown
      BY <1>2, <2>1, <2>3 DEF Present, Inv, Typing
    <3> QED
      BY <1>2, <3>1 DEF Present
  <2> QED
    BY <2>2, <2>3
<1>3. ASSUME Ack \/ AckFails PROVE [Promise!Next]_(Promise!vars)
  <2>1. cur \in Deliveries /\ shown[cur] = 1
    BY <1>3 DEF Ack, AckFails, Inv, InProgress, Typing, TypeOK
  <2>2. Promise!Forget(cur) \/ UNCHANGED Promise!vars
    BY <1>3, <2>1 DEF Ack, AckFails, Promise!Forget
  <2> QED
    BY <2>1, <2>2
<1>4. ASSUME NEW d \in Deliveries, Open(d) \/ Undecryptable(d) \/ RestoreNext(d)
      PROVE  UNCHANGED Promise!vars
  BY <1>4 DEF Open, Undecryptable, RestoreNext
<1>5. ASSUME \/ Fetch \/ BatchDone \/ PresentFails \/ Complete
             \/ PersistElsewhere \/ Crash \/ RestoreDone \/ UNCHANGED vars
      PROVE  UNCHANGED Promise!vars
  BY <1>5 DEF Fetch, BatchDone, PresentFails, Complete, PersistElsewhere, Crash,
              RestoreDone, vars
<1> QED
  BY <1>1, <1>2, <1>3, <1>4, <1>5 DEF Next

\* The client shows every delivery once and in order, and the relay forgets
\* none before.
THEOREM Implements == Spec => ImplementsPromise
<1>1. Init => Promise!Init
  BY DEF Init, Promise!Init
<1> QED
  BY <1>1, Invariance, StepImplements, PTL
     DEF Spec, ImplementsPromise, Promise!Spec

-----------------------------------------------------------------------------
(***************************************************************************)
(* Read state: what is said of a state s of the program, as the handlers   *)
(* pass it on.                                                             *)
(***************************************************************************)
UnreadIn(copy, c) == {m \in Messages : ChatOf[m] = c /\ copy[m] = "unread"}

Copies   == [Messages -> {"none", "unread", "read"}]
Counters == [Chats -> Nat]
Threads  == Messages \cup {Main}

ReadStates ==
  [v : [copy : Copies, unread : Counters,
        receipts : SUBSET ({"delivered", "read"} \X Messages)],
   c : [shown : Copies, unread : Counters, selected : Chats,
        active : [Chats -> Threads], visible : Scope \cup {Nowhere}],
   f : [focused : BOOLEAN, pane : Panes, last : Scope \cup {Nowhere}],
   error : BOOLEAN]

\* The copies agree and the counters count, a read receipt is owed for what
\* is read, and an unread message is one that was delivered.
Booked(s) ==
  /\ s.c.shown = s.v.copy /\ s.c.unread = s.v.unread
  /\ \A c \in Chats : s.v.unread[c] = Cardinality(UnreadIn(s.v.copy, c))
  /\ \A m \in Messages :
       /\ <<"read", m>> \in s.v.receipts =>
            s.v.copy[m] = "read" /\ <<"delivered", m>> \in s.v.receipts
       /\ s.v.copy[m] = "unread" => <<"delivered", m>> \in s.v.receipts

\* A thread is open only in the chat it belongs to.
InPlace(s) ==
  \A c \in Chats : s.c.active[c] # Main => ChatOf[s.c.active[c]] = c

Sound(s) == s \in ReadStates /\ Booked(s) /\ InPlace(s)

Opens(s, thread) ==
  thread \in Threads /\ (thread # Main => ChatOf[thread] = s.c.selected)

\* From s to t only unread messages of the scope w have become read.
Marks(s, t, w) ==
  \A m \in Messages :
    \/ t.v.copy[m] = s.v.copy[m]
    \/ s.v.copy[m] = "unread" /\ t.v.copy[m] = "read" /\ InScope(m, w)

ReadInv ==
  /\ Sound(State)
  /\ alert \in [pending : BOOLEAN, heard : SUBSET Messages]
  /\ phase \in {"loop", "sync"}
  /\ AlertsHaveUnread
  /\ phase = "sync" => client.visible = Nowhere
  /\ arrived \subseteq {m \in Messages : vault.copy[m] # "none"}
  /\ front.focused = evidence

-----------------------------------------------------------------------------
\* Counting the unread messages of a chat when some are read, or one comes.
LEMMA UnreadFinite ==
  ASSUME NEW copy, NEW c
  PROVE  /\ IsFiniteSet(UnreadIn(copy, c))
         /\ Cardinality(UnreadIn(copy, c)) \in Nat
BY ReadStateAssumption, FS_Subset, FS_CardinalityType DEF UnreadIn

AfterReading(copy, ids) ==
  [m \in Messages |-> IF m \in ids THEN "read" ELSE copy[m]]

LEMMA ReadingCounts ==
  ASSUME NEW copy \in Copies, NEW c \in Chats, NEW ids \in SUBSET Messages,
         \A m \in ids : ChatOf[m] = c /\ copy[m] = "unread",
         NEW d \in Chats
  PROVE  Cardinality(UnreadIn(AfterReading(copy, ids), d)) =
           IF d = c THEN Monus(Cardinality(UnreadIn(copy, d)), Cardinality(ids))
                    ELSE Cardinality(UnreadIn(copy, d))
<1> DEFINE before == UnreadIn(copy, d)
           after  == UnreadIn(AfterReading(copy, ids), d)
<1>1. CASE d # c
  <2>1. after = before
    BY <1>1 DEF UnreadIn, AfterReading
  <2> QED
    BY <1>1, <2>1
<1>2. CASE d = c
  <2>1. after = before \ ids /\ ids \in SUBSET before
    BY <1>2 DEF UnreadIn, AfterReading
  <2> HIDE DEF after
  <2>2. IsFiniteSet(before) /\ Cardinality(before) \in Nat
    BY UnreadFinite
  <2> HIDE DEF before
  <2>3. Cardinality(ids) \in Nat /\ Cardinality(ids) =< Cardinality(before)
    BY <2>1, <2>2, FS_Subset, FS_CardinalityType
  <2>4. before \cap ids = ids
    BY <2>1
  <2>5. Cardinality(after) = Cardinality(before) - Cardinality(ids)
    <3>1. Cardinality(before \ ids)
            = Cardinality(before) - Cardinality(before \cap ids)
      BY <2>2, FS_Difference
    <3> QED
      BY <2>1, <2>4, <3>1
  <2>6. Monus(Cardinality(before), Cardinality(ids)) = Cardinality(after)
    BY <2>2, <2>3, <2>5 DEF Monus
  <2> QED
    BY <1>2, <2>6 DEF before, after
<1> QED
  BY <1>1, <1>2

LEMMA ArrivingCounts ==
  ASSUME NEW copy \in Copies, NEW m \in Messages, copy[m] = "none",
         NEW d \in Chats
  PROVE  LET n == Cardinality(UnreadIn(copy, d))
         IN Cardinality(UnreadIn([copy EXCEPT ![m] = "unread"], d)) =
              IF d = ChatOf[m] THEN n + 1 ELSE n
<1> DEFINE copy2 == [copy EXCEPT ![m] = "unread"]
<1>1. CASE d # ChatOf[m]
  <2>1. UnreadIn(copy2, d) = UnreadIn(copy, d)
    BY <1>1 DEF UnreadIn, Copies
  <2> QED
    BY <1>1, <2>1
<1>2. CASE d = ChatOf[m]
  <2>1. /\ UnreadIn(copy2, d) = UnreadIn(copy, d) \cup {m}
        /\ m \notin UnreadIn(copy, d)
    BY <1>2 DEF UnreadIn, Copies
  <2> QED
    BY <1>2, <2>1, UnreadFinite, FS_AddElement
<1> QED
  BY <1>1, <1>2

-----------------------------------------------------------------------------
\* What mark_read makes of a state.
LEMMA Marked ==
  ASSUME NEW s \in ReadStates
  PROVE  LET t   == MarkSelectedRead(s)
             ids == Unread(s.v, Current(s))
             c   == s.c.selected
             n   == Cardinality(ids)
         IN /\ t.v.copy = AfterReading(s.v.copy, ids)
            /\ t.v.unread = [s.v.unread EXCEPT ![c] = Monus(@, n)]
            /\ t.v.receipts = s.v.receipts \cup
                 (IF SendReadReceipts THEN {"read"} \X ids ELSE {})
            /\ t.c.shown = AfterReading(s.c.shown, ids)
            /\ t.c.unread = [s.c.unread EXCEPT ![c] = Monus(@, n)]
            /\ t.c.selected = s.c.selected /\ t.c.active = s.c.active
            /\ t.c.visible = s.c.visible
            /\ t.f = s.f /\ t.error = s.error
            /\ t \in ReadStates
<1> DEFINE t   == MarkSelectedRead(s)
           ids == Unread(s.v, Current(s))
           c   == s.c.selected
           n   == Cardinality(ids)
           M(copy) == AfterReading(copy, ids)
           L(m) == [m EXCEPT ![c] = Monus(@, n)]
<1>1. t = [s EXCEPT !.v.copy = M(@), !.v.unread = L(@),
               !.v.receipts = @ \cup (IF SendReadReceipts
                                         THEN {"read"} \X ids ELSE {}),
               !.c.shown = M(@), !.c.unread = L(@)]
  BY DEF MarkSelectedRead, AfterReading
<1>3. ids \in SUBSET Messages /\ n \in Nat
  BY ReadStateAssumption, FS_Subset, FS_CardinalityType DEF Unread
<1>4. \A copy \in Copies : M(copy) \in Copies
  BY <1>3 DEF AfterReading, Copies
<1>5. \A m \in Counters : L(m) \in Counters
  <2>1. \A i \in Nat : Monus(i, n) \in Nat
    BY <1>3 DEF Monus
  <2> HIDE DEF n
  <2> QED
    BY <2>1 DEF Counters
<1>6. {"read"} \X ids \in SUBSET ({"delivered", "read"} \X Messages)
  BY <1>3
<1> HIDE DEF M, L, ids, n, t
<1>2. /\ t.v.copy = M(s.v.copy) /\ t.v.unread = L(s.v.unread)
      /\ t.v.receipts = s.v.receipts \cup
                 (IF SendReadReceipts THEN {"read"} \X ids ELSE {})
      /\ t.c.shown = M(s.c.shown) /\ t.c.unread = L(s.c.unread)
      /\ t.c.selected = s.c.selected /\ t.c.active = s.c.active
      /\ t.c.visible = s.c.visible
      /\ t.f = s.f /\ t.error = s.error
  BY <1>1 DEF ReadStates
<1>7. t \in ReadStates
  <2>1. t = [v |-> t.v, c |-> t.c, f |-> t.f, error |-> t.error]
    BY <1>1 DEF ReadStates
  <2>2. t.v = [copy |-> t.v.copy, unread |-> t.v.unread,
               receipts |-> t.v.receipts]
    BY <1>1 DEF ReadStates
  <2>3. t.c = [shown |-> t.c.shown, unread |-> t.c.unread,
               selected |-> t.c.selected, active |-> t.c.active,
               visible |-> t.c.visible]
    BY <1>1 DEF ReadStates
  <2>4. /\ t.v.copy \in Copies /\ t.v.unread \in Counters
        /\ t.v.receipts \in SUBSET ({"delivered", "read"} \X Messages)
        /\ t.c.shown \in Copies /\ t.c.unread \in Counters
        /\ t.c.selected \in Chats /\ t.c.active \in [Chats -> Threads]
        /\ t.c.visible \in Scope \cup {Nowhere}
        /\ t.f \in [focused : BOOLEAN, pane : Panes,
                    last : Scope \cup {Nowhere}]
        /\ t.error \in BOOLEAN
    BY <1>2, <1>4, <1>5, <1>6 DEF ReadStates
  <2> QED
    BY <2>1, <2>2, <2>3, <2>4 DEF ReadStates
<1> QED
  BY <1>2, <1>7 DEF M, L, ids, n, t

\* mark_read leaves the books right.
LEMMA MarkingIsSound ==
  ASSUME NEW s, Sound(s)
  PROVE  LET t == MarkSelectedRead(s)
         IN Sound(t) /\ Marks(s, t, Current(s))
<1> DEFINE t   == MarkSelectedRead(s)
           ids == Unread(s.v, Current(s))
           c   == s.c.selected
<1>1. /\ s \in ReadStates /\ c \in Chats /\ s.v.copy \in Copies
      /\ s.v.unread \in Counters
  BY DEF Sound, ReadStates
<1>2. /\ ids \in SUBSET Messages
      /\ \A m \in Messages :
           m \in ids <=> s.v.copy[m] = "unread" /\ InScope(m, Current(s))
  BY DEF Unread
<1>3. \A m \in ids : ChatOf[m] = c /\ s.v.copy[m] = "unread"
  BY <1>2 DEF InScope, Current
<1>4. /\ t \in ReadStates
      /\ t.v.copy = AfterReading(s.v.copy, ids)
      /\ t.v.unread = [s.v.unread EXCEPT ![c] = Monus(@, Cardinality(ids))]
      /\ t.v.receipts = s.v.receipts \cup
           (IF SendReadReceipts THEN {"read"} \X ids ELSE {})
      /\ t.c.shown = AfterReading(s.c.shown, ids)
      /\ t.c.unread = [s.c.unread EXCEPT ![c] = Monus(@, Cardinality(ids))]
      /\ t.c.active = s.c.active
  BY <1>1, Marked
<1> HIDE DEF t, ids
<1>5. \A d \in Chats : t.v.unread[d] = Cardinality(UnreadIn(t.v.copy, d))
  <2> TAKE d \in Chats
  <2>1. s.v.unread[d] = Cardinality(UnreadIn(s.v.copy, d))
    BY DEF Sound, Booked
  <2>2. Cardinality(UnreadIn(t.v.copy, d)) =
          IF d = c THEN Monus(s.v.unread[d], Cardinality(ids))
                   ELSE s.v.unread[d]
    BY <1>1, <1>2, <1>3, <1>4, <2>1, ReadingCounts
  <2> QED
    BY <1>1, <1>4, <2>2 DEF Counters
<1>6. t.c.shown = t.v.copy /\ t.c.unread = t.v.unread
  BY <1>4 DEF Sound, Booked
<1>7. ASSUME NEW m \in Messages
      PROVE  /\ <<"read", m>> \in t.v.receipts =>
                  t.v.copy[m] = "read" /\ <<"delivered", m>> \in t.v.receipts
             /\ t.v.copy[m] = "unread" => <<"delivered", m>> \in t.v.receipts
  <2>1. t.v.copy[m] = IF m \in ids THEN "read" ELSE s.v.copy[m]
    BY <1>4 DEF AfterReading
  <2>2. <<"read", m>> \in t.v.receipts =>
          <<"read", m>> \in s.v.receipts \/ m \in ids
    BY <1>4
  <2>3. <<"delivered", m>> \in s.v.receipts =>
          <<"delivered", m>> \in t.v.receipts
    BY <1>4
  <2> QED
    BY <1>3, <2>1, <2>2, <2>3 DEF Sound, Booked
<1>8. InPlace(t)
  BY <1>4 DEF Sound, InPlace
<1>9. Marks(s, t, Current(s))
  BY <1>2, <1>4 DEF Marks, AfterReading
<1> QED
  BY <1>4, <1>5, <1>6, <1>7, <1>8, <1>9 DEF Sound, Booked, t

\* The books are kept in the vault and the engine's copy of them.
LEMMA SameBooks ==
  ASSUME NEW s, Sound(s), NEW t \in ReadStates, t.v = s.v,
         t.c.shown = s.c.shown, t.c.unread = s.c.unread,
         t.c.active = s.c.active
  PROVE  Sound(t) /\ \A w : Marks(s, t, w)
BY DEF Sound, Booked, InPlace, Marks

LEMMA Failed ==
  ASSUME NEW s, Sound(s)
  PROVE  LET t == [s EXCEPT !.error = TRUE]
         IN /\ Sound(t) /\ t.v = s.v /\ t.f = s.f
            /\ t.c.selected = s.c.selected /\ t.c.active = s.c.active
<1> DEFINE t == [s EXCEPT !.error = TRUE]
<1> s \in ReadStates
  BY DEF Sound
<1>1. t \in ReadStates /\ t.v = s.v /\ t.f = s.f /\ t.c = s.c
  BY DEF ReadStates
<1> QED
  BY <1>1, SameBooks

LEMMA Shows ==
  ASSUME NEW s, Sound(s), NEW w \in Scope \cup {Nowhere}
  PROVE  LET t == [s EXCEPT !.c.visible = w]
         IN /\ Sound(t) /\ t.v = s.v /\ t.f = s.f
            /\ t.c.selected = s.c.selected /\ t.c.active = s.c.active
<1> DEFINE t == [s EXCEPT !.c.visible = w]
<1> s \in ReadStates
  BY DEF Sound
<1>1. /\ t \in ReadStates /\ t.v = s.v /\ t.f = s.f
      /\ t.c.shown = s.c.shown /\ t.c.unread = s.c.unread
      /\ t.c.selected = s.c.selected /\ t.c.active = s.c.active
  BY DEF ReadStates
<1> QED
  BY <1>1, SameBooks

\* The selected chat shows one of its threads.
LEMMA Opened ==
  ASSUME NEW s, Sound(s), NEW thread, Opens(s, thread)
  PROVE  LET t == [s EXCEPT !.c.active[s.c.selected] = thread]
         IN /\ Sound(t) /\ t.v = s.v /\ t.f = s.f /\ t.error = s.error
            /\ t.c.selected = s.c.selected
            /\ t.c.active = [s.c.active EXCEPT ![s.c.selected] = thread]
            /\ Current(t) = <<s.c.selected, thread>> /\ Current(t) \in Scope
<1> DEFINE t == [s EXCEPT !.c.active[s.c.selected] = thread]
<1> s \in ReadStates /\ s.c.selected \in Chats
  BY DEF Sound, ReadStates
<1>1. /\ t.v = s.v /\ t.f = s.f /\ t.error = s.error
      /\ t.c.shown = s.c.shown /\ t.c.unread = s.c.unread
      /\ t.c.selected = s.c.selected
      /\ t.c.active = [s.c.active EXCEPT ![s.c.selected] = thread]
  BY DEF ReadStates
<1>2. t \in ReadStates
  BY DEF Opens, ReadStates
<1> HIDE DEF t
<1>3. Sound(t)
  <2>1. InPlace(t)
    BY <1>1 DEF Sound, InPlace, Opens, ReadStates
  <2>2. Booked(t)
    BY <1>1 DEF Sound, Booked
  <2> QED
    BY <1>2, <2>1, <2>2 DEF Sound
<1>4. Current(t) = <<s.c.selected, thread>>
  BY <1>1 DEF Current, ReadStates
<1>5. <<s.c.selected, thread>> \in Scope
  BY DEF Opens, Scope, Threads
<1> QED
  BY <1>1, <1>3, <1>4, <1>5 DEF t

\* A command that shows a thread and marks it read, however it ends.
LEMMA ShowingIsSound ==
  ASSUME NEW s, Sound(s), NEW thread, Opens(s, thread),
         NEW outcome \in Outcome
  PROVE  LET t == SetSelectedVisible(s, thread, outcome)
         IN /\ Sound(t) /\ t.f = s.f /\ t.c.selected = s.c.selected
            /\ t.c.active[s.c.selected] = thread
            /\ Marks(s, t, Current(t))
<1> DEFINE u == [s EXCEPT !.c.active[s.c.selected] = thread]
           m == MarkSelectedRead(u)
           t == SetSelectedVisible(s, thread, outcome)
<1>1. /\ Sound(u) /\ u.v = s.v /\ u.f = s.f /\ u \in ReadStates
      /\ u.c.selected = s.c.selected
      /\ u.c.active = [s.c.active EXCEPT ![s.c.selected] = thread]
      /\ Current(u) \in Scope
  BY Opened DEF Sound
<1>2. \/ t = [u EXCEPT !.error = TRUE]
      \/ t = [m EXCEPT !.error = TRUE]
      \/ t = [m EXCEPT !.c.visible = Current(u), !.error = TRUE]
      \/ t = [m EXCEPT !.c.visible = Current(u)]
  BY DEF SetSelectedVisible
<1> HIDE DEF u, t
<1>3. /\ Sound(m) /\ Marks(u, m, Current(u))
      /\ m.f = u.f /\ m.c.selected = u.c.selected /\ m.c.active = u.c.active
  BY <1>1, MarkingIsSound, Marked
<1> HIDE DEF m
<1>4. Current(m) = Current(u)
  BY <1>3 DEF Current
<1>5. \E q \in {u, m} : Sound(t) /\ t.v = q.v /\ t.f = q.f
        /\ t.c.selected = q.c.selected /\ t.c.active = q.c.active
  <2>1. CASE t = [u EXCEPT !.error = TRUE]
    BY <1>1, <2>1, Failed
  <2>2. CASE t = [m EXCEPT !.error = TRUE]
    BY <1>3, <2>2, Failed
  <2> DEFINE w == Current(u)
             x == [m EXCEPT !.c.visible = w]
  <2>3. /\ Sound(x) /\ x.v = m.v /\ x.f = m.f
        /\ x.c.selected = m.c.selected /\ x.c.active = m.c.active
    <3>1. w \in Scope \cup {Nowhere}
      BY <1>1
    <3> HIDE DEF w
    <3> QED
      BY <1>3, <3>1, Shows
  <2>4. CASE t = [m EXCEPT !.c.visible = Current(u), !.error = TRUE]
    <3>1. m \in ReadStates
      BY <1>3 DEF Sound
    <3>2. t = [x EXCEPT !.error = TRUE]
      BY <2>4, <3>1 DEF ReadStates
    <3> HIDE DEF x
    <3> QED
      BY <2>3, <3>2, Failed
  <2>5. CASE t = [m EXCEPT !.c.visible = Current(u)]
    BY <2>3, <2>5
  <2> QED
    BY <1>2, <2>1, <2>2, <2>4, <2>5
<1>6. Marks(s, t, Current(t))
  <2>1. CASE t.v = u.v
    BY <1>1, <2>1 DEF Marks
  <2>2. CASE t.v = m.v /\ t.c.selected = m.c.selected
             /\ t.c.active = m.c.active
    <3>1. Current(t) = Current(u)
      BY <1>4, <2>2 DEF Current
    <3> QED
      BY <1>1, <1>3, <2>2, <3>1 DEF Marks
  <2> QED
    BY <1>5, <2>1, <2>2
<1>7. t.c.active[s.c.selected] = thread
  BY <1>1, <1>3, <1>5 DEF Sound, ReadStates
<1> QED
  BY <1>1, <1>3, <1>5, <1>6, <1>7 DEF t

LEMMA CurrentOpens ==
  ASSUME NEW s, Sound(s)
  PROVE  /\ Opens(s, s.c.active[s.c.selected]) /\ Opens(s, Main)
         /\ Current(s) \in Scope
<1> s \in ReadStates /\ InPlace(s)
  BY DEF Sound
<1>1. s.c.selected \in Chats /\ s.c.active[s.c.selected] \in Threads
  BY DEF ReadStates
<1>2. Opens(s, s.c.active[s.c.selected]) /\ Opens(s, Main)
  BY <1>1 DEF Opens, InPlace, Threads
<1> QED
  BY <1>1, <1>2 DEF Opens, Current, Scope, Threads

\* update_visibility marks what is on the screen, when the window has the
\* focus.
LEMMA UpdatingIsSound ==
  ASSUME NEW s, Sound(s), NEW outcome \in Outcome
  PROVE  LET t == UpdateVisibility(s, outcome)
         IN /\ Sound(t) /\ t.f.focused = s.f.focused
            /\ Current(t) = Current(s) /\ Marks(s, t, Current(t))
            /\ t.v.copy # s.v.copy => s.f.focused
<1> DEFINE w == VisibleScope(s)
           q == [s EXCEPT !.error = FALSE]
           n == [q EXCEPT !.c.visible = Nowhere]
           thread == s.c.active[s.c.selected]
           x == SetSelectedVisible(q, thread, outcome)
           t == UpdateVisibility(s, outcome)
           y == IF w = Nowhere THEN n ELSE x
<1> s \in ReadStates
  BY DEF Sound
<1>1. \/ t = s \/ t = y \/ t = [y EXCEPT !.f.last = w]
  BY DEF UpdateVisibility
<1>2. w \in Scope \cup {Nowhere} /\ (w # Nowhere => s.f.focused)
  BY CurrentOpens DEF VisibleScope
<1>3. q \in ReadStates /\ q.v = s.v /\ q.f = s.f /\ q.c = s.c
  BY DEF ReadStates
<1> HIDE DEF q, w, t
<1>4. Sound(q)
  BY <1>3, SameBooks
<1>5. /\ Sound(n) /\ n.v = s.v /\ n.f = s.f
      /\ n.c.selected = s.c.selected /\ n.c.active = s.c.active
  BY <1>3, <1>4, Shows
<1>6. Opens(q, thread)
  BY <1>3, CurrentOpens DEF Opens
<1>7. /\ Sound(x) /\ x.f = s.f /\ x.c.selected = s.c.selected
      /\ x.c.active[s.c.selected] = thread
      /\ Marks(q, x, Current(x))
  <2> HIDE DEF thread
  <2> QED
    BY <1>3, <1>4, <1>6, ShowingIsSound
<1> HIDE DEF n, x
<1>8. Current(x) = Current(s)
  BY <1>7 DEF Current
<1>9. /\ Sound(y) /\ y.f = s.f /\ Current(y) = Current(s)
      /\ Marks(s, y, Current(y)) /\ (y.v.copy # s.v.copy => s.f.focused)
  <2>1. CASE w = Nowhere
    BY <1>5, <2>1 DEF Current, Marks
  <2>2. CASE w # Nowhere
    BY <1>2, <1>3, <1>7, <1>8, <2>2 DEF Current, Marks
  <2> QED
    BY <2>1, <2>2
<1> HIDE DEF y
<1>10. /\ Sound(t) /\ t.f.focused = s.f.focused
       /\ Current(t) = Current(s) /\ Marks(s, t, Current(t))
       /\ t.v.copy # s.v.copy => s.f.focused
  <2>1. CASE t = s
    BY <2>1 DEF Marks
  <2>2. CASE t = y
    BY <1>9, <2>2
  <2>3. CASE t = [y EXCEPT !.f.last = w]
    <3>1. y \in ReadStates
      BY <1>9 DEF Sound
    <3>2. /\ t \in ReadStates /\ t.v = y.v /\ t.c = y.c
          /\ t.f.focused = y.f.focused
      BY <1>2, <2>3, <3>1 DEF ReadStates
    <3>3. Sound(t)
      BY <1>9, <3>2, SameBooks
    <3>4. Current(t) = Current(y)
      BY <3>2 DEF Current
    <3> QED
      BY <1>9, <3>2, <3>3, <3>4 DEF Marks
  <2> QED
    BY <1>1, <2>1, <2>2, <2>3
<1> QED
  BY <1>10 DEF t

LEMMA LandingIsSound ==
  ASSUME NEW s, Sound(s), NEW pane \in Panes
  PROVE  /\ \A t \in {Landing(s, pane), [s EXCEPT !.f.pane = pane]} :
              Sound(t) /\ t.v = s.v /\ t.c = s.c /\ t.f.focused = s.f.focused
<1> DEFINE u == [s EXCEPT !.f.pane = pane]
<1>1. s \in ReadStates
  BY DEF Sound
<1>2. /\ u \in ReadStates /\ u.v = s.v /\ u.c = s.c
      /\ u.f.focused = s.f.focused
  BY <1>1 DEF ReadStates
<1>3. Landing(s, pane) \in {s, u}
  BY DEF Landing
<1> HIDE DEF u
<1>4. Sound(u)
  BY <1>2, SameBooks
<1> QED
  BY <1>2, <1>3, <1>4 DEF u

\* A key marks messages only when it opens or closes a thread, or jumps.
LEMMA HandlingIsSound ==
  ASSUME NEW s, Sound(s), NEW k, NEW outcome \in Outcome, NEW pane \in Landed
  PROVE  LET t == HandleKey(s, k, outcome, pane)
         IN /\ Sound(t) /\ t.f.focused = s.f.focused
            /\ Marks(s, t, Current(t))
            /\ t.v.copy # s.v.copy =>
                 k \in Key /\ k[1] \in {"open", "close", "jump"}
<1> DEFINE t == HandleKey(s, k, outcome, pane)
           Show(thread) == SetSelectedVisible(s, thread, outcome)
<1> pane \in Panes /\ s \in ReadStates /\ s.c.selected \in Chats
  BY DEF Landed, Panes, Sound, ReadStates
<1>1. ASSUME NEW thread, Opens(s, thread)
      PROVE  LET u == Landing(Show(thread), pane)
             IN Sound(u) /\ u.f.focused = s.f.focused /\ Marks(s, u, Current(u))
  <2> DEFINE x == Show(thread)
             u == Landing(x, pane)
  <2>1. Sound(x) /\ x.f = s.f /\ Marks(s, x, Current(x))
    BY <1>1, ShowingIsSound
  <2> HIDE DEF x
  <2>2. Sound(u) /\ u.v = x.v /\ u.c = x.c /\ u.f.focused = x.f.focused
    BY <2>1, LandingIsSound
  <2> HIDE DEF u
  <2>3. Sound(u) /\ u.f.focused = s.f.focused /\ Marks(s, u, Current(u))
    BY <2>1, <2>2 DEF Marks, Current
  <2> QED
    BY <2>3 DEF u, x
<1>2. ASSUME NEW m \in Messages, InScope(m, Current(s))
      PROVE  /\ Opens(s, IF RootOf[m] = Main THEN m ELSE RootOf[m])
             /\ ChatOf[m] = s.c.selected
  BY <1>2, ReadStateAssumption DEF Opens, InScope, Current, Threads
<1>3. Opens(s, Main)
  BY CurrentOpens
<1>4. ASSUME Meaningful(s, k)
      PROVE  /\ Sound(t) /\ t.f.focused = s.f.focused
             /\ Marks(s, t, Current(t))
             /\ t.v.copy # s.v.copy =>
                  k \in Key /\ k[1] \in {"open", "close", "jump"}
  <2>0. k \in Key
    BY <1>4 DEF Meaningful, IsKey
  <2>1. CASE \E m \in Messages : k = <<"open", m>>
    <3>1. PICK m \in Messages : k = <<"open", m>>
      BY <2>1
    <3>2. InScope(m, Current(s))
      BY <1>4, <3>1 DEF Meaningful
    <3>3. t = Landing(Show(IF RootOf[m] = Main THEN m ELSE RootOf[m]), pane)
      BY <1>4, <3>1 DEF HandleKey, ChangeThread, OpenThread
    <3> HIDE DEF t, Show
    <3> QED
      BY <1>1, <1>2, <2>0, <3>1, <3>2, <3>3
  <2>2. CASE k = <<"close">>
    <3>1. t = Landing(Show(Main), pane)
      BY <1>4, <2>2 DEF HandleKey, ChangeThread, CloseThread
    <3> HIDE DEF t, Show
    <3> QED
      BY <1>1, <1>3, <2>0, <2>2, <3>1
  <2>3. CASE \E m \in Messages : k = <<"jump", m>> /\ OriginalOf[m] # Main
    <3>1. PICK m \in Messages : k = <<"jump", m>> /\ OriginalOf[m] # Main
      BY <2>3
    <3>2. InScope(m, Current(s))
      BY <1>4, <3>1 DEF Meaningful
    <3> DEFINE original == OriginalOf[m]
    <3>3. original \in Messages /\ ChatOf[original] = s.c.selected
      BY <1>2, <3>1, <3>2, ReadStateAssumption
    <3>4. t = JumpToOriginal(s, m, outcome, pane)
      BY <1>4, <3>1 DEF HandleKey
    <3>5. \/ t = Landing(s, pane)
          \/ t = Landing(Show(Main), pane)
          \/ /\ RootOf[original] # Main
             /\ t = Landing(Show(IF RootOf[RootOf[original]] = Main
                                   THEN RootOf[original]
                                   ELSE RootOf[RootOf[original]]), pane)
      BY <3>4 DEF JumpToOriginal, CloseThread, OpenThread
    <3>6. RootOf[original] # Main =>
            Opens(s, IF RootOf[RootOf[original]] = Main
                       THEN RootOf[original] ELSE RootOf[RootOf[original]])
      BY <3>3, ReadStateAssumption DEF Opens, Threads
    <3> HIDE DEF t, Show
    <3>7. CASE t = Landing(s, pane)
      BY <3>7, LandingIsSound DEF Marks
    <3> QED
      BY <1>1, <1>3, <2>0, <3>1, <3>5, <3>6, <3>7
  <2>4. CASE \E c \in Chats : k = <<"browse", c>>
    <3>1. PICK c \in Chats : k = <<"browse", c>>
      BY <2>4
    <3>2. t = [s EXCEPT !.c.selected = c]
      BY <1>4, <3>1 DEF HandleKey
    <3>3. /\ t \in ReadStates /\ t.v = s.v /\ t.f = s.f
          /\ t.c.shown = s.c.shown /\ t.c.unread = s.c.unread
          /\ t.c.active = s.c.active
      BY <3>2 DEF ReadStates
    <3> HIDE DEF t
    <3> QED
      BY <3>3, SameBooks
  <2>5. CASE \E p \in Panes \ {"older"} : k = <<"view", p>>
    <3>1. PICK p \in Panes : k = <<"view", p>>
      BY <2>5
    <3>2. t = [s EXCEPT !.f.pane = p]
      BY <1>4, <3>1 DEF HandleKey
    <3> HIDE DEF t
    <3> QED
      BY <3>2, LandingIsSound DEF Marks
  <2> QED
    BY <2>0, <2>1, <2>2, <2>3, <2>4, <2>5 DEF Key
<1>5. ASSUME ~Meaningful(s, k) PROVE t = s
  BY <1>5 DEF HandleKey
<1> HIDE DEF t
<1>6. /\ Sound(t) /\ t.f.focused = s.f.focused
      /\ Marks(s, t, Current(t))
      /\ t.v.copy # s.v.copy =>
           k \in Key /\ k[1] \in {"open", "close", "jump"}
  BY <1>4, <1>5 DEF Marks
<1> QED
  BY <1>6 DEF t

-----------------------------------------------------------------------------
\* What a handler leaves becomes the state of the program.
LEMMA Taken ==
  ASSUME ReadInv, NEW t, Sound(t), Become(t)
  PROVE  /\ Sound(State)' /\ vault' = t.v /\ client' = t.c /\ front' = t.f
         /\ arrived' = {}
         /\ alert' \in [pending : BOOLEAN, heard : SUBSET Messages]
         /\ alert'.pending => \E c \in Chats : client'.unread[c] > 0
<1> USE DEF Become
<1>1. t \in ReadStates
  BY DEF Sound
<1> DEFINE u == [v |-> vault', c |-> client', f |-> front', error |-> FALSE]
<1>2. /\ u \in ReadStates /\ u.v = t.v /\ u.c.shown = t.c.shown
      /\ u.c.unread = t.c.unread /\ u.c.active = t.c.active
  BY <1>1 DEF ReadStates
<1> HIDE DEF u
<1>3. Sound(u)
  BY <1>2, SameBooks
<1>4. Sound(State)'
  BY <1>3 DEF u, State
<1>5. arrived \subseteq Messages
      /\ alert \in [pending : BOOLEAN, heard : SUBSET Messages]
  BY DEF ReadInv
<1>6. /\ alert' \in [pending : BOOLEAN, heard : SUBSET Messages]
      /\ alert'.pending => \E c \in Chats : client'.unread[c] > 0
  BY <1>5 DEF Notified
<1> QED
  BY <1>4, <1>6

\* A turn of the loop: what it marks is in the scope that is shown then, by a
\* key of the thread or because the window has the focus.
LEMMA TurnIsSound ==
  ASSUME ReadInv, NEW s, Sound(s), s.v = vault, NEW k, Turn(s, k)
  PROVE  /\ Sound(State)' /\ arrived' = {}
         /\ alert' \in [pending : BOOLEAN, heard : SUBSET Messages]
         /\ alert'.pending => \E c \in Chats : client'.unread[c] > 0
         /\ front'.focused = s.f.focused
         /\ \A m \in Messages : vault'.copy[m] # vault.copy[m] =>
              InScope(m, <<client'.selected, client'.active[client'.selected]>>)
         /\ vault'.copy # vault.copy =>
              \/ front'.focused
              \/ k \in Key /\ k[1] \in {"open", "close", "jump"}
<1>1. PICK o \in Outcomes, pane \in Landed :
        Become(UpdateVisibility(HandleKey(s, k, o[1], pane), o[2]))
  BY DEF Turn
<1> DEFINE h == HandleKey(s, k, o[1], pane)
           t == UpdateVisibility(h, o[2])
<1>2. o[1] \in Outcome /\ o[2] \in Outcome
  BY DEF Outcomes
<1>3. /\ Sound(h) /\ h.f.focused = s.f.focused /\ Marks(s, h, Current(h))
      /\ h.v.copy # s.v.copy =>
           k \in Key /\ k[1] \in {"open", "close", "jump"}
  BY <1>2, HandlingIsSound
<1> HIDE DEF h
<1>4. /\ Sound(t) /\ t.f.focused = h.f.focused
      /\ Current(t) = Current(h) /\ Marks(h, t, Current(t))
      /\ t.v.copy # h.v.copy => h.f.focused
  BY <1>2, <1>3, UpdatingIsSound
<1> HIDE DEF t
<1>5. Become(t)
  BY <1>1 DEF h, t
<1>6. /\ Sound(State)' /\ vault' = t.v /\ client' = t.c /\ front' = t.f
      /\ arrived' = {}
      /\ alert' \in [pending : BOOLEAN, heard : SUBSET Messages]
      /\ alert'.pending => \E c \in Chats : client'.unread[c] > 0
  BY <1>4, <1>5, Taken
<1>7. \A m \in Messages : vault'.copy[m] # vault.copy[m] =>
        InScope(m, <<client'.selected, client'.active[client'.selected]>>)
  BY <1>3, <1>4, <1>6 DEF Marks, Current
<1> QED
  BY <1>3, <1>4, <1>6, <1>7

\* The same at the end of a fetch, where no key is handled.
LEMMA SyncEndIsSound ==
  ASSUME ReadInv, EndSync
  PROVE  /\ Sound(State)' /\ arrived' = {}
         /\ alert' \in [pending : BOOLEAN, heard : SUBSET Messages]
         /\ alert'.pending => \E c \in Chats : client'.unread[c] > 0
         /\ front'.focused = evidence'
         /\ \A m \in Messages : vault'.copy[m] # vault.copy[m] =>
              InScope(m, <<client'.selected, client'.active[client'.selected]>>)
         /\ vault'.copy # vault.copy => front'.focused
<1> DEFINE s == [State EXCEPT !.f = Drained(@)]
<1>1. PICK o \in Outcome : Become(UpdateVisibility(s, o))
  BY DEF EndSync
<1> DEFINE t == UpdateVisibility(s, o)
<1>2. /\ State \in ReadStates /\ Sound(State) /\ front.focused = evidence
      /\ State.f = front /\ State.v = vault
  BY DEF ReadInv, Sound, State
<1>3. /\ Drained(front) \in [focused : BOOLEAN, pane : Panes,
                              last : Scope \cup {Nowhere}]
      /\ Drained(front).focused = evidence'
  BY <1>2 DEF Drained, Observed, EndSync, ReadStates
<1>4. /\ s \in ReadStates /\ s.v = State.v /\ s.c = State.c
      /\ s.f = Drained(front)
  BY <1>2, <1>3 DEF ReadStates
<1> HIDE DEF s
<1>5. Sound(s)
  BY <1>2, <1>4, SameBooks
<1>6. /\ Sound(t) /\ t.f.focused = s.f.focused
      /\ Marks(s, t, Current(t))
      /\ t.v.copy # s.v.copy => s.f.focused
  BY <1>5, UpdatingIsSound
<1> HIDE DEF t
<1>7. /\ Sound(State)' /\ vault' = t.v /\ client' = t.c /\ front' = t.f
      /\ arrived' = {}
      /\ alert' \in [pending : BOOLEAN, heard : SUBSET Messages]
      /\ alert'.pending => \E c \in Chats : client'.unread[c] > 0
  <2>1. Become(t)
    BY <1>1 DEF t
  <2> QED
    BY <1>6, <2>1, Taken
<1>8. s.v = vault
  BY <1>2, <1>4
<1>9. \A m \in Messages : vault'.copy[m] # vault.copy[m] =>
        InScope(m, <<client'.selected, client'.active[client'.selected]>>)
  BY <1>6, <1>7, <1>8 DEF Marks, Current
<1> QED
  BY <1>3, <1>4, <1>6, <1>7, <1>8, <1>9

-----------------------------------------------------------------------------
\* A program that starts for the first time has nothing unread.
LEMMA ReadInitial == ReadInit => ReadInv
<1> SUFFICES ASSUME ReadInit PROVE ReadInv
  OBVIOUS
<1> USE DEF ReadInit
<1>1. vault.copy \in Copies /\ \A m \in Messages : vault.copy[m] # "unread"
  BY DEF Copies
<1>2. \A c \in Chats : UnreadIn(vault.copy, c) = {}
  BY <1>1 DEF UnreadIn
<1>3. Booked(State)
  BY <1>1, <1>2, FS_EmptySet DEF Booked, State
<1>4. State \in ReadStates
  BY <1>1, ReadStateAssumption
     DEF ReadStates, State, Counters, Threads, Panes, Scope, Nowhere
<1>5. InPlace(State)
  BY DEF InPlace, State
<1>6. arrived = {} /\ alert \in [pending : BOOLEAN, heard : SUBSET Messages]
  BY ReadStateAssumption
<1> QED
  BY <1>3, <1>4, <1>5, <1>6 DEF ReadInv, Sound, AlertsHaveUnread

\* A message arrives while nothing is visible, and is counted once.
LEMMA DeliverIsSound ==
  ASSUME ReadInv, NEW m \in Messages, Deliver(m)
  PROVE  ReadInv' /\ vault'.copy = [vault.copy EXCEPT ![m] = "unread"]
<1> DEFINE c == ChatOf[m]
           more == [vault.unread EXCEPT ![c] = @ + 1]
<1>1. /\ State \in ReadStates /\ Booked(State) /\ InPlace(State)
      /\ client.visible = Nowhere /\ c \in Chats
      /\ phase = "sync" /\ phase' = "sync" /\ vault.copy[m] = "none"
  BY ReadStateAssumption DEF ReadInv, Sound, Deliver
<1>2. /\ vault.copy \in Copies /\ vault.unread \in Counters
      /\ client.shown = vault.copy /\ client.unread = vault.unread
  BY <1>1 DEF Booked, State, ReadStates
<1>3. /\ vault' = [vault EXCEPT !.copy[m] = "unread",
                     !.unread[c] = client.unread[c] + 1,
                     !.receipts = @ \cup {<<"delivered", m>>}]
      /\ client' = [client EXCEPT !.shown[m] = "unread", !.unread[c] = @ + 1]
      /\ front' = Scrolled(front, m)
  BY <1>1 DEF Deliver
<1>4. /\ vault'.copy = [vault.copy EXCEPT ![m] = "unread"]
      /\ vault'.unread = more
      /\ vault'.receipts = vault.receipts \cup {<<"delivered", m>>}
      /\ client'.shown = vault'.copy /\ client'.unread = more
      /\ client'.active = client.active
  BY <1>1, <1>2, <1>3 DEF State, ReadStates
<1>5. more \in Counters /\ vault'.copy \in Copies
  BY <1>1, <1>2, <1>4 DEF Counters, Copies
<1>6. \A d \in Chats : vault'.unread[d] = Cardinality(UnreadIn(vault'.copy, d))
  <2> TAKE d \in Chats
  <2>1. vault.unread[d] = Cardinality(UnreadIn(vault.copy, d))
    BY <1>1 DEF Booked, State
  <2>2. Cardinality(UnreadIn(vault'.copy, d)) =
          IF d = c THEN vault.unread[d] + 1 ELSE vault.unread[d]
    BY <1>1, <1>2, <1>4, <2>1, ArrivingCounts
  <2> QED
    BY <1>1, <1>2, <1>4, <2>2 DEF Counters
<1>7. ASSUME NEW n \in Messages
      PROVE  /\ <<"read", n>> \in vault'.receipts =>
                  /\ vault'.copy[n] = "read"
                  /\ <<"delivered", n>> \in vault'.receipts
             /\ vault'.copy[n] = "unread" =>
                  <<"delivered", n>> \in vault'.receipts
  BY <1>1, <1>2, <1>4 DEF Booked, State, Copies
<1>8. Booked(State)'
  BY <1>4, <1>6, <1>7 DEF Booked, State
<1>9. front' \in [focused : BOOLEAN, pane : Panes,
                  last : Scope \cup {Nowhere}] /\ front'.focused = front.focused
  BY <1>1, <1>3 DEF Scrolled, State, ReadStates, Panes
<1>10. State' \in ReadStates
  <2>1. vault' = [copy |-> vault'.copy, unread |-> vault'.unread,
                  receipts |-> vault'.receipts]
    BY <1>1, <1>3 DEF State, ReadStates
  <2>2. client' = [shown |-> client'.shown, unread |-> client'.unread,
                   selected |-> client'.selected, active |-> client'.active,
                   visible |-> client'.visible]
    BY <1>1, <1>3 DEF State, ReadStates
  <2>3. /\ client'.selected \in Chats /\ client'.active \in [Chats -> Threads]
        /\ client'.visible \in Scope \cup {Nowhere}
        /\ vault'.receipts \in SUBSET ({"delivered", "read"} \X Messages)
    BY <1>1, <1>3, <1>4 DEF State, ReadStates
  <2>4. /\ vault' \in [copy : Copies, unread : Counters,
                      receipts : SUBSET ({"delivered", "read"} \X Messages)]
        /\ client' \in [shown : Copies, unread : Counters, selected : Chats,
                        active : [Chats -> Threads],
                        visible : Scope \cup {Nowhere}]
    BY <1>4, <1>5, <2>1, <2>2, <2>3
  <2> QED
    BY <1>9, <2>4 DEF State, ReadStates
<1>11. InPlace(State)'
  BY <1>1, <1>4 DEF InPlace, State
<1>12. client'.visible = Nowhere
  BY <1>1, <1>3 DEF State, ReadStates
<1>13. arrived' \subseteq {n \in Messages : vault'.copy[n] # "none"}
  BY <1>2, <1>4 DEF ReadInv, Deliver, Copies
<1> QED
  BY <1>1, <1>4, <1>8, <1>9, <1>10, <1>11, <1>12, <1>13
     DEF ReadInv, Sound, AlertsHaveUnread, Deliver, boundVars

\* History that is taken in comes as read.
LEMMA ImportIsSound ==
  ASSUME ReadInv, NEW c \in Chats, NEW new \in SUBSET Messages, Import(c, new)
  PROVE  /\ ReadInv'
         /\ \A m \in Messages : vault'.copy[m] # vault.copy[m] =>
              m \in new /\ vault.copy[m] = "none"
<1> DEFINE copy == [m \in Messages |-> IF m \in new THEN "read"
                                       ELSE vault.copy[m]]
<1>1. /\ State \in ReadStates /\ Booked(State) /\ InPlace(State)
      /\ client.visible = Nowhere
      /\ phase = "sync" /\ phase' = "sync"
      /\ \A m \in new : ChatOf[m] = c /\ vault.copy[m] = "none"
  BY DEF ReadInv, Sound, Import
<1>2. /\ vault.copy \in Copies /\ vault.unread \in Counters
      /\ client.shown = vault.copy /\ client.unread = vault.unread
  BY <1>1 DEF Booked, State, ReadStates
<1>3. /\ vault' = [vault EXCEPT !.copy = copy]
      /\ client' = [client EXCEPT !.shown = [m \in Messages |->
                      IF ChatOf[m] = c THEN copy[m] ELSE @[m]]]
  BY DEF Import
<1>4. copy \in Copies
  BY <1>2 DEF Copies
<1>5. [m \in Messages |-> IF ChatOf[m] = c THEN copy[m] ELSE client.shown[m]]
        = copy
  BY <1>1, <1>2
<1> HIDE DEF copy
<1>6. vault' = [vault EXCEPT !.copy = copy]
      /\ client' = [client EXCEPT !.shown = copy]
  BY <1>1, <1>3, <1>5 DEF State, ReadStates
<1>7. State' \in ReadStates
  BY <1>1, <1>4, <1>6 DEF State, ReadStates, Import
<1>8. /\ vault'.copy = copy /\ vault'.unread = vault.unread
      /\ vault'.receipts = vault.receipts
      /\ client'.shown = copy /\ client'.unread = client.unread
      /\ client'.active = client.active /\ client'.visible = client.visible
  BY <1>1, <1>6 DEF State, ReadStates
<1>9. \A d \in Chats : UnreadIn(copy, d) = UnreadIn(vault.copy, d)
  BY <1>1 DEF UnreadIn, copy
<1>10. Booked(State)'
  <2>1. \A m \in Messages : vault.copy[m] # copy[m] =>
          copy[m] = "read" /\ vault.copy[m] = "none"
    BY <1>1 DEF copy
  <2> QED
    BY <1>1, <1>8, <1>9, <2>1 DEF Booked, State
<1>11. InPlace(State)'
  BY <1>1, <1>8 DEF InPlace, State
<1>12. arrived' \subseteq {n \in Messages : vault'.copy[n] # "none"}
  BY <1>8 DEF ReadInv, Import, copy
<1> QED
  BY <1>1, <1>7, <1>8, <1>10, <1>11, <1>12
     DEF ReadInv, Sound, AlertsHaveUnread, Import, boundVars, copy

-----------------------------------------------------------------------------
MarkedInSight ==
  \A m \in Messages : Becomes(m) =>
    /\ phase' = "loop" /\ InScope(m, <<client'.selected,
                                      client'.active[client'.selected]>>)
    /\ \/ evidence'
       \/ InTurn("open") \/ InTurn("close") \/ InTurn("jump")

\* Every step keeps the books and marks only what is in sight.
LEMMA ReadStep == ReadInv /\ [ReadNext]_readVars => ReadInv' /\ MarkedInSight
<1> SUFFICES ASSUME ReadInv, [ReadNext]_readVars
             PROVE  ReadInv' /\ MarkedInSight
  OBVIOUS
<1> USE DEF worldVars, boundVars
<1>1. ASSUME vault' = vault, client' = client
      PROVE  /\ front' \in [focused : BOOLEAN, pane : Panes,
                            last : Scope \cup {Nowhere}] => Sound(State)'
             /\ MarkedInSight
  <2>1. /\ State \in ReadStates /\ Booked(State) /\ InPlace(State)
    BY DEF ReadInv, Sound
  <2>2. Booked(State)' /\ InPlace(State)'
    BY <1>1, <2>1 DEF Booked, InPlace, State
  <2>3. front' \in [focused : BOOLEAN, pane : Panes,
                    last : Scope \cup {Nowhere}] => State' \in ReadStates
    BY <1>1, <2>1 DEF ReadStates, State
  <2>4. MarkedInSight
    BY <1>1 DEF MarkedInSight, Becomes
  <2> QED
    BY <2>2, <2>3, <2>4 DEF Sound
<1>2. ASSUME UNCHANGED <<vault, client, front, arrived, phase, evidence>>,
             alert' = alert \/ alert' = [alert EXCEPT !.pending = FALSE]
      PROVE  ReadInv' /\ MarkedInSight
  <2>1. Sound(State)' /\ MarkedInSight
    <3>1. front \in [focused : BOOLEAN, pane : Panes,
                     last : Scope \cup {Nowhere}]
      BY DEF ReadInv, Sound, ReadStates, State
    <3> QED
      BY <1>1, <1>2, <3>1
  <2>2. alert' \in [pending : BOOLEAN, heard : SUBSET Messages]
        /\ (alert'.pending => alert.pending)
    BY <1>2 DEF ReadInv
  <2> QED
    BY <1>2, <2>1, <2>2 DEF ReadInv, AlertsHaveUnread
<1>3. ASSUME WindowChanges \/ (\E k \in Key : Types(k)) \/ TakeAlert
             \/ UNCHANGED readVars
      PROVE  ReadInv' /\ MarkedInSight
  BY <1>2, <1>3 DEF WindowChanges, Types, TakeAlert, readVars, programVars
<1>4. ASSUME Replay PROVE ReadInv' /\ MarkedInSight
  <2> DEFINE k == Head(pending)
  <2>1. Sound(State) /\ State.v = vault /\ State.f = front
        /\ Turn(State, k)
    BY <1>4 DEF ReadInv, State, Replay
  <2>2. /\ Sound(State)' /\ arrived' = {}
        /\ alert' \in [pending : BOOLEAN, heard : SUBSET Messages]
        /\ alert'.pending => \E c \in Chats : client'.unread[c] > 0
        /\ front'.focused = State.f.focused
        /\ \A m \in Messages : vault'.copy[m] # vault.copy[m] =>
             InScope(m, <<client'.selected, client'.active[client'.selected]>>)
        /\ vault'.copy # vault.copy =>
             \/ front'.focused
             \/ k \in Key /\ k[1] \in {"open", "close", "jump"}
    BY <2>1, TurnIsSound
  <2>3. front'.focused = evidence' /\ phase' = "loop"
    BY <1>4, <2>1, <2>2 DEF ReadInv, Replay
  <2>4. ReadInv'
    BY <2>2, <2>3 DEF ReadInv, AlertsHaveUnread
  <2>5. k[1] \in {"open", "close", "jump"} =>
          InTurn("open") \/ InTurn("close") \/ InTurn("jump")
    BY <1>4 DEF Replay, InTurn
  <2>6. MarkedInSight
    BY <2>2, <2>3, <2>5 DEF MarkedInSight, Becomes
  <2> QED
    BY <2>4, <2>6
<1>5. ASSUME ReadEvent PROVE ReadInv' /\ MarkedInSight
  <2> DEFINE k == Head(events)
             s == [State EXCEPT !.f = Observed(@, k)]
  <2>1. Sound(State) /\ State \in ReadStates /\ State.v = vault
        /\ State.f = front /\ Turn(s, k) /\ phase' = "loop"
        /\ evidence' = (k # <<"lost">>)
    BY <1>5 DEF ReadInv, Sound, State, ReadEvent
  <2>2. /\ s \in ReadStates /\ s.v = State.v /\ s.c = State.c
        /\ s.f.focused = evidence'
    BY <2>1 DEF ReadStates, Observed
  <2> HIDE DEF s
  <2>3. Sound(s)
    BY <2>1, <2>2, SameBooks
  <2>4. /\ Sound(State)' /\ arrived' = {}
        /\ alert' \in [pending : BOOLEAN, heard : SUBSET Messages]
        /\ alert'.pending => \E c \in Chats : client'.unread[c] > 0
        /\ front'.focused = s.f.focused
        /\ \A m \in Messages : vault'.copy[m] # vault.copy[m] =>
             InScope(m, <<client'.selected, client'.active[client'.selected]>>)
        /\ vault'.copy # vault.copy =>
             \/ front'.focused
             \/ k \in Key /\ k[1] \in {"open", "close", "jump"}
    <3> s.v = vault
      BY <2>1, <2>2
    <3> HIDE DEF k
    <3> QED
      BY <2>1, <2>3, TurnIsSound
  <2>5. ReadInv'
    BY <2>1, <2>2, <2>4 DEF ReadInv, AlertsHaveUnread
  <2>6. k \in Key => k # <<"lost">>
    BY DEF Key
  <2>7. MarkedInSight
    BY <2>1, <2>2, <2>4, <2>6 DEF MarkedInSight, Becomes
  <2> QED
    BY <2>5, <2>7
<1>6. ASSUME StartSync PROVE ReadInv' /\ MarkedInSight
  <2> USE <1>6 DEF StartSync
  <2>1. State \in ReadStates /\ Booked(State) /\ InPlace(State)
    BY DEF ReadInv, Sound
  <2>2. /\ State' \in ReadStates /\ client'.shown = client.shown
        /\ client'.unread = client.unread /\ client'.active = client.active
        /\ client'.visible = Nowhere /\ front'.focused = front.focused
    BY <2>1 DEF ReadStates, State
  <2>3. Booked(State)' /\ InPlace(State)'
    BY <2>1, <2>2 DEF Booked, InPlace, State
  <2>4. ReadInv'
    BY <2>2, <2>3 DEF ReadInv, Sound, AlertsHaveUnread
  <2>5. MarkedInSight
    BY DEF MarkedInSight, Becomes
  <2> QED
    BY <2>4, <2>5
<1>7. ASSUME NEW m \in Messages, Deliver(m) PROVE ReadInv' /\ MarkedInSight
  <2>1. ReadInv' /\ vault'.copy = [vault.copy EXCEPT ![m] = "unread"]
    BY <1>7, DeliverIsSound
  <2>2. vault.copy \in Copies
    BY DEF ReadInv, Sound, ReadStates, State
  <2>3. MarkedInSight
    BY <2>1, <2>2 DEF MarkedInSight, Becomes, Copies
  <2> QED
    BY <2>1, <2>3
<1>8. ASSUME NEW c \in Chats, NEW new \in SUBSET Messages, Import(c, new)
      PROVE  ReadInv' /\ MarkedInSight
  <2>1. /\ ReadInv'
        /\ \A m \in Messages : vault'.copy[m] # vault.copy[m] =>
             m \in new /\ vault.copy[m] = "none"
    BY <1>8, ImportIsSound
  <2>2. phase = "sync" /\ arrived' = arrived
        /\ \A m \in arrived : vault.copy[m] # "none"
    BY <1>8 DEF Import, ReadInv
  <2>3. MarkedInSight
    BY <2>1, <2>2 DEF MarkedInSight, Becomes
  <2> QED
    BY <2>1, <2>3
<1>9. ASSUME EndSync PROVE ReadInv' /\ MarkedInSight
  <2>1. /\ Sound(State)' /\ arrived' = {}
        /\ alert' \in [pending : BOOLEAN, heard : SUBSET Messages]
        /\ alert'.pending => \E c \in Chats : client'.unread[c] > 0
        /\ front'.focused = evidence'
        /\ \A m \in Messages : vault'.copy[m] # vault.copy[m] =>
             InScope(m, <<client'.selected, client'.active[client'.selected]>>)
        /\ vault'.copy # vault.copy => front'.focused
    BY <1>9, SyncEndIsSound
  <2>2. phase' = "loop"
    BY <1>9 DEF EndSync
  <2>3. ReadInv'
    BY <2>1, <2>2 DEF ReadInv, AlertsHaveUnread
  <2>4. MarkedInSight
    BY <2>1, <2>2 DEF MarkedInSight, Becomes
  <2> QED
    BY <2>3, <2>4
<1>10. ASSUME Restart PROVE ReadInv' /\ MarkedInSight
  <2> USE <1>10 DEF Restart
  <2>1. State \in ReadStates /\ Booked(State)
    BY DEF ReadInv, Sound
  <2>2. vault' = vault /\ vault \in [copy : Copies, unread : Counters,
                      receipts : SUBSET ({"delivered", "read"} \X Messages)]
    BY <2>1 DEF ReadStates, State
  <2>3. State' \in ReadStates
    BY <2>2, ReadStateAssumption
       DEF ReadStates, State, Threads, Panes, Scope, Nowhere
  <2>4. Booked(State)' /\ InPlace(State)'
    BY <2>1, <2>2 DEF Booked, State, InPlace
  <2>5. ReadInv'
    BY <2>3, <2>4 DEF ReadInv, Sound, AlertsHaveUnread
  <2>6. MarkedInSight
    BY <2>2 DEF MarkedInSight, Becomes
  <2> QED
    BY <2>5, <2>6
<1> QED
  BY <1>3, <1>4, <1>5, <1>6, <1>7, <1>8, <1>9, <1>10 DEF ReadNext

\* However handler calls, fetches, keys, focus changes and failed writes are
\* interleaved, the counters of the disk and of the screen count what is
\* unread, and no message is read out of sight.
THEOREM ReadInvariance == ReadSpec => []ReadInv
<1>1. ReadInv /\ [ReadNext]_readVars => ReadInv'
  BY ReadStep
<1> QED
  BY <1>1, ReadInitial, PTL DEF ReadSpec

\* The unread counters, the receipts owed and the alerts agree with what the
\* vault holds, whatever fails and whenever the program is restarted.
THEOREM BooksAgree == ReadSpec => []ReadBooks
<1>1. ReadInv => ReadBooks
  BY DEF ReadInv, Sound, Booked, State, ReadBooks, CountersAgree, CopiesAgree,
         ReceiptsEarned, UnreadIn
<1> QED
  BY <1>1, ReadInvariance, PTL

\* A message becomes read only in the scope on the screen, with the window in
\* focus or by a key that opens or closes its thread.
THEOREM MarksInSight == ReadSpec => ReadInSight
<1>1. ReadInv /\ [ReadNext]_readVars => [MarkedInSight]_readVars
  BY ReadStep
<1> QED
  BY <1>1, ReadInvariance, PTL DEF ReadSpec, ReadInSight, MarkedInSight

=============================================================================
