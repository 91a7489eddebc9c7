------------------------------ MODULE ReadState ------------------------------
(***************************************************************************)
(* When a message counts as read.  The vault marks messages read by scope  *)
(* and counts the unread ones (mark_read, store_inbound); the engine keeps *)
(* a second copy for the frontend and the scope the user has before them   *)
(* (visible_conversation); the terminal frontend decides from the window's *)
(* focus and its own panes what that scope is, also while a fetch is in    *)
(* flight and its keys pile up (App::run).                                 *)
(*                                                                         *)
(* The terminal is a queue of events the frontend reads one by one, or to  *)
(* the end after a fetch.  Which text stands in which line is left out: a  *)
(* pane says whether the newest message of the scope is on the screen.     *)
(***************************************************************************)
EXTENDS Naturals, Sequences, FiniteSets

CONSTANTS
  Chats,      \* the conversations, all known to the device
  Messages,   \* messages of the peers; those of this account come as read
  ChatOf,     \* [Messages -> Chats]
  RootOf,     \* [Messages -> Messages \cup {Main}]: thread_root
  Main,       \* no thread: the main conversation
  OriginalOf, \* [Messages -> Messages \cup {Main}]: reply_to, Main for none
  SendReadReceipts,
  Held,       \* messages the vault holds, read, when the run begins
  First,      \* the chat that is selected when the program starts
  MaxEvents,  \* bound on terminal events
  MaxFaults   \* bound on failing writes and restarts

ASSUME ReadStateAssumption ==
  /\ IsFiniteSet(Messages) /\ Held \subseteq Messages
  /\ First \in Chats
  /\ SendReadReceipts \in BOOLEAN
  /\ ChatOf \in [Messages -> Chats]
  /\ RootOf \in [Messages -> Messages \cup {Main}] /\ Main \notin Messages
  /\ \A m \in Messages : RootOf[m] # Main =>
       /\ RootOf[RootOf[m]] = Main /\ ChatOf[RootOf[m]] = ChatOf[m]
  /\ OriginalOf \in [Messages -> Messages \cup {Main}]
  /\ \A m \in Messages : OriginalOf[m] # Main =>
       ChatOf[OriginalOf[m]] = ChatOf[m]
  /\ MaxEvents \in Nat /\ MaxFaults \in Nat

VARIABLES
  vault,     \* copy, unread, owed, receipts: what is on the disk
  client,    \* shown, unread, selected, active, visible: the engine's copy
  front,     \* focused, pane, last: window_focused, UiMode, last_visible
  alert,     \* Notifications: pending, and whom it has been told of (heard)
  arrived,   \* events MessageReceived the frontend has not taken
  phase,      \* "loop", or "sync" while a fetch is in flight
  \* the terminal
  window,    \* the window really has the focus
  events,    \* terminal events not read yet
  pending,   \* keys read during a fetch, to be replayed
  \* ghosts and bounds
  evidence,  \* the last event read tells that the window has the focus
  typed, faults

programVars == <<vault, client, front, alert, arrived, phase>>
worldVars   == <<window, events, pending>>
boundVars   == <<evidence, typed, faults>>
readVars == <<programVars, worldVars, boundVars>>

-----------------------------------------------------------------------------
Nowhere == <<>>
Panes   == {"composer", "newest", "older", "away"}
Scope   == {<<c, Main>> : c \in Chats} \cup {<<ChatOf[m], m>> : m \in Messages}

InScope(m, s) ==
  /\ ChatOf[m] = s[1]
  /\ IF s[2] = Main THEN RootOf[m] = Main ELSE m = s[2] \/ RootOf[m] = s[2]

Key ==
  {<<"open", m>> : m \in Messages} \cup {<<"close">>}
    \cup {<<"jump", m>> : m \in {n \in Messages : OriginalOf[n] # Main}}
    \cup {<<"browse", c>> : c \in Chats}
    \cup {<<"view", p>> : p \in Panes \ {"older"}}
Event == Key \cup {<<"gained">>, <<"lost">>}

IsKey(e) == e \in Key

Monus(a, b) == IF a > b THEN a - b ELSE 0

ReadInit ==
  /\ vault = [copy |-> [m \in Messages |-> IF m \in Held THEN "read"
                                          ELSE "none"],
              unread |-> [c \in Chats |-> 0],
              receipts |-> {}]
  /\ client = [shown |-> vault.copy,
               unread |-> [c \in Chats |-> 0], selected |-> First,
               active |-> [c \in Chats |-> Main], visible |-> Nowhere]
  /\ front = [focused |-> TRUE, pane |-> "composer", last |-> Nowhere]
  /\ alert = [pending |-> FALSE, heard |-> Held]
  /\ arrived = {} /\ phase = "loop"
  /\ window = TRUE /\ events = <<>> /\ pending = <<>>
  /\ evidence = TRUE /\ typed = 0 /\ faults = 0

-----------------------------------------------------------------------------
(* What the handlers are made of, as functions on the program's state      *)
(* s = [v |-> vault, c |-> client, f |-> front, error |-> BOOLEAN].        *)

State == [v |-> vault, c |-> client, f |-> front, error |-> FALSE]

Current(s)   == <<s.c.selected, s.c.active[s.c.selected]>>
Unread(v, w) == {m \in Messages : v.copy[m] = "unread" /\ InScope(m, w)}

\* Vault::mark_read, then the same change of the engine's copy.
MarkSelectedRead(s) ==
  LET ids == Unread(s.v, Current(s))
      c   == s.c.selected
      Read(copy) == [m \in Messages |-> IF m \in ids THEN "read" ELSE copy[m]]
      Less(n)    == [n EXCEPT ![c] = Monus(@, Cardinality(ids))]
  IN [s EXCEPT !.v.copy = Read(@), !.v.unread = Less(@),
               !.v.receipts = @ \cup (IF SendReadReceipts
                                         THEN {"read"} \X ids ELSE {}),
               !.c.shown = Read(@), !.c.unread = Less(@)]

\* How a command that marks a scope read may end: its vault write fails, its
\* receipts cannot be queued, or the relay refuses to take them at last.
Outcome == {"ok", "unsaved", "unqueued", "unflushed"}

SetSelectedVisible(s, thread, outcome) ==
  LET t == [s EXCEPT !.c.active[s.c.selected] = thread]
      m == MarkSelectedRead(t)
  IN CASE outcome = "unsaved"   -> [t EXCEPT !.error = TRUE]
       [] outcome = "unqueued"  -> [m EXCEPT !.error = TRUE]
       [] outcome = "unflushed" -> [m EXCEPT !.c.visible = Current(t),
                                             !.error = TRUE]
       [] OTHER                 -> [m EXCEPT !.c.visible = Current(t)]

VisibleScope(s) ==
  IF s.f.focused /\ s.f.pane \in {"composer", "newest"}
    THEN Current(s) ELSE Nowhere

UpdateVisibility(s, outcome) ==
  LET w == VisibleScope(s)
      q == [s EXCEPT !.error = FALSE]
      t == IF w = Nowhere THEN [q EXCEPT !.c.visible = Nowhere]
           ELSE SetSelectedVisible(q, s.c.active[s.c.selected], outcome)
  IN IF w = s.f.last THEN s
     ELSE IF t.error THEN t
     ELSE [t EXCEPT !.f.last = w]

\* Notifications::received for each message the frontend is told of, then
\* clear_if_read.
Notified(s) ==
  LET new == {m \in arrived \ alert.heard : s.c.shown[m] # "read"}
      total == {c \in Chats : s.c.unread[c] > 0}
  IN [pending |-> (alert.pending \/ new # {}) /\ total # {},
      heard |-> alert.heard \cup arrived]

\* The handler leaves the program in state s and takes the client's events.
Become(s) ==
  /\ vault' = s.v /\ client' = s.c /\ front' = s.f
  /\ alert' = Notified(s) /\ arrived' = {}

-----------------------------------------------------------------------------
(* The window and the user at the keyboard.                                *)

Happens(e) ==
  /\ typed < MaxEvents /\ typed' = typed + 1
  /\ events' = Append(events, e)

WindowChanges ==
  /\ window' = ~window
  /\ Happens(IF window THEN <<"lost">> ELSE <<"gained">>)
  /\ UNCHANGED <<programVars, pending, evidence, faults>>

Types(k) ==
  /\ window /\ Happens(k)
  /\ UNCHANGED <<programVars, window, pending, evidence, faults>>

-----------------------------------------------------------------------------
(* App::run: one turn of the loop handles one event.                       *)

\* Shown in the pane of messages: focus(UiMode::Messages) keeps the message
\* that was selected in that scope, which may not be the newest.
Landed == {"newest", "older"}

Landing(s, pane) == IF s.error THEN s ELSE [s EXCEPT !.f.pane = pane]

OpenThread(s, m, outcome) ==
  SetSelectedVisible(s, IF RootOf[m] = Main THEN m ELSE RootOf[m], outcome)
CloseThread(s, outcome) == SetSelectedVisible(s, Main, outcome)

ChangeThread(s, k, outcome, pane) ==
  Landing(IF k[1] = "open" THEN OpenThread(s, k[2], outcome)
                           ELSE CloseThread(s, outcome), pane)

\* To the message that the selected one answers, in its own thread.
JumpToOriginal(s, m, outcome, pane) ==
  LET original == OriginalOf[m]
  IN Landing(CASE RootOf[original] = Current(s)[2] -> s
               [] RootOf[original] = Main -> CloseThread(s, outcome)
               [] OTHER -> OpenThread(s, RootOf[original], outcome), pane)

\* Focus changes need no handler, and keys that mean nothing where they are
\* pressed do nothing.
Meaningful(s, k) ==
  /\ IsKey(k)
  /\ CASE k[1] \in {"open", "jump"} ->
              /\ s.f.pane \in Landed /\ s.c.shown[k[2]] # "none"
              /\ InScope(k[2], Current(s))
              /\ k[1] = "jump" => s.c.shown[OriginalOf[k[2]]] # "none"
       [] k[1] = "close"  -> s.f.pane # "away" /\ Current(s)[2] # Main
       [] k[1] = "browse" -> s.f.pane = "away"
       [] OTHER           -> TRUE

HandleKey(s, k, outcome, pane) ==
  IF ~Meaningful(s, k) THEN s
  ELSE CASE k[1] \in {"open", "close"} -> ChangeThread(s, k, outcome, pane)
         [] k[1] = "jump"     -> JumpToOriginal(s, k[2], outcome, pane)
         [] k[1] = "browse"   -> [s EXCEPT !.c.selected = k[2]]
         [] OTHER             -> [s EXCEPT !.f.pane = k[2]]

\* observe_terminal_focus: a key is evidence of focus when it is read, not
\* when it is replayed.
Observed(f, e) == [f EXCEPT !.focused = e # <<"lost">>]

\* How marking in the handler of a key and marking in update_visibility end.
Outcomes == {o \in Outcome \X Outcome : o[1] = "ok" \/ o[2] = "ok"}

Fails(failed) ==
  IF failed THEN faults < MaxFaults /\ faults' = faults + 1
            ELSE UNCHANGED faults

Turn(s, k) ==
  \E o \in Outcomes, pane \in Landed, before \in {s} :
    /\ Fails(o # <<"ok", "ok">>)
    /\ \E handled \in {HandleKey(before, k, o[1], pane)} :
         \E t \in {UpdateVisibility(handled, o[2])} : Become(t)

\* Mutant: a key that is replayed is taken for a sign of focus.
ReplayIsEvidence ==
  /\ phase = "loop" /\ pending # <<>>
  /\ pending' = Tail(pending)
  /\ UNCHANGED <<phase, window, events, evidence, typed>>
  /\ Turn([State EXCEPT !.f = Observed(@, Head(pending))], Head(pending))

Replay ==
  /\ phase = "loop" /\ pending # <<>>
  /\ pending' = Tail(pending)
  /\ UNCHANGED <<phase, window, events, evidence, typed>>
  /\ Turn(State, Head(pending))

ReadEvent ==
  /\ phase = "loop" /\ pending = <<>> /\ events # <<>>
  /\ events' = Tail(events)
  /\ evidence' = (Head(events) # <<"lost">>)
  /\ UNCHANGED <<phase, window, pending, typed>>
  /\ Turn([State EXCEPT !.f = Observed(@, Head(events))], Head(events))

TakeAlert ==
  /\ phase = "loop" /\ alert.pending
  /\ alert' = [alert EXCEPT !.pending = FALSE]
  /\ UNCHANGED <<vault, client, front, arrived, phase, worldVars, boundVars>>

-----------------------------------------------------------------------------
(* A fetch.                                                                *)

\* Mutant: the frontend remembers the scope it told the engine of.
StartSyncRemembers ==
  /\ phase = "loop" /\ phase' = "sync"
  /\ client' = [client EXCEPT !.visible = Nowhere]
  /\ UNCHANGED <<vault, front, alert, arrived, worldVars, boundVars>>

\* What the frontend showed before the fetch must not decide what is read
\* when it is over.
StartSync ==
  /\ phase = "loop" /\ phase' = "sync"
  /\ client' = [client EXCEPT !.visible = Nowhere]
  /\ front' = [front EXCEPT !.last = Nowhere]
  /\ UNCHANGED <<vault, alert, arrived, worldVars, boundVars>>

\* A message that enters the displayed scope is newer than the one selected.
Scrolled(f, m) ==
  IF f.pane = "newest" /\ InScope(m, Current(State))
    THEN [f EXCEPT !.pane = "older"] ELSE f

\* Mutant: the engine counts the message before the store does so too.
DeliverCountsTwice(m) ==
  /\ phase = "sync" /\ vault.copy[m] = "none"
  /\ LET visible == client.visible # Nowhere /\ InScope(m, client.visible)
         c == ChatOf[m]
         status  == IF visible THEN "read" ELSE "unread"
         more(n) == IF visible THEN n ELSE n + 1
     IN /\ vault' = [vault EXCEPT
              !.copy[m] = status, !.unread[c] = more(more(client.unread[c])),
              !.receipts = @ \cup {<<"delivered", m>>} \cup
                 (IF visible /\ SendReadReceipts THEN {<<"read", m>>} ELSE {})]
        /\ client' = [client EXCEPT !.shown[m] = status, !.unread[c] = more(@)]
  /\ front' = Scrolled(front, m)
  /\ arrived' = arrived \cup {m}
  /\ UNCHANGED <<alert, phase, worldVars, boundVars>>

\* present_chat_message and store_inbound.
Deliver(m) ==
  /\ phase = "sync" /\ vault.copy[m] = "none"
  /\ LET visible == client.visible # Nowhere /\ InScope(m, client.visible)
         c == ChatOf[m]
         status  == IF visible THEN "read" ELSE "unread"
         more(n) == IF visible THEN n ELSE n + 1
     IN /\ vault' = [vault EXCEPT
              !.copy[m] = status, !.unread[c] = more(client.unread[c]),
              !.receipts = @ \cup {<<"delivered", m>>} \cup
                 (IF visible /\ SendReadReceipts THEN {<<"read", m>>} ELSE {})]
        /\ client' = [client EXCEPT !.shown[m] = status, !.unread[c] = more(@)]
  /\ front' = Scrolled(front, m)
  /\ arrived' = arrived \cup {m}
  /\ UNCHANGED <<alert, phase, worldVars, boundVars>>

\* History of a chat: messages the vault does not hold come as read, and the
\* engine loads all messages of the chat again, its counter not.
Import(c, new) ==
  /\ phase = "sync" /\ new # {}
  /\ \A m \in new : ChatOf[m] = c /\ vault.copy[m] = "none"
  /\ LET copy == [m \in Messages |-> IF m \in new THEN "read"
                                     ELSE vault.copy[m]]
     IN /\ vault' = [vault EXCEPT !.copy = copy]
        /\ client' = [client EXCEPT !.shown = [m \in Messages |->
                        IF ChatOf[m] = c THEN copy[m] ELSE @[m]]]
  /\ UNCHANGED <<front, alert, arrived, phase, worldVars, boundVars>>

\* The events that came in meanwhile are all read: focus changes count, keys
\* wait.  Then what is on the screen is marked read.
Drained(f) ==
  IF events = <<>> THEN f ELSE Observed(f, events[Len(events)])

EndSync ==
  /\ phase = "sync" /\ phase' = "loop"
  /\ UNCHANGED <<window, typed>>
  /\ events' = <<>> /\ pending' = pending \o SelectSeq(events, IsKey)
  /\ evidence' = IF events = <<>> THEN evidence
                 ELSE events[Len(events)] # <<"lost">>
  /\ \E o \in Outcome :
       /\ Fails(o # "ok")
       /\ \E before \in {[State EXCEPT !.f = Drained(@)]} :
            \E t \in {UpdateVisibility(before, o)} : Become(t)

\* The program ends and is started again, in a window that has the focus.
Restart ==
  /\ faults < MaxFaults /\ faults' = faults + 1
  /\ client' = [shown |-> vault.copy, unread |-> vault.unread,
                selected |-> First, active |-> [c \in Chats |-> Main],
                visible |-> Nowhere]
  /\ front' = [focused |-> TRUE, pane |-> "composer", last |-> Nowhere]
  /\ alert' = [pending |-> FALSE,
               heard |-> {m \in Messages : vault.copy[m] # "none"}]
  /\ arrived' = {} /\ phase' = "loop"
  /\ window' = TRUE /\ events' = <<>> /\ pending' = <<>> /\ evidence' = TRUE
  /\ UNCHANGED <<vault, typed>>

ReadNext ==
  \/ WindowChanges \/ \E k \in Key : Types(k)
  \/ Replay \/ ReadEvent \/ TakeAlert
  \/ StartSync \/ \E m \in Messages : Deliver(m)
  \/ \E c \in Chats, new \in SUBSET Messages : Import(c, new)
  \/ EndSync \/ Restart

ReadSpec == ReadInit /\ [][ReadNext]_readVars

\* The loop turns: a fetch begins and, its calls having time limits, ends
\* time and again, and the keys that wait are replayed in between.
SyncBegins == phase = "loop" /\ phase' = "sync"
SyncEnds   == phase = "sync" /\ phase' = "loop"
KeyReplays == phase = "loop" /\ pending # <<>> /\ pending' = Tail(pending)

FairReadSpec ==
  /\ ReadSpec
  /\ WF_phase(SyncBegins) /\ WF_phase(SyncEnds) /\ SF_pending(KeyReplays)

-----------------------------------------------------------------------------
(* Properties.                                                             *)

ReadTypeOK ==
  /\ vault \in [copy : [Messages -> {"none", "unread", "read"}],
                unread : [Chats -> Nat],
                receipts : SUBSET ({"delivered", "read"} \X Messages)]
  /\ client \in [shown : [Messages -> {"none", "unread", "read"}],
                 unread : [Chats -> Nat], selected : Chats,
                 active : [Chats -> Messages \cup {Main}],
                 visible : Scope \cup {Nowhere}]
  /\ front \in [focused : BOOLEAN, pane : Panes, last : Scope \cup {Nowhere}]
  /\ alert \in [pending : BOOLEAN, heard : SUBSET Messages]
  /\ arrived \subseteq Messages /\ phase \in {"loop", "sync"}
  /\ window \in BOOLEAN /\ evidence \in BOOLEAN
  /\ events \in Seq(Event) /\ pending \in Seq(Key)
  /\ typed \in 0 .. MaxEvents /\ faults \in 0 .. MaxFaults

CountersAgree ==
  \A c \in Chats :
    /\ client.unread[c] = vault.unread[c]
    /\ vault.unread[c] = Cardinality({m \in Messages :
                            ChatOf[m] = c /\ vault.copy[m] = "unread"})

CopiesAgree == client.shown = vault.copy

ReceiptsEarned ==
  \A m \in Messages : <<"read", m>> \in vault.receipts =>
    vault.copy[m] = "read" /\ <<"delivered", m>> \in vault.receipts

AlertsHaveUnread ==
  phase = "loop" /\ alert.pending => \E c \in Chats : client.unread[c] > 0

\* The two counters of a chat, the one on the disk and the one on the screen,
\* both count the messages not read, through every mix of arrivals, history,
\* failing writes and restarts; no read receipt is owed for a message that is
\* not read or came with the history; and an alert never stands when there is
\* nothing to read.
ReadBooks == CountersAgree /\ CopiesAgree /\ ReceiptsEarned /\ AlertsHaveUnread

Becomes(m) ==
  /\ vault.copy[m] # "read" /\ vault'.copy[m] = "read"
  /\ ~(phase = "sync" /\ m \notin arrived' /\ vault.copy[m] = "none")

InTurn(k) == pending # <<>> /\ Head(pending)[1] = k /\ pending' = Tail(pending)

\* A message becomes read only when it stands in the scope on the screen and
\* the last the terminal told of is that the window has the focus: never on
\* arrival, whatever was visible before the fetch, and never by a key that is
\* replayed after the focus was lost, unless it opens or closes a thread.
ReadInSight ==
  [][\A m \in Messages : Becomes(m) =>
       /\ phase' = "loop" /\ InScope(m, <<client'.selected,
                                       client'.active[client'.selected]>>)
       /\ \/ evidence'
          \/ InTurn("open") \/ InTurn("close") \/ InTurn("jump")]_readVars

UnreadInSight ==
  /\ front.focused /\ front.pane \in {"composer", "newest"}
  /\ Unread(vault, Current(State)) # {}

\* Messages that stay before the eyes of the user are marked read at last,
\* also when the first attempts to save that fail.
ShownIsRead == UnreadInSight ~> ~UnreadInSight
=============================================================================
