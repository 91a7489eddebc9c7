------------------------------- MODULE Composer -------------------------------
(***************************************************************************)
(* What becomes of a text between the keyboard and the vault's outbox: the *)
(* composer with one draft for every scope, and the texts held back for    *)
(* undo_seconds (personal.holds), which live in an encrypted document of   *)
(* their own.  The frontend holds a copy of that document; a hold is sent  *)
(* by the main loop when its time is over, unless the user took it back or *)
(* left the terminal.  Writes fail, sends fail before or after the vault   *)
(* queued the message, and the program may be killed between any two steps.*)
(*                                                                         *)
(* A text stands for itself and for the hold made of it: there is never a  *)
(* second hold of the same text, because hold_draft replaces the saved     *)
(* copy a text was restored from.                                          *)
(***************************************************************************)
EXTENDS Naturals, Sequences

CONSTANTS
  Texts,      \* what the user types, each once
  Scopes,     \* a chat, or a thread of it
  Nothing,    \* no text, no scope
  First,      \* the scope the program opens with
  MaxFaults   \* bound on failing writes, failing sends and kills

ASSUME ComposerAssumption ==
  /\ Nothing \notin Texts \cup Scopes /\ First \in Scopes
  /\ MaxFaults \in Nat

VARIABLES
  disk,      \* the personal document: [holds, undo]
  personal,  \* the frontend's copy of it
  ticked,    \* holds whose deadline has passed
  scope,     \* the selected chat and thread; the composer is in step with it
  input,     \* what stands in the composer
  drafts,    \* what was left in the composers of other scopes
  restored,  \* restored_holds: the hold each composer's text came from
  focused,   \* window_focused
  loop,      \* where the main loop stands, with the text it is about
  file,      \* a file is to be sent or fetched: pending_attachment
  outbox,    \* for every text the scopes it was handed over to
  \* ghosts and bounds
  home,      \* the scope a text was typed in
  kept,      \* texts a hold was saved for
  gone,      \* texts the user cleared or discarded
  warned,    \* texts the user was told may be, or have been, sent
  left,      \* whether the user left the terminal while a hold was running:
             \* "seen" by the main loop, or "missed" behind a file transfer
  faults

docs     == <<disk, personal, ticked>>
composer == <<scope, input, drafts, restored>>
ghosts   == <<home, kept, gone, warned, left>>
vars == <<docs, composer, focused, loop, file, outbox, ghosts, faults>>

-----------------------------------------------------------------------------
Phases == {"none", "holding", "draft", "submitting", "uncertain"}
At(place)      == [at |-> place, text |-> Nothing, due |-> {}]
InPhase(doc, p) == {t \in Texts : doc.holds[t] = p}
WithPhase(doc, t, p) == [doc EXCEPT !.holds[t] = p]

\* Mutant: a hold whose send was under way comes back as a plain draft.
RecoverForgets(doc) ==
  [doc EXCEPT !.holds = [t \in Texts |->
     IF doc.holds[t] \in {"holding", "submitting"} THEN "draft"
     ELSE doc.holds[t]]]

\* Startup and lost-focus recovery never start a send timer.
Recover(doc) ==
  [doc EXCEPT !.holds =
     [t \in Texts |-> CASE doc.holds[t] = "holding"    -> "draft"
                        [] doc.holds[t] = "submitting" -> "uncertain"
                        [] OTHER                       -> doc.holds[t]]]

Init ==
  /\ disk = [holds |-> [t \in Texts |-> "none"], undo |-> FALSE]
  /\ personal = disk
  /\ ticked = {}
  /\ scope = First
  /\ input = Nothing
  /\ drafts = [s \in Scopes |-> Nothing]
  /\ restored = [s \in Scopes |-> Nothing]
  /\ focused = TRUE
  /\ loop = At("event")
  /\ file = FALSE
  /\ outbox = [t \in Texts |-> <<>>]
  /\ home = [t \in Texts |-> Nothing]
  /\ kept = {} /\ gone = {} /\ warned = {}
  /\ left = [t \in Texts |-> "never"]
  /\ faults = 0

Fails == faults < MaxFaults /\ faults' = faults + 1
Works == faults' = faults

-----------------------------------------------------------------------------
(* The document *)

\* The deadline of a text that is no longer held does not matter.
TickedStill == ticked' = ticked \cap InPhase(personal', "holding")

\* commit_personal: the copy follows the disk, or both stay as they were.
Saved(next)   == Works /\ disk' = next /\ personal' = next
Unsaved       == Fails /\ UNCHANGED <<disk, personal>>

\* Mutant: suspend_holds through commit_personal alone.
SuspendIfSaved ==
  IF InPhase(personal, "holding") \cup InPhase(personal, "submitting") = {}
  THEN Works /\ UNCHANGED <<disk, personal>>
  ELSE Saved(Recover(personal)) \/ Unsaved

\* A failed write leaves no timer running: the frontend's copy is recovered
\* whatever the disk says.
SuspendHolds ==
  IF InPhase(personal, "holding") \cup InPhase(personal, "submitting") = {}
  THEN Works /\ UNCHANGED <<disk, personal>>
  ELSE \/ Saved(Recover(personal))
       \/ Fails /\ personal' = Recover(personal) /\ UNCHANGED disk

-----------------------------------------------------------------------------
(* Keys *)

\* A key is read, and tells that the window has the focus; or it was read
\* during a fetch and is replayed now.
Read ==
  /\ loop.at = "event" /\ ~file
  /\ focused' \in {focused, TRUE}

Key == Read /\ UNCHANGED file

Touched(t) == left' = [left EXCEPT ![t] = "never"]
Leaves(how) == left' = [t \in Texts |-> IF personal.holds[t] = "holding"
                                        THEN how ELSE left[t]]

Type(t) ==
  /\ Key
  /\ input = Nothing /\ home[t] = Nothing
  /\ input' = t
  /\ home' = [home EXCEPT ![t] = scope]
  /\ loop' = At("turn")
  /\ UNCHANGED <<docs, scope, drafts, restored, outbox, kept, gone, warned,
                 left, faults>>

Clear ==
  /\ Key
  /\ input # Nothing
  /\ input' = Nothing
  /\ gone' = gone \cup {input}
  /\ loop' = At("turn")
  /\ UNCHANGED <<docs, scope, drafts, restored, outbox, home, kept, warned,
                 left, faults>>

\* The selection moved, by a key, a command or an event of the engine:
\* sync_draft_scope parks the text and takes out the one of the new scope.
SyncDraftScope(s) ==
  /\ scope' = s
  /\ input' = drafts[s]
  /\ drafts' = [drafts EXCEPT ![scope] = input, ![s] = Nothing]

Navigate(s) ==
  /\ Key
  /\ s # scope
  /\ SyncDraftScope(s)
  /\ loop' = At("turn")
  /\ UNCHANGED <<docs, restored, outbox, ghosts, faults>>

\* Enter in the attachment picker, or on a file that is not here yet.
AskForFile ==
  /\ Read
  /\ file' = TRUE
  /\ loop' = At("turn")
  /\ UNCHANGED <<docs, composer, outbox, ghosts, faults>>

\* /sending
SetUndo ==
  /\ Key
  /\ Saved([personal EXCEPT !.undo = ~personal.undo]) \/ Unsaved
  /\ loop' = At("turn")
  /\ UNCHANGED <<ticked, composer, outbox, ghosts>>

HoldDraft ==
  LET saved == restored[scope]
      rest  == IF saved = Nothing THEN personal
               ELSE WithPhase(personal, saved, "none")
  IN  /\ loop' = At("turn")
      /\ UNCHANGED <<scope, drafts, outbox, home, gone, warned>>
      /\ \/ /\ Saved(WithPhase(rest, input, "holding"))
            /\ ticked' = IF personal.undo THEN ticked \ {input}
                         ELSE ticked \cup {input}
            /\ restored' = [restored EXCEPT ![scope] = Nothing]
            /\ input' = Nothing
            /\ kept' = kept \cup {input}
            /\ Touched(input)
         \/ /\ Unsaved
            /\ UNCHANGED <<ticked, restored, input, kept, left>>

\* Enter in the composer.
SendDraft ==
  /\ Key
  /\ input # Nothing
  /\ IF personal.undo \/ restored[scope] # Nothing THEN HoldDraft
     ELSE /\ loop' = [At("send") EXCEPT !.text = input]
          /\ UNCHANGED <<docs, composer, outbox, ghosts, faults>>

\* Mutant: the saved copy is taken out when its text goes to the composer.
RestoreTakesTheCopy(t) ==
  /\ Key
  /\ personal.holds[t] # "none"
  /\ IF home[t] = scope THEN input = Nothing ELSE drafts[home[t]] = Nothing
  /\ loop' = At("turn")
  /\ Saved(WithPhase(personal, t, "none"))
  /\ scope' = home[t]
  /\ drafts' = [drafts EXCEPT ![scope] = input, ![home[t]] = Nothing]
  /\ input' = t
  /\ warned' = IF personal.holds[t] = "uncertain" THEN warned \cup {t}
               ELSE warned
  /\ Touched(t)
  /\ UNCHANGED <<restored, outbox, home, kept, gone>>
  /\ TickedStill

\* Ctrl+Z, or a saved draft picked from the panel, which tells of an
\* uncertain one that it may have been sent.
RestoreHold(t) ==
  /\ Key
  /\ personal.holds[t] # "none"
  /\ IF home[t] = scope THEN input = Nothing ELSE drafts[home[t]] = Nothing
  /\ loop' = At("turn")
  /\ UNCHANGED <<outbox, home, kept, gone>>
  /\ \/ /\ Saved(WithPhase(personal, t, "draft"))
        /\ scope' = home[t]
        /\ drafts' = [drafts EXCEPT ![scope] = input, ![home[t]] = Nothing]
        /\ input' = t
        /\ restored' = [restored EXCEPT ![home[t]] = t]
        /\ warned' = IF personal.holds[t] = "uncertain" THEN warned \cup {t}
                     ELSE warned
        /\ Touched(t)
     \/ /\ Unsaved
        /\ UNCHANGED <<composer, warned, left>>
  /\ TickedStill

DiscardHold(t) ==
  /\ Key
  /\ personal.holds[t] # "none"
  /\ loop' = At("turn")
  /\ \/ /\ Saved(WithPhase(personal, t, "none"))
        /\ gone' = gone \cup {t}
     \/ Unsaved /\ UNCHANGED gone
  /\ UNCHANGED <<composer, outbox, home, kept, warned, left>>
  /\ TickedStill

-----------------------------------------------------------------------------
(* The message is handed to the engine *)

Queued(t, s) == [outbox EXCEPT ![t] = IF Len(@) < 2 THEN Append(@, s) ELSE @]

\* The scope the command names: the selected one, or the hold's.
Target == IF loop.at = "send" THEN scope ELSE home[loop.text]

\* SendMessage: refused before the vault queued it, queued, or queued and yet
\* an error, when the relay refuses the session or complete_outbox fails.
Execute ==
  /\ loop.at \in {"send", "submit"}
  /\ \E answer \in {"ok", "refused", "failed"} :
       /\ IF answer = "ok" THEN Works ELSE Fails
       /\ outbox' = IF answer = "refused" THEN outbox
                    ELSE Queued(loop.text, Target)
       /\ loop' = [loop EXCEPT !.at =
                     CASE loop.at = "send"   -> (IF answer = "ok" THEN "sent"
                                                 ELSE "unsent")
                       [] loop.at = "submit" -> (IF answer = "ok" THEN "settle"
                                                 ELSE "unsettled")]
  /\ UNCHANGED <<file, docs, composer, focused, ghosts>>

\* What send_draft does with the answer.
Answered ==
  /\ loop.at \in {"sent", "unsent"}
  /\ IF loop.at = "sent" THEN input' = Nothing /\ UNCHANGED warned
     ELSE warned' = warned \cup {loop.text} /\ UNCHANGED input
  /\ loop' = At("turn")
  /\ UNCHANGED <<file, docs, scope, drafts, restored, focused, outbox, home,
                 kept, gone, left, faults>>

-----------------------------------------------------------------------------
(* The main loop *)

Tick(t) ==
  /\ personal.holds[t] = "holding" /\ t \notin ticked
  /\ ticked' = ticked \cup {t}
  /\ UNCHANGED <<file, disk, personal, composer, focused, loop, outbox, ghosts,
                 faults>>

\* advance_holds, after an event or without one.
Turn ==
  /\ loop.at = "turn" \/ (loop.at = "event" /\ ~file)
  /\ IF ~focused THEN SuspendHolds /\ loop' = At("event")
     ELSE /\ loop' = [At("event") EXCEPT
                        !.at = IF InPhase(personal, "holding") \cap ticked = {}
                               THEN "event" ELSE "advance",
                        !.due = InPhase(personal, "holding") \cap ticked]
          /\ UNCHANGED <<disk, personal, faults>>
  /\ UNCHANGED <<file, composer, focused, outbox, ghosts>>
  /\ TickedStill

Rest(due) == IF due = {} THEN At("event")
              ELSE [At("advance") EXCEPT !.due = due]

\* submit_hold up to the send.  The mark is on the disk before the send.
SubmitHold ==
  /\ loop.at = "advance"
  /\ \E t \in loop.due :
       LET skipped == Rest(loop.due \ {t})
       IN \/ /\ personal.holds[t] = "holding"
             /\ Saved(WithPhase(personal, t, "submitting"))
             /\ loop' = [at |-> "submit", text |-> t, due |-> loop.due \ {t}]
          \/ /\ personal.holds[t] = "holding"
             /\ Fails
             /\ loop' = skipped
             /\ personal' = Recover(personal)
             /\ disk' \in {disk, Recover(personal)}
          \/ /\ personal.holds[t] # "holding"
             /\ Works /\ loop' = skipped /\ UNCHANGED <<disk, personal>>
  /\ UNCHANGED <<file, composer, focused, outbox, ghosts>>
  /\ TickedStill

\* submit_hold after the send.
SettleHold ==
  /\ loop.at \in {"settle", "unsettled"}
  /\ LET t == loop.text
         next == WithPhase(personal, t,
                           IF loop.at = "settle" THEN "none" ELSE "uncertain")
     IN /\ \/ Saved(next) /\ warned' = IF loop.at = "settle" THEN warned
                                       ELSE warned \cup {t}
           \/ /\ Fails
              /\ personal' = WithPhase(personal, t, "uncertain")
              /\ warned' = warned \cup {t}
              /\ UNCHANGED disk
        /\ loop' = Rest(loop.due)
  /\ TickedStill
  /\ UNCHANGED <<file, composer, focused, outbox, home, kept, gone, left>>

-----------------------------------------------------------------------------
(* The terminal *)

\* observe_terminal_focus, by the loop or for what piled up during a fetch.
Observed == \/ ~file /\ loop' = At("turn")
            \/ UNCHANGED loop

LoseFocus ==
  /\ loop.at = "event"
  /\ focused' = FALSE
  /\ SuspendHolds
  /\ Leaves("seen")
  /\ Observed
  /\ UNCHANGED <<file, composer, outbox, home, kept, gone, warned>>
  /\ TickedStill

GainFocus ==
  /\ loop.at = "event" /\ ~focused
  /\ focused' = TRUE
  /\ Observed
  /\ UNCHANGED <<file, docs, composer, outbox, ghosts, faults>>

\* run_attachment_command reads the terminal itself while a file is under
\* way, and its loop starts over afterwards.
StartTransfer ==
  /\ loop.at = "event" /\ file
  /\ file' = FALSE
  /\ loop' = At("transfer")
  /\ UNCHANGED <<docs, composer, focused, outbox, ghosts, faults>>

TransferFocus ==
  /\ loop.at = "transfer"
  /\ focused' = ~focused
  /\ IF focused THEN Leaves("missed") ELSE UNCHANGED left
  /\ UNCHANGED <<file, docs, composer, loop, outbox, home, kept, gone, warned,
                 faults>>

EndTransfer ==
  /\ loop.at = "transfer"
  /\ loop' = At("event")
  /\ UNCHANGED <<file, docs, composer, focused, outbox, ghosts, faults>>

-----------------------------------------------------------------------------
(* The program ends and starts *)

Forgotten ==
  /\ personal' = [disk' EXCEPT !.holds = [t \in Texts |-> "none"]]
  /\ ticked' = {}
  /\ input' = Nothing
  /\ drafts' = [s \in Scopes |-> Nothing]
  /\ restored' = [s \in Scopes |-> Nothing]
  /\ loop' = At("off")
  /\ file' = FALSE
  /\ UNCHANGED <<scope, outbox, ghosts>>

\* The loop ends with suspend_holds.
Quit ==
  /\ loop.at \in {"event", "transfer"}
  /\ \/ Works /\ disk' = IF InPhase(personal, "holding") = {} THEN disk
                         ELSE Recover(personal)
     \/ Fails /\ UNCHANGED disk
  /\ Forgotten
  /\ UNCHANGED focused

Kill ==
  /\ loop.at # "off"
  /\ Fails
  /\ UNCHANGED <<disk, focused>>
  /\ Forgotten

\* load_personal_state recovers what it read.
Start ==
  /\ loop.at = "off"
  /\ personal' = Recover(disk)
  /\ scope' = First
  /\ focused' = TRUE
  /\ loop' = At("event")
  /\ left' = [t \in Texts |-> "never"]
  /\ UNCHANGED <<file, disk, ticked, input, drafts, restored, outbox, home,
                 kept, gone, warned, faults>>

-----------------------------------------------------------------------------
Keys ==
  \/ \E t \in Texts : Type(t) \/ RestoreHold(t) \/ DiscardHold(t)
  \/ \E s \in Scopes : Navigate(s)
  \/ Clear \/ SetUndo \/ SendDraft \/ AskForFile

Program ==
  \/ Execute \/ Answered
  \/ Turn \/ SubmitHold \/ SettleHold
  \/ StartTransfer \/ EndTransfer
  \/ Start

Next ==
  \/ Keys
  \/ Program
  \/ \E t \in Texts : Tick(t)
  \/ LoseFocus \/ GainFocus \/ TransferFocus
  \/ Quit \/ Kill

Spec == Init /\ [][Next]_vars

-----------------------------------------------------------------------------
TypeOK ==
  /\ \A doc \in {disk, personal} :
       doc \in [holds : [Texts -> Phases], undo : BOOLEAN]
  /\ ticked \subseteq Texts
  /\ scope \in Scopes /\ input \in Texts \cup {Nothing}
  /\ drafts \in [Scopes -> Texts \cup {Nothing}]
  /\ restored \in [Scopes -> Texts \cup {Nothing}]
  /\ focused \in BOOLEAN /\ file \in BOOLEAN
  /\ loop \in [at : {"event", "turn", "advance", "submit", "settle",
                     "unsettled", "send", "sent", "unsent", "transfer", "off"},
               text : Texts \cup {Nothing}, due : SUBSET Texts]
  /\ \A t \in Texts : Len(outbox[t]) \in 0 .. 2
  /\ home \in [Texts -> Scopes \cup {Nothing}]
  /\ UNION {kept, gone, warned} \subseteq Texts
  /\ left \in [Texts -> {"never", "seen", "missed"}]
  /\ faults \in 0 .. MaxFaults

\* However the program is killed or a write fails, a text is handed to the
\* outbox at most once until the user has been told that its send failed or
\* may have completed, and only in the chat or thread it was typed in:
\* submit_hold marks the hold on the disk first, recover and sync_draft_scope.
SentOnceWhereTyped ==
  \A t \in Texts :
    /\ Len(outbox[t]) > 1 => t \in warned
    /\ \A i \in 1 .. Len(outbox[t]) : outbox[t][i] = home[t]

\* A text once saved as a hold is on the disk until it is handed over or the
\* user cleared or discarded it: "Ctrl+Z never destroys the only saved copy".
HoldsSurvive ==
  \A t \in kept : disk.holds[t] # "none" \/ outbox[t] # <<>> \/ t \in gone

\* A hold whose owner left the terminal is not sent when he comes back, not
\* even if suspend_holds could not be written.
AwayNeverSends ==
  \A t \in Texts : left[t] = "seen" => personal.holds[t] # "submitting"
=============================================================================
