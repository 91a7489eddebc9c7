--------------------------- MODULE ComposerProofs ---------------------------
(***************************************************************************)
(* Proofs about Composer, for any texts and scopes and any number of       *)
(* failing writes, failing sends and kills.                                *)
(*                                                                         *)
(* The argument: a text has one place, the composer of its scope, and      *)
(* beside it at most the one hold it was restored from (Placed, Copies).   *)
(* The copy of the holds in memory is behind the one on the disk by a       *)
(* recovery at most, and marks a text as being submitted only while the    *)
(* loop is about it (Agree, Looping).  So a text that was handed over       *)
(* without a warning is nowhere any more from where it could be sent       *)
(* (NeverAgain).                                                           *)
(***************************************************************************)
EXTENDS Composer, TLAPS

\* What stands in the composer of a scope.
Text(s) == IF s = scope THEN input ELSE drafts[s]

Docs == [holds : [Texts -> Phases], undo : BOOLEAN]

Loops ==
  [at : {"event", "turn", "advance", "submit", "settle", "unsettled", "send",
         "sent", "unsent", "transfer", "off"},
   text : Texts \cup {Nothing}, due : SUBSET Texts]

Typed == TypeOK /\ outbox \in [Texts -> Seq(Scopes)]

\* A text stands only in the composer of the scope it was typed in, and so does
\* one restored from a hold, until the user clears it.
Placed ==
  /\ drafts[scope] = Nothing
  /\ \A s \in Scopes :
       /\ Text(s) # Nothing => home[Text(s)] = s
       /\ restored[s] # Nothing =>
            Text(s) = restored[s] \/ restored[s] \in gone
  /\ \A t \in Texts : home[t] = Nothing =>
       /\ disk.holds[t] = "none" /\ personal.holds[t] = "none"
       /\ outbox[t] = <<>>
  /\ loop.at = "off" => \A s \in Scopes : Text(s) = Nothing /\ restored[s] = Nothing

\* The frontend's copy is the document on the disk, or a recovery ahead of it.
Agree ==
  /\ loop.at = "off" => \A t \in Texts : personal.holds[t] = "none"
  /\ loop.at # "off" => \A t \in Texts :
       \/ personal.holds[t] = disk.holds[t]
       \/ personal.holds[t] = "draft" /\ disk.holds[t] = "holding"
       \/ personal.holds[t] = "uncertain" /\ disk.holds[t] = "submitting"

\* A text in a composer has no hold, or it is the draft it was restored from.
Copies ==
  \A s \in Scopes : LET t == Text(s) IN t # Nothing =>
    \/ personal.holds[t] = "none" /\ disk.holds[t] = "none"
    \/ personal.holds[t] = "draft" /\ restored[s] = t

Looping ==
  /\ loop.at \in {"send", "sent", "unsent"} =>
       input # Nothing /\ loop.text = input /\ restored[scope] = Nothing
  /\ loop.at \in {"submit", "settle", "unsettled"} =>
       loop.text \in Texts /\ personal.holds[loop.text] = "submitting"
  /\ loop.at = "settle" => outbox[loop.text] # <<>>
  /\ \A t \in Texts : personal.holds[t] = "submitting" =>
       loop.at \in {"submit", "settle", "unsettled"} /\ loop.text = t

NeverAgain ==
  \A t \in Texts \ warned : outbox[t] # <<>> =>
    /\ Len(outbox[t]) = 1
    /\ {disk.holds[t], personal.holds[t]} \subseteq {"none", "uncertain", "submitting"}
    /\ personal.holds[t] = "submitting" => loop.at # "submit"
    /\ \A s \in Scopes : Text(s) = t => loop.at \in {"sent", "unsent"} /\ s = scope

AtHome == \A t \in Texts : \A i \in 1 .. Len(outbox[t]) : outbox[t][i] = home[t]

Away ==
  \A t \in Texts : left[t] = "seen" => personal.holds[t] \notin {"holding", "submitting"}

Safe ==
  /\ Placed /\ Agree /\ Copies /\ Looping
  /\ NeverAgain /\ AtHome /\ HoldsSurvive /\ Away

Inv == Typed /\ Safe

-----------------------------------------------------------------------------
(* The operators.                                                          *)

Recovered(p) ==
  IF p = "holding" THEN "draft" ELSE IF p = "submitting" THEN "uncertain" ELSE p

\* A recovery leaves no text whose time runs or whose send is under way.
LEMMA RecoverFacts ==
  ASSUME NEW doc \in Docs
  PROVE  /\ Recover(doc) \in Docs
         /\ \A t \in Texts : Recover(doc).holds[t] = Recovered(doc.holds[t])
<1>1. /\ doc.holds \in [Texts -> Phases] /\ doc.undo \in BOOLEAN
      /\ doc = [holds |-> doc.holds, undo |-> doc.undo]
  BY DEF Docs
<1> DEFINE new == [t \in Texts |-> CASE doc.holds[t] = "holding"    -> "draft"
                                     [] doc.holds[t] = "submitting" -> "uncertain"
                                     [] OTHER                       -> doc.holds[t]]
<1>2. Recover(doc) = [holds |-> new, undo |-> doc.undo]
  BY <1>1 DEF Recover
<1>3. \A t \in Texts : new[t] = Recovered(doc.holds[t])
  BY DEF Recovered
<1>4. new \in [Texts -> Phases]
  BY <1>1 DEF Phases
<1> HIDE DEF new
<1> QED
  BY <1>1, <1>2, <1>3, <1>4 DEF Docs

\* A phase is given to one text.
LEMMA WithPhaseFacts ==
  ASSUME NEW doc \in Docs, NEW t \in Texts, NEW p \in Phases
  PROVE  /\ WithPhase(doc, t, p) \in Docs
         /\ \A u \in Texts :
              WithPhase(doc, t, p).holds[u] = IF u = t THEN p ELSE doc.holds[u]
<1>1. /\ doc.holds \in [Texts -> Phases] /\ doc.undo \in BOOLEAN
      /\ doc = [holds |-> doc.holds, undo |-> doc.undo]
  BY DEF Docs
<1>2. WithPhase(doc, t, p) = [holds |-> [doc.holds EXCEPT ![t] = p], undo |-> doc.undo]
  BY <1>1 DEF WithPhase
<1> QED
  BY <1>1, <1>2 DEF Docs

\* suspend_holds recovers the frontend's copy, and the disk follows or not.
Suspended ==
  /\ \A t \in Texts : personal'.holds[t] = Recovered(personal.holds[t])
  /\ \/ \A t \in Texts : disk'.holds[t] = disk.holds[t]
     \/ \A t \in Texts : disk'.holds[t] = personal'.holds[t]

LEMMA SuspendFacts ==
  ASSUME Typed, SuspendHolds
  PROVE  disk' \in Docs /\ personal' \in Docs /\ Suspended /\ faults' \in 0 .. MaxFaults
<1>1. disk \in Docs /\ personal \in Docs /\ faults \in 0 .. MaxFaults /\ MaxFaults \in Nat
  BY ComposerAssumption DEF Typed, TypeOK, Docs
<1>2. faults' \in 0 .. MaxFaults
  BY <1>1 DEF SuspendHolds, Works, Fails, Saved
<1>3. CASE UNCHANGED <<disk, personal>> /\ InPhase(personal, "holding") = {}
             /\ InPhase(personal, "submitting") = {}
  BY <1>1, <1>2, <1>3 DEF Suspended, Recovered, InPhase
<1>4. CASE personal' = Recover(personal) /\ disk' \in {disk, Recover(personal)}
  BY <1>1, <1>2, <1>4, RecoverFacts DEF Suspended
<1> QED
  BY <1>3, <1>4 DEF SuspendHolds, Saved

-----------------------------------------------------------------------------
(* Types, in parts.                                                        *)

ComposerTyped ==
  /\ scope \in Scopes /\ input \in Texts \cup {Nothing}
  /\ drafts \in [Scopes -> Texts \cup {Nothing}]
  /\ restored \in [Scopes -> Texts \cup {Nothing}]

OutboxTyped ==
  /\ outbox \in [Texts -> Seq(Scopes)]
  /\ \A t \in Texts : Len(outbox[t]) \in 0 .. 2

GhostsTyped ==
  /\ home \in [Texts -> Scopes \cup {Nothing}]
  /\ kept \subseteq Texts /\ gone \subseteq Texts /\ warned \subseteq Texts
  /\ left \in [Texts -> {"never", "seen", "missed"}]

RestTyped ==
  /\ ticked \subseteq Texts
  /\ focused \in BOOLEAN /\ file \in BOOLEAN
  /\ faults \in 0 .. MaxFaults

LEMMA TypedParts ==
  /\ Typed <=> /\ disk \in Docs /\ personal \in Docs /\ loop \in Loops
               /\ ComposerTyped /\ OutboxTyped /\ GhostsTyped /\ RestTyped
  /\ Typed' <=> /\ disk' \in Docs /\ personal' \in Docs /\ loop' \in Loops
                /\ ComposerTyped' /\ OutboxTyped' /\ GhostsTyped' /\ RestTyped'
BY DEF Typed, TypeOK, Docs, Loops, ComposerTyped, OutboxTyped, GhostsTyped, RestTyped

\* The steps of the loop and what each of them may follow.
LEMMA LoopTyped ==
  ASSUME Typed, [Next]_vars
  PROVE  loop' \in Loops
<1>1. loop \in Loops /\ input \in Texts \cup {Nothing}
  BY TypedParts DEF ComposerTyped
<1>2. \A place \in {"event", "turn", "advance", "transfer", "off", "send"},
         t \in Texts \cup {Nothing}, due \in SUBSET Texts :
        /\ At(place) \in Loops
        /\ [At(place) EXCEPT !.due = due] \in Loops
        /\ [At(place) EXCEPT !.text = t] \in Loops
        /\ Rest(due) \in Loops
        /\ [at |-> "submit", text |-> t, due |-> due] \in Loops
  BY DEF Loops, At, Rest
<1>3. \A place \in {"sent", "unsent", "settle", "unsettled"} :
        [loop EXCEPT !.at = place] \in Loops
  BY <1>1 DEF Loops
<1>4. loop.due \subseteq Texts
  BY <1>1 DEF Loops
<1>5. CASE Keys
  <2>1. loop' \in {At("turn"), [At("send") EXCEPT !.text = input]}
    BY <1>5 DEF Keys, Type, RestoreHold, DiscardHold, Navigate, Clear, SetUndo,
       SendDraft, HoldDraft, AskForFile
  <2> QED
    BY <1>1, <1>2, <2>1
<1>6. CASE Execute
  <2>1. \E place \in {"sent", "unsent", "settle", "unsettled"} :
          loop' = [loop EXCEPT !.at = place]
    BY <1>6 DEF Execute
  <2> QED
    BY <1>3, <2>1
<1>7. CASE Turn
  <2>1. CASE loop' = At("event")
    BY <1>2, <2>1
  <2>2. CASE focused
    <3> DEFINE due == InPhase(personal, "holding") \cap ticked
               place == IF due = {} THEN "event" ELSE "advance"
    <3>1. loop' = [at |-> place, text |-> Nothing, due |-> due]
      BY <1>7, <2>2 DEF Turn, At
    <3>2. due \subseteq Texts
      BY DEF InPhase
    <3> QED
      BY <3>1, <3>2 DEF Loops
  <2> QED
    BY <1>7, <2>1, <2>2 DEF Turn
<1>8. CASE SubmitHold
  <2>1. PICK t \in loop.due :
          loop' \in {[at |-> "submit", text |-> t, due |-> loop.due \ {t}],
                     Rest(loop.due \ {t})}
    BY <1>8 DEF SubmitHold
  <2> QED
    BY <1>2, <1>4, <2>1
<1>9. CASE SettleHold
  BY <1>2, <1>4, <1>9 DEF SettleHold
<1>10. CASE \/ Answered \/ StartTransfer \/ EndTransfer \/ Start
            \/ LoseFocus \/ GainFocus \/ Quit \/ Kill
  <2>1. loop' \in {loop, At("turn"), At("transfer"), At("event"), At("off")}
    BY <1>10 DEF Answered, StartTransfer, EndTransfer, Start, LoseFocus,
       GainFocus, Observed, Quit, Kill, Forgotten
  <2> QED
    BY <1>1, <1>2, <2>1
<1>11. CASE (\E t \in Texts : Tick(t)) \/ TransferFocus \/ UNCHANGED vars
  BY <1>1, <1>11 DEF Tick, TransferFocus, vars
<1> QED
  BY <1>5, <1>6, <1>7, <1>8, <1>9, <1>10, <1>11 DEF Next, Program

\* Every step keeps the types.
LEMMA TypedNext ==
  ASSUME Inv, [Next]_vars
  PROVE  Typed'
<1>0. /\ disk \in Docs /\ personal \in Docs /\ loop \in Loops
      /\ ComposerTyped /\ OutboxTyped /\ GhostsTyped /\ RestTyped
  BY TypedParts DEF Inv
<1>1. /\ disk' \in Docs /\ personal' \in Docs
  <2>1. /\ \A doc \in Docs : Recover(doc) \in Docs
        /\ \A doc \in Docs, t \in Texts, p \in Phases : WithPhase(doc, t, p) \in Docs
    BY WithPhaseFacts, RecoverFacts
  <2>2. {"none", "holding", "draft", "submitting", "uncertain"} \subseteq Phases
    BY DEF Phases
  <2>3. CASE SetUndo
    <3>1. [personal EXCEPT !.undo = ~personal.undo] \in Docs
      BY <1>0 DEF Docs
    <3> QED
      BY <1>0, <2>3, <3>1 DEF SetUndo, Saved, Unsaved
  <2>4. CASE SendDraft
    <3>1. CASE HoldDraft
      <4>1. input \in Texts /\ restored[scope] \in Texts \cup {Nothing}
        BY <1>0, <2>4 DEF SendDraft, ComposerTyped
      <4> QED
        BY <1>0, <2>1, <2>2, <3>1, <4>1 DEF HoldDraft, Saved, Unsaved
    <3> QED
      BY <1>0, <2>4, <3>1 DEF SendDraft, docs
  <2>5. ASSUME NEW t \in Texts, RestoreHold(t) \/ DiscardHold(t)
        PROVE  disk' \in Docs /\ personal' \in Docs
    BY <1>0, <2>1, <2>2, <2>5 DEF RestoreHold, DiscardHold, Saved, Unsaved
  <2>6. CASE Turn \/ LoseFocus
    BY <1>0, <2>6, SuspendFacts DEF Turn, LoseFocus, Inv
  <2>7. CASE SubmitHold
    <3>1. loop.due \subseteq Texts
      BY <1>0 DEF Loops
    <3> QED
      BY <1>0, <2>1, <2>2, <2>7, <3>1 DEF SubmitHold, Saved
  <2>8. CASE SettleHold
    <3>1. loop.text \in Texts
      BY <2>8 DEF SettleHold, Inv, Safe, Looping
    <3> QED
      BY <1>0, <2>1, <2>2, <2>8, <3>1 DEF SettleHold, Saved
  <2>9. CASE Quit \/ Kill
    <3>1. disk' \in Docs
      BY <1>0, <2>1, <2>9 DEF Quit, Kill
    <3>2. [disk' EXCEPT !.holds = [t \in Texts |-> "none"]] \in Docs
      BY <2>2, <3>1 DEF Docs
    <3> QED
      BY <2>9, <3>1, <3>2 DEF Quit, Kill, Forgotten
  <2>10. CASE Start
    BY <1>0, <2>1, <2>10 DEF Start
  <2>11. CASE UNCHANGED <<disk, personal>>
    BY <1>0, <2>11
  <2> QED
    BY <2>3, <2>4, <2>5, <2>6, <2>7, <2>8, <2>9, <2>10, <2>11, ZenonT(30)
       DEF Next, Keys, Type, Navigate, Clear, AskForFile, Program, Execute,
           Answered, StartTransfer, EndTransfer, Tick, GainFocus, TransferFocus,
           vars, docs
<1>2. ComposerTyped'
  <2> USE <1>0 DEF ComposerTyped
  <2>1. CASE Keys
    <3>1. ASSUME NEW t \in Texts, Type(t) \/ RestoreHold(t) \/ DiscardHold(t)
          PROVE  ComposerTyped'
      <4>1. CASE RestoreHold(t)
        <5>1. home[t] \in Scopes
          <6>1. personal.holds[t] # "none"
            BY <4>1 DEF RestoreHold
          <6> QED
            BY <6>1 DEF Inv, Safe, Placed, GhostsTyped
        <5> QED
          BY <4>1, <5>1 DEF RestoreHold, composer
      <4> QED
        BY <3>1, <4>1 DEF Type, DiscardHold, composer
    <3>2. ASSUME NEW s \in Scopes, Navigate(s) PROVE ComposerTyped'
      BY <3>2 DEF Navigate, SyncDraftScope
    <3>3. CASE Clear \/ SetUndo \/ SendDraft \/ AskForFile
      BY <3>3 DEF Clear, SetUndo, SendDraft, HoldDraft, AskForFile, composer
    <3> QED
      BY <2>1, <3>1, <3>2, <3>3 DEF Keys
  <2>2. CASE Quit \/ Kill \/ Start \/ Answered
    BY <2>2, ComposerAssumption DEF Quit, Kill, Start, Answered, Forgotten
  <2>3. CASE UNCHANGED composer
    BY <2>3 DEF composer
  <2> QED
    BY <2>1, <2>2, <2>3, ZenonT(30)
       DEF Next, Program, Execute, Turn, SubmitHold, SettleHold, StartTransfer,
           EndTransfer, Tick, LoseFocus, GainFocus, TransferFocus, vars
<1>3. OutboxTyped'
  <2> USE <1>0 DEF OutboxTyped
  <2>1. CASE Execute
    <3>1. loop.text \in Texts /\ Target \in Scopes
      <4>1. CASE loop.at = "send"
        BY <4>1 DEF Inv, Safe, Looping, ComposerTyped, Target
      <4>2. CASE loop.at = "submit"
        <5>1. loop.text \in Texts /\ personal.holds[loop.text] # "none"
          BY <4>2 DEF Inv, Safe, Looping
        <5> QED
          BY <4>2, <5>1 DEF Inv, Safe, Placed, Target, GhostsTyped
      <4> QED
        BY <2>1, <4>1, <4>2 DEF Execute
    <3>2. ASSUME NEW t \in Texts, NEW s \in Scopes, outbox' = Queued(t, s)
          PROVE  OutboxTyped'
      <4>1. outbox' = [outbox EXCEPT ![t] =
              IF Len(outbox[t]) < 2 THEN Append(outbox[t], s) ELSE outbox[t]]
        BY <3>2 DEF Queued
      <4> QED
        BY <4>1
    <3> QED
      BY <2>1, <3>1, <3>2 DEF Execute
  <2>2. CASE UNCHANGED outbox
    BY <2>2
  <2> QED
    BY <2>1, <2>2, ZenonT(30)
       DEF Next, Keys, Type, RestoreHold, DiscardHold, Navigate, Clear, SetUndo,
           SendDraft, HoldDraft, AskForFile, Program, Answered, Turn, SubmitHold,
           SettleHold, StartTransfer, EndTransfer, Start, Tick, LoseFocus,
           GainFocus, TransferFocus, Quit, Kill, Forgotten, vars
<1>4. GhostsTyped'
  <2> USE <1>0 DEF GhostsTyped
  <2>0. /\ \A t \in Texts : Touched(t) => left' \in [Texts -> {"never", "seen", "missed"}]
        /\ \A how \in {"seen", "missed"} :
             Leaves(how) => left' \in [Texts -> {"never", "seen", "missed"}]
    BY DEF Touched, Leaves
  <2>1. CASE Keys
    BY <2>0, <2>1 DEF Keys, Type, RestoreHold, DiscardHold, Navigate, Clear, SetUndo,
       SendDraft, HoldDraft, AskForFile, ghosts, ComposerTyped
  <2>2. CASE Answered \/ SettleHold
    BY <2>2 DEF Answered, SettleHold, Inv, Safe, Looping, ComposerTyped
  <2>3. CASE Start \/ LoseFocus \/ TransferFocus
    BY <2>0, <2>3 DEF Start, LoseFocus, TransferFocus
  <2>4. CASE UNCHANGED ghosts
    BY <2>4 DEF ghosts
  <2> QED
    BY <2>1, <2>2, <2>3, <2>4, ZenonT(30)
       DEF Next, Program, Execute, Turn, SubmitHold, StartTransfer, EndTransfer,
           Tick, GainFocus, Quit, Kill, Forgotten, vars
<1>5. RestTyped'
  <2>1. faults' \in 0 .. MaxFaults
    <3>1. (Works \/ Fails) => faults' \in 0 .. MaxFaults
      BY <1>0, ComposerAssumption DEF Works, Fails, RestTyped
    <3>2. Works \/ Fails
      BY ZenonT(30)
         DEF Next, Keys, Type, RestoreHold, DiscardHold, Navigate, Clear, SetUndo,
             SendDraft, HoldDraft, AskForFile, Program, Execute, Answered, Turn,
             SubmitHold, SettleHold, StartTransfer, EndTransfer, Start, Tick,
             LoseFocus, GainFocus, TransferFocus, Quit, Kill, SuspendHolds,
             Saved, Unsaved, Works, vars
    <3> QED
      BY <3>1, <3>2
  <2>2. ticked' \subseteq Texts
    <3>1. /\ \A t \in Texts : Tick(t) => ticked' \subseteq Texts
          /\ SendDraft => ticked' \subseteq Texts
          /\ TickedStill => ticked' \subseteq Texts
          /\ Forgotten => ticked' \subseteq Texts
      BY <1>0 DEF RestTyped, Tick, SendDraft, HoldDraft, ComposerTyped, TickedStill,
         Forgotten, docs
    <3>2. \/ \E t \in Texts : Tick(t)
          \/ SendDraft \/ TickedStill \/ Forgotten \/ UNCHANGED ticked
      BY ZenonT(30)
         DEF Next, Keys, Type, RestoreHold, DiscardHold, Navigate, Clear, SetUndo,
             AskForFile, Program, Execute, Answered, Turn,
             SubmitHold, SettleHold, StartTransfer, EndTransfer, Start,
             LoseFocus, GainFocus, TransferFocus, Quit, Kill, vars, docs
    <3> QED
      BY <1>0, <3>1, <3>2 DEF RestTyped
  <2>3. focused' \in BOOLEAN
    <3>1. focused' \in {focused, TRUE, FALSE, ~focused}
      BY ZenonT(30)
         DEF Next, Keys, Key, Read, Type, RestoreHold, DiscardHold, Navigate,
             Clear, SetUndo, SendDraft, AskForFile, Program, Execute, Answered,
             Turn, SubmitHold, SettleHold, StartTransfer, EndTransfer, Start, Tick,
             LoseFocus, GainFocus, TransferFocus, Quit, Kill, vars
    <3> QED
      BY <1>0, <3>1, Zenon DEF RestTyped
  <2>4. file' \in BOOLEAN
    <3>1. file' \in {file, TRUE, FALSE}
      BY ZenonT(30)
         DEF Next, Keys, Key, Type, RestoreHold, DiscardHold, Navigate,
             Clear, SetUndo, SendDraft, AskForFile, Program, Execute, Answered,
             Turn, SubmitHold, SettleHold, StartTransfer, EndTransfer, Start, Tick,
             LoseFocus, GainFocus, TransferFocus, Quit, Kill, Forgotten, vars
    <3> QED
      BY <1>0, <3>1, Zenon DEF RestTyped
  <2> QED
    BY <2>1, <2>2, <2>3, <2>4 DEF RestTyped
<1> QED
  BY <1>1, <1>2, <1>3, <1>4, <1>5, LoopTyped, TypedParts DEF Inv

-----------------------------------------------------------------------------
(* Steps of the loop between two sends.                                    *)

Between == {"event", "turn", "advance", "transfer"}

\* Only what one text is about changes: nothing is on its way to the engine.
LEMMA NothingSubmitted ==
  ASSUME Inv, loop.at \notin {"submit", "settle", "unsettled"}
  PROVE  \A t \in Texts : personal.holds[t] # "submitting"
BY DEF Inv, Safe, Looping

\* The loop goes on and nothing else changes.
LEMMA PlainStep ==
  ASSUME Inv,
         UNCHANGED <<disk, personal, composer, outbox, home, kept, gone, warned>>,
         \A t \in Texts : left'[t] = "seen" => left[t] = "seen",
         loop.at \in Between, loop'.at \in Between
  PROVE  Safe'
<1>1. \A s : Text(s)' = Text(s)
  BY DEF Text, composer
<1> USE DEF Inv, Safe, Between, composer
<1>2. Placed' /\ Agree'
  BY <1>1 DEF Placed, Agree
<1>3. Copies' /\ NeverAgain'
  <2>1. Copies'
    BY <1>1 DEF Copies
  <2>2. NeverAgain'
    BY <1>1, NothingSubmitted DEF NeverAgain
  <2> QED
    BY <2>1, <2>2
<1>4. Looping'
  BY NothingSubmitted DEF Looping
<1>5. AtHome' /\ HoldsSurvive' /\ Away'
  BY DEF AtHome, HoldsSurvive, Away
<1> QED
  BY <1>2, <1>3, <1>4, <1>5

\* The holds are recovered between two sends.
LEMMA RecoveryStep ==
  ASSUME Inv, Typed', Suspended,
         UNCHANGED <<composer, outbox, home, kept, gone, warned>>,
         loop.at \in Between, loop'.at \in Between
  PROVE  Safe'
<1>0. /\ \A s : Text(s)' = Text(s)
      /\ \A s \in Scopes : Text(s) \in Texts \cup {Nothing}
      /\ \A t \in Texts : disk.holds[t] \in Phases /\ personal.holds[t] \in Phases
      /\ kept \subseteq Texts
  BY DEF Text, composer, Inv, Typed, TypeOK
<1>1. \A t \in Texts :
        /\ personal'.holds[t] = Recovered(personal.holds[t])
        /\ personal.holds[t] # "submitting"
        /\ personal'.holds[t] \in {"none", "draft", "uncertain"}
        /\ \/ disk'.holds[t] = disk.holds[t]
           \/ disk'.holds[t] = personal'.holds[t]
  BY <1>0, NothingSubmitted DEF Suspended, Recovered, Between, Phases
<1>2. \A t \in Texts :
        /\ disk.holds[t] = "none" <=> personal.holds[t] = "none"
        /\ disk'.holds[t] = "none" <=> personal'.holds[t] = "none"
        /\ personal'.holds[t] = "none" <=> personal.holds[t] = "none"
        /\ personal.holds[t] = "draft" => personal'.holds[t] = "draft"
  BY <1>1 DEF Recovered, Inv, Safe, Agree, Between
<1>3. Placed'
  BY <1>0, <1>2 DEF Placed, Inv, Safe, Between, composer
<1>4. Agree'
  <2>1. \A t \in Texts :
          \/ personal'.holds[t] = disk'.holds[t]
          \/ personal'.holds[t] = "draft" /\ disk'.holds[t] = "holding"
          \/ personal'.holds[t] = "uncertain" /\ disk'.holds[t] = "submitting"
    BY <1>1 DEF Recovered, Inv, Safe, Agree, Between
  <2> QED
    BY <2>1 DEF Agree, Between
<1>5. Copies'
  BY <1>0, <1>2 DEF Copies, Inv, Safe, composer
<1>6. Looping'
  BY <1>1 DEF Looping, Between
<1>7. NeverAgain'
  <2>1. \A t \in Texts \ warned : outbox[t] # <<>> =>
          {disk'.holds[t], personal'.holds[t]} \subseteq {"none", "uncertain", "submitting"}
    BY <1>1 DEF Recovered, NeverAgain, Inv, Safe
  <2> QED
    BY <1>0, <1>1, <2>1 DEF NeverAgain, Inv, Safe, Between
<1>8. AtHome' /\ HoldsSurvive' /\ Away'
  BY <1>0, <1>1, <1>2 DEF AtHome, HoldsSurvive, Away, Inv, Safe
<1> QED
  BY <1>3, <1>4, <1>5, <1>6, <1>7, <1>8 DEF Safe

-----------------------------------------------------------------------------
(* The keys.                                                               *)

\* A text that is typed is new: it is in no document and was not handed over.
LEMMA TypeStep ==
  ASSUME Inv, Typed', NEW t \in Texts, Type(t)
  PROVE  Safe'
<1>0. /\ t # Nothing /\ scope \in Scopes /\ home' = [home EXCEPT ![t] = scope]
      /\ home \in [Texts -> Scopes \cup {Nothing}]
      /\ \A s \in Scopes : Text(s) \in Texts \cup {Nothing}
      /\ kept \subseteq Texts
  BY ComposerAssumption DEF Type, Text, Inv, Typed, TypeOK
<1>1. \A s \in Scopes : Text(s)' = IF s = scope THEN t ELSE Text(s)
  BY DEF Text, Type
<1>2. /\ UNCHANGED <<disk, personal, scope, drafts, restored, outbox, kept, gone, warned, left>>
      /\ home[t] = Nothing /\ Text(scope) = Nothing
      /\ loop.at = "event" /\ loop' = At("turn")
  BY DEF Type, Key, Read, docs, Text
<1>3. /\ disk.holds[t] = "none" /\ personal.holds[t] = "none" /\ outbox[t] = <<>>
  BY <1>2 DEF Inv, Safe, Placed
<1>4. loop'.at = "turn"
  BY <1>2 DEF At
<1>5. Placed'
  <2>1. \A s \in Scopes : s # scope /\ Text(s) # Nothing => Text(s) # t
    BY <1>0, <1>2, ComposerAssumption DEF Inv, Safe, Placed
  <2>2. \A s \in Scopes : restored'[s] # Nothing =>
          Text(s)' = restored'[s] \/ restored'[s] \in gone'
    BY <1>1, <1>2 DEF Inv, Safe, Placed
  <2>3. \A s \in Scopes : Text(s)' # Nothing => home'[Text(s)'] = s
    BY <1>0, <1>1, <2>1 DEF Inv, Safe, Placed
  <2> QED
    BY <1>0, <1>2, <1>4, <2>2, <2>3 DEF Inv, Safe, Placed
<1>6. Agree' /\ Copies'
  <2>1. Agree'
    BY <1>2, <1>4 DEF Inv, Safe, Agree
  <2>2. Copies'
    BY <1>0, <1>1, <1>2, <1>3 DEF Inv, Safe, Copies
  <2> QED
    BY <2>1, <2>2
<1>7. Looping'
  BY <1>2, <1>4, NothingSubmitted DEF Looping
<1>8. NeverAgain'
  BY <1>1, <1>2, <1>3, <1>4, NothingSubmitted DEF Inv, Safe, NeverAgain
<1>9. AtHome'
  <2>1. \A u \in Texts : u = t \/ home'[u] = home[u]
    BY <1>0
  <2>2. Len(outbox[t]) = 0
    BY <1>3
  <2> QED
    BY <1>2, <2>1, <2>2 DEF Inv, Safe, AtHome
<1>10. HoldsSurvive' /\ Away'
  BY <1>2 DEF Inv, Safe, HoldsSurvive, Away
<1> QED
  BY <1>5, <1>6, <1>7, <1>8, <1>9, <1>10 DEF Safe

\* The selection moves, or the user clears the composer: no text is anywhere
\* else afterwards.
LEMMA MoveStep ==
  ASSUME Inv, UNCHANGED <<disk, personal, restored, outbox, home, kept, warned, left>>,
         \A s \in Scopes : \/ Text(s)' = Text(s)
                           \/ Text(s)' = Nothing /\ Text(s) \in gone',
         gone \subseteq gone', drafts'[scope'] = Nothing,
         loop.at = "event", loop' = At("turn")
  PROVE  Safe'
<1>0. loop'.at = "turn"
  BY DEF At
<1>1. Placed'
  BY <1>0 DEF Placed, Inv, Safe
<1>2. Agree' /\ Copies'
  <2>1. Agree'
    BY <1>0 DEF Agree, Inv, Safe
  <2>2. Copies'
    BY DEF Copies, Inv, Safe
  <2> QED
    BY <2>1, <2>2
<1>3. Looping'
  BY <1>0, NothingSubmitted DEF Looping
<1>4. NeverAgain'
  <2>1. \A t \in Texts : t # Nothing
    BY ComposerAssumption
  <2> QED
    BY <1>0, <2>1, NothingSubmitted DEF NeverAgain, Inv, Safe
<1>5. AtHome' /\ HoldsSurvive' /\ Away'
  BY DEF AtHome, HoldsSurvive, Away, Inv, Safe
<1> QED
  BY <1>1, <1>2, <1>3, <1>4, <1>5 DEF Safe

\* sync_draft_scope: the new scope's composer is shown, the others keep theirs.
LEMMA SyncFacts ==
  ASSUME Typed, NEW s \in Scopes, NEW t \in Texts \cup {Nothing},
         scope' = s, input' = t,
         drafts' = [drafts EXCEPT ![scope] = input, ![s] = Nothing]
  PROVE  /\ drafts'[scope'] = Nothing
         /\ \A u \in Scopes : Text(u)' = IF u = s THEN t ELSE Text(u)
BY DEF Typed, TypeOK, Text

LEMMA NavigateOrClear ==
  ASSUME Inv, Clear \/ \E s \in Scopes : Navigate(s)
  PROVE  Safe'
<1>1. CASE Clear
  <2>1. \A s \in Scopes : \/ Text(s)' = Text(s)
                          \/ Text(s)' = Nothing /\ Text(s) \in gone'
    BY <1>1 DEF Clear, Text
  <2> QED
    BY <1>1, <2>1, MoveStep DEF Clear, Key, Read, docs, Inv, Safe, Placed
<1>2. ASSUME NEW s \in Scopes, Navigate(s)
      PROVE  Safe'
  <2>1. drafts[s] \in Texts \cup {Nothing} /\ drafts[s] = Text(s)
    BY <1>2 DEF Navigate, Text, Inv, Typed, TypeOK
  <2>2. /\ drafts'[scope'] = Nothing
        /\ \A u \in Scopes : Text(u)' = Text(u)
    BY <1>2, <2>1, SyncFacts DEF Navigate, SyncDraftScope, Inv
  <2> QED
    BY <1>2, <2>2, MoveStep DEF Navigate, Key, Read, docs, ghosts
<1> QED
  BY <1>1, <1>2

\* A text is held: the draft it came from is replaced, or was cleared.
LEMMA HoldStep ==
  ASSUME Inv, Typed', SendDraft, HoldDraft
  PROVE  Safe'
<1>0. /\ personal \in Docs /\ disk \in Docs /\ scope \in Scopes /\ kept \subseteq Texts
      /\ restored \in [Scopes -> Texts \cup {Nothing}]
      /\ left \in [Texts -> {"never", "seen", "missed"}]
      /\ \A s \in Scopes : Text(s) \in Texts \cup {Nothing}
      /\ Nothing \notin Texts \cup Scopes
  BY ComposerAssumption DEF Inv, Typed, TypeOK, Docs, Text
<1> DEFINE t == input
           u == restored[scope]
<1>1. /\ t \in Texts /\ Text(scope) = t /\ home[t] = scope
      /\ loop.at = "event" /\ loop'.at = "turn"
      /\ u \in Texts \cup {Nothing}
  BY <1>0 DEF SendDraft, HoldDraft, Key, Read, At, Text, Inv, Safe, Placed, Typed, TypeOK
<1>2. /\ UNCHANGED <<scope, drafts, outbox, home, gone, warned>>
  BY DEF HoldDraft
<1>3. CASE UNCHANGED <<disk, personal, restored, input, kept, left>>
  BY <1>1, <1>2, <1>3, PlainStep DEF Between, composer
<1>4. ASSUME ~UNCHANGED <<disk, personal, restored, input, kept, left>>
      PROVE  Safe'
  <2> DEFINE rest == IF u = Nothing THEN personal ELSE WithPhase(personal, u, "none")
  <2>1. /\ personal' = WithPhase(rest, t, "holding") /\ disk' = personal'
        /\ restored' = [restored EXCEPT ![scope] = Nothing] /\ input' = Nothing
        /\ kept' = kept \cup {t} /\ Touched(t)
    BY <1>4 DEF HoldDraft, Saved, Unsaved
  <2>2. \A v \in Texts :
          /\ personal'.holds[v] = IF v = t THEN "holding" ELSE
                                  IF v = u THEN "none" ELSE personal.holds[v]
          /\ disk'.holds[v] = personal'.holds[v]
    <3>1. "none" \in Phases /\ "holding" \in Phases
      BY DEF Phases
    <3>2. /\ rest \in Docs
          /\ \A v \in Texts : rest.holds[v] = IF v = u THEN "none" ELSE personal.holds[v]
      <4>1. CASE u = Nothing
        BY <1>0, <4>1
      <4>2. CASE u \in Texts
        BY <1>0, <3>1, <4>2, WithPhaseFacts
      <4> QED
        BY <1>1, <4>1, <4>2
    <3> HIDE DEF rest, t, u
    <3>3. \A v \in Texts :
            WithPhase(rest, t, "holding").holds[v] =
              IF v = t THEN "holding" ELSE rest.holds[v]
      BY <1>1, <3>1, <3>2, WithPhaseFacts
    <3> QED
      BY <2>1, <3>2, <3>3
  <2>3. /\ \A s \in Scopes : Text(s)' = IF s = scope THEN Nothing ELSE Text(s)
        /\ \A s \in Scopes : restored'[s] = IF s = scope THEN Nothing ELSE restored[s]
        /\ \A v \in Texts : left'[v] = IF v = t THEN "never" ELSE left[v]
    BY <1>0, <1>2, <2>1 DEF Text, Touched
  <2>4. \A s \in Scopes : s # scope => Text(s) # t
    BY <1>1, <1>0 DEF Inv, Safe, Placed
  <2> HIDE DEF t, u
  <2>5. Placed'
    <3>1. drafts'[scope'] = Nothing
      BY <1>2 DEF Inv, Safe, Placed
    <3>2. \A s \in Scopes :
            /\ Text(s)' # Nothing => home'[Text(s)'] = s
            /\ restored'[s] # Nothing => Text(s)' = restored'[s] \/ restored'[s] \in gone'
      BY <1>2, <2>3 DEF Inv, Safe, Placed
    <3>3. \A v \in Texts : home[v] = Nothing =>
            personal.holds[v] = "none" /\ outbox[v] = <<>> /\ v # t
      BY <1>0, <1>1 DEF Inv, Safe, Placed
    <3> QED
      BY <1>1, <1>2, <2>2, <3>1, <3>2, <3>3 DEF Placed
  <2>6. Agree' /\ Copies'
    <3>1. Agree'
      BY <1>1, <2>2 DEF Agree
    <3>2. Copies'
      BY <1>0, <2>2, <2>3, <2>4 DEF Inv, Safe, Copies
    <3> QED
      BY <3>1, <3>2
  <2>7. Looping'
    BY <1>1, <2>2, NothingSubmitted DEF Looping
  <2>8. NeverAgain'
    <3>1. t \notin warned => outbox[t] = <<>>
      BY <1>0, <1>1 DEF Inv, Safe, NeverAgain
    <3> QED
      BY <1>0, <1>1, <1>2, <2>2, <2>3, <3>1 DEF Inv, Safe, NeverAgain
  <2>9. AtHome'
    BY <1>2 DEF Inv, Safe, AtHome
  <2>10. HoldsSurvive'
    <3>1. u \in Texts => u = t \/ u \in gone
      BY <1>0, <1>1 DEF Inv, Safe, Placed, u
    <3>2. \A v \in Texts : personal.holds[v] = "none" => disk.holds[v] = "none"
      BY <1>1 DEF Inv, Safe, Agree
    <3> QED
      BY <1>0, <1>1, <1>2, <2>1, <2>2, <3>1, <3>2 DEF Inv, Safe, HoldsSurvive
  <2>11. Away'
    BY <2>2, <2>3 DEF Inv, Safe, Away
  <2> QED
    BY <2>5, <2>6, <2>7, <2>8, <2>9, <2>10, <2>11 DEF Safe
<1> QED
  BY <1>3, <1>4

\* A hold goes back to the composer, or is discarded: its copy stays until then.
LEMMA RestoreStep ==
  ASSUME Inv, Typed', NEW t \in Texts, RestoreHold(t)
  PROVE  Safe'
<1>0. /\ personal \in Docs /\ disk \in Docs /\ scope \in Scopes /\ kept \subseteq Texts
      /\ restored \in [Scopes -> Texts \cup {Nothing}]
      /\ left \in [Texts -> {"never", "seen", "missed"}]
      /\ \A s \in Scopes : Text(s) \in Texts \cup {Nothing}
      /\ Nothing \notin Texts \cup Scopes
  BY ComposerAssumption DEF Inv, Typed, TypeOK, Docs, Text
<1> DEFINE h == home[t]
<1>1. /\ loop.at = "event" /\ loop'.at = "turn"
      /\ personal.holds[t] # "none" /\ h \in Scopes /\ Text(h) = Nothing
      /\ UNCHANGED <<outbox, home, kept, gone>>
  BY DEF RestoreHold, Key, Read, At, Text, Inv, Safe, Placed, Typed, TypeOK
<1> HIDE DEF h
<1>2. CASE UNCHANGED <<disk, personal, composer, warned, left>>
  BY <1>1, <1>2, PlainStep DEF Between
<1>3. ASSUME ~UNCHANGED <<disk, personal, composer, warned, left>>
      PROVE  Safe'
  <2>1. /\ personal' = WithPhase(personal, t, "draft") /\ disk' = personal'
        /\ restored' = [restored EXCEPT ![h] = t]
        /\ warned \subseteq warned'
        /\ personal.holds[t] = "uncertain" => t \in warned'
        /\ Touched(t)
    BY <1>3 DEF RestoreHold, Saved, Unsaved, h
  <2>2. "draft" \in Phases
    BY DEF Phases
  <2>3. \A v \in Texts :
          /\ personal'.holds[v] = IF v = t THEN "draft" ELSE personal.holds[v]
          /\ disk'.holds[v] = personal'.holds[v]
    BY <1>0, <2>1, <2>2, WithPhaseFacts
  <2>4. /\ drafts'[scope'] = Nothing
        /\ \A s \in Scopes : Text(s)' = IF s = h THEN t ELSE Text(s)
    BY <1>1, <1>3, SyncFacts DEF RestoreHold, Unsaved, Inv, h
  <2>5. /\ \A s \in Scopes : restored'[s] = IF s = h THEN t ELSE restored[s]
        /\ \A v \in Texts : left'[v] = IF v = t THEN "never" ELSE left[v]
    BY <1>0, <2>1 DEF Touched
  <2>6. \A s \in Scopes : s # h => Text(s) # t
    BY <1>0, <1>1 DEF Inv, Safe, Placed, h
  <2>7. Placed'
    <3>1. \A s \in Scopes :
            /\ Text(s)' # Nothing => home'[Text(s)'] = s
            /\ restored'[s] # Nothing => Text(s)' = restored'[s] \/ restored'[s] \in gone'
      BY <1>1, <2>4, <2>5 DEF Inv, Safe, Placed, h
    <3>2. \A v \in Texts : home[v] = Nothing =>
            personal.holds[v] = "none" /\ outbox[v] = <<>> /\ v # t
      BY <1>0, <1>1 DEF Inv, Safe, Placed
    <3> QED
      BY <1>1, <2>3, <2>4, <3>1, <3>2 DEF Placed
  <2>8. Agree'
    BY <1>1, <2>3 DEF Agree
  <2>9. Copies'
    BY <1>0, <2>3, <2>4, <2>5, <2>6 DEF Inv, Safe, Copies
  <2>10. Looping'
    BY <1>1, <2>3, NothingSubmitted DEF Looping
  <2>11. NeverAgain'
    <3>1. t \notin warned' => outbox[t] = <<>>
      BY <1>1, <2>1, NothingSubmitted DEF Inv, Safe, NeverAgain
    <3> QED
      BY <1>0, <1>1, <2>1, <2>3, <2>4, <3>1 DEF Inv, Safe, NeverAgain
  <2>12. AtHome'
    BY <1>1 DEF Inv, Safe, AtHome
  <2>13. HoldsSurvive'
    <3>1. \A v \in Texts : personal.holds[v] = "none" => disk.holds[v] = "none"
      BY <1>1 DEF Inv, Safe, Agree
    <3> QED
      BY <1>0, <1>1, <2>3, <3>1 DEF Inv, Safe, HoldsSurvive
  <2>14. Away'
    BY <2>3, <2>5 DEF Inv, Safe, Away
  <2> QED
    BY <2>7, <2>8, <2>9, <2>10, <2>11, <2>12, <2>13, <2>14 DEF Safe
<1> QED
  BY <1>2, <1>3

\* A hold is discarded, or the time to take it back is changed.
LEMMA DiscardOrSetStep ==
  ASSUME Inv, Typed', SetUndo \/ \E t \in Texts : DiscardHold(t)
  PROVE  Safe'
<1>0. /\ personal \in Docs /\ disk \in Docs /\ kept \subseteq Texts
      /\ \A s \in Scopes : Text(s) \in Texts \cup {Nothing}
  BY DEF Inv, Typed, TypeOK, Docs, Text
<1>1. /\ loop.at = "event" /\ loop'.at = "turn"
      /\ UNCHANGED <<composer, outbox, home, kept, warned, left>>
      /\ gone \subseteq gone'
  <2>1. CASE SetUndo
    BY <2>1 DEF SetUndo, Key, Read, At, ghosts
  <2>2. ASSUME NEW t \in Texts, DiscardHold(t)
        PROVE  /\ loop.at = "event" /\ loop'.at = "turn"
               /\ UNCHANGED <<composer, outbox, home, kept, warned, left>>
               /\ gone \subseteq gone'
    BY <2>2 DEF DiscardHold, Key, Read, At
  <2> QED
    BY <2>1, <2>2
<1>2. CASE UNCHANGED <<disk, personal, gone>>
  BY <1>1, <1>2, PlainStep DEF Between
<1>3. ASSUME NEW out \in SUBSET Texts, out \subseteq gone', disk' = personal',
             \A v \in Texts :
               personal'.holds[v] = IF v \in out THEN "none" ELSE personal.holds[v]
      PROVE  Safe'
  <2>1. \A v \in Texts : disk'.holds[v] = personal'.holds[v]
    BY <1>3
  <2>2. \A s : Text(s)' = Text(s)
    BY <1>1 DEF Text, composer
  <2>3. Placed'
    BY <1>1, <1>3, <2>1, <2>2 DEF Inv, Safe, Placed, composer
  <2>4. Agree' /\ Copies'
    <3>1. Agree'
      BY <1>1, <2>1 DEF Agree
    <3>2. Copies'
      BY <1>0, <1>1, <1>3, <2>1, <2>2 DEF Inv, Safe, Copies, composer
    <3> QED
      BY <3>1, <3>2
  <2>5. Looping'
    BY <1>1, <1>3, NothingSubmitted DEF Looping
  <2>6. NeverAgain'
    BY <1>1, <1>3, <2>1, <2>2, NothingSubmitted DEF Inv, Safe, NeverAgain
  <2>7. HoldsSurvive'
    <3>1. \A v \in Texts : personal.holds[v] = "none" => disk.holds[v] = "none"
      BY <1>1 DEF Inv, Safe, Agree
    <3> QED
      BY <1>0, <1>1, <1>3, <2>1, <3>1 DEF Inv, Safe, HoldsSurvive
  <2>8. AtHome' /\ Away'
    BY <1>1, <1>3 DEF Inv, Safe, AtHome, Away
  <2> QED
    BY <2>3, <2>4, <2>5, <2>6, <2>7, <2>8 DEF Safe
<1>4. CASE SetUndo
  <2>1. CASE personal' = [personal EXCEPT !.undo = ~personal.undo] /\ disk' = personal'
    <3>1. personal'.holds = personal.holds
      BY <1>0, <2>1 DEF Docs
    <3>2. \A v \in Texts :
            personal'.holds[v] = IF v \in {} THEN "none" ELSE personal.holds[v]
      BY <3>1
    <3>3. {} \in SUBSET Texts /\ {} \subseteq gone'
      OBVIOUS
    <3> QED
      BY <1>3, <2>1, <3>2, <3>3
  <2> QED
    BY <1>2, <1>4, <2>1 DEF SetUndo, Saved, Unsaved, ghosts
<1>5. ASSUME NEW t \in Texts, DiscardHold(t)
      PROVE  Safe'
  <2>1. CASE personal' = WithPhase(personal, t, "none") /\ disk' = personal' /\ t \in gone'
    <3>1. "none" \in Phases
      BY DEF Phases
    <3>2. \A v \in Texts :
            personal'.holds[v] = IF v \in {t} THEN "none" ELSE personal.holds[v]
      BY <1>0, <2>1, <3>1, WithPhaseFacts
    <3> QED
      BY <1>3, <2>1, <3>2
  <2> QED
    BY <1>2, <1>5, <2>1 DEF DiscardHold, Saved, Unsaved
<1> QED
  BY <1>4, <1>5

-----------------------------------------------------------------------------
(* A text is handed over.                                                  *)

\* A text that is sent at once was not sent before, unless the user was warned.
LEMMA SendNowStep ==
  ASSUME Inv, SendDraft, ~HoldDraft
  PROVE  Safe'
<1>1. /\ loop.at = "event" /\ loop'.at = "send" /\ loop'.text = input
      /\ input # Nothing /\ restored[scope] = Nothing
      /\ UNCHANGED <<disk, personal, composer, outbox, home, kept, gone, warned, left>>
  BY DEF SendDraft, Key, Read, At, docs, ghosts
<1>2. \A s : Text(s)' = Text(s)
  BY <1>1 DEF Text, composer
<1>3. Placed' /\ Agree' /\ Copies'
  <2>1. Placed'
    BY <1>1, <1>2 DEF Placed, Inv, Safe, composer
  <2>2. Agree'
    BY <1>1 DEF Agree, Inv, Safe
  <2>3. Copies'
    BY <1>1, <1>2 DEF Copies, Inv, Safe, composer
  <2> QED
    BY <2>1, <2>2, <2>3
<1>4. Looping'
  BY <1>1, NothingSubmitted DEF Looping, composer
<1>5. NeverAgain'
  BY <1>1, <1>2, NothingSubmitted DEF NeverAgain, Inv, Safe
<1>6. AtHome' /\ HoldsSurvive' /\ Away'
  BY <1>1 DEF AtHome, HoldsSurvive, Away, Inv, Safe
<1> QED
  BY <1>3, <1>4, <1>5, <1>6 DEF Safe

\* The message is appended to what was handed over before.
LEMMA QueuedFacts ==
  ASSUME outbox \in [Texts -> Seq(Scopes)], NEW t \in Texts, NEW s \in Scopes,
         outbox' = Queued(t, s)
  PROVE  /\ \A u \in Texts : u # t => outbox'[u] = outbox[u]
         /\ outbox'[t] # <<>>
         /\ outbox[t] = <<>> => Len(outbox'[t]) = 1
         /\ (\A i \in 1 .. Len(outbox[t]) : outbox[t][i] = s) =>
              \A i \in 1 .. Len(outbox'[t]) : outbox'[t][i] = s
<1>1. /\ outbox' = [outbox EXCEPT ![t] =
           IF Len(outbox[t]) < 2 THEN Append(outbox[t], s) ELSE outbox[t]]
      /\ outbox[t] \in Seq(Scopes)
  BY DEF Queued
<1>2. /\ \A u \in Texts : u # t => outbox'[u] = outbox[u]
      /\ outbox'[t] = IF Len(outbox[t]) < 2 THEN Append(outbox[t], s) ELSE outbox[t]
  BY <1>1
<1>3. CASE Len(outbox[t]) < 2
  BY <1>1, <1>2, <1>3
<1>4. CASE ~(Len(outbox[t]) < 2)
  BY <1>1, <1>2, <1>4
<1> QED
  BY <1>3, <1>4

\* A message reaches the outbox in the scope its text was typed in.
LEMMA ExecuteStep ==
  ASSUME Inv, Typed', Execute
  PROVE  Safe'
<1> DEFINE t == loop.text
<1>0. /\ outbox \in [Texts -> Seq(Scopes)] /\ home \in [Texts -> Scopes \cup {Nothing}]
      /\ \A s \in Scopes : Text(s) \in Texts \cup {Nothing}
      /\ scope \in Scopes /\ input \in Texts \cup {Nothing} /\ kept \subseteq Texts
      /\ Nothing \notin Texts \cup Scopes
      /\ loop \in Loops
  BY ComposerAssumption DEF Inv, Typed, TypeOK, Text, Loops
<1>1. /\ UNCHANGED <<disk, personal, composer, home, kept, gone, warned, left>>
      /\ loop.at \in {"send", "submit"}
  BY DEF Execute, docs, ghosts
<1>2. /\ loop'.text = t
      /\ loop.at = "send" => loop'.at \in {"sent", "unsent"}
      /\ loop.at = "submit" => loop'.at \in {"settle", "unsettled"}
      /\ outbox' = outbox \/ outbox' = Queued(t, Target)
      /\ loop'.at = "settle" => outbox' = Queued(t, Target)
  <2>1. PICK answer \in {"ok", "refused", "failed"} :
          /\ outbox' = IF answer = "refused" THEN outbox ELSE Queued(t, Target)
          /\ loop' = [loop EXCEPT !.at =
                        CASE loop.at = "send"   -> (IF answer = "ok" THEN "sent"
                                                    ELSE "unsent")
                          [] loop.at = "submit" -> (IF answer = "ok" THEN "settle"
                                                    ELSE "unsettled")]
    BY DEF Execute
  <2>2. /\ loop'.text = t
        /\ loop'.at = CASE loop.at = "send"   -> (IF answer = "ok" THEN "sent"
                                                  ELSE "unsent")
                        [] loop.at = "submit" -> (IF answer = "ok" THEN "settle"
                                                  ELSE "unsettled")
    BY <1>0, <2>1 DEF Loops
  <2> QED
    BY <1>1, <2>1, <2>2
<1>3. t \in Texts /\ Target \in Scopes /\ Target = home[t]
  <2>1. CASE loop.at = "send"
    BY <1>0, <2>1 DEF Inv, Safe, Looping, Placed, Target, Text
  <2>2. CASE loop.at = "submit"
    BY <1>0, <2>2 DEF Inv, Safe, Looping, Placed, Target
  <2> QED
    BY <1>1, <2>1, <2>2
<1>4. \A s : Text(s)' = Text(s)
  BY <1>1 DEF Text, composer
<1> HIDE DEF t
<1>5. /\ \A u \in Texts : u # t => outbox'[u] = outbox[u]
      /\ outbox[t] # <<>> => outbox'[t] # <<>>
      /\ loop'.at = "settle" => outbox'[t] # <<>>
      /\ outbox[t] = <<>> => outbox'[t] = <<>> \/ Len(outbox'[t]) = 1
      /\ \A i \in 1 .. Len(outbox'[t]) : outbox'[t][i] = home[t]
  <2>1. \A i \in 1 .. Len(outbox[t]) : outbox[t][i] = home[t]
    BY <1>3 DEF Inv, Safe, AtHome
  <2>2. CASE outbox' = outbox /\ loop'.at # "settle"
    BY <2>1, <2>2
  <2>3. CASE outbox' = Queued(t, Target)
    BY <1>0, <1>3, <2>1, <2>3, QueuedFacts
  <2> QED
    BY <1>2, <2>2, <2>3
<1>6. t \in warned \/ outbox[t] = <<>>
  <2>1. CASE loop.at = "send"
    <3>1. scope \in Scopes /\ Text(scope) = t
      BY <1>0, <2>1 DEF Inv, Safe, Looping, Text, t
    <3> QED
      BY <1>3, <2>1, <3>1 DEF Inv, Safe, NeverAgain
  <2>2. CASE loop.at = "submit"
    <3>1. personal.holds[t] = "submitting"
      BY <2>2 DEF Inv, Safe, Looping, t
    <3> QED
      BY <1>3, <2>2, <3>1 DEF Inv, Safe, NeverAgain
  <2> QED
    BY <1>1, <2>1, <2>2
<1>7. /\ loop.at = "send" => personal.holds[t] = "none" /\ disk.holds[t] = "none"
      /\ loop.at = "submit" => /\ personal.holds[t] = "submitting"
                               /\ disk.holds[t] = "submitting"
                               /\ \A s \in Scopes : Text(s) # t
  <2>1. ASSUME loop.at = "send"
        PROVE  personal.holds[t] = "none" /\ disk.holds[t] = "none"
    BY <1>0, <2>1 DEF Inv, Safe, Looping, Copies, Text, t
  <2>2. ASSUME loop.at = "submit"
        PROVE  /\ personal.holds[t] = "submitting" /\ disk.holds[t] = "submitting"
               /\ \A s \in Scopes : Text(s) # t
    <3>1. personal.holds[t] = "submitting"
      BY <2>2 DEF Inv, Safe, Looping, t
    <3>2. disk.holds[t] = "submitting"
      BY <1>3, <2>2, <3>1 DEF Inv, Safe, Agree
    <3>3. \A s \in Scopes : Text(s) # t
      BY <1>0, <1>3, <3>1 DEF Inv, Safe, Copies
    <3> QED
      BY <3>1, <3>2, <3>3
  <2> QED
    BY <2>1, <2>2
<1>8. Placed'
  <2>1. \A u \in Texts : home[u] = Nothing => u # t
    BY <1>0, <1>3
  <2> QED
    BY <1>1, <1>2, <1>4, <1>5, <2>1 DEF Placed, Inv, Safe, composer
<1>9. Agree' /\ Copies'
  <2>1. Agree'
    BY <1>1, <1>2 DEF Agree, Inv, Safe
  <2>2. Copies'
    BY <1>1, <1>4 DEF Copies, Inv, Safe, composer
  <2> QED
    BY <2>1, <2>2
<1>10. Looping'
  BY <1>1, <1>2, <1>3, <1>5 DEF Looping, Inv, Safe, composer, t
<1>11. NeverAgain'
  <2> SUFFICES ASSUME NEW u \in Texts \ warned', outbox'[u] # <<>>
               PROVE  /\ Len(outbox'[u]) = 1
                      /\ {disk'.holds[u], personal'.holds[u]}
                           \subseteq {"none", "uncertain", "submitting"}
                      /\ personal'.holds[u] = "submitting" => loop'.at # "submit"
                      /\ \A s \in Scopes : Text(s)' = u =>
                           loop'.at \in {"sent", "unsent"} /\ s = scope'
    BY DEF NeverAgain
  <2>1. CASE u = t
    <3>1. \A s \in Scopes : loop.at = "send" /\ Text(s) = t => s = scope
      BY <1>0, <1>3 DEF Inv, Safe, Placed, Looping, Text, t
    <3> QED
      BY <1>1, <1>2, <1>4, <1>5, <1>6, <1>7, <2>1, <3>1 DEF composer
  <2>2. CASE u # t
    <3>1. /\ Len(outbox[u]) = 1
          /\ {disk.holds[u], personal.holds[u]} \subseteq {"none", "uncertain", "submitting"}
          /\ \A s \in Scopes : Text(s) # u
      BY <1>1, <1>5, <2>2 DEF Inv, Safe, NeverAgain
    <3> QED
      BY <1>1, <1>2, <1>4, <1>5, <2>2, <3>1
  <2> QED
    BY <2>1, <2>2
<1>12. AtHome'
  BY <1>1, <1>5 DEF AtHome, Inv, Safe
<1>13. HoldsSurvive' /\ Away'
  <2>1. \A u \in Texts : outbox[u] # <<>> => outbox'[u] # <<>>
    BY <1>5
  <2> QED
    BY <1>0, <1>1, <2>1 DEF HoldsSurvive, Away, Inv, Safe
<1> QED
  BY <1>8, <1>9, <1>10, <1>11, <1>12, <1>13 DEF Safe

\* The answer empties the composer, or tells the user.
LEMMA AnsweredStep ==
  ASSUME Inv, Answered
  PROVE  Safe'
<1> DEFINE t == input
<1>0. /\ \A s \in Scopes : Text(s) \in Texts \cup {Nothing}
      /\ scope \in Scopes /\ Nothing \notin Texts \cup Scopes
  BY ComposerAssumption DEF Inv, Typed, TypeOK, Text
<1>1. /\ UNCHANGED <<disk, personal, scope, drafts, restored, outbox, home, kept, gone, left>>
      /\ loop.at \in {"sent", "unsent"} /\ loop'.at = "turn"
      /\ t \in Texts /\ Text(scope) = t /\ home[t] = scope /\ restored[scope] = Nothing
      /\ warned \subseteq warned'
      /\ IF loop.at = "sent" THEN input' = Nothing ELSE input' = input /\ t \in warned'
  BY <1>0 DEF Answered, docs, At, Text, Inv, Safe, Looping, Placed
<1>2. \A s \in Scopes : Text(s)' = IF s = scope THEN input' ELSE Text(s)
  BY <1>1 DEF Text
<1> HIDE DEF t
<1>3. \A s \in Scopes : Text(s)' \in {Nothing, Text(s)}
  BY <1>1, <1>2 DEF t
<1>4. Placed'
  <2>1. \A s \in Scopes : restored'[s] # Nothing => s # scope /\ restored'[s] = restored[s]
    BY <1>1
  <2> QED
    BY <1>1, <1>2, <1>3, <2>1 DEF Placed, Inv, Safe
<1>5. Agree' /\ Copies'
  <2>1. Agree'
    BY <1>1 DEF Agree, Inv, Safe
  <2>2. Copies'
    BY <1>1, <1>3 DEF Copies, Inv, Safe
  <2> QED
    BY <2>1, <2>2
<1>6. Looping'
  BY <1>1, NothingSubmitted DEF Looping
<1>7. NeverAgain'
  <2>1. \A s \in Scopes : Text(s)' = t => t \in warned'
    <3>1. \A s \in Scopes : s # scope => Text(s) # t
      BY <1>0, <1>1 DEF Inv, Safe, Placed
    <3> QED
      BY <1>0, <1>1, <1>2, <3>1
  <2>2. \A u \in Texts \ warned : outbox[u] # <<>> =>
          \A s \in Scopes : Text(s) = u => u = t
    BY <1>1 DEF Inv, Safe, NeverAgain
  <2>3. \A u \in Texts \ warned' : outbox'[u] # <<>> =>
          \A s \in Scopes : Text(s)' # u
    BY <1>0, <1>1, <1>3, <2>1, <2>2
  <2> QED
    BY <1>1, <2>3, NothingSubmitted DEF NeverAgain, Inv, Safe
<1>8. AtHome' /\ HoldsSurvive' /\ Away'
  BY <1>1 DEF AtHome, HoldsSurvive, Away, Inv, Safe
<1> QED
  BY <1>4, <1>5, <1>6, <1>7, <1>8 DEF Safe

-----------------------------------------------------------------------------
(* A hold is sent.                                                         *)

\* The mark is on the disk before the send; a hold that was recovered in the
\* meantime is passed over.
LEMMA SubmitStep ==
  ASSUME Inv, Typed', SubmitHold
  PROVE  Safe'
<1>0. /\ personal \in Docs /\ disk \in Docs /\ loop.due \subseteq Texts /\ kept \subseteq Texts
      /\ \A s \in Scopes : Text(s) \in Texts \cup {Nothing}
      /\ "submitting" \in Phases
  BY DEF Inv, Typed, TypeOK, Docs, Text, Phases
<1>1. /\ loop.at = "advance"
      /\ UNCHANGED <<composer, outbox, home, kept, gone, warned, left>>
  BY DEF SubmitHold, ghosts
<1>2. \A due : Rest(due).at \in Between
  BY DEF Rest, At, Between
<1>3. PICK t \in loop.due :
        \/ /\ personal.holds[t] = "holding"
           /\ Saved(WithPhase(personal, t, "submitting"))
           /\ loop' = [at |-> "submit", text |-> t, due |-> loop.due \ {t}]
        \/ /\ loop' = Rest(loop.due \ {t})
           /\ personal' = Recover(personal)
           /\ disk' \in {disk, Recover(personal)}
        \/ loop' = Rest(loop.due \ {t}) /\ UNCHANGED <<disk, personal>>
  BY DEF SubmitHold
<1>4. CASE /\ personal.holds[t] = "holding"
           /\ Saved(WithPhase(personal, t, "submitting"))
           /\ loop' = [at |-> "submit", text |-> t, due |-> loop.due \ {t}]
  <2>1. /\ \A v \in Texts :
             /\ personal'.holds[v] = IF v = t THEN "submitting" ELSE personal.holds[v]
             /\ disk'.holds[v] = personal'.holds[v]
        /\ loop'.at = "submit" /\ loop'.text = t /\ t \in Texts
    BY <1>0, <1>4, WithPhaseFacts DEF Saved
  <2>2. \A s : Text(s)' = Text(s)
    BY <1>1 DEF Text, composer
  <2>3. \A s \in Scopes : Text(s) # t
    BY <1>0, <1>4, <2>1, ComposerAssumption DEF Inv, Safe, Copies
  <2>4. \A v \in Texts : personal.holds[v] = "none" => disk.holds[v] = "none"
    BY <1>1 DEF Inv, Safe, Agree
  <2>5. Placed'
    BY <1>1, <1>4, <2>1, <2>2 DEF Inv, Safe, Placed, composer
  <2>6. Agree' /\ Copies'
    <3>1. Agree'
      BY <2>1 DEF Agree
    <3>2. Copies'
      BY <1>0, <1>1, <2>1, <2>2, <2>3 DEF Copies, Inv, Safe, composer
    <3> QED
      BY <3>1, <3>2
  <2>7. Looping'
    BY <1>1, <2>1, NothingSubmitted DEF Looping
  <2>8. NeverAgain'
    <3>1. t \notin warned => outbox[t] = <<>>
      BY <1>4, <2>1 DEF Inv, Safe, NeverAgain
    <3> QED
      BY <1>1, <2>1, <2>2, <3>1, NothingSubmitted DEF NeverAgain, Inv, Safe
  <2>9. HoldsSurvive'
    BY <1>0, <1>1, <2>1, <2>4 DEF HoldsSurvive, Inv, Safe
  <2>10. AtHome' /\ Away'
    BY <1>1, <1>4, <2>1 DEF AtHome, Away, Inv, Safe
  <2> QED
    BY <2>5, <2>6, <2>7, <2>8, <2>9, <2>10 DEF Safe
<1>5. CASE /\ loop' = Rest(loop.due \ {t})
           /\ personal' = Recover(personal)
           /\ disk' \in {disk, Recover(personal)}
  <2>1. Suspended
    BY <1>0, <1>5, RecoverFacts DEF Suspended
  <2> QED
    BY <1>1, <1>2, <1>5, <2>1, RecoveryStep DEF Between
<1>6. CASE loop' = Rest(loop.due \ {t}) /\ UNCHANGED <<disk, personal>>
  BY <1>1, <1>2, <1>6, PlainStep DEF Between
<1> QED
  BY <1>3, <1>4, <1>5, <1>6

\* After the send the hold is gone, or uncertain and the user is told.
LEMMA SettleStep ==
  ASSUME Inv, Typed', SettleHold
  PROVE  Safe'
<1> DEFINE t == loop.text
<1>0. /\ personal \in Docs /\ disk \in Docs /\ kept \subseteq Texts
      /\ \A s \in Scopes : Text(s) \in Texts \cup {Nothing}
      /\ "none" \in Phases /\ "uncertain" \in Phases
  BY DEF Inv, Typed, TypeOK, Docs, Text, Phases
<1>1. /\ loop.at \in {"settle", "unsettled"} /\ loop'.at \in {"event", "advance"}
      /\ UNCHANGED <<composer, outbox, home, kept, gone, left>>
      /\ t \in Texts /\ personal.holds[t] = "submitting" /\ disk.holds[t] = "submitting"
      /\ warned \subseteq warned'
  <2>1. t \in Texts /\ personal.holds[t] = "submitting" /\ loop.at \in {"settle", "unsettled"}
    BY DEF SettleHold, Inv, Safe, Looping
  <2>2. disk.holds[t] = "submitting"
    BY <2>1 DEF Inv, Safe, Agree
  <2>3. loop'.at \in {"event", "advance"}
    BY DEF SettleHold, Rest, At
  <2> QED
    BY <2>1, <2>2, <2>3 DEF SettleHold
<1>2. \E p \in {"none", "uncertain"} :
        /\ \A v \in Texts : personal'.holds[v] = IF v = t THEN p ELSE personal.holds[v]
        /\ \/ \A v \in Texts : disk'.holds[v] = personal'.holds[v]
           \/ p = "uncertain" /\ \A v \in Texts : disk'.holds[v] = disk.holds[v]
        /\ p = "none" => loop.at = "settle"
        /\ p = "uncertain" => t \in warned'
  <2>1. \/ /\ Saved(WithPhase(personal, t, "none")) /\ loop.at = "settle"
        \/ /\ Saved(WithPhase(personal, t, "uncertain")) /\ t \in warned'
        \/ /\ personal' = WithPhase(personal, t, "uncertain") /\ t \in warned'
           /\ disk' = disk
    BY <1>1 DEF SettleHold
  <2>2. \A p \in {"none", "uncertain"}, v \in Texts :
          WithPhase(personal, t, p).holds[v] = IF v = t THEN p ELSE personal.holds[v]
    BY <1>0, <1>1, WithPhaseFacts
  <2> QED
    BY <2>1, <2>2 DEF Saved
<1> HIDE DEF t
<1>3. PICK p \in {"none", "uncertain"} :
        /\ \A v \in Texts : personal'.holds[v] = IF v = t THEN p ELSE personal.holds[v]
        /\ \/ \A v \in Texts : disk'.holds[v] = personal'.holds[v]
           \/ p = "uncertain" /\ \A v \in Texts : disk'.holds[v] = disk.holds[v]
        /\ p = "none" => loop.at = "settle"
        /\ p = "uncertain" => t \in warned'
  BY <1>2
<1>4. /\ \A s : Text(s)' = Text(s)
      /\ \A s \in Scopes : Text(s) # t
  BY <1>0, <1>1, ComposerAssumption DEF Text, composer, Inv, Safe, Copies
<1>5. \A v \in Texts :
        /\ personal'.holds[v] # "submitting"
        /\ v # t => personal.holds[v] # "submitting"
        /\ v # t => \/ disk'.holds[v] = disk.holds[v]
                    \/ disk'.holds[v] = personal.holds[v]
        /\ v # t => personal'.holds[v] = personal.holds[v]
        /\ \/ personal'.holds[v] = disk'.holds[v]
           \/ personal'.holds[v] = "draft" /\ disk'.holds[v] = "holding"
           \/ personal'.holds[v] = "uncertain" /\ disk'.holds[v] = "submitting"
  BY <1>1, <1>3 DEF Inv, Safe, Agree, Looping, t
<1>6. Placed'
  <2>1. home[t] # Nothing
    BY <1>1 DEF Inv, Safe, Placed
  <2> QED
    BY <1>1, <1>4, <1>5, <2>1 DEF Inv, Safe, Placed, composer
<1>7. Agree' /\ Copies'
  <2>1. Agree'
    BY <1>1, <1>5 DEF Agree
  <2>2. Copies'
    BY <1>0, <1>1, <1>4, <1>5 DEF Inv, Safe, Copies, composer
  <2> QED
    BY <2>1, <2>2
<1>8. Looping'
  BY <1>1, <1>5 DEF Looping
<1>9. NeverAgain'
  <2>1. \A u \in Texts \ warned' : outbox[u] # <<>> =>
          {disk'.holds[u], personal'.holds[u]} \subseteq {"none", "uncertain", "submitting"}
    BY <1>1, <1>3, <1>5 DEF Inv, Safe, NeverAgain
  <2> QED
    BY <1>1, <1>4, <1>5, <2>1 DEF Inv, Safe, NeverAgain
<1>10. HoldsSurvive'
  <2>1. ASSUME NEW v \in kept, disk'.holds[v] = "none"
        PROVE  disk.holds[v] = "none" \/ outbox[v] # <<>>
    <3>1. CASE v = t
      <4>1. p = "none"
        BY <1>0, <1>1, <1>3, <2>1, <3>1
      <4> QED
        BY <1>3, <3>1, <4>1 DEF Inv, Safe, Looping, t
    <3>2. CASE v # t
      BY <1>0, <1>1, <1>5, <2>1, <3>2 DEF Inv, Safe, Agree
    <3> QED
      BY <3>1, <3>2
  <2> QED
    BY <1>1, <2>1 DEF HoldsSurvive, Inv, Safe
<1>11. AtHome' /\ Away'
  BY <1>1, <1>3, <1>5 DEF AtHome, Away, Inv, Safe
<1> QED
  BY <1>6, <1>7, <1>8, <1>9, <1>10, <1>11 DEF Safe

-----------------------------------------------------------------------------
(* The program ends and starts, and the rest.                              *)

\* At the end only the disk and the outbox are left; a recovery of the copy is
\* on the disk or not.
LEMMA EndStep ==
  ASSUME Inv, Typed', Quit \/ Kill
  PROVE  Safe'
<1>0. /\ personal \in Docs /\ disk \in Docs /\ kept \subseteq Texts
      /\ disk' \in Docs
  BY TypedParts DEF Inv, Typed, TypeOK, Docs
<1>1. /\ UNCHANGED <<outbox, home, kept, gone, warned, left>>
      /\ Forgotten
  BY DEF Quit, Kill, Forgotten, ghosts
<1>2. /\ \A t \in Texts : personal'.holds[t] = "none"
      /\ \A s : Text(s)' \in {Nothing} \cup {drafts'[s]}
      /\ loop'.at = "off"
  BY <1>0, <1>1 DEF Forgotten, Docs, Text, At
<1>3. \A s \in Scopes : Text(s)' = Nothing /\ restored'[s] = Nothing
  BY <1>1 DEF Forgotten, Text
<1>4. \A t \in Texts :
        \/ disk'.holds[t] = disk.holds[t]
        \/ /\ loop.at \in {"event", "transfer"}
           /\ disk'.holds[t] = Recovered(personal.holds[t])
  BY <1>0, RecoverFacts DEF Quit, Kill
<1>5. \A t \in Texts :
        /\ disk.holds[t] = "none" => disk'.holds[t] = "none"
        /\ disk'.holds[t] = "none" => disk.holds[t] = "none"
  <2>1. loop.at \in {"event", "transfer"} =>
          \A t \in Texts : (personal.holds[t] = "none") <=> (disk.holds[t] = "none")
    BY DEF Inv, Safe, Agree
  <2> QED
    BY <1>4, <2>1 DEF Recovered
<1>6. Placed'
  <2>1. drafts'[scope'] = Nothing
    <3>1. scope' \in Scopes
      BY DEF Typed, TypeOK
    <3> QED
      BY <1>1, <3>1 DEF Forgotten
  <2> QED
    BY <1>1, <1>2, <1>3, <1>5, <2>1 DEF Inv, Safe, Placed
<1>7. Agree' /\ Copies' /\ Looping'
  BY <1>2, <1>3 DEF Agree, Copies, Looping
<1>8. NeverAgain'
  <2>1. \A t \in Texts \ warned : outbox[t] # <<>> =>
          disk'.holds[t] \in {"none", "uncertain", "submitting"}
    BY <1>4 DEF Inv, Safe, NeverAgain, Recovered
  <2> QED
    BY <1>1, <1>2, <1>3, <2>1, ComposerAssumption DEF Inv, Safe, NeverAgain
<1>9. AtHome' /\ HoldsSurvive' /\ Away'
  BY <1>0, <1>1, <1>2, <1>5 DEF AtHome, HoldsSurvive, Away, Inv, Safe
<1> QED
  BY <1>6, <1>7, <1>8, <1>9 DEF Safe

\* What is read at the start is recovered, and the composers are empty.
LEMMA StartStep ==
  ASSUME Inv, Typed', Start
  PROVE  Safe'
<1>0. /\ disk \in Docs /\ kept \subseteq Texts /\ First \in Scopes
      /\ \A t \in Texts : disk.holds[t] \in Phases
  BY ComposerAssumption DEF Inv, Typed, TypeOK, Docs
<1>1. /\ UNCHANGED <<disk, input, drafts, restored, outbox, home, kept, gone, warned>>
      /\ loop.at = "off" /\ loop'.at = "event" /\ scope' = First
      /\ left' = [t \in Texts |-> "never"]
  BY DEF Start, At
<1>2. \A t \in Texts : personal'.holds[t] = Recovered(disk.holds[t])
  BY <1>0, RecoverFacts DEF Start
<1>3. /\ \A s \in Scopes : Text(s)' = Nothing /\ restored'[s] = Nothing
      /\ drafts'[scope'] = Nothing
  <2>1. \A s \in Scopes : Text(s) = Nothing /\ drafts[s] = Nothing /\ restored[s] = Nothing
    BY <1>1 DEF Inv, Safe, Placed, Text
  <2>2. input = Nothing
    <3>1. scope \in Scopes
      BY DEF Inv, Typed, TypeOK
    <3> QED
      BY <2>1, <3>1 DEF Text
  <2> QED
    BY <1>0, <1>1, <2>1, <2>2 DEF Text
<1>4. Placed' /\ Agree' /\ Copies'
  <2>1. Placed'
    BY <1>1, <1>2, <1>3 DEF Inv, Safe, Placed, Recovered
  <2>2. Agree'
    BY <1>1, <1>2 DEF Agree, Recovered
  <2>3. Copies'
    BY <1>3 DEF Copies
  <2> QED
    BY <2>1, <2>2, <2>3
<1>5. Looping'
  BY <1>0, <1>1, <1>2 DEF Looping, Recovered
<1>6. NeverAgain'
  <2>1. \A t \in Texts \ warned : outbox[t] # <<>> =>
          personal'.holds[t] \in {"none", "uncertain"}
    BY <1>2 DEF Inv, Safe, NeverAgain, Recovered
  <2> QED
    BY <1>1, <1>3, <2>1, ComposerAssumption DEF Inv, Safe, NeverAgain
<1>7. AtHome' /\ HoldsSurvive' /\ Away'
  BY <1>0, <1>1 DEF AtHome, HoldsSurvive, Away, Inv, Safe
<1> QED
  BY <1>4, <1>5, <1>6, <1>7 DEF Safe

\* Every step keeps the rest of the invariant.
LEMMA SafeNext ==
  ASSUME Inv, Typed', [Next]_vars
  PROVE  Safe'
<1>1. CASE Keys
  <2>1. CASE SendDraft
    BY <2>1, HoldStep, SendNowStep
  <2>2. CASE AskForFile
    <3>1. /\ loop.at = "event" /\ loop'.at = "turn"
          /\ UNCHANGED <<disk, personal, composer, outbox, home, kept, gone, warned, left>>
      BY <2>2 DEF AskForFile, Read, At, docs, ghosts
    <3> QED
      BY <3>1, PlainStep DEF Between
  <2> QED
    BY <1>1, <2>1, <2>2, TypeStep, RestoreStep, DiscardOrSetStep, NavigateOrClear
       DEF Keys
<1>2. CASE Turn \/ LoseFocus
  <2>1. /\ loop.at \in Between /\ loop'.at \in Between
        /\ UNCHANGED <<composer, outbox, home, kept, gone, warned>>
        /\ SuspendHolds \/ UNCHANGED <<disk, personal, left>>
    <3>1. CASE Turn
      <4> DEFINE due == InPhase(personal, "holding") \cap ticked
                 place == IF due = {} THEN "event" ELSE "advance"
      <4>1. \/ loop' = [at |-> place, text |-> Nothing, due |-> due]
            \/ loop' = [at |-> "event", text |-> Nothing, due |-> {}]
        BY <3>1 DEF Turn, At
      <4> HIDE DEF due
      <4>2. loop'.at \in {"event", "advance"}
        BY <4>1
      <4> QED
        BY <3>1, <4>2 DEF Turn, Between, ghosts
    <3>2. CASE LoseFocus
      BY <3>2 DEF LoseFocus, Observed, At, Between
    <3> QED
      BY <1>2, <3>1, <3>2
  <2> QED
    BY <2>1, SuspendFacts, RecoveryStep, PlainStep DEF Inv
<1>3. CASE GainFocus \/ StartTransfer \/ EndTransfer \/ TransferFocus
  <2>1. /\ loop.at \in Between /\ loop'.at \in Between
        /\ UNCHANGED <<disk, personal, composer, outbox, home, kept, gone, warned>>
    BY <1>3 DEF GainFocus, StartTransfer, EndTransfer, TransferFocus, Observed,
       At, Between, docs, ghosts
  <2>2. \A t \in Texts : left'[t] = "seen" => left[t] = "seen"
    BY <1>3 DEF GainFocus, StartTransfer, EndTransfer, TransferFocus, Leaves, ghosts
  <2> QED
    BY <2>1, <2>2, PlainStep
<1>4. CASE UNCHANGED <<disk, personal, composer, loop, outbox, ghosts>>
  <2>1. \A s : Text(s)' = Text(s)
    BY <1>4 DEF Text, composer
  <2>2. Placed' /\ Agree' /\ Copies'
    BY <1>4, <2>1 DEF Inv, Safe, Placed, Agree, Copies, composer, ghosts
  <2>3. Looping' /\ NeverAgain' /\ AtHome' /\ HoldsSurvive' /\ Away'
    BY <1>4, <2>1 DEF Inv, Safe, Looping, NeverAgain, AtHome, HoldsSurvive, Away,
       composer, ghosts
  <2> QED
    BY <2>2, <2>3 DEF Safe
<1>5. (\E t \in Texts : Tick(t)) => UNCHANGED <<disk, personal, composer, loop, outbox, ghosts>>
  BY DEF Tick
<1>6. UNCHANGED vars => UNCHANGED <<disk, personal, composer, loop, outbox, ghosts>>
  BY DEF vars, docs
<1> QED
  BY <1>1, <1>2, <1>3, <1>4, <1>5, <1>6, ExecuteStep, AnsweredStep, SubmitStep,
     SettleStep, EndStep, StartStep DEF Next, Program

-----------------------------------------------------------------------------
(* The invariant, and what follows.                                        *)

\* The program starts with an empty document and empty composers.
LEMMA InitInv == Init => Inv
<1> SUFFICES ASSUME Init PROVE Inv
  OBVIOUS
<1>1. /\ disk \in Docs /\ personal \in Docs /\ loop \in Loops
      /\ \A t \in Texts : disk.holds[t] = "none" /\ personal.holds[t] = "none"
      /\ loop.at = "event"
  BY DEF Init, Docs, Phases, Loops, At
<1>2. /\ ComposerTyped /\ OutboxTyped /\ GhostsTyped /\ RestTyped
  <2>1. OutboxTyped
    <3>1. <<>> \in Seq(Scopes) /\ Len(<<>>) = 0
      OBVIOUS
    <3> QED
      BY <3>1 DEF Init, OutboxTyped
  <2>2. ComposerTyped /\ GhostsTyped
    BY ComposerAssumption DEF Init, ComposerTyped, GhostsTyped
  <2>3. RestTyped
    <3>1. focused \in BOOLEAN /\ file \in BOOLEAN
      BY DEF Init
    <3>2. ticked \subseteq Texts /\ faults \in 0 .. MaxFaults
      BY ComposerAssumption DEF Init
    <3> QED
      BY <3>1, <3>2 DEF RestTyped
  <2> QED
    BY <2>1, <2>2, <2>3
<1>3. Typed
  BY <1>1, <1>2, TypedParts
<1>4. \A s \in Scopes : Text(s) = Nothing /\ restored[s] = Nothing
  BY DEF Init, Text
<1>5. Placed /\ Agree /\ Copies /\ Looping
  BY <1>1, <1>4, ComposerAssumption DEF Init, Placed, Agree, Copies, Looping
<1>6. NeverAgain /\ AtHome /\ HoldsSurvive /\ Away
  BY DEF Init, NeverAgain, AtHome, HoldsSurvive, Away
<1> QED
  BY <1>3, <1>5, <1>6 DEF Inv, Safe

\* The invariant holds however writes and sends fail and the program is killed.
THEOREM Invariance == Spec => []Inv
<1>1. Init => Inv
  BY InitInv
<1>2. Inv /\ [Next]_vars => Inv'
  BY TypedNext, SafeNext DEF Inv
<1> QED
  BY <1>1, <1>2, PTL DEF Spec

\* Every variable keeps its type: no step of the loop is about a text that is
\* not there.
THEOREM TypeCorrect == Spec => []TypeOK
<1>1. Inv => TypeOK
  BY DEF Inv, Typed
<1> QED
  BY <1>1, Invariance, PTL

\* A text is handed to the outbox at most once until the user has been told
\* that its send failed or may have completed, and only where it was typed.
THEOREM SentOnce == Spec => []SentOnceWhereTyped
<1>1. Inv => SentOnceWhereTyped
  <2>1. Inv => \A t \in Texts \ warned : ~(Len(outbox[t]) > 1)
    <3> SUFFICES ASSUME Inv, NEW t \in Texts \ warned PROVE ~(Len(outbox[t]) > 1)
      OBVIOUS
    <3>1. CASE outbox[t] = <<>>
      BY <3>1
    <3>2. CASE outbox[t] # <<>>
      <4>1. Len(outbox[t]) = 1
        BY <3>2 DEF Inv, Safe, NeverAgain
      <4> QED
        BY <4>1
    <3> QED
      BY <3>1, <3>2
  <2> QED
    BY <2>1 DEF Inv, Safe, AtHome, SentOnceWhereTyped
<1> QED
  BY <1>1, Invariance, PTL

\* A text once saved as a hold is on the disk until it is handed over, or the
\* user cleared or discarded it.
THEOREM HoldsAreKept == Spec => []HoldsSurvive
<1>1. Inv => HoldsSurvive
  BY DEF Inv, Safe
<1> QED
  BY <1>1, Invariance, PTL

\* A hold whose owner left the terminal is not sent when he comes back, whether
\* the recovery could be written or not.
THEOREM NotSentWhileAway == Spec => []AwayNeverSends
<1>1. Inv => AwayNeverSends
  BY DEF Inv, Safe, Away, AwayNeverSends
<1> QED
  BY <1>1, Invariance, PTL
=============================================================================
