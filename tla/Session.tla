------------------------------ MODULE Session ------------------------------
(***************************************************************************)
(* From launch to the open app and through sign-out (apps/mutte main.rs,   *)
(* session_control.rs, the session part of the vault, the authorization    *)
(* part of the relay client), for one relay origin.                        *)
(*                                                                         *)
(* What survives a process is a handful of files, each replaced atomically *)
(* but never two of them together: the identity, the released (legacy)     *)
(* identity, one vault per device and account, the legacy vault, the       *)
(* plaintext session of the first releases, the locator of the active      *)
(* account and the sign-out intent.  A session [id, acct] is a sign-in of  *)
(* device id to account acct; None stands for an absent file or value.     *)
(* Every step of pc is one durable write or one request.                   *)
(***************************************************************************)
EXTENDS Naturals

CONSTANTS
  Accounts,   \* accounts that may approve this terminal
  None,       \* no file, no value
  MaxFaults   \* bound on crashes, lost answers, expiries, sign-outs, revocations

ASSUME SessionAssumption ==
  /\ None \notin Nat
  /\ None \notin [id : Nat, acct : Accounts]
  /\ None \notin Accounts
  /\ MaxFaults \in Nat

VARIABLES
  \* files
  identity, legacyId,        \* device ids in the scoped and the released path
  plain, legacySession,      \* sessions in session.json and the legacy vault
  files, bound,              \* scoped vaults, and those holding their session
  locator,                   \* active account of each device
  intent,                    \* session a sign-out was confirmed for
  \* process
  pc, after, leaving,        \* step, step after a rotation, is the app closed?
  dev, sess, active,         \* identity, session and active account in memory
  live,                      \* authorization not expired by the client's clock
  \* relay
  open,                      \* device with a pending authorization
  granted,                   \* approved sign-ins whose token is not collected
  linked,                    \* sign-ins whose token the relay accepts
  retired,                   \* devices the account has revoked
  link,                      \* is an unused email link out?
  \* bounds and history
  made, faults, signedOut

files_  == <<identity, legacyId, plain, legacySession, files, bound, locator, intent>>
memory  == <<after, leaving, dev, sess, active, live>>
relay   == <<open, granted, linked, retired, link>>
ghosts  == <<made, faults, signedOut>>
vars == <<files_, pc, memory, relay, ghosts>>

-----------------------------------------------------------------------------
SessionOf == [id : Nat, acct : Accounts]
LegacyDevice == 0        \* the identity a released version may have left
Step == {"off", "stuck", "adopt", "discard", "copy", "identity", "finish",
         "clearVault", "clearLegacy", "retire", "renew", "forget", "load",
         "validate", "start", "restart", "wait", "ask", "prompt", "token",
         "recover", "open", "save", "activate", "publish", "app"}
Collecting == {"wait", "prompt", "recover"}
Authorizing == Collecting \cup {"ask", "token"}

TypeOK ==
  /\ identity \in Nat \cup {None} /\ legacyId \in {LegacyDevice, None}
  /\ plain \in SessionOf \cup {None} /\ legacySession \in SessionOf \cup {None}
  /\ files \subseteq SessionOf /\ bound \subseteq files
  /\ locator \subseteq SessionOf /\ intent \in SessionOf \cup {None}
  /\ pc \in Step /\ after \in {"start", "restart", "forget"}
  /\ leaving \in BOOLEAN /\ live \in BOOLEAN /\ link \in BOOLEAN
  /\ dev \in Nat \cup {None} /\ sess \in SessionOf \cup {None}
  /\ active \in Accounts \cup {None}
  /\ open \in Nat \cup {None} /\ granted \subseteq SessionOf
  /\ linked \subseteq SessionOf /\ retired \subseteq Nat
  /\ made \in Nat /\ faults \in 0..MaxFaults /\ signedOut \subseteq Nat

\* A fresh install, or the files of a released version, whose device may have
\* been revoked meanwhile.
Init ==
  /\ \/ /\ legacyId = None /\ plain = None /\ legacySession = None
        /\ linked = {} /\ retired = {}
     \/ \E acct \in Accounts : LET s == [id |-> LegacyDevice, acct |-> acct] IN
          /\ legacyId = LegacyDevice
          /\ \/ plain = s /\ legacySession = None
             \/ plain = None /\ legacySession = s
          /\ \/ linked = {s} /\ retired = {}
             \/ linked = {} /\ retired = {LegacyDevice}
  /\ identity = None /\ files = {} /\ bound = {} /\ locator = {} /\ intent = None
  /\ pc = "off" /\ after = "start" /\ leaving = FALSE
  /\ dev = None /\ sess = None /\ active = None /\ live = FALSE
  /\ open = None /\ granted = {} /\ link = FALSE
  /\ made = LegacyDevice /\ faults = 0 /\ signedOut = {}

\* The account the locator of device i names, and the vaults bound to it.
Located(i) == {s \in locator : s.id = i}
BoundTo(i) == {s \in bound : s.id = i}
\* Device ids the relay answers a new authorization request with a conflict.
Conflicts(i) == i \in retired \/ \E s \in granted \cup linked : s.id = i
Fault == faults < MaxFaults /\ faults' = faults + 1
Go(step) == pc' = step

-----------------------------------------------------------------------------
(* Launch up to a usable identity.                                         *)

Launch ==
  /\ pc \in {"off", "stuck"}
  /\ Go("adopt") /\ leaving' = FALSE /\ dev' = None /\ sess' = None /\ active' = None
  /\ UNCHANGED <<files_, after, live, relay, ghosts>>

AdoptPlaintext ==
  /\ pc = "adopt"
  /\ IF plain = None
     THEN Go("copy") /\ UNCHANGED legacySession
     ELSE /\ legacySession' = IF legacySession = None THEN plain ELSE legacySession
          /\ Go("discard")
  /\ UNCHANGED <<identity, legacyId, plain, files, bound, locator, intent, memory, relay, ghosts>>

DiscardPlaintext ==
  /\ pc = "discard"
  /\ plain' = None
  /\ Go("copy")
  /\ UNCHANGED <<identity, legacyId, legacySession, files, bound, locator, intent, memory,
                 relay, ghosts>>

\* The released identity belongs to a session: the file may be copied.
ReleasedIsBound == legacySession # None /\ legacyId = legacySession.id

CopyReleasedIdentity ==
  /\ pc = "copy"
  /\ identity' = IF identity = None /\ ReleasedIsBound THEN legacyId ELSE identity
  /\ Go("identity")
  /\ UNCHANGED <<legacyId, plain, legacySession, files, bound, locator, intent, memory,
                 relay, ghosts>>

\* The device in the identity file, or a new one when there is no file.
LoadOrCreate ==
  /\ dev' = IF identity = None THEN made + 1 ELSE identity
  /\ made' = IF identity = None THEN made + 1 ELSE made
  /\ identity' = dev'

\* Mutant: the saved session is read before a pending sign-out is finished.
LoadIdentityUnfinished ==
  /\ pc = "identity"
  /\ LoadOrCreate
  /\ Go("load")
  /\ UNCHANGED <<legacyId, plain, legacySession, files, bound, locator, intent,
                 after, leaving, sess, active, live, relay, faults, signedOut>>

LoadIdentity ==
  /\ pc = "identity"
  /\ LoadOrCreate
  /\ Go("finish")
  /\ UNCHANGED <<legacyId, plain, legacySession, files, bound, locator, intent,
                 after, leaving, sess, active, live, relay, faults, signedOut>>

-----------------------------------------------------------------------------
(* Finishing a sign-out: at launch, and again when the app has closed.     *)

AfterFinish == IF leaving THEN "off" ELSE "load"

\* Mutant: only the process that asked for the sign-out finishes it.
BeginFinishOnExit ==
  /\ pc = "finish"
  /\ IF intent = None \/ ~leaving
     THEN Go(AfterFinish) /\ UNCHANGED files
     ELSE files' = files \cup {intent} /\ Go("clearVault")
  /\ UNCHANGED <<identity, legacyId, plain, legacySession, bound, locator, intent, memory,
                 relay, ghosts>>

BeginFinish ==
  /\ pc = "finish"
  /\ IF intent = None
     THEN Go(AfterFinish) /\ UNCHANGED files
     ELSE files' = files \cup {intent} /\ Go("clearVault")
  /\ UNCHANGED <<identity, legacyId, plain, legacySession, bound, locator, intent, memory,
                 relay, ghosts>>

ClearVaultSession ==
  /\ pc = "clearVault"
  /\ bound' = bound \ {intent}
  /\ Go("clearLegacy")
  /\ UNCHANGED <<identity, legacyId, plain, legacySession, files, locator, intent, memory,
                 relay, ghosts>>

\* Mutant: the released vault keeps its session.
ClearLegacyKeeps ==
  /\ pc = "clearLegacy"
  /\ after' = "forget"
  /\ Go(IF dev = intent.id THEN "retire" ELSE "forget")
  /\ UNCHANGED <<files_, leaving, dev, sess, active, live, relay, ghosts>>

ClearLegacySession ==
  /\ pc = "clearLegacy"
  /\ legacySession' = IF legacySession # None /\ legacySession.id = intent.id
                      THEN None ELSE legacySession
  /\ after' = "forget"
  /\ Go(IF dev = intent.id THEN "retire" ELSE "forget")
  /\ UNCHANGED <<identity, legacyId, plain, files, bound, locator, intent,
                 leaving, dev, sess, active, live, relay, ghosts>>

RetireIdentity ==
  /\ pc = "retire"
  /\ identity' = None
  /\ Go("renew")
  /\ UNCHANGED <<legacyId, plain, legacySession, files, bound, locator, intent, memory,
                 relay, ghosts>>

RenewIdentity ==
  /\ pc = "renew"
  /\ LoadOrCreate
  /\ Go(after)
  /\ UNCHANGED <<legacyId, plain, legacySession, files, bound, locator, intent,
                 after, leaving, sess, active, live, relay, faults, signedOut>>

ForgetIntent ==
  /\ pc = "forget"
  /\ intent' = None
  /\ Go(AfterFinish)
  /\ UNCHANGED <<identity, legacyId, plain, legacySession, files, bound, locator, memory,
                 relay, ghosts>>

-----------------------------------------------------------------------------
(* The saved session.                                                      *)

\* The vault the locator names; without one, those whose session proves the
\* binding.  One discovered vault is written to the locator.  A named vault
\* bound otherwise, or several discovered ones, end the launch.
Named == Located(dev) \cap files
Discovered == BoundTo(dev)
Locate(s) == locator' = {l \in locator : l.id # s.id} \cup {s}

\* Mutant: without a locator there is no active vault.
NoActiveVaultUnlessNamed == Named = {}

NoActiveVault == Named = {} /\ Discovered = {}

ActiveVault(s) ==
  \/ s \in Named \cap bound /\ UNCHANGED locator
  \/ Named = {} /\ Discovered = {s} /\ Locate(s)
Mismatch ==
  IF Named # {} THEN Named \cap bound = {} ELSE \E s, t \in Discovered : s # t

\* Validate a session of this very device, or authorize it.
UseSession(s) ==
  IF s # None /\ s.id = dev
  THEN sess' = s /\ Go("validate")
  ELSE UNCHANGED sess /\ Go("start")

LoadSession ==
  /\ pc = "load"
  /\ IF Mismatch
     THEN Go("stuck") /\ UNCHANGED <<locator, active, sess>>
     ELSE \/ \E s \in files : ActiveVault(s) /\ active' = s.acct /\ UseSession(s)
          \/ NoActiveVault /\ UseSession(legacySession) /\ UNCHANGED <<locator, active>>
  /\ UNCHANGED <<identity, legacyId, plain, legacySession, files, bound, intent,
                 after, leaving, dev, live, relay, ghosts>>

\* The relay accepts the session's token.
Valid(s) == s \in linked

\* 401 replaces the device; any other failure ends the launch and keeps it.
Validate ==
  /\ pc = "validate"
  /\ IF Valid(sess)
     THEN Go("open") /\ UNCHANGED <<after, sess>>
     ELSE Go("retire") /\ after' = "start" /\ sess' = None
  /\ UNCHANGED <<files_, leaving, dev, active, live, relay, ghosts>>

-----------------------------------------------------------------------------
(* Authorization.  The relay and the account's owner are external.         *)

\* A new authorization, with a fresh device secret; earlier links are void.
OpenAuthorization == open' = dev /\ live' = TRUE /\ link' = FALSE

\* Mutant: a conflict ends the launch like any other refusal.
StartDeviceGivesUp ==
  /\ pc \in {"start", "restart"}
  /\ IF Conflicts(dev)
     THEN Go("off") /\ UNCHANGED <<live, open, link>>
     ELSE /\ OpenAuthorization
          /\ pc' \in {"wait", "ask"}
  /\ UNCHANGED <<files_, after, leaving, dev, sess, active, granted, linked, retired, ghosts>>

StartDevice ==
  /\ pc \in {"start", "restart"}
  /\ IF Conflicts(dev)
     THEN /\ Go(IF pc = "start" THEN "retire" ELSE "off") /\ after' = "restart"
          /\ UNCHANGED <<live, open, link>>
     ELSE /\ OpenAuthorization
          /\ pc' \in {"wait", "ask"}
          /\ UNCHANGED after
  /\ UNCHANGED <<files_, leaving, dev, sess, active, granted, linked, retired, ghosts>>

\* The owner approves in a browser (directly, or by opening the emailed link).
\* An approval nobody is polling for counts against the bound.
Approve(acct) ==
  /\ open # None
  /\ IF pc \in Collecting THEN UNCHANGED faults ELSE Fault
  /\ granted' = granted \cup {[id |-> open, acct |-> acct]}
  /\ open' = None /\ link' = FALSE
  /\ UNCHANGED <<files_, pc, memory, linked, retired, made, signedOut>>

\* The relay hands a token out once and marks it collected.
Collect(s) ==
  /\ s \in granted /\ s.id = dev
  /\ granted' = granted \ {s} /\ linked' = linked \cup {s}

Collected(s) ==
  /\ pc \in Collecting /\ live
  /\ Collect(s)
  /\ sess' = s /\ Go("open")
  /\ UNCHANGED <<files_, after, leaving, dev, active, live, open, retired, link, ghosts>>

\* The one-time answer is lost on the way: the client sees an ambiguous status.
CollectedLost(s) ==
  /\ pc \in Collecting /\ live
  /\ Fault
  /\ Collect(s)
  /\ Go(IF pc = "recover" THEN "prompt" ELSE pc)
  /\ UNCHANGED <<files_, memory, open, retired, link, made, signedOut>>

\* Approved, but the token was handed out before: replace the identity.
HandoffLost ==
  /\ pc \in Collecting /\ live
  /\ \E s \in linked : s.id = dev
  /\ after' = "start" /\ Go("retire")
  /\ UNCHANGED <<files_, leaving, dev, sess, active, live, relay, ghosts>>

\* Still pending: a user who wants to edit the details is let through.
EditDetails ==
  /\ pc = "prompt" /\ live /\ open = dev
  /\ Go("ask")
  /\ UNCHANGED <<files_, memory, relay, ghosts>>

\* Still pending, or no clear answer, when the recovery polls end.
Unrecovered ==
  /\ pc = "recover" /\ live /\ open = dev
  /\ Go("prompt")
  /\ UNCHANGED <<files_, memory, relay, ghosts>>

RequestLink ==
  /\ pc = "ask" /\ live
  /\ open = dev
  /\ link' = TRUE /\ Go("prompt")
  /\ UNCHANGED <<files_, memory, open, granted, linked, retired, ghosts>>

\* The answer is lost: a link may or may not be on its way.
RequestLinkLost ==
  /\ pc = "ask" /\ live
  /\ Fault
  /\ link' \in (IF open = dev THEN {link, TRUE} ELSE {link})
  /\ Go("prompt")
  /\ UNCHANGED <<files_, memory, open, granted, linked, retired, made, signedOut>>

EnterToken ==
  /\ pc = "prompt" /\ live
  /\ link
  /\ Go("token")
  /\ UNCHANGED <<files_, memory, relay, ghosts>>

\* The relay consumes a link of the open authorization; it refuses any other.
ConsumeLink ==
  \E acct \in Accounts :
    /\ granted' = granted \cup {[id |-> dev, acct |-> acct]}
    /\ open' = None /\ link' = FALSE

FinishEmail ==
  /\ pc = "token" /\ live
  /\ IF link /\ open = dev
     THEN ConsumeLink /\ Go("wait")
     ELSE Go("recover") /\ UNCHANGED <<granted, open, link>>
  /\ UNCHANGED <<files_, memory, linked, retired, ghosts>>

FinishEmailLost ==
  /\ pc = "token" /\ live
  /\ Fault
  /\ \/ link /\ open = dev /\ ConsumeLink
     \/ UNCHANGED <<granted, open, link>>
  /\ Go("recover")
  /\ UNCHANGED <<files_, memory, linked, retired, made, signedOut>>

\* The authorization expires, for the relay and for the client's clock; one
\* that can no longer be approved through the prompt certainly does.
Expire ==
  /\ pc \in Authorizing /\ live
  /\ IF pc = "ask" /\ open # dev THEN UNCHANGED faults ELSE Fault
  /\ live' = FALSE /\ open' = None
  /\ UNCHANGED <<files_, pc, after, leaving, dev, sess, active, granted, linked, retired,
                 link, made, signedOut>>

\* The authorization has expired, or the relay refuses the revoked device.
Ended ==
  /\ pc \in Authorizing
  /\ ~live \/ (pc \in Collecting /\ dev \in retired)
  /\ Go("off")
  /\ UNCHANGED <<files_, memory, relay, ghosts>>

-----------------------------------------------------------------------------
(* From a session to the open app, and out of it.                          *)

\* Mutant: the session is written to a vault that was never created.
OpenVaultUncreated ==
  /\ pc = "open"
  /\ Go("save")
  /\ UNCHANGED <<files_, memory, relay, ghosts>>

\* The released vault holds this session: its content goes to the scoped path,
\* unless a vault is there, which must then hold the same session.
CopyReleasedVault ==
  IF sess \in files
  THEN Go(IF sess \in bound THEN "save" ELSE "stuck") /\ UNCHANGED <<files, bound>>
  ELSE files' = files \cup {sess} /\ bound' = bound \cup {sess} /\ Go("save")

\* open_terminal_scoped: a vault that is not there is created, empty.
OpenScoped == files' = files \cup {sess}

\* The active vault when it is this session's, else a copy of the bound legacy
\* vault, else the scoped vault, created when there is none.
OpenVault ==
  /\ pc = "open"
  /\ IF active = sess.acct /\ sess \in bound
     THEN Go("save") /\ UNCHANGED <<files, bound>>
     ELSE IF legacySession = sess THEN CopyReleasedVault
     ELSE OpenScoped /\ Go("save") /\ UNCHANGED bound
  /\ UNCHANGED <<identity, legacyId, plain, legacySession, locator, intent, memory,
                 relay, ghosts>>

SaveSession ==
  /\ pc = "save"
  /\ bound' = bound \cup {sess}
  /\ Go("activate")
  /\ UNCHANGED <<identity, legacyId, plain, legacySession, files, locator, intent, memory,
                 relay, ghosts>>

Activate ==
  /\ pc = "activate"
  /\ Locate(sess)
  /\ Go("publish")
  /\ UNCHANGED <<identity, legacyId, plain, legacySession, files, bound, intent, memory,
                 relay, ghosts>>

Publish ==
  /\ pc = "publish"
  /\ Go(IF Valid(sess) THEN "app" ELSE "off")
  /\ UNCHANGED <<files_, memory, relay, ghosts>>

\* The intent is durable before anything is cleared.  When only the directory
\* sync fails, the request fails with the intent on disk.
RecordIntent == intent' = sess /\ signedOut' = signedOut \cup {sess.id}

\* "/sign-out confirm": the app closes, or stays open when the request failed.
SignOut ==
  /\ pc = "app" /\ intent = None
  /\ Fault
  /\ RecordIntent
  /\ \/ Go("finish") /\ leaving' = TRUE
     \/ UNCHANGED <<pc, leaving>>
  /\ UNCHANGED <<identity, legacyId, plain, legacySession, files, bound, locator,
                 after, dev, sess, active, live, relay, made>>

Quit ==
  /\ pc = "app"
  /\ Go("finish") /\ leaving' = TRUE
  /\ UNCHANGED <<files_, after, dev, sess, active, live, relay, ghosts>>

\* The account revokes a device, from another terminal.
Revoke(s) ==
  /\ s \in linked
  /\ Fault
  /\ linked' = linked \ {s}
  /\ retired' = retired \cup {s.id}
  /\ UNCHANGED <<files_, pc, memory, open, granted, link, made, signedOut>>

\* A crash, or a request of the launch that fails: the files stay.
Crash ==
  /\ pc \notin {"off", "stuck"}
  /\ Fault
  /\ Go("off")
  /\ open' \in (IF pc \in {"start", "restart"} /\ ~Conflicts(dev) THEN {open, dev} ELSE {open})
  /\ UNCHANGED <<files_, memory, granted, linked, retired, link, made, signedOut>>

-----------------------------------------------------------------------------
Startup == Launch \/ AdoptPlaintext \/ DiscardPlaintext \/ CopyReleasedIdentity \/ LoadIdentity
Finish == BeginFinish \/ ClearVaultSession \/ ClearLegacySession \/ ForgetIntent
Rotate == RetireIdentity \/ RenewIdentity
Resume == LoadSession \/ Validate
Authorize ==
  \/ StartDevice \/ HandoffLost \/ RequestLink \/ EnterToken \/ FinishEmail \/ Ended
  \/ \E s \in granted : Collected(s)
Enter == OpenVault \/ SaveSession \/ Activate \/ Publish
Account == \E acct \in Accounts : Approve(acct)
Faulty ==
  \/ RequestLinkLost \/ FinishEmailLost \/ Crash \/ SignOut
  \/ \E s \in granted : CollectedLost(s)
  \/ \E s \in linked : Revoke(s)

Next ==
  \/ Startup \/ Finish \/ Rotate \/ Resume \/ Authorize \/ Enter
  \/ Account \/ EditDetails \/ Unrecovered \/ Expire \/ Quit \/ Faulty

Spec == Init /\ [][Next]_vars

\* The program runs, the user launches it again and goes on with the prompt,
\* the owner approves what is asked for, and time passes.
Fairness ==
  /\ WF_vars(Startup) /\ WF_vars(Finish) /\ WF_vars(Rotate) /\ WF_vars(Resume)
  /\ WF_vars(Enter) /\ SF_vars(Authorize) /\ SF_vars(Account) /\ WF_vars(Expire)
  /\ WF_vars(Unrecovered)
FairSpec == Spec /\ Fairness

-----------------------------------------------------------------------------
(* Correctness.                                                            *)

\* Nothing on disk is left of a device that was signed out, once its intent is
\* gone: a later rotation interrupted by a crash cannot bring it back from the
\* released files, nor can a launch find its session.
SignOutComplete ==
  \A i \in signedOut : (intent = None \/ intent.id # i) =>
    /\ identity # i
    /\ BoundTo(i) = {}
    /\ legacySession = None \/ legacySession.id # i

\* The owner is asked to approve a device only while no file holds a session of
\* it that the relay still accepts: a crash between saving the session and
\* naming its vault in the locator costs no second approval.
AskedOnlyWhenNeeded ==
  pc \in Authorizing \cup {"start", "restart"} =>
    \A s \in bound \cup ({legacySession} \ {None}) : s.id = dev => s \notin linked

\* However a launch, an approval or a sign-out is cut short, the user gets into
\* the app again: no consumed handoff, stale approval or half-done sign-out
\* keeps the terminal out.
AlwaysSignsIn == []<>(pc = "app")

\* A confirmed sign-out is finished, by this process or by a later launch,
\* whatever step it was cut off at.
SignOutFinishes == (intent # None /\ pc # "app") ~> (intent = None)
=============================================================================
