--------------------------- MODULE SessionProofs ---------------------------
(***************************************************************************)
(* Proofs about Session, for any accounts and any number of crashes, lost   *)
(* answers, expiries, revocations and sign-outs.                            *)
(*                                                                          *)
(* The argument for SignOutComplete: a sign-out clears the one vault bound  *)
(* to its session, so there must be no other session of the device (Unique),*)
(* which the relay sees to (Known, Fresh); the steps of finish leave nothing *)
(* behind (Clearing) and nothing is written for a device that was signed    *)
(* out, because from the saved session on there is no intent and the device *)
(* in memory is that of the identity file (Running).  AskedOnlyWhenNeeded    *)
(* follows from more: a device that is to be approved has no session in any *)
(* file (Unbound).                                                          *)
(***************************************************************************)
EXTENDS Session, TLAPS

\* The sessions in files and in memory, and those the relay has given out.
Held   == bound \cup ({plain, legacySession, sess, intent} \ {None})
Issued == Held \cup granted \cup linked

\* Ids are numbered as they are made.
Numbered ==
  /\ identity # None => identity <= made
  /\ dev # None => dev <= made
  /\ \A s \in Issued : s.id <= made
  /\ \A i \in signedOut \cup retired : i <= made
  /\ open # None => open <= made

Unique == \A s, t \in Issued : s.id = t.id => s = t
Known  == \A s \in Issued : Conflicts(s.id)
Fresh  == open # None => ~Conflicts(open)

\* The steps at which the identity file is that of the device in memory.
BeforeIdentity == {"off", "stuck", "adopt", "discard", "copy", "identity"}
Finishing      == {"finish", "clearVault", "clearLegacy", "retire", "renew",
                   "forget", "app"}
Entering       == {"open", "save", "activate", "publish", "app"}

Running ==
  /\ pc \notin BeforeIdentity => dev # None
  /\ pc \notin BeforeIdentity \cup {"renew"} => identity = dev
  /\ pc = "renew" => identity = None
  /\ pc \notin BeforeIdentity \cup Finishing => intent = None
  /\ pc \in {"retire", "renew"} /\ after # "forget" => intent = None
  /\ pc \in Entering \cup {"validate"} => sess # None /\ sess.id = dev
  /\ pc = "save" => sess \in files
  /\ plain # None => signedOut = {} /\ pc \in {"off", "adopt", "discard"}

ClearedVault  == BoundTo(intent.id) = {}
ClearedLegacy == legacySession = None \/ legacySession.id # intent.id

Clearing ==
  /\ pc \in {"clearVault", "clearLegacy", "forget"} => intent # None
  /\ pc \in {"retire", "renew"} /\ after = "forget" =>
       intent # None /\ ClearedVault /\ ClearedLegacy
  /\ pc = "clearLegacy" => ClearedVault
  /\ pc = "forget" => ClearedVault /\ ClearedLegacy /\ dev # intent.id

\* No file holds a session of the device that is to be approved.
Unbound ==
  pc \in Authorizing \cup {"start", "restart"} =>
    \A s \in bound \cup ({legacySession} \ {None}) : s.id # dev

Inv ==
  /\ TypeOK
  /\ Numbered /\ Unique /\ Known /\ Fresh
  /\ Running /\ Clearing /\ Unbound
  /\ SignOutComplete

-----------------------------------------------------------------------------
(* Types, in parts: no action changes the variables of all of them.         *)

FilesTyped ==
  /\ identity \in Nat \cup {None} /\ legacyId \in {LegacyDevice, None}
  /\ plain \in SessionOf \cup {None} /\ legacySession \in SessionOf \cup {None}
  /\ files \subseteq SessionOf /\ bound \subseteq files
  /\ locator \subseteq SessionOf /\ intent \in SessionOf \cup {None}

ProcessTyped ==
  /\ pc \in Step /\ after \in {"start", "restart", "forget"}
  /\ leaving \in BOOLEAN /\ live \in BOOLEAN
  /\ dev \in Nat \cup {None} /\ sess \in SessionOf \cup {None}
  /\ active \in Accounts \cup {None}

RelayTyped ==
  /\ open \in Nat \cup {None} /\ granted \subseteq SessionOf
  /\ linked \subseteq SessionOf /\ retired \subseteq Nat
  /\ link \in BOOLEAN

CountsTyped ==
  made \in Nat /\ faults \in 0 .. MaxFaults /\ signedOut \subseteq Nat

LEMMA TypeParts ==
  /\ TypeOK <=> FilesTyped /\ ProcessTyped /\ RelayTyped /\ CountsTyped
  /\ TypeOK' <=> FilesTyped' /\ ProcessTyped' /\ RelayTyped' /\ CountsTyped'
BY DEF TypeOK, FilesTyped, ProcessTyped, RelayTyped, CountsTyped

\* Every step keeps the types.
LEMMA TypeNext == TypeOK /\ Running /\ [Next]_vars => TypeOK'
<1> SUFFICES ASSUME TypeOK, Running, [Next]_vars PROVE TypeOK'
  OBVIOUS
<1>1. FilesTyped /\ ProcessTyped /\ RelayTyped /\ CountsTyped
  BY TypeParts
<1>2. /\ pc \in Step \ (BeforeIdentity \cup {"renew"}) => dev \in Nat
      /\ pc \in Entering => sess \in SessionOf
      /\ pc = "save" => sess \in files
  BY <1>1 DEF ProcessTyped, Running, Entering, Finishing, BeforeIdentity, Step
<1>3. \A i \in Nat, acct \in Accounts : [id |-> i, acct |-> acct] \in SessionOf
  BY DEF SessionOf
<1>4. \A s \in SessionOf : s.id \in Nat /\ s.acct \in Accounts
  BY DEF SessionOf
<1>5. LoadOrCreate => dev' \in Nat \cup {None} /\ made' \in Nat
  BY <1>1 DEF LoadOrCreate, FilesTyped, CountsTyped
<1> USE SessionAssumption DEF files_, memory, relay, ghosts, Go
<1>6. FilesTyped'
  <2> USE <1>1 DEF FilesTyped
  <2>1. CASE Startup
    BY <2>1 DEF Startup, Launch, AdoptPlaintext, DiscardPlaintext, LegacyDevice,
       CopyReleasedIdentity, ReleasedIsBound, LoadIdentity, LoadOrCreate, CountsTyped
  <2>2. CASE Finish
    BY <2>2 DEF Finish, BeginFinish, ClearVaultSession, ClearLegacySession,
       ForgetIntent
  <2>3. CASE Rotate
    BY <2>3 DEF Rotate, RetireIdentity, RenewIdentity, LoadOrCreate, CountsTyped
  <2>4. CASE LoadSession
    <3>1. locator' = locator \/ \E s \in files : Locate(s)
      BY <2>4 DEF LoadSession, ActiveVault
    <3> QED
      BY <2>4, <3>1 DEF LoadSession, Locate
  <2>5. CASE Enter
    BY <1>2, <2>5 DEF Enter, OpenVault, CopyReleasedVault, OpenScoped, SaveSession,
       Activate, Locate, Publish, Entering
  <2>6. CASE SignOut
    BY <1>2, <2>6 DEF SignOut, RecordIntent, Entering
  <2>7. CASE UNCHANGED files_
    BY <2>7
  <2> QED
    BY <2>1, <2>2, <2>3, <2>4, <2>5, <2>6, <2>7, ZenonT(30)
       DEF Next, Resume, Validate, Authorize, StartDevice, HandoffLost,
           RequestLink, EnterToken, FinishEmail, Ended, Collected, Account,
           Approve, EditDetails, Unrecovered, Expire, Quit, Faulty,
           RequestLinkLost, FinishEmailLost, Crash, CollectedLost, Revoke, vars
<1>7. ProcessTyped'
  <2> USE <1>1 DEF ProcessTyped, Step
  <2>1. CASE Startup
    <3>1. LoadIdentity => dev' \in Nat \cup {None}
      BY <1>5 DEF LoadIdentity
    <3> QED
      BY <2>1, <3>1 DEF Startup, Launch, AdoptPlaintext, DiscardPlaintext,
         CopyReleasedIdentity, LoadIdentity
  <2>2. CASE Finish
    BY <2>2 DEF Finish, BeginFinish, ClearVaultSession, ClearLegacySession,
       ForgetIntent, AfterFinish
  <2>3. CASE Rotate
    BY <1>5, <2>3 DEF Rotate, RetireIdentity, RenewIdentity
  <2>4. CASE Resume
    BY <1>4, <2>4 DEF Resume, LoadSession, Validate, UseSession, FilesTyped
  <2>5. CASE Authorize
    BY <2>5 DEF Authorize, StartDevice, OpenAuthorization, HandoffLost,
       RequestLink, EnterToken, FinishEmail, Ended, Collected, RelayTyped, Collecting
  <2>6. CASE Enter
    BY <2>6 DEF Enter, OpenVault, CopyReleasedVault, SaveSession, Activate, Publish
  <2>7. CASE Account \/ EditDetails \/ Unrecovered \/ Expire \/ Quit
    <3>1. CASE Account
      BY <3>1 DEF Account, Approve
    <3>2. CASE EditDetails \/ Unrecovered
      BY <3>2 DEF EditDetails, Unrecovered
    <3>3. CASE Expire
      BY <3>3 DEF Expire
    <3>4. CASE Quit
      BY <3>4 DEF Quit
    <3> QED
      BY <2>7, <3>1, <3>2, <3>3, <3>4
  <2>8. CASE Faulty
    <3>1. /\ pc' \in {pc, "off", "prompt", "recover", "finish"}
          /\ leaving' \in {leaving, TRUE}
          /\ UNCHANGED <<after, dev, sess, active, live>>
      BY <2>8 DEF Faulty, RequestLinkLost, FinishEmailLost, Crash, SignOut,
         CollectedLost, Revoke
    <3>2. leaving' \in BOOLEAN
      BY <3>1, Zenon
    <3> QED
      BY <3>1, <3>2
  <2> QED
    BY <2>1, <2>2, <2>3, <2>4, <2>5, <2>6, <2>7, <2>8 DEF Next, vars
<1>8. RelayTyped'
  <2> USE <1>1 DEF RelayTyped
  <2>1. CASE StartDevice
    BY <1>2, <2>1 DEF StartDevice, OpenAuthorization, BeforeIdentity, Step
  <2>2. CASE FinishEmail \/ FinishEmailLost
    <3>1. dev \in Nat
      BY <1>2, <2>2 DEF FinishEmail, FinishEmailLost, BeforeIdentity, Step
    <3>2. ConsumeLink => RelayTyped'
      BY <1>3, <2>2, <3>1 DEF ConsumeLink, FinishEmail, FinishEmailLost
    <3> QED
      BY <2>2, <3>2 DEF FinishEmail, FinishEmailLost
  <2>3. CASE RequestLink \/ RequestLinkLost \/ Expire
    BY <2>3 DEF RequestLink, RequestLinkLost, Expire
  <2>4. ASSUME NEW s \in granted, Collected(s) \/ CollectedLost(s) PROVE RelayTyped'
    BY <2>4 DEF Collected, CollectedLost, Collect
  <2>5. ASSUME NEW acct \in Accounts, Approve(acct) PROVE RelayTyped'
    <3>1. [id |-> open, acct |-> acct] \in SessionOf
      BY <1>3, <2>5 DEF Approve
    <3> QED
      BY <2>5, <3>1 DEF Approve
  <2>6. ASSUME NEW s \in linked, Revoke(s) PROVE RelayTyped'
    BY <1>4, <2>6 DEF Revoke
  <2>7. CASE Crash
    BY <1>2, <2>7 DEF Crash, BeforeIdentity, Step
  <2>8. CASE UNCHANGED relay
    BY <2>8
  <2> QED
    BY <2>1, <2>2, <2>3, <2>4, <2>5, <2>6, <2>7, <2>8, ZenonT(30)
       DEF Next, Startup, Launch, AdoptPlaintext, DiscardPlaintext,
           CopyReleasedIdentity, LoadIdentity, Finish, BeginFinish,
           ClearVaultSession, ClearLegacySession, ForgetIntent, Rotate,
           RetireIdentity, RenewIdentity, Resume, LoadSession, Validate,
           Authorize, HandoffLost, EnterToken, Ended, Enter, OpenVault,
           SaveSession, Activate, Publish, Account, EditDetails, Unrecovered,
           Quit, Faulty, SignOut, vars
<1>9. CountsTyped'
  <2> USE <1>1 DEF CountsTyped
  <2>1. Fault => faults' \in 0 .. MaxFaults
    BY DEF Fault
  <2>2. CASE LoadIdentity \/ RenewIdentity
    <3>1. made' \in Nat /\ UNCHANGED <<faults, signedOut>>
      BY <1>5, <2>2 DEF LoadIdentity, RenewIdentity
    <3> QED
      BY <3>1
  <2>3. CASE SignOut
    BY <1>2, <1>4, <2>1, <2>3 DEF SignOut, RecordIntent, Entering
  <2>4. CASE UNCHANGED <<made, signedOut>> /\ (Fault \/ UNCHANGED faults)
    BY <2>1, <2>4
  <2> QED
    BY <2>2, <2>3, <2>4, ZenonT(30)
       DEF Next, Startup, Launch, AdoptPlaintext, DiscardPlaintext,
           CopyReleasedIdentity, Finish, BeginFinish,
           ClearVaultSession, ClearLegacySession, ForgetIntent, Rotate,
           RetireIdentity, Resume, LoadSession, Validate,
           Authorize, StartDevice, HandoffLost, RequestLink, EnterToken,
           FinishEmail, Ended, Collected, Enter, OpenVault,
           SaveSession, Activate, Publish, Account, Approve, EditDetails,
           Unrecovered, Expire, Quit, Faulty, RequestLinkLost, FinishEmailLost,
           Crash, CollectedLost, Revoke, vars
<1> QED
  BY <1>6, <1>7, <1>8, <1>9, TypeParts

-----------------------------------------------------------------------------
(* What the relay has given out.                                           *)

\* Who may write the devices, the open authorization and the history.
LEMMA Writers ==
  ASSUME [Next]_vars
  PROVE  /\ \/ UNCHANGED <<identity, dev, made>>
            \/ UNCHANGED <<dev, made>> /\ identity' = None
            \/ UNCHANGED <<identity, made>> /\ dev' = None
            \/ UNCHANGED <<dev, made>> /\ ReleasedIsBound /\ identity' = legacyId
            \/ LoadOrCreate
         /\ open' \in {None, open} \/ (open' = dev /\ ~Conflicts(dev))
         /\ SignOut \/ UNCHANGED signedOut
         /\ (\E s \in linked : Revoke(s)) \/ UNCHANGED retired
<1> USE DEF Next, Startup, Launch, AdoptPlaintext, DiscardPlaintext,
            CopyReleasedIdentity, LoadIdentity, Finish, BeginFinish,
            ClearVaultSession, ClearLegacySession, ForgetIntent, Rotate,
            RetireIdentity, RenewIdentity, Resume, LoadSession, Validate,
            Authorize, StartDevice, HandoffLost, RequestLink, EnterToken,
            FinishEmail, Ended, Collected, Enter, OpenVault, SaveSession,
            Activate, Publish, Account, Approve, EditDetails, Unrecovered,
            Expire, Quit, Faulty, RequestLinkLost, FinishEmailLost, Crash,
            CollectedLost, vars
<1>1. \/ UNCHANGED <<identity, dev, made>>
      \/ UNCHANGED <<dev, made>> /\ identity' = None
      \/ UNCHANGED <<identity, made>> /\ dev' = None
      \/ UNCHANGED <<dev, made>> /\ ReleasedIsBound /\ identity' = legacyId
      \/ LoadOrCreate
  BY ZenonT(30) DEF SignOut, Revoke, files_, memory, ghosts
<1>2. open' \in {None, open} \/ (open' = dev /\ ~Conflicts(dev))
  BY ZenonT(30) DEF SignOut, Revoke, OpenAuthorization, ConsumeLink, relay
<1>3. SignOut \/ UNCHANGED signedOut
  BY ZenonT(30) DEF Revoke, ghosts
<1>4. (\E s \in linked : Revoke(s)) \/ UNCHANGED retired
  BY ZenonT(30) DEF SignOut, relay
<1> QED
  BY <1>1, <1>2, <1>3, <1>4

\* The relay never forgets a device it gave a session to, gives a session to
\* no other device than the one that waits for it, and the new device has none.
LEMMA RelayStep ==
  ASSUME Inv, [Next]_vars
  PROVE  /\ \A i : Conflicts(i) => Conflicts(i)'
         /\ \A i : Conflicts(i)' => Conflicts(i) \/ (i = open /\ open' = None)
         /\ \/ (granted \cup linked)' \subseteq granted \cup linked
            \/ \E g \in granted' : /\ (granted \cup linked)' = granted \cup linked \cup {g}
                                   /\ open # None /\ g.id = open /\ open' = None
<1> DEFINE Grant(acct) == LET g == [id |-> open, acct |-> acct] IN
      /\ open # None /\ open' = None
      /\ granted' = granted \cup {g} /\ linked' = linked /\ retired' = retired
<1>1. ASSUME NEW acct \in Accounts, Grant(acct)
      PROVE  /\ \A i : Conflicts(i) => Conflicts(i)'
             /\ \A i : Conflicts(i)' => Conflicts(i) \/ (i = open /\ open' = None)
             /\ \E g \in granted' : /\ (granted \cup linked)' = granted \cup linked \cup {g}
                                    /\ open # None /\ g.id = open /\ open' = None
  <2> DEFINE g == [id |-> open, acct |-> acct]
  <2>1. /\ g.id = open /\ granted' = granted \cup {g}
        /\ linked' = linked /\ retired' = retired /\ open # None /\ open' = None
    BY <1>1
  <2> HIDE DEF g
  <2> QED
    BY <2>1 DEF Conflicts
<1>2. ASSUME NEW s \in granted, Collect(s), retired' = retired
      PROVE  /\ \A i : Conflicts(i)' <=> Conflicts(i)
             /\ (granted \cup linked)' = granted \cup linked
  BY <1>2 DEF Conflicts, Collect
<1>3. ASSUME NEW s \in linked, Revoke(s)
      PROVE  /\ \A i : Conflicts(i)' <=> Conflicts(i)
             /\ (granted \cup linked)' \subseteq granted \cup linked
  BY <1>3 DEF Conflicts, Revoke
<1>4. ASSUME UNCHANGED <<granted, linked, retired>>
      PROVE  /\ \A i : Conflicts(i)' <=> Conflicts(i)
             /\ (granted \cup linked)' = granted \cup linked
  BY <1>4 DEF Conflicts
<1>5. CASE Account \/ FinishEmail \/ FinishEmailLost
  <2>1. \/ \E acct \in Accounts : Grant(acct)
        \/ UNCHANGED <<granted, linked, retired>>
    <3>1. CASE Account
      BY <3>1 DEF Account, Approve
    <3>2. CASE FinishEmail \/ FinishEmailLost
      <4>1. dev # None
        BY <3>2 DEF Inv, Running, BeforeIdentity, FinishEmail, FinishEmailLost
      <4> QED
        BY <3>2, <4>1 DEF FinishEmail, FinishEmailLost, ConsumeLink
    <3> QED
      BY <1>5, <3>1, <3>2
  <2> QED
    BY <1>1, <1>4, <2>1
<1>6. CASE \E s \in granted : Collected(s) \/ CollectedLost(s)
  BY <1>2, <1>6 DEF Collected, CollectedLost
<1>7. CASE \E s \in linked : Revoke(s)
  BY <1>3, <1>7
<1>8. CASE UNCHANGED <<granted, linked, retired>>
  BY <1>4, <1>8
<1>9. \/ Account \/ FinishEmail \/ FinishEmailLost
      \/ \E s \in granted : Collected(s) \/ CollectedLost(s)
      \/ \E s \in linked : Revoke(s)
      \/ UNCHANGED <<granted, linked, retired>>
  BY ZenonT(30)
     DEF Next, Startup, Launch, AdoptPlaintext, DiscardPlaintext,
         CopyReleasedIdentity, LoadIdentity, Finish, BeginFinish,
         ClearVaultSession, ClearLegacySession, ForgetIntent, Rotate,
         RetireIdentity, RenewIdentity, Resume, LoadSession, Validate,
         Authorize, StartDevice, HandoffLost, RequestLink, EnterToken, Ended,
         Enter, OpenVault, SaveSession, Activate, Publish, EditDetails,
         Unrecovered, Expire, Quit, Faulty, RequestLinkLost, Crash, SignOut,
         vars, relay
<1> QED
  BY <1>5, <1>6, <1>7, <1>8, <1>9

\* No file and no process holds a session that was not given out.
LEMMA HeldStep ==
  ASSUME Inv, [Next]_vars
  PROVE  Held' \subseteq Held \cup granted
<1> USE DEF Held, files_, memory
<1>1. CASE Startup
  BY <1>1 DEF Startup, Launch, AdoptPlaintext, DiscardPlaintext,
     CopyReleasedIdentity, LoadIdentity
<1>2. CASE Finish
  BY <1>2 DEF Finish, BeginFinish, ClearVaultSession, ClearLegacySession,
     ForgetIntent
<1>3. CASE LoadSession
  <2>1. sess' \in {sess, None} \cup bound \cup {legacySession}
    BY <1>3 DEF LoadSession, ActiveVault, UseSession, Named, Discovered, BoundTo
  <2> QED
    BY <1>3, <2>1 DEF LoadSession
<1>4. CASE Validate \/ Rotate
  BY <1>4 DEF Validate, Rotate, RetireIdentity, RenewIdentity
<1>5. CASE Enter
  <2>1. bound' \subseteq bound \cup {sess}
    BY <1>5 DEF Enter, OpenVault, CopyReleasedVault, SaveSession, Activate, Publish
  <2>2. UNCHANGED <<plain, legacySession, sess, intent>>
    BY <1>5 DEF Enter, OpenVault, SaveSession, Activate, Publish
  <2>3. pc \in Entering
    BY <1>5 DEF Enter, OpenVault, SaveSession, Activate, Publish, Entering
  <2> QED
    BY <2>1, <2>2, <2>3 DEF Inv, Running
<1>6. CASE \E s \in granted : Collected(s)
  BY <1>6 DEF Collected, Collect
<1>7. CASE SignOut
  BY <1>7 DEF SignOut, RecordIntent
<1>8. CASE UNCHANGED <<files_, sess>>
  BY <1>8
<1> QED
  BY <1>1, <1>2, <1>3, <1>4, <1>5, <1>6, <1>7, <1>8, ZenonT(30)
     DEF Next, Resume, Authorize, StartDevice, HandoffLost, RequestLink,
         EnterToken, FinishEmail, Ended, Account, Approve, EditDetails,
         Unrecovered, Expire, Quit, Faulty, RequestLinkLost, FinishEmailLost,
         Crash, CollectedLost, Revoke, vars

\* Hence a session is new only when it is granted to the device that waits.
LEMMA IssuedStep ==
  ASSUME Inv, [Next]_vars
  PROVE  \/ Issued' \subseteq Issued
         \/ \E g \in granted' : /\ Issued' \subseteq Issued \cup {g}
                                /\ open # None /\ g.id = open /\ open' = None
BY HeldStep, RelayStep DEF Issued

\* One session per device, each of them known to the relay, which opens no
\* authorization for a device it knows.
LEMMA GivenOnceNext ==
  ASSUME Inv, [Next]_vars
  PROVE  (Unique /\ Known /\ Fresh)'
<1>1. Known'
  <2> SUFFICES ASSUME NEW s \in Issued' PROVE Conflicts(s.id)'
    BY DEF Known
  <2>1. CASE s \in Issued
    BY <2>1, RelayStep DEF Inv, Known
  <2>2. CASE s \in granted'
    BY <2>2 DEF Conflicts
  <2> QED
    BY <2>1, <2>2, IssuedStep
<1>2. Unique'
  <2> SUFFICES ASSUME NEW s \in Issued', NEW t \in Issued', s.id = t.id PROVE s = t
    BY DEF Unique
  <2>1. CASE s \in Issued /\ t \in Issued
    BY <2>1 DEF Inv, Unique
  <2>2. ASSUME NEW g, NEW u \in Issued, open # None, g.id = open PROVE u.id # g.id
    BY <2>2 DEF Inv, Known, Fresh
  <2> QED
    BY <2>1, <2>2, IssuedStep
<1>3. Fresh'
  <2> SUFFICES ASSUME NEW i, open' = i, i # None PROVE ~Conflicts(i)'
    BY DEF Fresh, Conflicts
  <2>1. open' \in {None, open} \/ (open' = dev /\ ~Conflicts(dev))
    BY Writers
  <2>2. ~Conflicts(i)
    BY <2>1 DEF Inv, Fresh
  <2> QED
    BY <2>2, RelayStep
<1> QED
  BY <1>1, <1>2, <1>3

\* A new device gets a new number.
LEMMA NumberedNext ==
  ASSUME Inv, [Next]_vars
  PROVE  Numbered'
<1>1. /\ made \in Nat /\ \A s \in Issued : s.id \in Nat
      /\ signedOut \cup retired \subseteq Nat
  BY SessionAssumption DEF Inv, TypeOK, Issued, Held, SessionOf
<1>2. \/ UNCHANGED <<identity, dev, made>>
      \/ UNCHANGED <<dev, made>> /\ identity' = None
      \/ UNCHANGED <<identity, made>> /\ dev' = None
      \/ UNCHANGED <<dev, made>> /\ legacySession # None /\ identity' = legacySession.id
      \/ LoadOrCreate
  BY Writers DEF ReleasedIsBound
<1>3. made' \in {made, made + 1}
  BY <1>2 DEF LoadOrCreate
<1>4. /\ identity' # None => identity' <= made'
      /\ dev' # None => dev' <= made'
  <2>1. legacySession # None => legacySession.id <= made
    BY DEF Inv, Numbered, Issued, Held
  <2>2. /\ identity \in Nat \cup {None} /\ (identity # None => identity <= made)
        /\ dev # None => dev <= made
    BY DEF Inv, Numbered, TypeOK
  <2> QED
    BY <1>1, <1>2, <2>1, <2>2 DEF LoadOrCreate
<1>5. open' # None => open' <= made'
  <2>1. open' \in {None, open, dev}
    BY Writers
  <2>2. /\ open \in Nat \cup {None} /\ (open # None => open <= made)
        /\ dev \in Nat \cup {None} /\ (dev # None => dev <= made)
    BY DEF Inv, Numbered, TypeOK
  <2> QED
    BY <1>1, <1>3, <2>1, <2>2
<1>6. \A s \in Issued' : s.id <= made'
  <2>1. \A s \in Issued : s.id <= made
    BY DEF Inv, Numbered
  <2>2. open # None => open \in Nat /\ open <= made
    BY DEF Inv, Numbered, TypeOK
  <2>3. \A s \in Issued' : s.id \in Nat /\ s.id <= made
    BY <1>1, <2>1, <2>2, IssuedStep
  <2> QED
    BY <1>1, <1>3, <2>3
<1>7. \A i \in signedOut' \cup retired' : i <= made'
  <2>1. signedOut' \cup retired' \subseteq signedOut \cup retired \cup {s.id : s \in Issued}
    <3>1. SignOut => signedOut' \subseteq signedOut \cup {s.id : s \in Issued}
      BY DEF SignOut, RecordIntent, Inv, Running, Entering, Issued, Held
    <3>2. ASSUME NEW s \in linked, Revoke(s)
          PROVE  retired' \subseteq retired \cup {t.id : t \in Issued}
      BY <3>2 DEF Revoke, Issued
    <3> QED
      BY <3>1, <3>2, Writers
  <2>2. \A i \in signedOut' \cup retired' : i \in Nat /\ i <= made
    BY <1>1, <2>1 DEF Inv, Numbered
  <2> QED
    BY <1>1, <1>3, <2>2
<1> QED
  BY <1>4, <1>5, <1>6, <1>7 DEF Numbered

-----------------------------------------------------------------------------
(* The steps of the process.                                               *)

\* From the loaded identity on, memory and the identity file agree; from the
\* saved session on, there is a session of this device and no sign-out to finish.
LEMMA RunningNext ==
  ASSUME Inv, [Next]_vars
  PROVE  Running'
<1> USE DEF Running, BeforeIdentity, Finishing, Entering, files_, memory, relay,
            ghosts, Go
<1>0. /\ Running /\ (pc = "app" => plain = None)
      /\ dev # None => dev \in Nat
      /\ made \in Nat /\ None \notin Nat /\ bound \subseteq files
  BY SessionAssumption DEF Inv, TypeOK
<1>1. CASE Startup
  <2>1. CASE Launch
    BY <1>0, <2>1 DEF Launch
  <2>2. CASE AdoptPlaintext
    BY <1>0, <2>2 DEF AdoptPlaintext
  <2>3. CASE DiscardPlaintext
    BY <1>0, <2>3 DEF DiscardPlaintext
  <2>4. CASE CopyReleasedIdentity
    BY <1>0, <2>4 DEF CopyReleasedIdentity
  <2>5. CASE LoadIdentity
    BY <1>0, <2>5 DEF LoadIdentity, LoadOrCreate
  <2> QED
    BY <1>1, <2>1, <2>2, <2>3, <2>4, <2>5 DEF Startup
<1>2. CASE Finish
  <2>1. CASE BeginFinish
    BY <1>0, <2>1 DEF BeginFinish, AfterFinish
  <2>2. CASE ClearVaultSession
    BY <1>0, <2>2 DEF ClearVaultSession
  <2>3. CASE ClearLegacySession
    BY <1>0, <2>3 DEF ClearLegacySession
  <2>4. CASE ForgetIntent
    BY <1>0, <2>4 DEF ForgetIntent, AfterFinish
  <2> QED
    BY <1>2, <2>1, <2>2, <2>3, <2>4 DEF Finish
<1>3. CASE RetireIdentity
  BY <1>0, <1>3 DEF RetireIdentity
<1>4. CASE RenewIdentity
  <2>1. after \in {"start", "restart", "forget"}
    BY DEF Inv, TypeOK
  <2> QED
    BY <1>0, <1>4, <2>1 DEF RenewIdentity, LoadOrCreate
<1>5. CASE LoadSession
  <2>1. \/ pc' \in {"stuck", "start"}
        \/ pc' = "validate" /\ sess' # None /\ sess'.id = dev
    BY <1>5 DEF LoadSession, UseSession
  <2> QED
    BY <1>0, <1>5, <2>1 DEF LoadSession
<1>6. CASE Validate
  BY <1>0, <1>6 DEF Validate
<1>7. CASE Authorize
  <2>1. CASE \E s \in granted : Collected(s)
    <3>1. sess' # None /\ sess'.id = dev /\ pc \in Collecting
      BY <2>1, SessionAssumption DEF Collected, Collect, Inv, TypeOK, SessionOf
    <3> QED
      BY <1>0, <2>1, <3>1 DEF Collected, Collecting
  <2>2. CASE StartDevice
    BY <1>0, <2>2 DEF StartDevice
  <2>3. CASE HandoffLost
    BY <1>0, <2>3 DEF HandoffLost, Collecting
  <2>4. CASE RequestLink \/ EnterToken \/ FinishEmail
    BY <1>0, <2>4 DEF RequestLink, EnterToken, FinishEmail
  <2>5. CASE Ended
    BY <1>0, <2>5 DEF Ended, Authorizing, Collecting
  <2> QED
    BY <1>7, <2>1, <2>2, <2>3, <2>4, <2>5 DEF Authorize
<1>8. CASE Enter
  <2>1. CASE OpenVault
    BY <1>0, <2>1 DEF OpenVault, CopyReleasedVault, OpenScoped
  <2>2. CASE SaveSession
    BY <1>0, <2>2 DEF SaveSession
  <2>3. CASE Activate
    BY <1>0, <2>3 DEF Activate
  <2>4. CASE Publish
    BY <1>0, <2>4 DEF Publish
  <2> QED
    BY <1>8, <2>1, <2>2, <2>3, <2>4 DEF Enter
<1>9. CASE EditDetails \/ Unrecovered \/ Quit
  BY <1>0, <1>9 DEF EditDetails, Unrecovered, Quit
<1>10. CASE RequestLinkLost \/ FinishEmailLost
  BY <1>0, <1>10 DEF RequestLinkLost, FinishEmailLost
<1>11. CASE Crash
  BY <1>0, <1>11 DEF Crash
<1>12. CASE SignOut
  BY <1>0, <1>12 DEF SignOut, RecordIntent
<1>13. CASE \E s \in granted : CollectedLost(s)
  BY <1>0, <1>13 DEF CollectedLost, Collecting
<1>14. CASE Account \/ Expire \/ \E s \in linked : Revoke(s)
  <2>1. UNCHANGED <<pc, identity, intent, plain, files, after, dev, sess, signedOut>>
    BY <1>14 DEF Account, Approve, Expire, Revoke
  <2> QED
    BY <1>0, <2>1
<1>15. CASE UNCHANGED vars
  BY <1>0, <1>15 DEF vars
<1> QED
  BY <1>1, <1>2, <1>3, <1>4, <1>5, <1>6, <1>7, <1>8, <1>9, <1>10, <1>11, <1>12,
     <1>13, <1>14, <1>15 DEF Next, Rotate, Resume, Faulty

\* While a sign-out is finished, what it has cleared stays cleared.
LEMMA ClearingNext ==
  ASSUME Inv, [Next]_vars
  PROVE  Clearing'
<1> USE DEF Clearing, ClearedVault, ClearedLegacy, BoundTo, files_, memory, relay, ghosts, Go
<1>0. /\ Clearing
      /\ dev # None => dev \in Nat
      /\ made \in Nat /\ None \notin Nat
      /\ intent # None => intent.id \in Nat /\ intent.id <= made
  BY SessionAssumption DEF Inv, TypeOK, SessionOf, Numbered, Issued, Held
<1>1. CASE Startup
  BY <1>1 DEF Startup, Launch, AdoptPlaintext, DiscardPlaintext,
     CopyReleasedIdentity, LoadIdentity
<1>2. CASE Finish
  <2>1. CASE BeginFinish
    BY <1>0, <2>1 DEF BeginFinish, AfterFinish
  <2>2. CASE ClearVaultSession
    <3>1. intent # None /\ intent \in Issued /\ bound \subseteq Issued
      BY <1>0, <2>2 DEF ClearVaultSession, Issued, Held
    <3>2. ClearedVault'
      BY <2>2, <3>1 DEF ClearVaultSession, Inv, Unique
    <3> QED
      BY <1>0, <2>2, <3>2 DEF ClearVaultSession
  <2>3. CASE ClearLegacySession
    <3>1. ClearedVault' /\ ClearedLegacy'
      BY <1>0, <2>3 DEF ClearLegacySession
    <3> QED
      BY <1>0, <2>3, <3>1 DEF ClearLegacySession
  <2>4. CASE ForgetIntent
    BY <1>0, <2>4 DEF ForgetIntent, AfterFinish
  <2> QED
    BY <1>2, <2>1, <2>2, <2>3, <2>4 DEF Finish
<1>3. CASE RetireIdentity
  BY <1>0, <1>3 DEF RetireIdentity
<1>4. CASE RenewIdentity
  <2>1. dev' = made + 1
    BY <1>4 DEF RenewIdentity, LoadOrCreate, Inv, Running
  <2>2. after \in {"start", "restart", "forget"}
    BY DEF Inv, TypeOK
  <2> QED
    BY <1>0, <1>4, <2>1, <2>2 DEF RenewIdentity
<1>5. CASE Resume
  BY <1>5 DEF Resume, LoadSession, UseSession, Validate
<1>6. CASE Authorize
  BY <1>6 DEF Authorize, StartDevice, HandoffLost, RequestLink, EnterToken,
     FinishEmail, Ended, Collected
<1>7. CASE Enter
  BY <1>7 DEF Enter, OpenVault, CopyReleasedVault, SaveSession, Activate, Publish
<1>8. CASE EditDetails \/ Unrecovered \/ Quit \/ RequestLinkLost \/ FinishEmailLost \/ Crash
  BY <1>8 DEF EditDetails, Unrecovered, Quit, RequestLinkLost, FinishEmailLost, Crash
<1>9. CASE SignOut
  BY <1>9 DEF SignOut
<1>10. CASE \E s \in granted : CollectedLost(s)
  BY <1>10 DEF CollectedLost, Collecting
<1>11. CASE Account \/ Expire \/ \E s \in linked : Revoke(s)
  <2>1. UNCHANGED <<pc, bound, legacySession, intent, after, dev>>
    BY <1>11 DEF Account, Approve, Expire, Revoke
  <2> QED
    BY <1>0, <2>1
<1>12. CASE UNCHANGED vars
  BY <1>0, <1>12 DEF vars
<1> QED
  BY <1>1, <1>2, <1>3, <1>4, <1>5, <1>6, <1>7, <1>8, <1>9, <1>10, <1>11, <1>12
     DEF Next, Rotate, Faulty

-----------------------------------------------------------------------------
(* What the files hold.                                                    *)

\* A device waits for approval only after the files were searched for a session
\* of it, or it is new.
LEMMA UnboundNext ==
  ASSUME Inv, [Next]_vars
  PROVE  Unbound'
<1> USE DEF Unbound, Authorizing, Collecting, files_, memory, relay, ghosts, Go
<1>1. CASE LoadSession
  <2>1. SUFFICES ASSUME pc' \in Authorizing \cup {"start", "restart"}
                 PROVE  \A s \in bound \cup ({legacySession} \ {None}) : s.id # dev
    BY <1>1 DEF LoadSession
  <2>2. NoActiveVault /\ UseSession(legacySession)
    <3>1. ASSUME NEW s \in files, ActiveVault(s), UseSession(s) PROVE FALSE
      <4>1. s # None /\ s.id = dev
        BY <3>1, SessionAssumption
           DEF ActiveVault, Named, Located, Discovered, BoundTo, Inv, TypeOK, SessionOf
      <4> QED
        BY <2>1, <3>1, <4>1 DEF UseSession
    <3> QED
      BY <1>1, <2>1, <3>1 DEF LoadSession
  <2>3. legacySession = None \/ legacySession.id # dev
    BY <2>1, <2>2 DEF UseSession
  <2> QED
    BY <2>2, <2>3 DEF NoActiveVault, Discovered, BoundTo
<1>2. CASE RenewIdentity
  <2>1. dev' = made + 1 /\ UNCHANGED <<bound, legacySession>>
    BY <1>2 DEF RenewIdentity, LoadOrCreate, Inv, Running
  <2>2. \A s \in bound \cup ({legacySession} \ {None}) : s.id <= made
    BY DEF Inv, Numbered, Issued, Held
  <2>3. made \in Nat /\ \A s \in bound \cup ({legacySession} \ {None}) : s.id \in Nat
    BY DEF Inv, TypeOK, SessionOf
  <2> QED
    BY <2>1, <2>2, <2>3
<1>3. CASE Startup
  BY <1>3 DEF Startup, Launch, AdoptPlaintext, DiscardPlaintext,
     CopyReleasedIdentity, LoadIdentity
<1>4. CASE Finish
  BY <1>4 DEF Finish, BeginFinish, AfterFinish, ClearVaultSession,
     ClearLegacySession, ForgetIntent
<1>5. CASE RetireIdentity \/ Validate
  BY <1>5 DEF RetireIdentity, Validate
<1>6. CASE Enter
  BY <1>6 DEF Enter, OpenVault, CopyReleasedVault, SaveSession, Activate, Publish
<1>7. CASE Authorize
  <2>1. /\ UNCHANGED <<bound, legacySession, dev>>
        /\ \/ pc \in Authorizing \cup {"start", "restart"}
           \/ pc' \notin Authorizing \cup {"start", "restart"}
    BY <1>7 DEF Authorize, StartDevice, HandoffLost, RequestLink, EnterToken,
       FinishEmail, Ended, Collected
  <2> QED
    BY <2>1 DEF Inv
<1>8. CASE Account \/ EditDetails \/ Unrecovered \/ Expire \/ Quit \/ Faulty
  <2>1. /\ UNCHANGED <<bound, legacySession, dev>>
        /\ \/ pc' = pc \/ pc \in Authorizing
           \/ pc' \notin Authorizing \cup {"start", "restart"}
    BY <1>8 DEF Account, Approve, EditDetails, Unrecovered, Expire, Quit, Faulty,
       RequestLinkLost, FinishEmailLost, Crash, SignOut, CollectedLost, Revoke
  <2> QED
    BY <2>1 DEF Inv
<1>9. CASE UNCHANGED vars
  BY <1>9 DEF Inv, vars
<1> QED
  BY <1>1, <1>2, <1>3, <1>4, <1>5, <1>6, <1>7, <1>8, <1>9 DEF Next, Rotate, Resume

\* A device that was signed out is in no file once its intent is gone, and
\* nothing is written for it again.
LEMMA SignOutNext ==
  ASSUME Inv, [Next]_vars
  PROVE  SignOutComplete'
<1> DEFINE Gone(i) == /\ identity # i /\ BoundTo(i) = {}
                      /\ legacySession = None \/ legacySession.id # i
<1> SUFFICES ASSUME NEW i \in signedOut', intent' = None \/ intent'.id # i
             PROVE  Gone(i)'
  BY DEF SignOutComplete
<1>0. /\ \A k \in signedOut : (intent = None \/ intent.id # k) => Gone(k)
      /\ made \in Nat /\ signedOut \subseteq Nat /\ \A k \in signedOut : k <= made
      /\ None \notin Nat /\ made + 1 \notin signedOut
  <2>1. /\ made \in Nat /\ signedOut \subseteq Nat /\ \A k \in signedOut : k <= made
        /\ None \notin Nat
    BY SessionAssumption DEF Inv, TypeOK, Numbered
  <2> QED
    BY <2>1 DEF Inv, SignOutComplete
<1> USE DEF BoundTo, files_, memory, ghosts, Go
<1>1. CASE UNCHANGED <<identity, bound, legacySession, intent, signedOut>>
  BY <1>0, <1>1
<1>2. CASE AdoptPlaintext \/ CopyReleasedIdentity \/ LoadIdentity
  <2>1. CASE AdoptPlaintext
    BY <1>0, <2>1 DEF AdoptPlaintext, Inv, Running
  <2>2. CASE CopyReleasedIdentity
    BY <1>0, <2>2 DEF CopyReleasedIdentity, ReleasedIsBound
  <2>3. CASE LoadIdentity
    BY <1>0, <2>3 DEF LoadIdentity, LoadOrCreate
  <2> QED
    BY <1>2, <2>1, <2>2, <2>3
<1>3. CASE ClearVaultSession \/ ClearLegacySession
  BY <1>0, <1>3 DEF ClearVaultSession, ClearLegacySession
<1>4. CASE ForgetIntent
  BY <1>0, <1>4 DEF ForgetIntent, Inv, Clearing, ClearedVault, ClearedLegacy,
     Running, BeforeIdentity
<1>5. CASE Rotate
  BY <1>0, <1>5 DEF Rotate, RetireIdentity, RenewIdentity, LoadOrCreate
<1>6. CASE Enter
  <2>1. pc \in Entering \ {"app"}
    BY <1>6 DEF Enter, OpenVault, SaveSession, Activate, Publish, Entering
  <2>2. intent = None /\ identity = sess.id
    BY <2>1 DEF Inv, Running, Entering, Finishing, BeforeIdentity
  <2>3. sess.id \notin signedOut
    BY <1>0, <2>2
  <2>4. bound' \subseteq bound \cup {sess}
    BY <1>6 DEF Enter, OpenVault, CopyReleasedVault, SaveSession, Activate, Publish
  <2>5. UNCHANGED <<identity, legacySession, intent, signedOut>>
    BY <1>6 DEF Enter, OpenVault, SaveSession, Activate, Publish
  <2> QED
    BY <1>0, <2>3, <2>4, <2>5
<1>7. CASE SignOut
  <2>1. sess # None
    BY <1>7 DEF SignOut, Inv, Running, Entering
  <2>2. i \in signedOut
    BY <1>7, <2>1 DEF SignOut, RecordIntent
  <2> QED
    BY <1>0, <1>7, <2>2 DEF SignOut
<1> QED
  BY <1>1, <1>2, <1>3, <1>4, <1>5, <1>6, <1>7, ZenonT(30)
     DEF Next, Startup, Launch, DiscardPlaintext, Finish, BeginFinish, Resume,
         LoadSession, Validate, Authorize, StartDevice, HandoffLost, RequestLink,
         EnterToken, FinishEmail, Ended, Collected, Account, Approve,
         EditDetails, Unrecovered, Expire, Quit, Faulty, RequestLinkLost,
         FinishEmailLost, Crash, CollectedLost, Revoke, vars

-----------------------------------------------------------------------------
(* The invariant, and what follows.                                        *)

\* A fresh install, and the files of a released version, satisfy the invariant.
LEMMA InitInv == Init => Inv
<1> SUFFICES ASSUME Init PROVE Inv
  OBVIOUS
<1>1. TypeOK
  <2>1. \A acct \in Accounts : [id |-> LegacyDevice, acct |-> acct] \in SessionOf
    BY DEF SessionOf, LegacyDevice
  <2>2. /\ legacyId \in {LegacyDevice, None} /\ plain \in SessionOf \cup {None}
        /\ legacySession \in SessionOf \cup {None}
        /\ linked \subseteq SessionOf /\ retired \subseteq Nat
    <3>1. CASE legacyId = None
      BY <3>1, SessionAssumption DEF Init, LegacyDevice
    <3> QED
      BY <2>1, <3>1 DEF Init, LegacyDevice
  <2>3. FilesTyped /\ RelayTyped
    BY <2>2 DEF Init, FilesTyped, RelayTyped
  <2>4. ProcessTyped
    BY DEF Init, ProcessTyped, Step
  <2>5. CountsTyped
    BY SessionAssumption DEF Init, CountsTyped, LegacyDevice
  <2> QED
    BY <2>3, <2>4, <2>5, TypeParts
<1>2. \/ Issued = {} /\ retired = {}
      \/ \E acct \in Accounts : LET s == [id |-> LegacyDevice, acct |-> acct] IN
           Issued = {s} /\ retired \subseteq {LegacyDevice} /\ Conflicts(LegacyDevice)
  <2>1. CASE legacyId = None
    BY <2>1, SessionAssumption DEF Init, Issued, Held, LegacyDevice
  <2>2. ASSUME NEW acct \in Accounts, NEW s, s = [id |-> LegacyDevice, acct |-> acct],
               \/ plain = s /\ legacySession = None
               \/ plain = None /\ legacySession = s,
               \/ linked = {s} /\ retired = {}
               \/ linked = {} /\ retired = {LegacyDevice}
        PROVE  Issued = {s} /\ retired \subseteq {LegacyDevice} /\ Conflicts(LegacyDevice)
    <3>1. s # None /\ s.id = LegacyDevice
      BY <2>2, SessionAssumption DEF LegacyDevice
    <3> QED
      BY <2>2, <3>1 DEF Init, Issued, Held, Conflicts
  <2> QED
    BY <2>1, <2>2 DEF Init
<1>3. Numbered /\ Unique /\ Known
  BY <1>2 DEF Init, Numbered, Unique, Known, LegacyDevice
<1>4. Fresh /\ Running /\ Clearing /\ Unbound /\ SignOutComplete
  BY DEF Init, Fresh, Running, BeforeIdentity, Finishing, Entering, Clearing,
     Unbound, Authorizing, Collecting, SignOutComplete
<1> QED
  BY <1>1, <1>3, <1>4 DEF Inv

\* No step leaves it.
LEMMA InvNext == Inv /\ [Next]_vars => Inv'
BY TypeNext, GivenOnceNext, NumberedNext, RunningNext, ClearingNext, UnboundNext,
   SignOutNext DEF Inv

\* The invariant holds whatever crashes, is lost or expires.
THEOREM Invariance == Spec => []Inv
<1>1. Init => Inv
  BY InitInv
<1>2. Inv /\ [Next]_vars => Inv'
  BY InvNext
<1> QED
  BY <1>1, <1>2, PTL DEF Spec

\* Every variable keeps its type: in particular a step that needs the device or
\* the session of memory never runs without one.
THEOREM TypeCorrect == Spec => []TypeOK
<1>1. Inv => TypeOK
  BY DEF Inv
<1> QED
  BY <1>1, Invariance, PTL

\* Once its intent is gone, nothing on disk is left of a device that was signed
\* out, wherever the clean-up was cut off and whatever was launched since.
THEOREM SignOutIsComplete == Spec => []SignOutComplete
<1>1. Inv => SignOutComplete
  BY DEF Inv
<1> QED
  BY <1>1, Invariance, PTL

\* The owner is asked to approve a device only while no file holds a session of
\* it that the relay still accepts.
THEOREM AskedOnlyIfNeeded == Spec => []AskedOnlyWhenNeeded
<1>1. Inv => AskedOnlyWhenNeeded
  BY DEF Inv, Unbound, AskedOnlyWhenNeeded
<1> QED
  BY <1>1, Invariance, PTL

\* Every sign-in a file, a process or the relay knows is the only one of its
\* device: clearing the vault of one session clears the device.
THEOREM OneSessionPerDevice == Spec => []Unique
<1>1. Inv => Unique
  BY DEF Inv
<1> QED
  BY <1>1, Invariance, PTL
=============================================================================
