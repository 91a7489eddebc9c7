----------------------------- MODULE Revocation -----------------------------
(***************************************************************************)
(* How the devices of one account take a revoked device out of a chat      *)
(* (sync_account_device_events, reconcile_revoked_device), while devices   *)
(* are added (sync_device), peers change the group, and revocations are    *)
(* asked for and approved (start_device_revocation,                        *)
(* poll_device_revocation).                                                *)
(*                                                                         *)
(* Every device runs one pass of sync_mailbox after another: the account's *)
(* events, its own Commits, then the mailbox.  A Commit is a node of the   *)
(* group's history: who made it, upon which node, and the members after    *)
(* it.  Node 1 is the chat as it begins; the peers follow the first Commit *)
(* the relay accepts upon each node.  Making a Commit and queueing it is   *)
(* one step here: module Handoff takes it apart.  Device ids are numbers,  *)
(* compared as the code compares the bytes of a UUID.                      *)
(***************************************************************************)
EXTENDS Naturals, FiniteSets, SequencesExt

CONSTANTS
  Devices,      \* the devices linked to the account
  Members,      \* those that are in the chat at first
  Revocable,    \* those the account may revoke
  Askers,       \* those whose user asks for it
  PeerCommits,  \* bound on membership changes by peers
  MaxFaults,    \* bound on failed calls, lost answers and restarts
  Nobody        \* no device

ASSUME RevocationAssumption ==
  /\ Devices \subseteq Nat /\ IsFiniteSet(Devices)
  /\ Members \subseteq Devices /\ Revocable \subseteq Devices
  /\ Askers \subseteq Devices
  /\ PeerCommits \in Nat /\ MaxFaults \in Nat
  /\ Nobody \notin Devices

VARIABLES
  \* the relay
  active,    \* devices of the account that are not revoked
  events,    \* per device: revoked devices it has not acknowledged yet
  asked,     \* open revocation requests: <<asking device, target>>
  lease,     \* the device that holds the chat's mutation lease, or Nobody
  head,      \* the node the peers are at
  mailbox,   \* per device: the nodes it has to read
  peerCommits,
  \* the devices
  made,      \* the nodes ever created
  view,      \* per device: the node its group is at, or 0 when not joined
  queued,    \* per device: its own Commit in the outbox, or 0
  awaiting,  \* per device: the target of its saved request, or Nobody
  adding,    \* per device: the device it has claimed a key of, or Nobody
  pc, batch, snap,  \* per device: step, fetched events, fetched device list
  faults,
  \* ghosts
  relied,    \* <<t, e>>: the removal of t was left to e, active by the list
  blind,     \* <<t, d>>: d acknowledged while behind (see Behind)
  astray     \* targets removed upon a node the peers had left

relay  == <<active, events, asked, lease, head, mailbox, peerCommits>>
groups == <<made, view, queued>>
passes == <<pc, batch, snap>>
wants  == <<awaiting, adding>>
ghosts == <<relied, blind, astray>>
vars   == <<relay, groups, wants, passes, faults, ghosts>>

-----------------------------------------------------------------------------
Node == [base : Nat, members : SUBSET Devices]
Step == {"poll", "add", "list", "handle", "ack", "flush", "mail"}

TypeOK ==
  /\ active \subseteq Devices /\ asked \subseteq Devices \X Revocable
  /\ events \in [Devices -> Seq(Revocable)]
  /\ lease \in active \cup {Nobody}
  /\ made \in Seq(Node) /\ head \in 1 .. Len(made)
  /\ mailbox \in [Devices -> Seq(1 .. Len(made))]
  /\ view \in [Devices -> 0 .. Len(made)]
  /\ queued \in [Devices -> 0 .. Len(made)]
  /\ \A d \in active : queued[d] # 0 => lease = d /\ view[d] = queued[d]
  /\ awaiting \in [Devices -> Revocable \cup {Nobody}]
  /\ adding \in [Devices -> Devices \cup {Nobody}]
  /\ pc \in [Devices -> Step]
  /\ batch \in [Devices -> Seq(Revocable)]
  /\ \A d \in active : pc[d] \in {"handle", "ack"} => batch[d] # <<>>
  /\ snap \in [Devices -> SUBSET Devices]
  /\ peerCommits \in Nat /\ faults \in Nat
  /\ relied \cup blind \subseteq Revocable \X Devices
  /\ astray \subseteq Revocable

Init ==
  /\ active = Devices /\ asked = {} /\ lease = Nobody /\ head = 1
  /\ events = [d \in Devices |-> <<>>] /\ mailbox = [d \in Devices |-> <<>>]
  /\ peerCommits = 0 /\ faults = 0
  /\ made = <<[base |-> 0, members |-> Members]>>
  /\ view = [d \in Devices |-> IF d \in Members THEN 1 ELSE 0]
  /\ queued = [d \in Devices |-> 0]
  /\ awaiting = [d \in Devices |-> Nobody] /\ adding = awaiting
  /\ pc = [d \in Devices |-> "poll"]
  /\ batch = [d \in Devices |-> <<>>] /\ snap = [d \in Devices |-> {}]
  /\ relied = {} /\ blind = {} /\ astray = {}

-----------------------------------------------------------------------------
At(d, s) == d \in active /\ pc[d] = s
Goto(d, s) == pc' = [pc EXCEPT ![d] = s]
\* After the events comes the flush, when something is queued; what was
\* fetched for the events is dropped.
AfterEvents(d) == IF queued[d] = 0 THEN "mail" ELSE "flush"
Leave(d, s) ==
  /\ Goto(d, s)
  /\ batch' = [batch EXCEPT ![d] = <<>>] /\ snap' = [snap EXCEPT ![d] = {}]

\* What the device's group says; nothing when it has not joined.
MembersOf(d) == IF view[d] = 0 THEN {} ELSE made[view[d]].members

\* A Commit of this device upon its own node, queued under the lease.
Queue(d, members) ==
  /\ made' = Append(made, [base |-> view[d], members |-> members])
  /\ view' = [view EXCEPT ![d] = Len(made)']
  /\ queued' = [queued EXCEPT ![d] = Len(made)']
  /\ lease' = d

\* The relay delivers a Commit to the members it keeps and a Welcome to those
\* it adds; peers can follow only a Commit upon the node they are at.
Deliver(n, members, sender) ==
  /\ mailbox' = [d \in Devices |->
       IF d \in (members \cap active) \ {sender}
         THEN Append(mailbox[d], n) ELSE mailbox[d]]
  /\ lease' = Nobody

-----------------------------------------------------------------------------
(* The account's owner, at a terminal and in the browser.                  *)

\* What the relay lists, and what a prefix can name: a device of the account
\* that is not revoked and is not this one.
ActiveDevices == active
Named(d)      == ActiveDevices \ {d}

Requested(d, t) == asked' = asked \cup {<<d, t>>}

\* The saved request may be lost with the answer; the relay's is not.
Ask(d, t) ==
  /\ d \in Askers /\ At(d, "poll") /\ awaiting[d] = Nobody
  /\ t \in Revocable \cap Named(d)
  /\ Requested(d, t)
  /\ \/ awaiting' = [awaiting EXCEPT ![d] = t] /\ UNCHANGED faults
     \/ /\ faults < MaxFaults /\ faults' = faults + 1
        /\ UNCHANGED awaiting
  /\ UNCHANGED <<active, events, lease, head, mailbox, peerCommits, groups,
                 adding, passes, ghosts>>

Forget(f, t, value) == f' = [f EXCEPT ![t] = value]

\* Every other device is told.  The revoked one is out of its session: its
\* lease is void, and what it still holds is not looked at any more.
Approve(d, t) ==
  /\ <<d, t>> \in asked /\ t \in active
  /\ asked' = asked \ {<<d, t>>}
  /\ active' = active \ {t}
  /\ events' = [o \in Devices |->
       IF o \in active \ {t} THEN Append(events[o], t) ELSE <<>>]
  /\ lease' = IF lease = t THEN Nobody ELSE lease
  /\ Forget(mailbox, t, <<>>) /\ Forget(view, t, 0) /\ Forget(queued, t, 0)
  /\ Forget(pc, t, "poll") /\ Forget(batch, t, <<>>) /\ Forget(snap, t, {})
  /\ Forget(awaiting, t, Nobody) /\ Forget(adding, t, Nobody)
  /\ UNCHANGED <<head, peerCommits, made, faults, ghosts>>

Expire(d, t) ==
  /\ <<d, t>> \in asked /\ asked' = asked \ {<<d, t>>}
  /\ UNCHANGED <<active, events, lease, head, mailbox, peerCommits, groups,
                 wants, passes, faults, ghosts>>

\* claim_account_device_key_packages: none is given of a revoked device.
KeyPackageOf(t) == t \in active

\* /sync-device, between two passes: the lease, and with it a key package.  One
\* that is refused gives the lease back.
ClaimPackage(d, t) ==
  /\ At(d, "poll") /\ t \in Named(d)
  /\ view[d] # 0 /\ t \notin MembersOf(d) /\ queued[d] = 0
  /\ lease = Nobody /\ KeyPackageOf(t)
  /\ lease' = d
  /\ adding' = [adding EXCEPT ![d] = t] /\ Goto(d, "add")
  /\ UNCHANGED <<active, events, asked, head, mailbox, peerCommits, groups,
                 awaiting, batch, snap, faults, ghosts>>

\* add_device: the relay is not asked again about the device that is added.  The
\* command ends with a flush.
AddDevice(d) ==
  /\ At(d, "add")
  /\ Queue(d, MembersOf(d) \cup {adding[d]})
  /\ adding' = [adding EXCEPT ![d] = Nobody] /\ Goto(d, "flush")
  /\ UNCHANGED <<active, events, asked, head, mailbox, peerCommits, awaiting,
                 batch, snap, faults, ghosts>>

PeerCommit ==
  /\ lease = Nobody /\ peerCommits < PeerCommits
  /\ peerCommits' = peerCommits + 1
  /\ made' = Append(made, [base |-> head, members |-> made[head].members])
  /\ head' = Len(made)'
  /\ Deliver(Len(made)', made[head].members, Nobody)
  /\ UNCHANGED <<active, events, asked, view, queued, wants, passes, faults,
                 ghosts>>

-----------------------------------------------------------------------------
(* One pass of a device.                                                   *)

\* The relay no longer has the request: it was approved, or it expired.
Answered(d) == awaiting[d] # Nobody /\ <<d, awaiting[d]>> \notin asked

\* The events that the relay keeps until they are acknowledged.
DeviceEvents(d) == events[d]

\* An answered request is forgotten; then the events are fetched.
Poll(d) ==
  /\ At(d, "poll")
  /\ awaiting' = IF Answered(d) THEN [awaiting EXCEPT ![d] = Nobody]
                                ELSE awaiting
  /\ batch' = [batch EXCEPT ![d] = DeviceEvents(d)]
  /\ Goto(d, IF DeviceEvents(d) = <<>> THEN AfterEvents(d) ELSE "list")
  /\ UNCHANGED <<relay, groups, adding, snap, faults, ghosts>>

\* The list is fetched once, after the events.
FetchDevices(d) ==
  /\ At(d, "list") /\ Goto(d, "handle")
  /\ snap' = [snap EXCEPT ![d] = ActiveDevices]
  /\ UNCHANGED <<relay, groups, wants, batch, faults, ghosts>>

\* Mutant: a revoked device can be elected.
ElectedOfAll(d) ==
  CHOOSE e \in MembersOf(d) : \A o \in MembersOf(d) : e <= o

\* The smallest device that is a member and was active when the list came.
Elected(d) ==
  CHOOSE e \in MembersOf(d) \cap snap[d] :
    \A o \in MembersOf(d) \cap snap[d] : e <= o

Target(d) == Head(batch[d])

\* The chat needs nothing, or another device is to see to it.
LeaveAlone(d) ==
  /\ At(d, "handle") /\ Target(d) \notin MembersOf(d)
  /\ Goto(d, "ack")
  /\ UNCHANGED <<relay, groups, wants, batch, snap, faults, ghosts>>

LeaveToElected(d) ==
  /\ At(d, "handle") /\ Target(d) \in MembersOf(d) /\ Elected(d) # d
  /\ relied' = IF Elected(d) \in snap[d]
                  THEN relied \cup {<<Target(d), Elected(d)>>} ELSE relied
  /\ Goto(d, "ack")
  /\ UNCHANGED <<relay, groups, wants, batch, snap, faults, blind, astray>>

MustRemove(d) ==
  At(d, "handle") /\ Target(d) \in MembersOf(d) /\ Elected(d) = d

\* Mutant: the lease is not asked for.
RemoveUnleased(d) ==
  /\ MustRemove(d) /\ queued[d] = 0
  /\ Queue(d, MembersOf(d) \ {Target(d)})
  /\ astray' = IF view[d] = head THEN astray ELSE astray \cup {Target(d)}
  /\ Goto(d, "ack")
  /\ UNCHANGED <<active, events, asked, head, mailbox, peerCommits, wants,
                 batch, snap, faults, relied, blind>>

\* remove_device
Without(d, t) == MembersOf(d) \ {t}

\* A removal upon a node the peers have left cannot be read by them.
RemoveTarget(d) ==
  /\ MustRemove(d) /\ queued[d] = 0 /\ lease = Nobody
  /\ Queue(d, Without(d, Target(d)))
  /\ astray' = IF view[d] = head THEN astray ELSE astray \cup {Target(d)}
  /\ Goto(d, "ack")
  /\ UNCHANGED <<active, events, asked, head, mailbox, peerCommits, wants,
                 batch, snap, faults, relied, blind>>

\* Mutant: the chat is passed over, and the event acknowledged.
RefusedSkips(d) ==
  /\ MustRemove(d) /\ (queued[d] # 0 \/ lease # Nobody)
  /\ Goto(d, "ack")
  /\ UNCHANGED <<relay, groups, wants, batch, snap, faults, ghosts>>

\* A queued membership change or a taken lease ends the handling of events.
Refused(d) ==
  /\ MustRemove(d) /\ (queued[d] # 0 \/ lease # Nobody)
  /\ Leave(d, AfterEvents(d))
  /\ UNCHANGED <<relay, groups, wants, faults, ghosts>>

\* The device deals with the event while its group lacks a target that is in
\* the chat, or about to be (its addition is queued, or its key claimed), and
\* not because of its own queued removal.
Behind(d, t) ==
  /\ t \notin MembersOf(d)
  /\ queued[d] # 0 => t \notin made[made[queued[d]].base].members
  /\ \/ t \in made[head].members
     \/ \E o \in active : queued[o] # 0 /\ t \in made[queued[o]].members
     \/ \E o \in active : adding[o] = t

Acknowledged(d) ==
  /\ events' = [events EXCEPT ![d] = Tail(@)]
  /\ blind' = IF Behind(d, Target(d)) THEN blind \cup {<<Target(d), d>>}
                                      ELSE blind

Ack(d) ==
  /\ At(d, "ack") /\ Acknowledged(d)
  /\ IF Len(batch[d]) = 1 THEN Leave(d, AfterEvents(d))
       ELSE /\ Goto(d, "handle") /\ batch' = [batch EXCEPT ![d] = Tail(@)]
            /\ UNCHANGED snap
  /\ UNCHANGED <<active, asked, lease, head, mailbox, peerCommits, groups,
                 wants, faults, relied, astray>>

\* The relay takes the Commit with the lease it was made under.
Send(d) ==
  /\ At(d, "flush") /\ queued[d] # 0
  /\ LET n == queued[d] IN
       /\ Deliver(n, made[n].members, d)
       /\ head' = IF made[n].base = head THEN n ELSE head
  /\ queued' = [queued EXCEPT ![d] = 0]
  /\ Goto(d, "mail")
  /\ UNCHANGED <<active, events, asked, peerCommits, made, view, wants,
                 batch, snap, faults, ghosts>>

\* A Commit can be read at the node it was made upon, a Welcome at none.
Readable(d) ==
  /\ mailbox[d] # <<>>
  /\ LET n == Head(mailbox[d]) IN view[d] \in {0, made[n].base}

Read(d) ==
  /\ At(d, "mail") /\ Readable(d)
  /\ view' = [view EXCEPT ![d] = Head(mailbox[d])]
  /\ mailbox' = [mailbox EXCEPT ![d] = Tail(@)]
  /\ UNCHANGED <<active, events, asked, lease, head, peerCommits, made, queued,
                 wants, passes, faults, ghosts>>

\* The mailbox is empty, or its first message cannot be read.
EndPass(d) ==
  /\ At(d, "mail") /\ ~Readable(d)
  /\ Goto(d, "poll")
  /\ UNCHANGED <<relay, groups, wants, batch, snap, faults, ghosts>>

-----------------------------------------------------------------------------
\* A call fails, or the process is restarted: the pass goes on with the flush,
\* ends, or begins again.  An acknowledgement may have reached the relay.  The
\* lease of an addition that was not made stays taken.
Fault(d) ==
  /\ faults < MaxFaults /\ faults' = faults + 1
  /\ d \in active /\ pc[d] # "poll"
  /\ \/ pc[d] \in {"list", "handle", "ack"} /\ Leave(d, AfterEvents(d))
     \/ Leave(d, "poll")
  /\ \/ UNCHANGED <<events, blind>>
     \/ pc[d] = "ack" /\ Acknowledged(d)
  /\ adding' = [adding EXCEPT ![d] = Nobody]
  /\ UNCHANGED <<active, asked, lease, head, mailbox, peerCommits, groups,
                 awaiting, relied, astray>>

Pass(d) ==
  \/ AddDevice(d) \/ Poll(d) \/ FetchDevices(d)
  \/ LeaveAlone(d) \/ LeaveToElected(d) \/ RemoveTarget(d) \/ Refused(d)
  \/ Ack(d)
  \/ Send(d) \/ Read(d) \/ EndPass(d)

Next ==
  \/ \E d \in Devices : Pass(d) \/ Fault(d)
  \/ \E d, t \in Devices : Ask(d, t) \/ ClaimPackage(d, t)
  \/ \E r \in asked : Approve(r[1], r[2]) \/ Expire(r[1], r[2])
  \/ PeerCommit

\* Every device that is not revoked goes on polling.
Spec == Init /\ [][Next]_vars /\ \A d \in Devices : WF_vars(Pass(d))

-----------------------------------------------------------------------------
Gone(t) == t \notin made[head].members

\* The ways a revoked device stays in the chat: no device of the account was
\* up to date with the group when it dealt with the event; the elected device
\* was itself revoked, or was the one behind; or it made the removal upon a
\* node the peers had left.  A device is behind also when the target's addition
\* is still to be made, with a key package claimed before the revocation: the
\* addition then crosses an acknowledgement.
Excused(t) ==
  \/ \A d \in active : <<t, d>> \in blind
  \/ \E e \in Devices : <<t, e>> \in relied
                         /\ (e \notin active \/ <<t, e>> \in blind)
  \/ t \in astray

\* No device has the event any more, and no removal waits to be sent.
Settled(t) ==
  \A d \in active :
    /\ t \notin Range(events[d])
    /\ queued[d] # 0 => t \in made[queued[d]].members
                          \/ t \notin made[made[queued[d]].base].members

\* When everybody has acknowledged a revocation, the device is out of the
\* chat for the peers, unless one of the named causes has come about: among
\* devices that are up to date the election leaves nobody behind, whatever
\* failed, restarted or was answered in vain.
LeftBehindWithCause ==
  \A t \in Revocable \ active : Settled(t) => Gone(t) \/ Excused(t)

\* A lease that nothing is going to use.
Leaked == lease # Nobody /\ queued[lease] = 0 /\ pc[lease] # "add"

\* Each revocation is carried out, or one of those causes comes about, or an
\* addition that was broken off keeps the lease for ever.
RevocationSettles ==
  \A t \in Revocable :
    [](t \notin active => <>(Gone(t) \/ Excused(t) \/ []Leaked))
=============================================================================
