-------------------------- MODULE RevocationProofs --------------------------
(***************************************************************************)
(* Proofs about Revocation, for any devices, any Commits of peers and any  *)
(* number of failed calls and restarts.                                    *)
(*                                                                         *)
(* The argument for LeftBehindWithCause: a device that acknowledged an     *)
(* event has queued the removal, has left it to a smaller device, was      *)
(* behind, or the target was out for good (Dealt): not in it, and with no  *)
(* addition of it queued or claimed, which no step can undo for a device   *)
(* that is revoked.  Among devices that were not behind, each leaves it to *)
(* a smaller one only, so the smallest of them did not (LeastExists).      *)
(***************************************************************************)
EXTENDS Revocation, WellFoundedInduction, TLAPS

\* A device that has claimed a key holds the lease and has nothing queued; it
\* has none but then.
Claims ==
  \A d \in active :
    /\ pc[d] = "add" =>
         lease = d /\ queued[d] = 0 /\ view[d] # 0 /\ adding[d] \in Devices
    /\ pc[d] # "add" => adding[d] = Nobody

\* A Commit is upon a node there was, and only the holder of the lease has one.
Queues ==
  /\ \A d \in active : queued[d] # 0 => made[queued[d]].base \in 1 .. Len(made)
  /\ \A d \in active : pc[d] = "mail" => queued[d] = 0
  /\ \A t \in Devices \ active : queued[t] = 0

\* A device is a member of the group it has, or is about to read.
Joined ==
  \A d \in active :
    /\ view[d] # 0 => d \in made[view[d]].members
    /\ \A i \in DOMAIN mailbox[d] : d \in made[mailbox[d][i]].members

\* The events are of revoked devices, and what was fetched is still the first
\* of them.
Fetched ==
  \A d \in active :
    /\ \A i \in DOMAIN events[d] : events[d][i] \notin active
    /\ \A i \in DOMAIN batch[d] :
         i \in DOMAIN events[d] /\ events[d][i] = batch[d][i]
    /\ pc[d] = "list" => batch[d] # <<>>
    /\ pc[d] \in {"handle", "ack"} => d \in snap[d]

\* The target is not in the chat, and nobody is about to bring it back.
OutForGood(t) ==
  /\ t \notin made[head].members
  /\ \A o \in active : adding[o] # t
  /\ \A o \in active : queued[o] # 0 /\ made[queued[o]].base = head
                         => t \notin made[queued[o]].members

Removing(d, t) ==
  /\ queued[d] # 0
  /\ t \in made[made[queued[d]].base].members
  /\ t \notin made[queued[d]].members

LeftToSmaller(d, t) == \E e \in Devices : e < d /\ <<t, e>> \in relied

\* The removal a device has queued is upon the node the peers are at.
Timely ==
  \A d \in active, t \in Devices :
    Removing(d, t) => made[queued[d]].base = head \/ t \in astray

\* What a device has made of an event when it is to acknowledge it.
Handled ==
  \A d \in active : pc[d] = "ack" =>
    Target(d) \notin MembersOf(d) \/ LeftToSmaller(d, Target(d))

\* And what is so of each that it has acknowledged.
Dealt ==
  \A d \in active, t \in Revocable \ active :
    t \notin Range(events[d]) =>
      \/ <<t, d>> \in blind \/ LeftToSmaller(d, t) \/ t \in astray
      \/ OutForGood(t) \/ Removing(d, t)

Inv ==
  /\ TypeOK /\ Queues /\ Joined /\ Fetched /\ Claims
  /\ Timely /\ Handled /\ Dealt

-----------------------------------------------------------------------------
(* Sequences, and the least of some numbers.                               *)

\* A node is added at the end.
LEMMA MadeGrows ==
  ASSUME TypeOK, NEW n \in Node, made' = Append(made, n)
  PROVE  /\ made' \in Seq(Node) /\ Len(made') = Len(made) + 1
         /\ Len(made) \in Nat /\ Len(made) >= 1
         /\ \A i \in 1 .. Len(made) : made'[i] = made[i]
         /\ made'[Len(made')] = n
  BY DEF TypeOK

\* One is put at the end.
LEMMA PutLast ==
  ASSUME NEW S, NEW s \in Seq(S), NEW x \in S
  PROVE  /\ Append(s, x) \in Seq(S)
         /\ DOMAIN s \subseteq DOMAIN Append(s, x)
         /\ \A i \in DOMAIN s : Append(s, x)[i] = s[i]
         /\ \A i \in DOMAIN Append(s, x) : i \in DOMAIN s \/ Append(s, x)[i] = x
         /\ x \in Range(Append(s, x))
<1>1. /\ Append(s, x) \in Seq(S) /\ Len(s) \in Nat
      /\ DOMAIN s = 1 .. Len(s) /\ DOMAIN Append(s, x) = 1 .. Len(s) + 1
      /\ \A i \in 1 .. Len(s) : Append(s, x)[i] = s[i]
      /\ Append(s, x)[Len(s) + 1] = x
  OBVIOUS
<1> QED
  BY <1>1 DEF Range

\* The first is taken out.
LEMMA TakeFirst ==
  ASSUME NEW S, NEW s \in Seq(S), s # <<>>
  PROVE  /\ Tail(s) \in Seq(S) /\ Head(s) \in S /\ 1 \in DOMAIN s /\ Head(s) = s[1]
         /\ \A i \in DOMAIN Tail(s) : i + 1 \in DOMAIN s /\ Tail(s)[i] = s[i + 1]
         /\ \A i \in DOMAIN s : i # 1 => i - 1 \in DOMAIN Tail(s)
                                         /\ Tail(s)[i - 1] = s[i]
         /\ DOMAIN s \subseteq Nat \ {0} /\ DOMAIN Tail(s) \subseteq Nat \ {0}
         /\ Len(s) # 1 => Tail(s) # <<>>
<1>1. Tail(s) \in Seq(S) /\ Head(s) \in S /\ Head(s) = s[1]
  OBVIOUS
<1>2. /\ Len(s) \in Nat /\ Len(s) >= 1 /\ DOMAIN s = 1 .. Len(s)
      /\ DOMAIN Tail(s) = 1 .. Len(s) - 1 /\ Len(Tail(s)) = Len(s) - 1
      /\ \A i \in 1 .. Len(s) - 1 : Tail(s)[i] = s[i + 1]
  OBVIOUS
<1>3. Len(s) # 1 => Tail(s) # <<>>
  <2> SUFFICES ASSUME Tail(s) = <<>> PROVE Len(s) = 1
    OBVIOUS
  <2>1. Len(<<>>) = 0
    OBVIOUS
  <2>2. Len(Tail(s)) = 0
    BY <2>1
  <2>3. Len(Tail(s)) = Len(s) - 1 /\ Len(s) \in Nat
    BY <1>2
  <2> QED
    BY <2>2, <2>3
<1> QED
  BY <1>1, <1>2, <1>3

\* Some natural numbers have a least one.
LEMMA LeastExists ==
  ASSUME NEW S \in SUBSET Nat, S # {}
  PROVE  \E e \in S : \A o \in S : e <= o
<1> DEFINE Before == OpToRel(<, Nat)
<1>1. \A a, b \in Nat : a < b => <<a, b>> \in Before
  BY Zenon DEF OpToRel
<1>2. IsWellFoundedOn(Before, Nat)
  BY NatLessThanWellFounded, Zenon
<1> HIDE DEF Before
<1>3. PICK e \in S : \A o \in S : ~(<<o, e>> \in Before)
  BY <1>2, WFMin, Zenon
<1>4. ASSUME NEW o \in S PROVE e <= o
  <2>1. e \in Nat /\ o \in Nat
    OBVIOUS
  <2>2. ~(o < e)
    BY <1>1, <1>3, <2>1, Zenon
  <2> QED
    BY <2>1, <2>2
<1> QED
  BY <1>4

-----------------------------------------------------------------------------
(* Types.                                                                  *)

\* The first event is the one that is being dealt with.
LEMMA AtFirstEvent ==
  ASSUME TypeOK, Fetched, NEW d \in active, pc[d] \in {"handle", "ack"}
  PROVE  /\ Target(d) \in Revocable \ active
         /\ events[d] # <<>> /\ Target(d) = Head(events[d])
         /\ d \in snap[d]
<1>1. batch[d] \in Seq(Revocable) /\ batch[d] # <<>> /\ d \in Devices
      /\ events[d] \in Seq(Revocable)
  BY DEF TypeOK
<1>2. 1 \in DOMAIN batch[d] /\ Target(d) = batch[d][1] /\ Target(d) \in Revocable
  BY <1>1, TakeFirst DEF Target
<1>3. 1 \in DOMAIN events[d] /\ events[d][1] = Target(d) /\ Target(d) \notin active
  BY <1>2 DEF Fetched
<1>4. events[d] # <<>> /\ Head(events[d]) = events[d][1]
  BY <1>1, <1>3
<1> QED
  BY <1>2, <1>3, <1>4 DEF Fetched

\* Where a membership is queued.
LEMMA QueueTyped ==
  ASSUME TypeOK, NEW d \in active, NEW members \in SUBSET Devices,
         Queue(d, members)
  PROVE  /\ made' \in Seq(Node) /\ Len(made') = Len(made) + 1
         /\ Len(made) \in Nat /\ Len(made) >= 1
         /\ \A i \in 1 .. Len(made) : made'[i] = made[i]
         /\ made'[Len(made')] = [base |-> view[d], members |-> members]
         /\ view' = [view EXCEPT ![d] = Len(made')]
         /\ queued' = [queued EXCEPT ![d] = Len(made')]
         /\ lease' = d
<1>1. [base |-> view[d], members |-> members] \in Node
  <2>1. view[d] \in 0 .. Len(made)
    BY DEF TypeOK
  <2>2. Len(made) \in Nat
    BY DEF TypeOK
  <2> QED
    BY <2>1, <2>2 DEF Node
<1>2. made' = Append(made, [base |-> view[d], members |-> members])
  BY DEF Queue
<1> QED
  BY <1>1, <1>2, MadeGrows DEF Queue

\* What the relay puts into the mailboxes when it takes a Commit.
LEMMA DeliverTyped ==
  ASSUME TypeOK, NEW N \in Nat, Len(made) <= N, NEW n \in 1 .. N,
         NEW members, NEW sender, Deliver(n, members, sender)
  PROVE  /\ mailbox' \in [Devices -> Seq(1 .. N)]
         /\ \A d \in Devices : \A i \in DOMAIN mailbox'[d] :
              \/ i \in DOMAIN mailbox[d] /\ mailbox'[d][i] = mailbox[d][i]
              \/ mailbox'[d][i] = n /\ d \in members
<1>1. ASSUME NEW d \in Devices PROVE mailbox[d] \in Seq(1 .. N)
  <2>1. mailbox[d] \in Seq(1 .. Len(made)) /\ Len(made) \in Nat
    BY DEF TypeOK
  <2>2. Len(mailbox[d]) \in Nat /\ mailbox[d] \in [1 .. Len(mailbox[d]) -> 1 .. Len(made)]
    BY <2>1
  <2>3. mailbox[d] \in [1 .. Len(mailbox[d]) -> 1 .. N]
    BY <2>1, <2>2
  <2> QED
    BY <2>2, <2>3
<1>2. ASSUME NEW d \in Devices
      PROVE  /\ mailbox'[d] \in Seq(1 .. N)
             /\ \A i \in DOMAIN mailbox'[d] :
                  \/ i \in DOMAIN mailbox[d] /\ mailbox'[d][i] = mailbox[d][i]
                  \/ mailbox'[d][i] = n /\ d \in members
  <2>1. mailbox'[d] = IF d \in (members \cap active) \ {sender}
                        THEN Append(mailbox[d], n) ELSE mailbox[d]
    BY DEF Deliver
  <2>2. CASE d \in (members \cap active) \ {sender}
    BY <1>1, <2>1, <2>2, PutLast
  <2>3. CASE d \notin (members \cap active) \ {sender}
    BY <1>1, <2>1, <2>3
  <2> QED
    BY <2>2, <2>3
<1>3. mailbox' = [d \in Devices |-> mailbox'[d]]
  BY DEF Deliver
<1> QED
  BY <1>2, <1>3

\* The members of a node are devices.
LEMMA NodesTyped ==
  ASSUME TypeOK
  PROVE  /\ made \in Seq(Node) /\ Len(made) \in Nat /\ head \in 1 .. Len(made)
         /\ \A i \in 1 .. Len(made) : made[i] \in Node
         /\ \A i \in 1 .. Len(made) : made[i].members \subseteq Devices
<1>1. made \in Seq(Node) /\ Len(made) \in Nat /\ head \in 1 .. Len(made)
  BY DEF TypeOK
<1>2. \A i \in 1 .. Len(made) : made[i] \in Node
  BY <1>1
<1> QED
  BY <1>1, <1>2 DEF Node

\* So are those that a device knows.
LEMMA MembersTyped ==
  ASSUME TypeOK, NEW d \in Devices
  PROVE  /\ MembersOf(d) \subseteq Devices
         /\ view[d] # 0 => view[d] \in 1 .. Len(made)
         /\ queued[d] # 0 => queued[d] \in 1 .. Len(made)
<1>1. Len(made) \in Nat /\ view[d] \in 0 .. Len(made) /\ queued[d] \in 0 .. Len(made)
  BY DEF TypeOK
<1>2. view[d] # 0 => view[d] \in 1 .. Len(made)
  BY <1>1
<1> QED
  BY <1>1, <1>2, NodesTyped DEF MembersOf

\* What a pass leaves behind when it goes on.
LEMMA LeaveTyped ==
  ASSUME TypeOK, NEW d \in active, NEW s \in {"mail", "flush", "poll"},
         Leave(d, s)
  PROVE  /\ pc' \in [Devices -> Step]
         /\ batch' \in [Devices -> Seq(Revocable)]
         /\ snap' \in [Devices -> SUBSET Devices]
         /\ \A o \in active : pc'[o] \in {"handle", "ack"} => batch'[o] # <<>>
<1>1. /\ pc' = [pc EXCEPT ![d] = s] /\ batch' = [batch EXCEPT ![d] = <<>>]
      /\ snap' = [snap EXCEPT ![d] = {}] /\ d \in Devices
  BY DEF Leave, Goto, TypeOK
<1>2. pc' \in [Devices -> Step] /\ snap' \in [Devices -> SUBSET Devices]
  BY <1>1 DEF TypeOK, Step
<1>3. batch' \in [Devices -> Seq(Revocable)]
  BY <1>1 DEF TypeOK
<1>4. \A o \in active : pc'[o] \in {"handle", "ack"} => batch'[o] # <<>>
  BY <1>1 DEF TypeOK
<1> QED
  BY <1>2, <1>3, <1>4

\* Every step keeps the types.
LEMMA TypeNext ==
  ASSUME TypeOK, Queues, Joined, Fetched, Claims, [Next]_vars
  PROVE  TypeOK'
<1> USE RevocationAssumption DEF relay, groups, wants, passes, ghosts
<1>1. ASSUME NEW d \in Devices,
             LeaveAlone(d) \/ LeaveToElected(d) \/ FetchDevices(d) \/ EndPass(d)
      PROVE  TypeOK'
  <2>1. CASE LeaveAlone(d) \/ EndPass(d)
    <3>1. /\ pc[d] \in {"handle", "mail"} /\ d \in active
          /\ UNCHANGED <<relay, groups, wants, batch, snap, faults, ghosts>>
      BY <2>1 DEF LeaveAlone, EndPass, At
    <3>2. pc' \in {[pc EXCEPT ![d] = "ack"], [pc EXCEPT ![d] = "poll"]}
      BY <2>1 DEF LeaveAlone, EndPass, Goto
    <3>3. LeaveAlone(d) => pc[d] = "handle" /\ pc' = [pc EXCEPT ![d] = "ack"]
      BY DEF LeaveAlone, At, Goto
    <3>4. EndPass(d) => pc' = [pc EXCEPT ![d] = "poll"]
      BY DEF EndPass, Goto
    <3> QED
      BY <2>1, <3>1, <3>3, <3>4 DEF TypeOK, Step
  <2>2. CASE LeaveToElected(d)
    <3>1. /\ Target(d) \in Revocable /\ pc' = [pc EXCEPT ![d] = "ack"]
          /\ pc[d] = "handle" /\ d \in active
      BY <2>2, AtFirstEvent DEF LeaveToElected, At, Goto
    <3>2. relied' \subseteq Revocable \X Devices
      <4>1. Elected(d) \in snap[d] => Elected(d) \in Devices
        BY DEF TypeOK
      <4> QED
        BY <2>2, <3>1, <4>1 DEF LeaveToElected, TypeOK
    <3>3. UNCHANGED <<relay, groups, wants, batch, snap, faults, blind, astray>>
      BY <2>2 DEF LeaveToElected
    <3> QED
      BY <3>1, <3>2, <3>3 DEF TypeOK, Step
  <2>3. CASE FetchDevices(d)
    BY <2>3 DEF FetchDevices, At, Goto, ActiveDevices, TypeOK, Step, Fetched
  <2> QED
    BY <1>1, <2>1, <2>2, <2>3
<1>2. ASSUME NEW d \in Devices, Poll(d) PROVE TypeOK'
  BY <1>2 DEF Poll, At, Goto, DeviceEvents, AfterEvents, TypeOK, Step
<1>3. ASSUME NEW d \in Devices, NEW members \in SUBSET Devices, d \in active,
             Queue(d, members), pc' \in {[pc EXCEPT ![d] = "ack"],
                                         [pc EXCEPT ![d] = "flush"]},
             pc' = [pc EXCEPT ![d] = "ack"] => batch[d] # <<>>,
             queued[d] = 0, lease \in {d, Nobody}, astray' \subseteq Revocable,
             adding' \in [Devices -> Devices \cup {Nobody}],
             UNCHANGED <<active, events, asked, head, mailbox, peerCommits,
                         awaiting, batch, snap, faults, relied, blind>>
      PROVE  TypeOK'
  <2>1. /\ made' \in Seq(Node) /\ Len(made') = Len(made) + 1
        /\ Len(made) \in Nat /\ Len(made) >= 1
        /\ view' = [view EXCEPT ![d] = Len(made')]
        /\ queued' = [queued EXCEPT ![d] = Len(made')] /\ lease' = d
    BY <1>3, QueueTyped
  <2>2. head' \in 1 .. Len(made') /\ view' \in [Devices -> 0 .. Len(made')]
        /\ queued' \in [Devices -> 0 .. Len(made')]
    <3>1. /\ head \in 1 .. Len(made) /\ view \in [Devices -> 0 .. Len(made)]
          /\ queued \in [Devices -> 0 .. Len(made)] /\ head' = head
      BY <1>3 DEF TypeOK
    <3>2. 0 .. Len(made) \subseteq 0 .. Len(made') /\ 1 .. Len(made) \subseteq 1 .. Len(made')
          /\ Len(made') \in 0 .. Len(made')
      BY <2>1
    <3>3. head' \in 1 .. Len(made')
      BY <3>1, <3>2
    <3>4. view' \in [Devices -> 0 .. Len(made')]
      BY <2>1, <3>1, <3>2
    <3>5. queued' \in [Devices -> 0 .. Len(made')]
      BY <2>1, <3>1, <3>2
    <3> QED
      BY <3>3, <3>4, <3>5
  <2>3. mailbox' \in [Devices -> Seq(1 .. Len(made'))]
    <3>1. ASSUME NEW o \in Devices PROVE mailbox[o] \in Seq(1 .. Len(made'))
      <4>1. mailbox[o] \in Seq(1 .. Len(made))
        BY DEF TypeOK
      <4>2. Len(mailbox[o]) \in Nat /\ mailbox[o] \in [1 .. Len(mailbox[o]) -> 1 .. Len(made)]
        BY <4>1
      <4>3. mailbox[o] \in [1 .. Len(mailbox[o]) -> 1 .. Len(made')]
        BY <2>1, <4>2
      <4> QED
        BY <4>2, <4>3
    <3> QED
      BY <1>3, <3>1 DEF TypeOK
  <2>4. \A o \in active' : queued'[o] # 0 => lease' = o /\ view'[o] = queued'[o]
    <3>1. \A o \in active : queued[o] = 0
      BY <1>3 DEF TypeOK
    <3>2. active' = active /\ active \subseteq Devices
          /\ DOMAIN view = Devices /\ DOMAIN queued = Devices
      BY <1>3 DEF TypeOK
    <3> QED
      BY <2>1, <3>1, <3>2
  <2>5. pc' \in [Devices -> Step]
        /\ \A o \in active' : pc'[o] \in {"handle", "ack"} => batch'[o] # <<>>
    <3>1. /\ pc \in [Devices -> Step] /\ active' = active /\ batch' = batch
          /\ \A o \in active : pc[o] \in {"handle", "ack"} => batch[o] # <<>>
          /\ active \subseteq Devices
      BY <1>3 DEF TypeOK
    <3>2. CASE pc' = [pc EXCEPT ![d] = "ack"]
      BY <1>3, <3>1, <3>2 DEF Step
    <3>3. CASE pc' = [pc EXCEPT ![d] = "flush"]
      BY <1>3, <3>1, <3>3 DEF Step
    <3> QED
      BY <1>3, <3>2, <3>3
  <2>6. lease' \in active' \cup {Nobody} /\ active' \subseteq Devices
        /\ asked' \subseteq Devices \X Revocable /\ peerCommits' \in Nat /\ faults' \in Nat
    BY <1>3, <2>1 DEF TypeOK
  <2>7. /\ events' \in [Devices -> Seq(Revocable)] /\ batch' \in [Devices -> Seq(Revocable)]
        /\ awaiting' \in [Devices -> Revocable \cup {Nobody}]
        /\ snap' \in [Devices -> SUBSET Devices]
        /\ relied' \cup blind' \subseteq Revocable \X Devices
    BY <1>3 DEF TypeOK
  <2> QED
    BY <1>3, <2>1, <2>2, <2>3, <2>4, <2>5, <2>6, <2>7 DEF TypeOK
<1>4. ASSUME NEW d \in Devices, RemoveTarget(d) PROVE TypeOK'
  <2>1. /\ d \in active /\ pc[d] = "handle" /\ Target(d) \in Revocable
        /\ batch[d] # <<>>
    BY <1>4, AtFirstEvent DEF RemoveTarget, MustRemove, At, TypeOK
  <2>2. Without(d, Target(d)) \in SUBSET Devices
    BY MembersTyped DEF Without
  <2> QED
    BY <1>3, <1>4, <2>1, <2>2 DEF RemoveTarget, Goto, TypeOK
<1>17. ASSUME NEW d \in Devices, NEW t \in Devices, ClaimPackage(d, t) PROVE TypeOK'
  <2>1. /\ d \in active /\ lease' = d /\ lease = Nobody
        /\ adding' = [adding EXCEPT ![d] = t] /\ pc' = [pc EXCEPT ![d] = "add"]
        /\ UNCHANGED <<active, events, asked, head, mailbox, peerCommits, groups,
                        awaiting, batch, snap, faults, ghosts>>
    BY <1>17 DEF ClaimPackage, At, Goto
  <2>2. \A o \in active : queued[o] = 0
    BY <2>1 DEF TypeOK
  <2>3. adding' \in [Devices -> Devices \cup {Nobody}]
    BY <2>1 DEF TypeOK
  <2>4. pc' \in [Devices -> Step]
        /\ \A o \in active : pc'[o] \in {"handle", "ack"} => batch[o] # <<>>
    BY <2>1 DEF TypeOK, Step
  <2> QED
    BY <2>1, <2>2, <2>3, <2>4 DEF TypeOK
<1>5. ASSUME NEW d \in Devices, AddDevice(d) PROVE TypeOK'
  <2>0. d \in active /\ lease = d /\ queued[d] = 0 /\ adding[d] \in Devices
    BY <1>5 DEF AddDevice, At, Claims
  <2>1. MembersOf(d) \cup {adding[d]} \in SUBSET Devices
    BY <2>0, MembersTyped
  <2>2. /\ Queue(d, MembersOf(d) \cup {adding[d]})
        /\ pc' = [pc EXCEPT ![d] = "flush"]
        /\ adding' = [adding EXCEPT ![d] = Nobody]
        /\ UNCHANGED <<active, events, asked, head, mailbox, peerCommits,
                        awaiting, batch, snap, faults, relied, blind, astray>>
    BY <1>5 DEF AddDevice, At, Goto
  <2>3. astray' \subseteq Revocable /\ adding' \in [Devices -> Devices \cup {Nobody}]
    BY <2>2 DEF TypeOK
  <2>4. pc' # [pc EXCEPT ![d] = "ack"]
    <3>1. pc'[d] = "flush" /\ [pc EXCEPT ![d] = "ack"][d] = "ack"
      BY <2>2 DEF TypeOK
    <3> QED
      BY <3>1
  <2> QED
    BY <1>3, <2>0, <2>1, <2>2, <2>3, <2>4
<1>6. ASSUME NEW d \in Devices, Refused(d) PROVE TypeOK'
  <2>1. PICK s \in {"mail", "flush", "poll"} : Leave(d, s) /\ d \in active
    BY <1>6 DEF AfterEvents, Refused, MustRemove, At
  <2>2. /\ pc' \in [Devices -> Step] /\ batch' \in [Devices -> Seq(Revocable)]
        /\ snap' \in [Devices -> SUBSET Devices]
        /\ \A o \in active : pc'[o] \in {"handle", "ack"} => batch'[o] # <<>>
    BY <2>1, LeaveTyped
  <2>3. UNCHANGED <<relay, groups, wants, faults, ghosts>>
    BY <1>6 DEF Refused
  <2> QED
    BY <2>2, <2>3 DEF TypeOK
<1>7. ASSUME NEW d \in active, pc[d] = "ack", Acknowledged(d)
      PROVE  /\ events' \in [Devices -> Seq(Revocable)]
             /\ blind' \subseteq Revocable \X Devices
  <2>1. Target(d) \in Revocable /\ events[d] # <<>> /\ d \in Devices
    BY <1>7, AtFirstEvent DEF TypeOK
  <2>2. Tail(events[d]) \in Seq(Revocable)
    BY <2>1 DEF TypeOK
  <2>3. /\ events' = [events EXCEPT ![d] = Tail(events[d])]
        /\ blind' \subseteq blind \cup {<<Target(d), d>>}
    BY <1>7 DEF Acknowledged
  <2>4. events \in [Devices -> Seq(Revocable)] /\ blind \subseteq Revocable \X Devices
    BY DEF TypeOK
  <2> QED
    BY <2>1, <2>2, <2>3, <2>4
<1>8. ASSUME NEW d \in Devices, Ack(d) PROVE TypeOK'
  <2>1. d \in active /\ pc[d] = "ack" /\ batch[d] # <<>>
        /\ batch[d] \in Seq(Revocable)
    BY <1>8 DEF Ack, At, TypeOK
  <2>2. events' \in [Devices -> Seq(Revocable)] /\ blind' \subseteq Revocable \X Devices
    BY <1>7, <1>8, <2>1 DEF Ack
  <2>3. CASE Len(batch[d]) = 1
    <3>1. PICK s \in {"mail", "flush", "poll"} : Leave(d, s)
      BY <1>8, <2>3 DEF Ack, AfterEvents
    <3>2. /\ pc' \in [Devices -> Step] /\ batch' \in [Devices -> Seq(Revocable)]
          /\ snap' \in [Devices -> SUBSET Devices]
          /\ \A o \in active : pc'[o] \in {"handle", "ack"} => batch'[o] # <<>>
      BY <2>1, <3>1, LeaveTyped
    <3>3. UNCHANGED <<active, asked, lease, head, mailbox, peerCommits, groups,
                     wants, faults, relied, astray>>
      BY <1>8 DEF Ack
    <3> QED
      BY <2>2, <3>2, <3>3 DEF TypeOK
  <2>4. CASE Len(batch[d]) # 1
    <3>1. Tail(batch[d]) \in Seq(Revocable) /\ Tail(batch[d]) # <<>>
      BY <2>1, <2>4, TakeFirst
    <3>2. /\ pc' = [pc EXCEPT ![d] = "handle"]
          /\ batch' = [batch EXCEPT ![d] = Tail(batch[d])] /\ UNCHANGED snap
      BY <1>8, <2>4 DEF Ack, Goto
    <3>3. /\ pc' \in [Devices -> Step] /\ batch' \in [Devices -> Seq(Revocable)]
          /\ \A o \in active : pc'[o] \in {"handle", "ack"} => batch'[o] # <<>>
      BY <3>1, <3>2 DEF TypeOK, Step
    <3> QED
      BY <1>8, <2>2, <3>2, <3>3 DEF Ack, TypeOK
  <2> QED
    BY <2>3, <2>4
<1>9. ASSUME NEW d \in Devices, Fault(d) PROVE TypeOK'
  <2>1. d \in active /\ faults' \in Nat
    BY <1>9 DEF Fault, TypeOK
  <2>2. events' \in [Devices -> Seq(Revocable)] /\ blind' \subseteq Revocable \X Devices
    BY <1>7, <1>9, <2>1 DEF Fault, TypeOK
  <2>3. PICK s \in {"mail", "flush", "poll"} : Leave(d, s)
    BY <1>9 DEF Fault, AfterEvents
  <2>4. /\ pc' \in [Devices -> Step] /\ batch' \in [Devices -> Seq(Revocable)]
        /\ snap' \in [Devices -> SUBSET Devices]
        /\ \A o \in active : pc'[o] \in {"handle", "ack"} => batch'[o] # <<>>
    BY <2>1, <2>3, LeaveTyped
  <2>5. UNCHANGED <<active, asked, lease, head, mailbox, peerCommits, groups,
                   awaiting, relied, astray>>
    BY <1>9 DEF Fault
  <2>6. adding' \in [Devices -> Devices \cup {Nobody}]
    BY <1>9 DEF Fault, TypeOK
  <2> QED
    BY <2>1, <2>2, <2>4, <2>5, <2>6 DEF TypeOK
<1>10. ASSUME NEW d \in Devices, Send(d) PROVE TypeOK'
  <2>1. queued[d] \in 1 .. Len(made) /\ Len(made) \in Nat /\ d \in active
        /\ lease = d
    BY <1>10, MembersTyped, NodesTyped DEF Send, At, TypeOK
  <2>2. mailbox' \in [Devices -> Seq(1 .. Len(made))] /\ lease' = Nobody
    <3>1. Deliver(queued[d], made[queued[d]].members, d)
      BY <1>10 DEF Send
    <3>2. Len(made) <= Len(made)
      BY <2>1
    <3>3. lease' = Nobody
      BY <3>1 DEF Deliver
    <3> QED
      BY <2>1, <3>1, <3>2, <3>3, DeliverTyped
  <2>3. head' \in 1 .. Len(made)
    BY <1>10, <2>1 DEF Send, TypeOK
  <2>4. \A o \in active : queued'[o] # 0 => FALSE
    BY <1>10, <2>1 DEF Send, TypeOK
  <2>5. queued' \in [Devices -> 0 .. Len(made)] /\ pc' = [pc EXCEPT ![d] = "mail"]
    BY <1>10, <2>1 DEF Send, Goto, TypeOK
  <2> QED
    BY <1>10, <2>1, <2>2, <2>3, <2>4, <2>5 DEF Send, TypeOK, Step
<1>11. ASSUME NEW d \in Devices, Read(d) PROVE TypeOK'
  <2>1. /\ d \in active /\ mailbox[d] # <<>> /\ queued[d] = 0
        /\ mailbox[d] \in Seq(1 .. Len(made)) /\ Len(made) \in Nat
    BY <1>11, NodesTyped DEF Read, Readable, At, Queues, TypeOK
  <2>2. /\ Tail(mailbox[d]) \in Seq(1 .. Len(made))
        /\ Head(mailbox[d]) \in 1 .. Len(made)
    BY <2>1, TakeFirst
  <2>3. /\ view' = [view EXCEPT ![d] = Head(mailbox[d])]
        /\ mailbox' = [mailbox EXCEPT ![d] = Tail(mailbox[d])]
        /\ UNCHANGED <<active, events, asked, lease, head, peerCommits, made, queued,
                       wants, passes, faults, ghosts>>
    BY <1>11 DEF Read
  <2>4. view' \in [Devices -> 0 .. Len(made)]
        /\ mailbox' \in [Devices -> Seq(1 .. Len(made))]
    <3>1. /\ view \in [Devices -> 0 .. Len(made)]
          /\ mailbox \in [Devices -> Seq(1 .. Len(made))]
      BY DEF TypeOK
    <3>2. Head(mailbox[d]) \in 0 .. Len(made)
      BY <2>1, <2>2
    <3> QED
      BY <2>2, <2>3, <3>1, <3>2
  <2>5. \A o \in active : queued'[o] # 0 => lease' = o /\ view'[o] = queued'[o]
    BY <2>1, <2>3 DEF TypeOK
  <2> QED
    BY <2>3, <2>4, <2>5 DEF TypeOK
<1>12. ASSUME NEW d \in Devices, NEW t \in Devices, Ask(d, t) PROVE TypeOK'
  <2>1. /\ t \in Revocable /\ asked' = asked \cup {<<d, t>>} /\ faults' \in Nat
        /\ awaiting' \in [Devices -> Revocable \cup {Nobody}]
        /\ UNCHANGED <<active, events, lease, head, mailbox, peerCommits, groups,
                       adding, passes, ghosts>>
    <3>1. t \in Revocable /\ asked' = asked \cup {<<d, t>>}
          /\ UNCHANGED <<active, events, lease, head, mailbox, peerCommits, groups,
                         adding, passes, ghosts>>
      BY <1>12 DEF Ask, Requested
    <3>2. faults' \in Nat /\ awaiting' \in [Devices -> Revocable \cup {Nobody}]
      <4>1. faults \in Nat /\ awaiting \in [Devices -> Revocable \cup {Nobody}]
        BY DEF TypeOK
      <4>2. /\ faults' = faults \/ faults' = faults + 1
            /\ awaiting' = awaiting \/ awaiting' = [awaiting EXCEPT ![d] = t]
        BY <1>12 DEF Ask
      <4> QED
        BY <3>1, <4>1, <4>2
    <3> QED
      BY <3>1, <3>2
  <2>2. asked' \subseteq Devices \X Revocable
    BY <2>1 DEF TypeOK
  <2>3. lease' \in active' \cup {Nobody}
    BY <2>1 DEF TypeOK
  <2> QED
    BY <2>1, <2>2, <2>3 DEF TypeOK
<1>13. ASSUME NEW r \in asked, Expire(r[1], r[2]) PROVE TypeOK'
  BY <1>13 DEF Expire, TypeOK
<1>14. ASSUME PeerCommit PROVE TypeOK'
  <2> DEFINE n == [base |-> head, members |-> made[head].members]
  <2>1. n \in Node /\ lease = Nobody
    BY <1>14, NodesTyped DEF PeerCommit, Node
  <2>2. made' = Append(made, n)
    BY <1>14 DEF PeerCommit
  <2> HIDE DEF n
  <2>3. /\ made' \in Seq(Node) /\ Len(made') = Len(made) + 1 /\ Len(made) \in Nat
        /\ head' = Len(made')
    BY <1>14, <2>1, <2>2, MadeGrows DEF PeerCommit
  <2>4. mailbox' \in [Devices -> Seq(1 .. Len(made'))] /\ lease' = Nobody
    <3>1. Deliver(Len(made'), made[head].members, Nobody)
      BY <1>14 DEF PeerCommit
    <3>2. Len(made') \in Nat /\ Len(made) <= Len(made') /\ Len(made') \in 1 .. Len(made')
      BY <2>3
    <3>3. lease' = Nobody
      BY <3>1 DEF Deliver
    <3> QED
      BY <3>1, <3>2, <3>3, DeliverTyped
  <2>5. view' \in [Devices -> 0 .. Len(made')] /\ queued' \in [Devices -> 0 .. Len(made')]
    BY <1>14, <2>3 DEF PeerCommit, TypeOK
  <2>6. /\ peerCommits' \in Nat /\ head' \in 1 .. Len(made')
        /\ UNCHANGED <<active, events, asked, view, queued, wants, passes, faults, ghosts>>
    BY <1>14, <2>3 DEF PeerCommit, TypeOK
  <2>7. \A o \in active' : queued'[o] = 0
    BY <2>1, <2>6 DEF TypeOK
  <2> QED
    BY <2>3, <2>4, <2>5, <2>6, <2>7 DEF TypeOK
<1>15. ASSUME NEW r \in asked, Approve(r[1], r[2]) PROVE TypeOK'
  <2>1. /\ r[2] \in Revocable /\ r[2] \in active
        /\ active' = active \ {r[2]}
    BY <1>15 DEF Approve, TypeOK
  <2> DEFINE t == r[2]
  <2>2. events' \in [Devices -> Seq(Revocable)]
    <3>1. \A o \in Devices : events[o] \in Seq(Revocable) /\ Append(events[o], t) \in Seq(Revocable)
      BY <2>1 DEF TypeOK
    <3> QED
      BY <1>15, <3>1 DEF Approve
  <2>3. /\ mailbox' = [mailbox EXCEPT ![t] = <<>>] /\ view' = [view EXCEPT ![t] = 0]
        /\ queued' = [queued EXCEPT ![t] = 0] /\ pc' = [pc EXCEPT ![t] = "poll"]
        /\ batch' = [batch EXCEPT ![t] = <<>>] /\ snap' = [snap EXCEPT ![t] = {}]
        /\ awaiting' = [awaiting EXCEPT ![t] = Nobody]
        /\ adding' = [adding EXCEPT ![t] = Nobody]
        /\ lease' = IF lease = t THEN Nobody ELSE lease
        /\ asked' \subseteq asked
        /\ UNCHANGED <<head, peerCommits, made, faults, ghosts>>
    BY <1>15 DEF Approve, Forget
  <2> HIDE DEF t
  <2>4. t \in Devices /\ t # Nobody /\ active' = active \ {t}
    BY <2>1 DEF t
  <2>9. /\ peerCommits' \in Nat /\ faults' \in Nat
        /\ asked' \subseteq Devices \X Revocable /\ active' \subseteq Devices
        /\ lease' \in active' \cup {Nobody}
        /\ made' \in Seq(Node) /\ head' \in 1 .. Len(made')
        /\ awaiting' \in [Devices -> Revocable \cup {Nobody}]
        /\ adding' \in [Devices -> Devices \cup {Nobody}]
        /\ relied' \cup blind' \subseteq Revocable \X Devices
        /\ astray' \subseteq Revocable /\ made' = made
    BY <2>3, <2>4 DEF TypeOK
  <2>5. mailbox' \in [Devices -> Seq(1 .. Len(made))]
    BY <2>3, <2>4 DEF TypeOK
  <2>6. view' \in [Devices -> 0 .. Len(made)] /\ queued' \in [Devices -> 0 .. Len(made)]
    <3>1. /\ view \in [Devices -> 0 .. Len(made)] /\ queued \in [Devices -> 0 .. Len(made)]
          /\ 0 \in 0 .. Len(made)
      BY DEF TypeOK
    <3> QED
      BY <2>3, <3>1
  <2>7. \A d \in active' : queued'[d] # 0 => lease' = d /\ view'[d] = queued'[d]
    BY <2>3, <2>4 DEF TypeOK
  <2>8. pc' \in [Devices -> Step] /\ batch' \in [Devices -> Seq(Revocable)]
        /\ snap' \in [Devices -> SUBSET Devices]
        /\ \A d \in active' : pc'[d] \in {"handle", "ack"} => batch'[d] # <<>>
    <3>1. pc' \in [Devices -> Step] /\ snap' \in [Devices -> SUBSET Devices]
      BY <2>3, <2>4 DEF TypeOK, Step
    <3>2. batch' \in [Devices -> Seq(Revocable)]
      BY <2>3, <2>4 DEF TypeOK
    <3>3. \A d \in active' : pc'[d] = pc[d] /\ batch'[d] = batch[d] /\ d \in active
      BY <2>3, <2>4 DEF TypeOK
    <3> QED
      BY <3>1, <3>2, <3>3 DEF TypeOK
  <2> QED
    BY <2>2, <2>5, <2>6, <2>7, <2>8, <2>9 DEF TypeOK
<1>16. ASSUME UNCHANGED vars PROVE TypeOK'
  BY <1>16 DEF vars, TypeOK
<1> QED
  BY <1>1, <1>2, <1>4, <1>5, <1>6, <1>8, <1>9, <1>10, <1>11, <1>12, <1>13,
     <1>14, <1>15, <1>16, <1>17 DEF Next, Pass

-----------------------------------------------------------------------------
(* The steps, by what they do to the groups.                               *)

\* A step of a pass, or of the account's owner, that leaves the groups alone.
Steady ==
  /\ UNCHANGED <<active, head, mailbox, made, view, queued, astray>>
  /\ \A d \in active : pc'[d] = "mail" => pc[d] = "mail" \/ queued[d] = 0

\* A device makes a Commit: it adds no revoked device but the one it claimed a
\* key of, and where it removes one upon a node the peers have left, that is
\* noted.
Makes(d, members) ==
  /\ queued[d] = 0 /\ lease \in {d, Nobody} /\ view[d] # 0
  /\ Queue(d, members) /\ members \subseteq Devices /\ d \in members
  /\ members \subseteq MembersOf(d) \cup active \cup {adding[d]}
  /\ \A t \in MembersOf(d) \ members : view[d] = head \/ t \in astray'
  /\ astray \subseteq astray' /\ pc'[d] # "mail"
  /\ \A o \in active \ {d} : pc'[o] = pc[o]
  /\ UNCHANGED <<active, head, mailbox>>

\* A member knows itself to be one.
LEMMA KnowsItself ==
  ASSUME TypeOK, Joined, NEW d \in active, view[d] # 0
  PROVE  d \in MembersOf(d) /\ d \in Devices
  BY DEF Joined, MembersOf, TypeOK

\* What a step does to the groups, the mailboxes and the lease.
LEMMA Kinds ==
  ASSUME TypeOK, Joined, Fetched, Claims, [Next]_vars
  PROVE  \/ Steady
         \/ \E d \in active, members \in SUBSET Devices : Makes(d, members)
         \/ \E d \in active : Send(d) \/ Read(d)
         \/ \E r \in asked : Approve(r[1], r[2])
         \/ PeerCommit
<1> USE DEF relay, groups, wants, passes, ghosts
<1>1. ASSUME NEW d \in Devices, NEW s \in Step, d \in active, Goto(d, s),
             s = "mail" => queued[d] = 0,
             UNCHANGED <<active, head, mailbox, made, view, queued, astray>>
      PROVE  Steady
  <2>1. pc' = [pc EXCEPT ![d] = s]
    BY <1>1 DEF Goto
  <2>2. \A o \in active : pc'[o] = pc[o] \/ (o = d /\ pc'[o] = s)
    BY <2>1 DEF TypeOK
  <2> QED
    BY <1>1, <2>2 DEF Steady
<1>2. ASSUME NEW d \in Devices PROVE AfterEvents(d) \in Step
                                     /\ (AfterEvents(d) = "mail" => queued[d] = 0)
  BY DEF AfterEvents, Step
<1>3. ASSUME NEW d \in Devices, Poll(d) PROVE Steady
  <2>1. PICK s \in {AfterEvents(d), "list"} : Goto(d, s)
    BY <1>3 DEF Poll
  <2> QED
    BY <1>1, <1>2, <1>3, <2>1 DEF Poll, At, Step
<1>4. ASSUME NEW d \in Devices, LeaveAlone(d) \/ LeaveToElected(d)
      PROVE  Steady
  BY <1>1, <1>4 DEF LeaveAlone, LeaveToElected, At, Step
<1>5. ASSUME NEW d \in Devices, FetchDevices(d) \/ EndPass(d)
      PROVE  Steady
  BY <1>1, <1>5 DEF FetchDevices, EndPass, At, Step
<1>6. ASSUME NEW d \in Devices, Refused(d) \/ Ack(d) \/ Fault(d)
      PROVE  Steady
  <2>1. PICK s \in {AfterEvents(d), "poll", "handle"} : Goto(d, s)
    BY <1>6 DEF Refused, Ack, Fault, Leave
  <2>2. s \in Step /\ (s = "mail" => queued[d] = 0)
    BY <1>2, <2>1 DEF Step
  <2> QED
    BY <1>1, <1>6, <2>1, <2>2 DEF Refused, Ack, Fault, MustRemove, At
<1>7. ASSUME NEW d \in Devices, NEW t \in Devices, Ask(d, t) PROVE Steady
  BY <1>7 DEF Ask, Steady
<1>8. ASSUME NEW r \in asked, Expire(r[1], r[2]) PROVE Steady
  BY <1>8 DEF Expire, Steady
<1>9. ASSUME UNCHANGED vars PROVE Steady
  BY <1>9 DEF vars, Steady
<1>14. ASSUME NEW d \in Devices, NEW t \in Devices, ClaimPackage(d, t) PROVE Steady
  BY <1>1, <1>14 DEF ClaimPackage, At, Step
<1>10. ASSUME NEW d \in Devices, AddDevice(d)
       PROVE  /\ d \in active /\ MembersOf(d) \cup {adding[d]} \in SUBSET Devices
              /\ Makes(d, MembersOf(d) \cup {adding[d]})
  <2>1. /\ d \in active /\ adding[d] \in Devices /\ view[d] # 0
        /\ queued[d] = 0 /\ lease = d /\ Queue(d, MembersOf(d) \cup {adding[d]})
        /\ pc' = [pc EXCEPT ![d] = "flush"]
        /\ UNCHANGED <<active, head, mailbox, astray>>
    BY <1>10 DEF AddDevice, At, Claims, Goto
  <2>2. pc'[d] = "flush" /\ \A o \in active \ {d} : pc'[o] = pc[o]
    BY <2>1 DEF TypeOK
  <2> QED
    BY <2>1, <2>2, KnowsItself, MembersTyped DEF Makes
<1>11. ASSUME NEW d \in Devices, RemoveTarget(d)
       PROVE  d \in active /\ Makes(d, MembersOf(d) \ {Target(d)})
  <2>1. /\ d \in active /\ pc[d] = "handle" /\ Target(d) \in MembersOf(d)
        /\ queued[d] = 0 /\ lease = Nobody
        /\ Queue(d, MembersOf(d) \ {Target(d)})
        /\ astray' = IF view[d] = head THEN astray ELSE astray \cup {Target(d)}
        /\ pc' = [pc EXCEPT ![d] = "ack"]
        /\ UNCHANGED <<active, head, mailbox>>
    BY <1>11 DEF RemoveTarget, MustRemove, At, Without, Goto
  <2>2. pc'[d] = "ack" /\ \A o \in active \ {d} : pc'[o] = pc[o]
    BY <2>1 DEF TypeOK
  <2>3. view[d] # 0
    BY <2>1 DEF MembersOf
  <2>4. Target(d) # d
    BY <2>1, AtFirstEvent
  <2> QED
    BY <2>1, <2>2, <2>3, <2>4, KnowsItself, MembersTyped DEF Makes
<1>12. ASSUME NEW d \in Devices PROVE \A t : MembersOf(d) \ {t} \in SUBSET Devices
  BY MembersTyped
<1>13. ASSUME NEW d \in Devices, Send(d) \/ Read(d) PROVE d \in active
  BY <1>13 DEF Send, Read, At
<1>15. ASSUME NEW d \in Devices, AddDevice(d) \/ RemoveTarget(d)
       PROVE  \E o \in active, members \in SUBSET Devices : Makes(o, members)
  <2>1. CASE AddDevice(d)
    BY <1>10, <2>1, Zenon
  <2>2. CASE RemoveTarget(d)
    BY <1>11, <1>12, <2>2, Zenon
  <2> QED
    BY <1>15, <2>1, <2>2
<1> QED
  BY <1>3, <1>4, <1>5, <1>6, <1>7, <1>8, <1>9, <1>13, <1>14, <1>15 DEF Next, Pass

-----------------------------------------------------------------------------
(* Queues and members.                                                     *)

\* The nodes keep their numbers.
LEMMA NodesKept ==
  ASSUME TypeOK, Queues, Joined, Fetched, Claims, [Next]_vars
  PROVE  /\ Len(made) \in Nat /\ Len(made') \in Nat /\ Len(made) <= Len(made')
         /\ \A i \in 1 .. Len(made) : made'[i] = made[i]
<1>1. CASE UNCHANGED made
  BY <1>1, NodesTyped
<1>2. ASSUME NEW d \in active, NEW members \in SUBSET Devices, Makes(d, members)
      PROVE  /\ Len(made) \in Nat /\ Len(made') \in Nat /\ Len(made) <= Len(made')
             /\ \A i \in 1 .. Len(made) : made'[i] = made[i]
  <2>1. Len(made') = Len(made) + 1 /\ \A i \in 1 .. Len(made) : made'[i] = made[i]
    BY <1>2, QueueTyped DEF Makes
  <2> QED
    BY <2>1, NodesTyped
<1>3. CASE PeerCommit
  <2> DEFINE n == [base |-> head, members |-> made[head].members]
  <2>1. n \in Node
    BY NodesTyped DEF Node
  <2>2. made' = Append(made, n)
    BY <1>3 DEF PeerCommit
  <2> HIDE DEF n
  <2>3. Len(made') = Len(made) + 1 /\ \A i \in 1 .. Len(made) : made'[i] = made[i]
    BY <2>1, <2>2, MadeGrows
  <2> QED
    BY <2>3, NodesTyped
<1>4. ASSUME NEW d \in active, Send(d) \/ Read(d) PROVE UNCHANGED made
  BY <1>4 DEF Send, Read
<1>5. ASSUME NEW r \in asked, Approve(r[1], r[2]) PROVE UNCHANGED made
  BY <1>5 DEF Approve
<1>6. Steady => UNCHANGED made
  BY DEF Steady
<1> QED
  BY <1>1, <1>2, <1>3, <1>4, <1>5, <1>6, Kinds

\* The holder of the lease is the only one that has a Commit queued.
LEMMA OnlyHolder ==
  ASSUME TypeOK, NEW d \in active, lease = Nobody \/ queued[d] # 0
  PROVE  /\ queued[d] # 0 => lease = d /\ view[d] = queued[d]
         /\ \A o \in active \ {d} : queued[o] = 0
         /\ lease = Nobody => queued[d] = 0
  BY RevocationAssumption DEF TypeOK

\* What making a Commit does.
LEMMA MakesWhat ==
  ASSUME TypeOK, NEW d \in active, NEW members \in SUBSET Devices,
         Makes(d, members)
  PROVE  /\ Len(made') \in 1 .. Len(made') /\ view[d] \in 1 .. Len(made)
         /\ made'[Len(made')].base = view[d]
         /\ made'[Len(made')].members = members
         /\ view'[d] = Len(made') /\ queued'[d] = Len(made')
         /\ \A o \in active \ {d} : view'[o] = view[o] /\ queued'[o] = 0
         /\ \A o \in Devices \ {d} : queued'[o] = queued[o]
<1>1. /\ Len(made') = Len(made) + 1 /\ Len(made) \in Nat
      /\ made'[Len(made')] = [base |-> view[d], members |-> members]
      /\ view' = [view EXCEPT ![d] = Len(made')]
      /\ queued' = [queued EXCEPT ![d] = Len(made')]
  BY QueueTyped DEF Makes
<1>2. view[d] \in 1 .. Len(made)
  BY MembersTyped DEF Makes, TypeOK
<1>3. \A o \in active : queued[o] = 0
  BY RevocationAssumption DEF Makes, TypeOK
<1>4. active \subseteq Devices /\ DOMAIN view = Devices /\ DOMAIN queued = Devices
  BY DEF TypeOK
<1> QED
  BY <1>1, <1>2, <1>3, <1>4

\* A Commit that is sent: nothing is queued any more.
LEMMA SendWhat ==
  ASSUME TypeOK, NEW d \in active, Send(d)
  PROVE  /\ queued[d] \in 1 .. Len(made) /\ Deliver(queued[d], made[queued[d]].members, d)
         /\ head' = IF made[queued[d]].base = head THEN queued[d] ELSE head
         /\ queued[d] # 0
         /\ \A o \in active : queued'[o] = 0
         /\ \A o \in Devices : queued'[o] \in {0, queued[o]}
         /\ pc' = [pc EXCEPT ![d] = "mail"]
         /\ UNCHANGED <<active, made, view, astray>>
<1>1. queued[d] # 0 /\ queued' = [queued EXCEPT ![d] = 0]
  BY DEF Send
<1>2. \A o \in active \ {d} : queued[o] = 0
  BY <1>1, OnlyHolder
<1>3. queued[d] \in 1 .. Len(made) /\ DOMAIN queued = Devices /\ active \subseteq Devices
  BY <1>1, MembersTyped DEF TypeOK
<1> QED
  BY <1>1, <1>2, <1>3 DEF Send, Goto, ghosts

\* A device that leaves the account.
LEMMA ApproveWhat ==
  ASSUME TypeOK, NEW r \in asked, Approve(r[1], r[2])
  PROVE  /\ r[2] \in active /\ r[2] \in Revocable /\ active' = active \ {r[2]}
         /\ \A o \in active' : /\ view'[o] = view[o] /\ queued'[o] = queued[o]
                               /\ mailbox'[o] = mailbox[o] /\ pc'[o] = pc[o]
                               /\ batch'[o] = batch[o] /\ snap'[o] = snap[o]
                               /\ events'[o] = Append(events[o], r[2])
                               /\ adding'[o] = adding[o]
                               /\ lease = o => lease' = o
         /\ queued'[r[2]] = 0 /\ \A o \in Devices : queued'[o] \in {0, queued[o]}
         /\ UNCHANGED <<head, made, relied, blind, astray>>
<1> DEFINE t == r[2]
<1>1. t \in Revocable /\ t \in active /\ active' = active \ {t}
  BY DEF Approve, TypeOK
<1>2. /\ mailbox' = [mailbox EXCEPT ![t] = <<>>] /\ view' = [view EXCEPT ![t] = 0]
      /\ queued' = [queued EXCEPT ![t] = 0] /\ pc' = [pc EXCEPT ![t] = "poll"]
      /\ batch' = [batch EXCEPT ![t] = <<>>] /\ snap' = [snap EXCEPT ![t] = {}]
      /\ adding' = [adding EXCEPT ![t] = Nobody]
      /\ lease' = IF lease = t THEN Nobody ELSE lease
      /\ UNCHANGED <<head, made, relied, blind, astray>>
  BY DEF Approve, Forget, ghosts
<1>3. events' = [o \in Devices |->
                   IF o \in active \ {t} THEN Append(events[o], t) ELSE <<>>]
  BY DEF Approve
<1> HIDE DEF t
<1>4. t \in Devices /\ active' \subseteq Devices
  BY <1>1 DEF TypeOK
<1>5. \A o \in active' : /\ view'[o] = view[o] /\ queued'[o] = queued[o]
                         /\ mailbox'[o] = mailbox[o] /\ pc'[o] = pc[o]
                         /\ batch'[o] = batch[o] /\ snap'[o] = snap[o]
                         /\ events'[o] = Append(events[o], t)
                         /\ adding'[o] = adding[o] /\ (lease = o => lease' = o)
  BY <1>1, <1>2, <1>3, <1>4 DEF TypeOK
<1>6. queued'[t] = 0 /\ \A o \in Devices : queued'[o] \in {0, queued[o]}
  BY <1>2, <1>4 DEF TypeOK
<1> QED
  BY <1>1, <1>2, <1>5, <1>6 DEF t

\* A change by a peer, when nobody has one queued.
LEMMA PeerWhat ==
  ASSUME TypeOK, PeerCommit
  PROVE  /\ Len(made') \in 1 .. Len(made') /\ head' = Len(made')
         /\ made'[head'].members = made[head].members
         /\ Deliver(head', made[head].members, Nobody)
         /\ \A o \in active : queued[o] = 0
         /\ UNCHANGED <<active, queued, view, pc, astray>>
<1> DEFINE n == [base |-> head, members |-> made[head].members]
<1>1. n \in Node /\ lease = Nobody
  BY NodesTyped DEF PeerCommit, Node
<1>2. made' = Append(made, n)
  BY DEF PeerCommit
<1>3. n.members = made[head].members
  OBVIOUS
<1> HIDE DEF n
<1>4. Len(made') = Len(made) + 1 /\ Len(made) \in Nat /\ made'[Len(made')] = n
  BY <1>1, <1>2, MadeGrows
<1>5. \A o \in active : queued[o] = 0
  BY <1>1, OnlyHolder
<1> QED
  BY <1>3, <1>4, <1>5 DEF PeerCommit, passes, ghosts

\* Only the holder of the lease has a Commit, and it is upon a node there was.
LEMMA QueuesNext ==
  ASSUME TypeOK, Queues, Joined, Fetched, Claims, [Next]_vars
  PROVE  Queues'
<1>k. /\ Len(made) \in Nat /\ Len(made') \in Nat /\ Len(made) <= Len(made')
      /\ \A i \in 1 .. Len(made) : made'[i] = made[i]
  BY NodesKept
<1>q. \A d \in active : queued[d] # 0 => queued[d] \in 1 .. Len(made)
  BY MembersTyped DEF TypeOK
<1>1. CASE Steady
  BY <1>1 DEF Steady, Queues
<1>2. ASSUME NEW d \in active, NEW members \in SUBSET Devices, Makes(d, members)
      PROVE  Queues'
  <2>1. active' = active /\ pc'[d] # "mail" /\ \A o \in active \ {d} : pc'[o] = pc[o]
    BY <1>2 DEF Makes
  <2>2. d \in Devices
    BY DEF TypeOK
  <2>3. view[d] \in 1 .. Len(made')
    BY <1>2, <1>k, MakesWhat
  <2> QED
    BY <1>2, <2>1, <2>2, <2>3, MakesWhat DEF Queues
<1>3. ASSUME NEW d \in active, Send(d) PROVE Queues'
  <2>1. \A t \in Devices \ active : queued'[t] = 0
    BY <1>3, SendWhat DEF Queues
  <2> QED
    BY <1>3, <2>1, SendWhat DEF Queues
<1>4. ASSUME NEW d \in active, Read(d) PROVE Queues'
  BY <1>4 DEF Read, Queues, passes
<1>5. ASSUME NEW r \in asked, Approve(r[1], r[2]) PROVE Queues'
  BY <1>5, ApproveWhat DEF Queues
<1>6. CASE PeerCommit
  BY <1>6, PeerWhat DEF Queues
<1> QED
  BY <1>1, <1>2, <1>3, <1>4, <1>5, <1>6, Kinds

\* A device stays a member of its group.
LEMMA JoinedNext ==
  ASSUME TypeOK, Queues, Joined, Fetched, Claims, [Next]_vars
  PROVE  Joined'
<1>k. /\ Len(made) \in Nat /\ Len(made') \in Nat /\ Len(made) <= Len(made')
      /\ \A i \in 1 .. Len(made) : made'[i] = made[i]
  BY NodesKept
<1>v. /\ \A d \in active : view[d] # 0 => view[d] \in 1 .. Len(made)
      /\ \A d \in active : \A i \in DOMAIN mailbox[d] : mailbox[d][i] \in 1 .. Len(made)
  <2>1. active \subseteq Devices
        /\ \A d \in Devices : mailbox[d] \in Seq(1 .. Len(made))
    BY DEF TypeOK
  <2>2. ASSUME NEW d \in active, NEW i \in DOMAIN mailbox[d]
        PROVE  mailbox[d][i] \in 1 .. Len(made)
    <3>1. mailbox[d] \in Seq(1 .. Len(made))
      BY <2>1
    <3> QED
      BY <3>1
  <2> QED
    BY <2>1, <2>2, MembersTyped
<1>1. CASE Steady
  BY <1>1 DEF Steady, Joined
<1>2. ASSUME NEW d \in active, NEW members \in SUBSET Devices, Makes(d, members)
      PROVE  Joined'
  <2>1. active' = active /\ mailbox' = mailbox /\ d \in members
    BY <1>2 DEF Makes
  <2>2. \A o \in active : view'[o] # 0 => o \in made'[view'[o]].members
    BY <1>2, <1>k, <1>v, <2>1, MakesWhat DEF Joined
  <2>3. \A o \in active : \A i \in DOMAIN mailbox[o] : o \in made'[mailbox[o][i]].members
    BY <1>k, <1>v DEF Joined
  <2> QED
    BY <2>1, <2>2, <2>3 DEF Joined
<1>3. ASSUME NEW d \in active, Send(d) PROVE Joined'
  <2>1. /\ UNCHANGED <<active, made, view>> /\ queued[d] \in 1 .. Len(made)
        /\ Deliver(queued[d], made[queued[d]].members, d)
    BY <1>3, SendWhat
  <2>2. Len(made) <= Len(made)
    BY <1>k
  <2>3. \A o \in Devices : \A i \in DOMAIN mailbox'[o] :
          \/ i \in DOMAIN mailbox[o] /\ mailbox'[o][i] = mailbox[o][i]
          \/ mailbox'[o][i] = queued[d] /\ o \in made[queued[d]].members
    BY <1>k, <2>1, <2>2, DeliverTyped
  <2>4. active \subseteq Devices
    BY DEF TypeOK
  <2> QED
    BY <2>1, <2>3, <2>4 DEF Joined
<1>4. ASSUME NEW d \in active, Read(d) PROVE Joined'
  <2>1. /\ view' = [view EXCEPT ![d] = Head(mailbox[d])]
        /\ mailbox' = [mailbox EXCEPT ![d] = Tail(mailbox[d])]
        /\ UNCHANGED <<active, made>> /\ mailbox[d] # <<>>
    BY <1>4 DEF Read, Readable, groups
  <2>2. d \in Devices /\ mailbox[d] \in Seq(1 .. Len(made)) /\ active \subseteq Devices
    BY DEF TypeOK
  <2>3. /\ 1 \in DOMAIN mailbox[d] /\ Head(mailbox[d]) = mailbox[d][1]
        /\ \A i \in DOMAIN Tail(mailbox[d]) :
             i + 1 \in DOMAIN mailbox[d] /\ Tail(mailbox[d])[i] = mailbox[d][i + 1]
    BY <2>1, <2>2, TakeFirst
  <2>4. /\ view'[d] = mailbox[d][1] /\ mailbox'[d] = Tail(mailbox[d])
        /\ \A o \in active \ {d} : view'[o] = view[o] /\ mailbox'[o] = mailbox[o]
    BY <2>1, <2>2, <2>3 DEF TypeOK
  <2> QED
    BY <2>1, <2>3, <2>4 DEF Joined
<1>5. ASSUME NEW r \in asked, Approve(r[1], r[2]) PROVE Joined'
  BY <1>5, ApproveWhat DEF Joined
<1>6. CASE PeerCommit
  <2>1. /\ UNCHANGED <<active, view>> /\ Len(made') \in 1 .. Len(made')
        /\ head' = Len(made') /\ made'[head'].members = made[head].members
        /\ Deliver(head', made[head].members, Nobody)
    BY <1>6, PeerWhat
  <2>2. \A o \in Devices : \A i \in DOMAIN mailbox'[o] :
          \/ i \in DOMAIN mailbox[o] /\ mailbox'[o][i] = mailbox[o][i]
          \/ mailbox'[o][i] = head' /\ o \in made[head].members
    BY <1>k, <2>1, DeliverTyped
  <2>3. ASSUME NEW o \in active, NEW i \in DOMAIN mailbox'[o]
        PROVE  o \in made'[mailbox'[o][i]].members
    <3>1. o \in Devices
      BY DEF TypeOK
    <3>2. CASE i \in DOMAIN mailbox[o] /\ mailbox'[o][i] = mailbox[o][i]
      <4>1. mailbox[o][i] \in 1 .. Len(made)
        BY <1>v, <3>2
      <4>2. o \in made[mailbox[o][i]].members
        BY <3>2 DEF Joined
      <4> QED
        BY <1>k, <3>2, <4>1, <4>2
    <3>3. CASE mailbox'[o][i] = head' /\ o \in made[head].members
      BY <2>1, <3>3
    <3> QED
      BY <2>2, <3>1, <3>2, <3>3
  <2>4. \A o \in active : view[o] # 0 => o \in made'[view[o]].members
    BY <1>k, <1>v DEF Joined
  <2> QED
    BY <2>1, <2>3, <2>4 DEF Joined
<1> QED
  BY <1>1, <1>2, <1>3, <1>4, <1>5, <1>6, Kinds

-----------------------------------------------------------------------------
(* The events.                                                             *)

\* The first event goes.
LEMMA Popped ==
  ASSUME TypeOK, Fetched, NEW d \in active, pc[d] = "ack", Acknowledged(d)
  PROVE  /\ events' = [events EXCEPT ![d] = Tail(events[d])]
         /\ Target(d) \in Revocable \ active
         /\ \A i \in DOMAIN Tail(events[d]) :
              i \in Nat /\ i + 1 \in DOMAIN events[d]
              /\ Tail(events[d])[i] = events[d][i + 1]
         /\ \A t \in Range(events[d]) : t = Target(d) \/ t \in Range(Tail(events[d]))
<1>1. /\ events[d] \in Seq(Revocable) /\ events[d] # <<>> /\ d \in Devices
      /\ Target(d) = Head(events[d]) /\ Target(d) \in Revocable \ active
  BY AtFirstEvent DEF TypeOK
<1>2. /\ Head(events[d]) = events[d][1] /\ DOMAIN Tail(events[d]) \subseteq Nat \ {0}
      /\ \A i \in DOMAIN Tail(events[d]) :
           i + 1 \in DOMAIN events[d] /\ Tail(events[d])[i] = events[d][i + 1]
      /\ \A i \in DOMAIN events[d] : i # 1 => i - 1 \in DOMAIN Tail(events[d])
                                     /\ Tail(events[d])[i - 1] = events[d][i]
  <2> DEFINE s == events[d]
  <2>1. s \in Seq(Revocable) /\ s # <<>>
    BY <1>1
  <2> HIDE DEF s
  <2>2. /\ Head(s) = s[1] /\ DOMAIN Tail(s) \subseteq Nat \ {0}
        /\ \A i \in DOMAIN Tail(s) : i + 1 \in DOMAIN s /\ Tail(s)[i] = s[i + 1]
        /\ \A i \in DOMAIN s : i # 1 => i - 1 \in DOMAIN Tail(s)
                                         /\ Tail(s)[i - 1] = s[i]
    BY <2>1, TakeFirst
  <2> QED
    BY <2>2 DEF s
<1>3. ASSUME NEW i \in DOMAIN events[d]
      PROVE  events[d][i] = Target(d) \/ events[d][i] \in Range(Tail(events[d]))
  BY <1>1, <1>2 DEF Range
<1>4. \A t \in Range(events[d]) : t = Target(d) \/ t \in Range(Tail(events[d]))
  BY <1>3 DEF Range
<1>5. events' = [events EXCEPT ![d] = Tail(events[d])]
  BY DEF Acknowledged
<1>6. \A i \in DOMAIN Tail(events[d]) : i \in Nat
  BY <1>2
<1> QED
  BY <1>1, <1>2, <1>4, <1>5, <1>6

\* What was fetched stays the first of the events.
LEMMA FetchedNext ==
  ASSUME TypeOK, Queues, Joined, Fetched, [Next]_vars
  PROVE  Fetched'
<1> USE DEF relay, groups, wants, passes, ghosts
<1>d. active \subseteq Devices /\ DOMAIN pc = Devices /\ DOMAIN batch = Devices
      /\ DOMAIN snap = Devices /\ DOMAIN events = Devices
  BY DEF TypeOK
<1>1. ASSUME NEW d \in Devices, NEW s \in {"ack", "add", "flush", "mail", "poll"},
             Goto(d, s), s = "ack" => d \in active /\ pc[d] = "handle",
             UNCHANGED <<active, events, batch, snap>>
      PROVE  Fetched'
  BY <1>1, <1>d DEF Goto, Fetched
<1>2. ASSUME NEW d \in Devices, Poll(d) PROVE Fetched'
  <2>1. /\ d \in active /\ batch' = [batch EXCEPT ![d] = events[d]]
        /\ pc' = [pc EXCEPT ![d] =
                    IF events[d] = <<>> THEN AfterEvents(d) ELSE "list"]
        /\ UNCHANGED <<active, events, snap>>
    BY <1>2 DEF Poll, At, Goto, DeviceEvents
  <2>2. AfterEvents(d) \in {"mail", "flush"}
    BY DEF AfterEvents
  <2> QED
    BY <1>d, <2>1, <2>2 DEF Fetched
<1>3. ASSUME NEW d \in Devices, FetchDevices(d) PROVE Fetched'
  <2>1. /\ d \in active /\ pc' = [pc EXCEPT ![d] = "handle"]
        /\ snap' = [snap EXCEPT ![d] = active]
        /\ UNCHANGED <<active, events, batch>>
    BY <1>3 DEF FetchDevices, At, Goto, ActiveDevices
  <2> QED
    BY <1>d, <2>1 DEF Fetched
<1>4. ASSUME NEW d \in Devices, LeaveAlone(d) \/ LeaveToElected(d) \/ RemoveTarget(d)
      PROVE  Fetched'
  BY <1>1, <1>4 DEF LeaveAlone, LeaveToElected, RemoveTarget, MustRemove, At
<1>5. ASSUME NEW d \in Devices, Send(d) \/ EndPass(d)
      PROVE  Fetched'
  BY <1>1, <1>5 DEF Send, EndPass
<1>6. ASSUME NEW d \in Devices, AddDevice(d) PROVE Fetched'
  BY <1>1, <1>6 DEF AddDevice
<1>17. ASSUME NEW d \in Devices, NEW t \in Devices, ClaimPackage(d, t) PROVE Fetched'
  BY <1>1, <1>17 DEF ClaimPackage
<1>7. ASSUME NEW d \in active, NEW s \in {"mail", "flush", "poll"}, Leave(d, s),
             \/ UNCHANGED events
             \/ pc[d] = "ack" /\ Acknowledged(d),
             UNCHANGED active
      PROVE  Fetched'
  <2>1. /\ pc' = [pc EXCEPT ![d] = s] /\ batch' = [batch EXCEPT ![d] = <<>>]
        /\ snap' = [snap EXCEPT ![d] = {}]
    BY <1>7 DEF Leave, Goto
  <2>2. \A o \in active \ {d} : events'[o] = events[o]
    BY <1>7, <1>d, Popped
  <2>3. \A i \in DOMAIN events'[d] : events'[d][i] \notin active
    <3>1. CASE UNCHANGED events
      BY <3>1 DEF Fetched
    <3>2. CASE pc[d] = "ack" /\ Acknowledged(d)
      <4>1. /\ events'[d] = Tail(events[d])
            /\ \A i \in DOMAIN Tail(events[d]) : i + 1 \in DOMAIN events[d]
                                   /\ Tail(events[d])[i] = events[d][i + 1]
        BY <1>d, <3>2, Popped
      <4> QED
        BY <4>1 DEF Fetched
    <3> QED
      BY <1>7, <3>1, <3>2
  <2> QED
    BY <1>7, <1>d, <2>1, <2>2, <2>3 DEF Fetched
<1>8. ASSUME NEW d \in Devices, Refused(d) \/ Fault(d) PROVE Fetched'
  <2>1. AfterEvents(d) \in {"mail", "flush", "poll"}
    BY DEF AfterEvents
  <2> QED
    BY <1>7, <1>8, <2>1 DEF Refused, Fault, MustRemove, At
<1>9. ASSUME NEW d \in Devices, Ack(d) PROVE Fetched'
  <2>1. /\ d \in active /\ pc[d] = "ack" /\ Acknowledged(d) /\ active' = active
    BY <1>9 DEF Ack, At
  <2>2. CASE Len(batch[d]) = 1
    BY <1>7, <1>9, <2>1, <2>2 DEF Ack, AfterEvents
  <2>3. CASE Len(batch[d]) # 1
    <3>1. /\ pc' = [pc EXCEPT ![d] = "handle"]
          /\ batch' = [batch EXCEPT ![d] = Tail(batch[d])] /\ snap' = snap
      BY <1>9, <2>3 DEF Ack, Goto
    <3>2. batch[d] \in Seq(Revocable) /\ batch[d] # <<>>
          /\ events[d] \in Seq(Revocable) /\ events[d] # <<>>
      BY <2>1, <1>d, AtFirstEvent DEF TypeOK
    <3>3. /\ events' = [events EXCEPT ![d] = Tail(events[d])]
          /\ \A i \in DOMAIN Tail(events[d]) : i + 1 \in DOMAIN events[d]
                                   /\ Tail(events[d])[i] = events[d][i + 1]
      BY <2>1, Popped
    <3>4. \A i \in DOMAIN Tail(batch[d]) :
            i \in DOMAIN Tail(events[d]) /\ Tail(events[d])[i] = Tail(batch[d])[i]
      <4>1. \A i \in DOMAIN Tail(batch[d]) :
              /\ i \in Nat \ {0} /\ i + 1 \in DOMAIN batch[d]
              /\ Tail(batch[d])[i] = batch[d][i + 1]
        BY <3>2, TakeFirst
      <4>2. \A i \in DOMAIN events[d] : i # 1 => i - 1 \in DOMAIN Tail(events[d])
                                         /\ Tail(events[d])[i - 1] = events[d][i]
        BY <3>2, TakeFirst
      <4>3. ASSUME NEW i \in DOMAIN Tail(batch[d])
            PROVE  i \in DOMAIN Tail(events[d]) /\ Tail(events[d])[i] = Tail(batch[d])[i]
        <5>1. i \in Nat \ {0} /\ i + 1 \in DOMAIN batch[d]
              /\ Tail(batch[d])[i] = batch[d][i + 1]
          BY <4>1
        <5>2. i + 1 \in DOMAIN events[d] /\ events[d][i + 1] = batch[d][i + 1]
          BY <2>1, <5>1 DEF Fetched
        <5>3. i + 1 # 1 /\ (i + 1) - 1 = i
          BY <5>1
        <5> QED
          BY <4>2, <5>1, <5>2, <5>3
      <4> QED
        BY <4>3
    <3> QED
      BY <1>d, <2>1, <3>1, <3>3, <3>4 DEF Fetched
  <2> QED
    BY <2>2, <2>3
<1>10. ASSUME UNCHANGED <<active, events, batch, snap, pc>> PROVE Fetched'
  BY <1>10 DEF Fetched
<1>11. ASSUME NEW d \in Devices, Read(d) PROVE Fetched'
  BY <1>10, <1>11 DEF Read
<1>12. ASSUME NEW d \in Devices, NEW t \in Devices, Ask(d, t) PROVE Fetched'
  BY <1>10, <1>12 DEF Ask
<1>13. ASSUME NEW r \in asked, Expire(r[1], r[2]) PROVE Fetched'
  BY <1>10, <1>13 DEF Expire
<1>14. CASE PeerCommit
  BY <1>10, <1>14 DEF PeerCommit
<1>15. ASSUME NEW r \in asked, Approve(r[1], r[2]) PROVE Fetched'
  <2>1. ASSUME NEW o \in active'
        PROVE  /\ events'[o] = Append(events[o], r[2]) /\ pc'[o] = pc[o]
               /\ batch'[o] = batch[o] /\ snap'[o] = snap[o] /\ o \in active
               /\ r[2] \notin active' /\ active' \subseteq active
               /\ DOMAIN events[o] \subseteq DOMAIN events'[o]
               /\ \A i \in DOMAIN events[o] : events'[o][i] = events[o][i]
               /\ \A i \in DOMAIN events'[o] : i \in DOMAIN events[o] \/ events'[o][i] = r[2]
    <3>1. /\ r[2] \in Revocable /\ active' = active \ {r[2]}
          /\ events'[o] = Append(events[o], r[2]) /\ pc'[o] = pc[o]
          /\ batch'[o] = batch[o] /\ snap'[o] = snap[o]
      BY <1>15, ApproveWhat
    <3>2. events[o] \in Seq(Revocable)
      BY <3>1 DEF TypeOK
    <3> QED
      BY <3>1, <3>2, PutLast
  <2> QED
    BY <2>1 DEF Fetched
<1>16. CASE UNCHANGED vars
  BY <1>10, <1>16 DEF vars
<1> QED
  BY <1>2, <1>3, <1>4, <1>5, <1>6, <1>8, <1>9, <1>11, <1>12, <1>13, <1>14,
     <1>15, <1>16, <1>17 DEF Next, Pass

-----------------------------------------------------------------------------
(* Removals.                                                               *)

\* The ghosts only grow, and so do the revocations.
LEMMA Grows ==
  ASSUME TypeOK, [Next]_vars
  PROVE  /\ relied \subseteq relied' /\ blind \subseteq blind'
         /\ astray \subseteq astray' /\ active' \subseteq active
<1> USE DEF relay, groups, wants, passes, ghosts
<1>1. ASSUME NEW d \in Devices, Pass(d) \/ Fault(d)
      PROVE  /\ relied \subseteq relied' /\ blind \subseteq blind'
             /\ astray \subseteq astray' /\ active' \subseteq active
  BY <1>1 DEF Pass, Fault, AddDevice, Poll, FetchDevices, LeaveAlone, LeaveToElected,
     RemoveTarget, Refused, Ack, Acknowledged, Send, Read, EndPass
<1>2. ASSUME NEW d \in Devices, NEW t \in Devices, Ask(d, t) \/ ClaimPackage(d, t)
      PROVE  UNCHANGED <<relied, blind, astray, active>>
  BY <1>2 DEF Ask, ClaimPackage
<1>3. ASSUME NEW r \in asked, Approve(r[1], r[2]) \/ Expire(r[1], r[2])
      PROVE  UNCHANGED <<relied, blind, astray>> /\ active' \subseteq active
  BY <1>3 DEF Approve, Expire
<1>4. PeerCommit => UNCHANGED <<relied, blind, astray, active>>
  BY DEF PeerCommit
<1>5. UNCHANGED vars => UNCHANGED <<relied, blind, astray, active>>
  BY DEF vars
<1> QED
  BY <1>1, <1>2, <1>3, <1>4, <1>5 DEF Next

\* A key is claimed of an active device only.
LEMMA ClaimsOfActive ==
  ASSUME TypeOK, [Next]_vars, NEW d \in active',
         NEW t \in Devices \ active, adding'[d] = t
  PROVE  adding[d] = t
<1> USE DEF relay, groups, wants, passes, ghosts
<1>d. d \in Devices /\ d \in active /\ DOMAIN adding = Devices /\ t # Nobody
  BY Grows, RevocationAssumption DEF TypeOK
<1>1. ASSUME NEW o \in Devices, Pass(o) \/ Fault(o)
      PROVE  adding' \in {adding, [adding EXCEPT ![o] = Nobody]}
  BY <1>1 DEF Pass, Fault, AddDevice, Poll, FetchDevices, LeaveAlone, LeaveToElected,
     RemoveTarget, Refused, Ack, Send, Read, EndPass
<1>2. ASSUME NEW o \in Devices, NEW u \in Devices, Ask(o, u) PROVE adding' = adding
  BY <1>2 DEF Ask
<1>3. ASSUME NEW o \in Devices, NEW u \in Devices, ClaimPackage(o, u)
      PROVE  u \in active /\ adding' = [adding EXCEPT ![o] = u]
  BY <1>3 DEF ClaimPackage, KeyPackageOf
<1>4. ASSUME NEW r \in asked, Approve(r[1], r[2]) \/ Expire(r[1], r[2])
      PROVE  adding' \in {adding, [adding EXCEPT ![r[2]] = Nobody]}
  BY <1>4 DEF Approve, Expire, Forget
<1>5. PeerCommit \/ UNCHANGED vars => adding' = adding
  BY DEF PeerCommit, vars
<1> QED
  BY <1>d, <1>1, <1>2, <1>3, <1>4, <1>5 DEF Next

\* A device keeps the lease from the claim to the addition.
LEMMA ClaimsNext ==
  ASSUME TypeOK, Queues, Joined, Fetched, Claims, [Next]_vars
  PROVE  Claims'
<1> USE DEF relay, groups, wants, passes, ghosts
<1>d. /\ DOMAIN pc = Devices /\ DOMAIN adding = Devices /\ DOMAIN view = Devices
      /\ active \subseteq Devices /\ Nobody \notin Devices
  BY RevocationAssumption DEF TypeOK
<1>1. ASSUME NEW o \in Devices, NEW s \in Step \ {"add"}, Goto(o, s),
             UNCHANGED <<active, lease, queued>>,
             view' = view \/ (pc[o] # "add" /\ \A d \in active \ {o} : view'[d] = view[d]),
             (pc[o] # "add" /\ adding' = adding) \/ adding' = [adding EXCEPT ![o] = Nobody]
      PROVE  Claims'
  <2>1. pc'[o] = s /\ \A d \in active \ {o} : pc'[d] = pc[d] /\ adding'[d] = adding[d]
    BY <1>1, <1>d DEF Goto
  <2> QED
    BY <1>1, <1>d, <2>1 DEF Claims
<1>2. ASSUME NEW o \in Devices, NEW s \in Step \ {"add"}, Goto(o, s), active' = active,
             \A d \in active \ {o} : pc[d] # "add",
             (pc[o] # "add" /\ adding' = adding) \/ adding' = [adding EXCEPT ![o] = Nobody]
      PROVE  Claims'
  <2>1. pc'[o] = s /\ \A d \in active \ {o} : pc'[d] = pc[d] /\ adding'[d] = adding[d]
    BY <1>2, <1>d DEF Goto
  <2> QED
    BY <1>2, <1>d, <2>1 DEF Claims
<1>3. ASSUME NEW o \in active PROVE AfterEvents(o) \in Step \ {"add"}
  BY DEF AfterEvents, Step
<1>4. ASSUME NEW o \in Devices, Poll(o) \/ FetchDevices(o) \/ LeaveAlone(o)
             \/ LeaveToElected(o) \/ Refused(o) \/ Ack(o) \/ EndPass(o) \/ Fault(o)
      PROVE  Claims'
  <2>1. o \in active
    BY <1>4 DEF Poll, FetchDevices, LeaveAlone, LeaveToElected, Refused, Ack,
       EndPass, Fault, MustRemove, At
  <2>2. PICK s \in Step \ {"add"} : Goto(o, s)
    <3>1. PICK s \in {AfterEvents(o), "list", "handle", "ack", "poll"} : Goto(o, s)
      BY <1>4 DEF Poll, FetchDevices, LeaveAlone, LeaveToElected, Refused, Ack,
         EndPass, Fault, Leave
    <3>2. s \in Step \ {"add"}
      BY <1>3, <2>1 DEF Step
    <3> QED
      BY <3>1, <3>2
  <2>3. /\ UNCHANGED <<active, lease, queued, view>>
        /\ \/ pc[o] # "add" /\ adding' = adding
           \/ adding' = [adding EXCEPT ![o] = Nobody]
    BY <1>4 DEF Poll, FetchDevices, LeaveAlone, LeaveToElected, Refused, Ack,
       EndPass, Fault, MustRemove, At
  <2> QED
    BY <1>1, <2>2, <2>3
<1>5. ASSUME NEW o \in Devices, Read(o) PROVE Claims'
  <2>1. pc[o] # "add" /\ UNCHANGED <<active, pc, lease, queued, adding>>
        /\ \A d \in active \ {o} : view'[d] = view[d]
    BY <1>5, <1>d DEF Read, At
  <2> QED
    BY <2>1 DEF Claims
<1>6. ASSUME NEW o \in Devices, RemoveTarget(o) PROVE Claims'
  <2>1. /\ lease = Nobody /\ Goto(o, "ack") /\ active' = active
        /\ pc[o] # "add" /\ adding' = adding
    BY <1>6 DEF RemoveTarget, MustRemove, At
  <2>2. \A d \in active : pc[d] # "add"
    BY <1>d, <2>1 DEF Claims
  <2> QED
    BY <1>2, <2>1, <2>2 DEF Step
<1>7. ASSUME NEW o \in Devices, Send(o) PROVE Claims'
  <2>1. /\ queued[o] # 0 /\ o \in active /\ Goto(o, "mail") /\ active' = active
        /\ pc[o] # "add" /\ adding' = adding
    BY <1>7 DEF Send, At
  <2>2. lease = o
    BY <2>1 DEF TypeOK
  <2>3. \A d \in active \ {o} : pc[d] # "add"
    BY <2>2 DEF Claims
  <2> QED
    BY <1>2, <2>1, <2>3 DEF Step
<1>8. ASSUME NEW o \in Devices, AddDevice(o) PROVE Claims'
  <2>1. /\ pc[o] = "add" /\ o \in active /\ Goto(o, "flush") /\ active' = active
        /\ adding' = [adding EXCEPT ![o] = Nobody]
    BY <1>8 DEF AddDevice, At
  <2>2. \A d \in active \ {o} : pc[d] # "add"
    BY <2>1 DEF Claims
  <2> QED
    BY <1>2, <2>1, <2>2 DEF Step
<1>9. ASSUME NEW o \in Devices, NEW t \in Devices, ClaimPackage(o, t) PROVE Claims'
  <2>1. /\ lease = Nobody /\ lease' = o /\ queued[o] = 0 /\ view[o] # 0
        /\ adding' = [adding EXCEPT ![o] = t] /\ pc' = [pc EXCEPT ![o] = "add"]
        /\ UNCHANGED <<active, queued, view>>
    BY <1>9 DEF ClaimPackage, Goto
  <2>2. \A d \in active : pc[d] # "add"
    BY <1>d, <2>1 DEF Claims
  <2>3. pc'[o] = "add" /\ adding'[o] = t
        /\ \A d \in active \ {o} : pc'[d] = pc[d] /\ adding'[d] = adding[d]
    BY <1>d, <2>1
  <2> QED
    BY <2>1, <2>2, <2>3 DEF Claims
<1>10. ASSUME NEW d \in Devices, NEW t \in Devices, Ask(d, t) PROVE Claims'
  BY <1>10 DEF Ask, Claims
<1>11. ASSUME NEW r \in asked, Expire(r[1], r[2]) PROVE Claims'
  BY <1>11 DEF Expire, Claims
<1>12. ASSUME NEW r \in asked, Approve(r[1], r[2]) PROVE Claims'
  BY <1>12, ApproveWhat DEF Claims
<1>13. CASE PeerCommit
  <2>1. lease = Nobody /\ UNCHANGED <<active, pc, adding>>
    BY <1>13 DEF PeerCommit
  <2>2. \A d \in active : pc[d] # "add"
    BY <1>d, <2>1 DEF Claims
  <2> QED
    BY <2>1, <2>2 DEF Claims
<1>14. CASE UNCHANGED vars
  BY <1>14 DEF vars, Claims
<1> QED
  BY <1>4, <1>5, <1>6, <1>7, <1>8, <1>9, <1>10, <1>11, <1>12, <1>13, <1>14
     DEF Next, Pass

\* A removal is made upon the node the peers are at, or that is noted.
LEMMA TimelyNext ==
  ASSUME TypeOK, Queues, Joined, Fetched, Claims, Timely, [Next]_vars
  PROVE  Timely'
<1>k. \A i \in 1 .. Len(made) : made'[i] = made[i]
  BY NodesKept
<1>1. CASE Steady
  BY <1>1 DEF Steady, Timely, Removing
<1>2. ASSUME NEW d \in active, NEW members \in SUBSET Devices, Makes(d, members)
      PROVE  Timely'
  <2>1. /\ active' = active /\ head' = head
        /\ \A t \in MembersOf(d) \ members : view[d] = head \/ t \in astray'
    BY <1>2 DEF Makes
  <2>2. /\ view[d] \in 1 .. Len(made) /\ made'[queued'[d]].base = view[d]
        /\ made'[queued'[d]].members = members
        /\ \A o \in active \ {d} : queued'[o] = 0
    BY <1>2, MakesWhat
  <2>3. view[d] # 0 => MembersOf(d) = made'[view[d]].members
    BY <1>k, <2>2 DEF MembersOf
  <2>4. view[d] # 0
    BY <1>2 DEF Makes
  <2>5. ASSUME NEW t \in Devices, Removing(d, t)'
        PROVE  made'[queued'[d]].base = head' \/ t \in astray'
    BY <2>1, <2>2, <2>3, <2>4, <2>5 DEF Removing
  <2> QED
    BY <2>1, <2>2, <2>5 DEF Timely, Removing
<1>3. ASSUME NEW d \in active, Send(d) PROVE Timely'
  BY <1>3, SendWhat DEF Timely, Removing
<1>4. ASSUME NEW d \in active, Read(d) PROVE Timely'
  BY <1>4 DEF Read, Timely, Removing, ghosts
<1>5. ASSUME NEW r \in asked, Approve(r[1], r[2]) PROVE Timely'
  BY <1>5, ApproveWhat DEF Timely, Removing
<1>6. CASE PeerCommit
  BY <1>6, PeerWhat DEF Timely, Removing
<1> QED
  BY <1>1, <1>2, <1>3, <1>4, <1>5, <1>6, Kinds

\* A revoked device that is out for good stays out.
LEMMA StaysOut ==
  ASSUME TypeOK, Queues, Joined, Fetched, Claims, [Next]_vars,
         NEW t \in Devices \ active, OutForGood(t)
  PROVE  OutForGood(t)'
<1>k. /\ \A i \in 1 .. Len(made) : made'[i] = made[i] /\ head \in 1 .. Len(made)
      /\ active' \subseteq active /\ t \notin active'
  BY NodesKept, NodesTyped, Grows
<1>a. \A o \in active' : adding'[o] # t
  BY <1>k, ClaimsOfActive DEF OutForGood
<1>1. CASE Steady
  BY <1>1, <1>a DEF Steady, OutForGood
<1>2. ASSUME NEW d \in active, NEW members \in SUBSET Devices, Makes(d, members)
      PROVE  OutForGood(t)'
  <2>1. /\ head' = head /\ active' = active /\ made'[head] = made[head]
        /\ members \subseteq MembersOf(d) \cup active \cup {adding[d]}
    BY <1>2, <1>k, NodesTyped DEF Makes
  <2>2. /\ made'[queued'[d]].base = view[d] /\ made'[queued'[d]].members = members
        /\ \A o \in active \ {d} : queued'[o] = 0
    BY <1>2, MakesWhat
  <2>3. view[d] # 0 /\ MembersOf(d) = made[view[d]].members
    BY <1>2 DEF Makes, MembersOf
  <2>4. view[d] = head => t \notin members
    BY <2>1, <2>3 DEF OutForGood
  <2> QED
    BY <1>a, <2>1, <2>2, <2>4 DEF OutForGood
<1>3. ASSUME NEW d \in active, Send(d) PROVE OutForGood(t)'
  BY <1>3, <1>a, SendWhat DEF OutForGood
<1>4. ASSUME NEW d \in active, Read(d) PROVE OutForGood(t)'
  BY <1>4, <1>a DEF Read, OutForGood
<1>5. ASSUME NEW r \in asked, Approve(r[1], r[2]) PROVE OutForGood(t)'
  BY <1>5, <1>a, ApproveWhat DEF OutForGood
<1>6. CASE PeerCommit
  BY <1>6, <1>a, PeerWhat DEF OutForGood
<1> QED
  BY <1>1, <1>2, <1>3, <1>4, <1>5, <1>6, Kinds

\* A queued removal stays queued, or the relay takes it: then the target is
\* out, unless the peers had left the node.
LEMMA RemovalStays ==
  ASSUME TypeOK, Queues, Joined, Fetched, Claims, Timely, [Next]_vars,
         NEW d \in active', NEW t \in Devices, Removing(d, t)
  PROVE  Removing(d, t)' \/ OutForGood(t)' \/ t \in astray'
<1>k. /\ \A i \in 1 .. Len(made) : made'[i] = made[i]
      /\ active' \subseteq active /\ d \in active /\ astray \subseteq astray'
      /\ queued[d] # 0 /\ queued[d] \in 1 .. Len(made)
      /\ made[queued[d]].base \in 1 .. Len(made)
  <2>1. d \in active /\ d \in Devices
    BY Grows DEF TypeOK
  <2>2. queued[d] # 0
    BY DEF Removing
  <2>3. queued[d] \in 1 .. Len(made)
    BY <2>1, <2>2, MembersTyped
  <2> QED
    BY <2>1, <2>2, <2>3, NodesKept, Grows DEF Queues
<1>1. CASE Steady
  BY <1>1 DEF Steady, Removing
<1>2. ASSUME NEW o \in active, NEW members \in SUBSET Devices, Makes(o, members)
      PROVE  FALSE
  <2>1. queued[o] = 0 /\ lease \in {o, Nobody}
    BY <1>2 DEF Makes
  <2> QED
    BY <1>k, <2>1, RevocationAssumption DEF TypeOK
<1>3. ASSUME NEW o \in active, Send(o)
      PROVE  OutForGood(t)' \/ t \in astray'
  <2>1. o = d
    BY <1>3, <1>k, SendWhat, OnlyHolder
  <2>2. CASE made[queued[d]].base = head
    <3>1. \A u \in active : adding'[u] # t
      <4>1. pc[d] # "add" /\ adding' = adding
        BY <1>3, <2>1 DEF Send, At, wants
      <4>2. lease = d /\ t # Nobody
        BY <1>k, RevocationAssumption DEF TypeOK
      <4> QED
        BY <4>1, <4>2 DEF Claims
    <3> QED
      BY <1>3, <1>k, <2>1, <2>2, <3>1, SendWhat DEF OutForGood, Removing
  <2>3. CASE t \in astray
    BY <1>k, <2>3
  <2> QED
    BY <1>k, <2>2, <2>3 DEF Timely
<1>4. ASSUME NEW o \in active, Read(o) PROVE Removing(d, t)'
  BY <1>4 DEF Read, Removing
<1>5. ASSUME NEW r \in asked, Approve(r[1], r[2]) PROVE Removing(d, t)'
  BY <1>5, ApproveWhat DEF Removing
<1>6. CASE PeerCommit
  BY <1>6, <1>k, PeerWhat
<1> QED
  BY <1>1, <1>2, <1>3, <1>4, <1>5, <1>6, Kinds

-----------------------------------------------------------------------------
(* What a device makes of an event.                                        *)

\* Nobody disturbs a device that is about to acknowledge.
LEMMA Undisturbed ==
  ASSUME TypeOK, [Next]_vars, NEW d \in active', pc[d] = "ack", pc'[d] = "ack"
  PROVE  view'[d] = view[d] /\ batch'[d] = batch[d]
<1> USE DEF relay, groups, wants, passes, ghosts
<1>d. d \in Devices /\ d \in active
  BY Grows DEF TypeOK
<1>f. DOMAIN pc = Devices /\ DOMAIN batch = Devices /\ DOMAIN view = Devices
  BY DEF TypeOK
<1>1. ASSUME NEW o \in Devices, Poll(o)
      PROVE  view'[d] = view[d] /\ batch'[d] = batch[d]
  <2>1. o # d
    BY <1>1 DEF Poll, At
  <2> QED
    BY <1>1, <1>d, <1>f, <2>1 DEF Poll
<1>2. ASSUME NEW o \in Devices,
             FetchDevices(o) \/ LeaveAlone(o) \/ LeaveToElected(o) \/ EndPass(o)
      PROVE  view'[d] = view[d] /\ batch'[d] = batch[d]
  BY <1>2 DEF FetchDevices, LeaveAlone, LeaveToElected, EndPass
<1>3. ASSUME NEW o \in Devices, RemoveTarget(o)
      PROVE  view'[d] = view[d] /\ batch'[d] = batch[d]
  <2>1. o # d
    BY <1>3 DEF RemoveTarget, MustRemove, At
  <2> QED
    BY <1>3, <1>d, <1>f, <2>1 DEF RemoveTarget, Queue
<1>4. ASSUME NEW o \in Devices, Refused(o) \/ Ack(o) \/ Fault(o)
      PROVE  view'[d] = view[d] /\ batch'[d] = batch[d]
  <2>1. PICK s : Goto(o, s) /\ s # "ack"
    BY <1>4 DEF Refused, Ack, Fault, Leave, AfterEvents
  <2>2. o # d
    BY <1>d, <1>f, <2>1 DEF Goto
  <2> QED
    BY <1>4, <1>d, <1>f, <2>2 DEF Refused, Ack, Fault, Leave
<1>5. ASSUME NEW o \in Devices, Send(o)
      PROVE  view'[d] = view[d] /\ batch'[d] = batch[d]
  BY <1>5 DEF Send
<1>6. ASSUME NEW o \in Devices, Read(o)
      PROVE  view'[d] = view[d] /\ batch'[d] = batch[d]
  <2>1. o # d
    BY <1>6 DEF Read, At
  <2> QED
    BY <1>6, <1>d, <1>f, <2>1 DEF Read
<1>7. ASSUME NEW o \in Devices, AddDevice(o)
      PROVE  view'[d] = view[d] /\ batch'[d] = batch[d]
  <2>1. o # d
    BY <1>7 DEF AddDevice, At
  <2> QED
    BY <1>7, <1>d, <1>f, <2>1 DEF AddDevice, Queue
<1>8. ASSUME NEW o \in Devices, NEW t \in Devices, Ask(o, t) \/ ClaimPackage(o, t)
      PROVE  view'[d] = view[d] /\ batch'[d] = batch[d]
  BY <1>8 DEF Ask, ClaimPackage
<1>9. ASSUME NEW r \in asked, Approve(r[1], r[2]) \/ Expire(r[1], r[2])
      PROVE  view'[d] = view[d] /\ batch'[d] = batch[d]
  <2>1. CASE Approve(r[1], r[2])
    BY <2>1, ApproveWhat
  <2>2. CASE Expire(r[1], r[2])
    BY <2>2 DEF Expire
  <2> QED
    BY <1>9, <2>1, <2>2
<1>10. PeerCommit => view'[d] = view[d] /\ batch'[d] = batch[d]
  BY DEF PeerCommit
<1>11. UNCHANGED vars => view'[d] = view[d] /\ batch'[d] = batch[d]
  BY DEF vars
<1> QED
  BY <1>1, <1>2, <1>3, <1>4, <1>5, <1>6, <1>7, <1>8, <1>9, <1>10, <1>11 DEF Next, Pass

\* The elected device is a smaller one, when it is not this one.
LEMMA ElectedSmaller ==
  ASSUME TypeOK, Joined, Fetched, NEW d \in active, pc[d] = "handle",
         Target(d) \in MembersOf(d), Elected(d) # d
  PROVE  Elected(d) \in snap[d] /\ Elected(d) \in Devices /\ Elected(d) < d
<1> DEFINE S == MembersOf(d) \cap snap[d]
<1>1. d \in S /\ d \in Devices
  <2>1. view[d] # 0
    BY DEF MembersOf
  <2> QED
    BY <2>1, KnowsItself, AtFirstEvent
<1>2. S \in SUBSET Nat /\ S \subseteq Devices
  BY <1>1, MembersTyped, RevocationAssumption
<1>3. \E e \in S : \A o \in S : e <= o
  BY <1>1, <1>2, LeastExists
<1>4. Elected(d) \in S /\ \A o \in S : Elected(d) <= o
  <2>1. Elected(d) = CHOOSE e \in S : \A o \in S : e <= o
    BY DEF Elected
  <2> HIDE DEF S
  <2> QED
    BY <1>3, <2>1
<1>5. Elected(d) \in Nat /\ d \in Nat /\ Elected(d) <= d
  BY <1>1, <1>2, <1>4
<1> QED
  BY <1>2, <1>4, <1>5

\* What a device has made of an event when it is to acknowledge it.
LEMMA HandledNext ==
  ASSUME TypeOK, Queues, Joined, Fetched, Claims, Handled, [Next]_vars
  PROVE  Handled'
<1> USE DEF relay, groups, wants, passes, ghosts
<1>k. /\ \A i \in 1 .. Len(made) : made'[i] = made[i]
      /\ relied \subseteq relied' /\ active' \subseteq active
      /\ active \subseteq Devices
  BY NodesKept, Grows DEF TypeOK
<1>1. ASSUME NEW d \in active', pc[d] = "ack", pc'[d] = "ack"
      PROVE  Target(d)' \notin MembersOf(d)' \/ LeftToSmaller(d, Target(d))'
  <2>1. view'[d] = view[d] /\ Target(d)' = Target(d)
    BY <1>1, Undisturbed DEF Target
  <2>2. MembersOf(d)' = MembersOf(d)
    <3>1. view[d] # 0 => view[d] \in 1 .. Len(made)
      BY <1>k, MembersTyped
    <3> QED
      BY <1>k, <2>1, <3>1 DEF MembersOf
  <2>3. Target(d) \notin MembersOf(d) \/ LeftToSmaller(d, Target(d))
    BY <1>1, <1>k DEF Handled
  <2> QED
    BY <1>k, <2>1, <2>2, <2>3 DEF LeftToSmaller
<1>2. ASSUME NEW d \in active, pc[d] = "handle",
             LeaveAlone(d) \/ LeaveToElected(d) \/ RemoveTarget(d)
      PROVE  Target(d)' \notin MembersOf(d)' \/ LeftToSmaller(d, Target(d))'
  <2>1. batch' = batch /\ Target(d)' = Target(d)
    BY <1>2 DEF LeaveAlone, LeaveToElected, RemoveTarget, Target
  <2>2. CASE LeaveAlone(d)
    BY <2>1, <2>2 DEF LeaveAlone, MembersOf
  <2>3. CASE LeaveToElected(d)
    <3>1. Elected(d) \in snap[d] /\ Elected(d) \in Devices /\ Elected(d) < d
      BY <1>2, <2>3, ElectedSmaller DEF LeaveToElected
    <3>2. <<Target(d), Elected(d)>> \in relied'
      BY <2>3, <3>1 DEF LeaveToElected
    <3> QED
      BY <2>1, <3>1, <3>2 DEF LeftToSmaller
  <2>4. CASE RemoveTarget(d)
    <3>1. Queue(d, MembersOf(d) \ {Target(d)})
      BY <2>4 DEF RemoveTarget, Without
    <3>2. MembersOf(d) \ {Target(d)} \in SUBSET Devices /\ d \in Devices
      BY <1>k, MembersTyped
    <3>3. /\ made'[Len(made')] = [base |-> view[d], members |-> MembersOf(d) \ {Target(d)}]
          /\ view' = [view EXCEPT ![d] = Len(made')]
      BY <3>1, <3>2, QueueTyped
    <3>4. view'[d] = Len(made')
      BY <3>2, <3>3 DEF TypeOK
    <3>5. MembersOf(d)' \subseteq MembersOf(d) \ {Target(d)}
      BY <3>3, <3>4 DEF MembersOf
    <3> QED
      BY <2>1, <3>5
  <2> QED
    BY <1>2, <2>2, <2>3, <2>4
<1>d. DOMAIN pc = Devices
  BY DEF TypeOK
<1>3. ASSUME NEW d \in active', pc[d] # "ack", pc'[d] = "ack"
      PROVE  d \in active /\ pc[d] = "handle"
             /\ (LeaveAlone(d) \/ LeaveToElected(d) \/ RemoveTarget(d))
  <2>d. d \in Devices /\ d \in active
    BY <1>k
  <2>1. ASSUME NEW o \in Devices, NEW s, Goto(o, s)
        PROVE  o = d /\ s = "ack"
    BY <1>3, <1>d, <2>d, <2>1 DEF Goto
  <2>2. ASSUME NEW o \in Devices, Pass(o) \/ Fault(o)
        PROVE  o = d /\ (LeaveAlone(d) \/ LeaveToElected(d) \/ RemoveTarget(d))
    <3>1. ASSUME AddDevice(o) \/ Poll(o) \/ FetchDevices(o) \/ Refused(o) \/ Ack(o)
                 \/ Send(o) \/ EndPass(o) \/ Fault(o)
          PROVE  FALSE
      <4>1. PICK s \in {"mail", "flush", "poll", "list", "handle"} : Goto(o, s)
        BY <3>1 DEF AddDevice, Poll, FetchDevices, Refused, Ack, Send, EndPass, Fault,
           Leave, AfterEvents
      <4> QED
        BY <2>1, <4>1
    <3>2. ~Read(o)
      BY <1>3 DEF Read
    <3>3. LeaveAlone(o) \/ LeaveToElected(o) \/ RemoveTarget(o)
      BY <2>2, <3>1, <3>2 DEF Pass
    <3>4. Goto(o, "ack")
      BY <3>3 DEF LeaveAlone, LeaveToElected, RemoveTarget
    <3> QED
      BY <2>1, <3>3, <3>4
  <2>3. ASSUME NEW o \in Devices, NEW t \in Devices, Ask(o, t) \/ ClaimPackage(o, t)
        PROVE  FALSE
    <3>1. CASE Ask(o, t)
      BY <1>3, <3>1 DEF Ask
    <3>2. CASE ClaimPackage(o, t)
      <4>1. Goto(o, "add")
        BY <3>2 DEF ClaimPackage
      <4> QED
        BY <2>1, <4>1
    <3> QED
      BY <2>3, <3>1, <3>2
  <2>4. ASSUME NEW r \in asked, Approve(r[1], r[2]) \/ Expire(r[1], r[2])
        PROVE  FALSE
    <3>1. CASE Approve(r[1], r[2])
      BY <1>3, <3>1, ApproveWhat
    <3>2. CASE Expire(r[1], r[2])
      BY <1>3, <3>2 DEF Expire
    <3> QED
      BY <2>4, <3>1, <3>2
  <2>5. ~PeerCommit /\ ~UNCHANGED vars
    BY <1>3 DEF PeerCommit, vars
  <2>6. LeaveAlone(d) \/ LeaveToElected(d) \/ RemoveTarget(d)
    BY <2>2, <2>3, <2>4, <2>5 DEF Next
  <2> QED
    BY <2>d, <2>6 DEF LeaveAlone, LeaveToElected, RemoveTarget, MustRemove, At
<1> QED
  BY <1>1, <1>2, <1>3 DEF Handled

\* Only the one that acknowledges an event loses it.
LEMMA WhoAcknowledges ==
  ASSUME TypeOK, Fetched, [Next]_vars, NEW d \in active', NEW t,
         t \in Range(events[d]), t \notin Range(events'[d])
  PROVE  /\ pc[d] = "ack" /\ Acknowledged(d) /\ t = Target(d)
         /\ UNCHANGED <<active, head, made, queued>>
<1> USE DEF relay, groups, wants, passes, ghosts
<1>d. d \in Devices /\ d \in active /\ DOMAIN events = Devices
  BY Grows DEF TypeOK
<1>1. events'[d] # events[d]
  OBVIOUS
<1>2. ASSUME NEW o \in Devices, Pass(o) \/ Fault(o)
      PROVE  /\ o = d /\ pc[d] = "ack" /\ Acknowledged(d)
             /\ UNCHANGED <<active, head, made, queued>>
  <2>1. Ack(o) \/ Fault(o)
    BY <1>1, <1>2 DEF Pass, AddDevice, Poll, FetchDevices, LeaveAlone, LeaveToElected,
       RemoveTarget, Refused, Send, Read, EndPass
  <2>2. Acknowledged(o) /\ pc[o] = "ack" /\ UNCHANGED <<active, head, made, queued>>
    BY <1>1, <2>1 DEF Ack, Fault, At
  <2>3. o = d
    BY <1>1, <1>d, <2>2 DEF Acknowledged
  <2> QED
    BY <2>2, <2>3
<1>3. ASSUME NEW o \in Devices, NEW u \in Devices PROVE ~Ask(o, u) /\ ~ClaimPackage(o, u)
  BY <1>1 DEF Ask, ClaimPackage
<1>4. ASSUME NEW r \in asked PROVE ~Approve(r[1], r[2])
  <2> SUFFICES ASSUME Approve(r[1], r[2]) PROVE FALSE
    OBVIOUS
  <2>1. events'[d] = Append(events[d], r[2]) /\ r[2] \in Revocable
    BY ApproveWhat
  <2>2. events[d] \in Seq(Revocable)
    BY <1>d DEF TypeOK
  <2>3. /\ DOMAIN events[d] \subseteq DOMAIN events'[d]
        /\ \A i \in DOMAIN events[d] : events'[d][i] = events[d][i]
    BY <2>1, <2>2, PutLast
  <2> QED
    BY <2>3 DEF Range
<1>5. ASSUME NEW r \in asked PROVE ~Expire(r[1], r[2])
  BY <1>1 DEF Expire
<1>6. ~PeerCommit /\ ~UNCHANGED vars
  BY <1>1 DEF PeerCommit, vars
<1>7. /\ pc[d] = "ack" /\ Acknowledged(d)
      /\ UNCHANGED <<active, head, made, queued>>
  BY <1>2, <1>3, <1>4, <1>5, <1>6 DEF Next
<1>8. t = Target(d)
  <2>1. /\ events' = [events EXCEPT ![d] = Tail(events[d])]
        /\ \A u \in Range(events[d]) : u = Target(d) \/ u \in Range(Tail(events[d]))
    BY <1>7, <1>d, Popped
  <2>2. events'[d] = Tail(events[d])
    BY <1>d, <2>1
  <2> QED
    BY <2>1, <2>2
<1> QED
  BY <1>7, <1>8

\* What is so of each event that a device has acknowledged.
LEMMA DealtNext ==
  ASSUME Inv, [Next]_vars
  PROVE  Dealt'
<1> USE DEF Inv
<1>g. /\ relied \subseteq relied' /\ blind \subseteq blind'
      /\ astray \subseteq astray' /\ active' \subseteq active
      /\ active \subseteq Devices /\ Revocable \subseteq Devices
  BY Grows, RevocationAssumption DEF TypeOK
<1> SUFFICES ASSUME NEW d \in active', NEW t \in Revocable \ active',
                    t \notin Range(events'[d])
             PROVE  \/ <<t, d>> \in blind' \/ LeftToSmaller(d, t)' \/ t \in astray'
                    \/ OutForGood(t)' \/ Removing(d, t)'
  BY DEF Dealt
<1>1. t \notin active
  <2> SUFFICES ASSUME t \in active PROVE FALSE
    OBVIOUS
  <2>1. active' # active
    OBVIOUS
  <2>2. ASSUME Steady \/ PeerCommit PROVE FALSE
    BY <2>1, <2>2 DEF Steady, PeerCommit
  <2>3. ASSUME NEW o \in active, NEW members \in SUBSET Devices, Makes(o, members)
        PROVE  FALSE
    BY <2>1, <2>3 DEF Makes
  <2>4. ASSUME NEW o \in active, Send(o) \/ Read(o) PROVE FALSE
    BY <2>1, <2>4 DEF Send, Read
  <2>5. PICK r \in asked : Approve(r[1], r[2])
    BY <2>2, <2>3, <2>4, Kinds
  <2>6. t = r[2] /\ events'[d] = Append(events[d], t) /\ t \in Revocable
    BY <2>5, ApproveWhat
  <2>7. events[d] \in Seq(Revocable)
    BY <1>g DEF TypeOK
  <2> QED
    BY <2>6, <2>7, PutLast
<1>2. ASSUME LeftToSmaller(d, t) PROVE LeftToSmaller(d, t)'
  BY <1>g, <1>2 DEF LeftToSmaller
<1>3. ASSUME Removing(d, t)
      PROVE  Removing(d, t)' \/ OutForGood(t)' \/ t \in astray'
  BY <1>g, <1>3, RemovalStays
<1>4. ASSUME OutForGood(t) PROVE OutForGood(t)'
  BY <1>1, <1>4, <1>g, StaysOut
<1>5. CASE t \notin Range(events[d])
  <2>1. \/ <<t, d>> \in blind \/ LeftToSmaller(d, t) \/ t \in astray
        \/ OutForGood(t) \/ Removing(d, t)
    BY <1>1, <1>5, <1>g DEF Dealt
  <2> QED
    BY <1>g, <1>2, <1>3, <1>4, <2>1
<1>6. CASE t \in Range(events[d])
  <2>1. pc[d] = "ack" /\ Acknowledged(d) /\ t = Target(d)
    BY <1>6, WhoAcknowledges
  <2>2. CASE Behind(d, t)
    BY <2>1, <2>2 DEF Acknowledged
  <2>3. CASE LeftToSmaller(d, t)
    BY <1>2, <2>3
  <2>4. CASE ~Behind(d, t) /\ t \notin MembersOf(d)
    <3>1. CASE queued[d] # 0 /\ t \in made[made[queued[d]].base].members
      <4>1. view[d] = queued[d] /\ view[d] # 0
        BY <1>g, <3>1, OnlyHolder
      <4>2. t \notin made[queued[d]].members
        BY <2>4, <4>1 DEF MembersOf
      <4> QED
        BY <1>3, <3>1, <4>2 DEF Removing
    <3>2. CASE ~(queued[d] # 0 /\ t \in made[made[queued[d]].base].members)
      <4>1. OutForGood(t)
        BY <2>4, <3>2 DEF Behind, OutForGood
      <4> QED
        BY <1>4, <4>1
    <3> QED
      BY <3>1, <3>2
  <2>5. t \notin MembersOf(d) \/ LeftToSmaller(d, t)
    BY <1>g, <2>1 DEF Handled
  <2> QED
    BY <2>2, <2>3, <2>4, <2>5
<1> QED
  BY <1>5, <1>6

-----------------------------------------------------------------------------
(* The invariant.                                                          *)

LEMMA InitInv == Init => Inv
<1> SUFFICES ASSUME Init PROVE Inv
  OBVIOUS
<1>a. /\ active = Devices /\ asked = {} /\ lease = Nobody /\ head = 1
      /\ events = [d \in Devices |-> <<>>] /\ mailbox = [d \in Devices |-> <<>>]
      /\ peerCommits = 0 /\ faults = 0
      /\ made = <<[base |-> 0, members |-> Members]>>
      /\ view = [d \in Devices |-> IF d \in Members THEN 1 ELSE 0]
      /\ queued = [d \in Devices |-> 0]
      /\ awaiting = [d \in Devices |-> Nobody] /\ adding = awaiting
      /\ pc = [d \in Devices |-> "poll"]
      /\ batch = [d \in Devices |-> <<>>] /\ snap = [d \in Devices |-> {}]
      /\ relied = {} /\ blind = {} /\ astray = {}
  BY DEF Init
<1>b. Members \subseteq Devices /\ Revocable \subseteq Devices
  BY RevocationAssumption
<1>1. made \in Seq(Node) /\ Len(made) = 1 /\ made[1].members = Members
  <2>1. [base |-> 0, members |-> Members] \in Node
    BY <1>b DEF Node
  <2> QED
    BY <1>a, <2>1
<1>2. TypeOK
  BY <1>a, <1>b, <1>1 DEF TypeOK, Step
<1>3. Queues
  BY <1>a DEF Queues
<1>4. Joined
  BY <1>a, <1>1 DEF Joined
<1>5. Fetched /\ Claims
  BY <1>a DEF Fetched, Claims
<1>6. Timely
  BY <1>a DEF Timely, Removing
<1>7. Handled
  BY <1>a DEF Handled
<1>8. Dealt
  BY <1>a, <1>b DEF Dealt
<1> QED
  BY <1>2, <1>3, <1>4, <1>5, <1>6, <1>7, <1>8 DEF Inv

LEMMA InvNext == Inv /\ [Next]_vars => Inv'
<1> SUFFICES ASSUME Inv, [Next]_vars PROVE Inv'
  OBVIOUS
<1>1. TypeOK /\ Queues /\ Joined /\ Fetched /\ Claims /\ Timely /\ Handled
  BY DEF Inv
<1>2. TypeOK' /\ Queues' /\ Joined' /\ Fetched' /\ Claims'
  BY <1>1, TypeNext, QueuesNext, JoinedNext, FetchedNext, ClaimsNext
<1>3. Timely' /\ Handled' /\ Dealt'
  BY <1>1, TimelyNext, HandledNext, DealtNext
<1> QED
  BY <1>2, <1>3 DEF Inv

\* The invariant of the module: it is what LeftBehindForCause rests on.
THEOREM Invariance == Spec => []Inv
  BY InitInv, InvNext, PTL DEF Spec

\* The variables keep their types; a queued Commit is under the lease.
THEOREM TypeCorrect == Spec => []TypeOK
<1>1. Inv => TypeOK
  BY DEF Inv
<1> QED
  BY <1>1, Invariance, PTL

\* When every device has acknowledged a revocation and no removal waits to be
\* sent (reconcile_revoked_device, sync_account_device_events), the revoked
\* device is out of the chat for the peers, or one of the named causes has
\* come about, for any devices and any number of failures and restarts.
THEOREM LeftBehindForCause == Spec => []LeftBehindWithCause
<1>1. Inv => LeftBehindWithCause
  <2> SUFFICES ASSUME Inv, NEW t \in Revocable \ active, Settled(t),
                      ~Gone(t), ~Excused(t)
               PROVE  FALSE
    BY DEF LeftBehindWithCause
  <2> DEFINE Awake == {d \in active : <<t, d>> \notin blind}
  <2>1. Awake \in SUBSET Nat /\ Awake # {} /\ active \subseteq Devices
    BY RevocationAssumption DEF Excused, Inv, TypeOK
  <2>2. PICK d \in Awake : \A o \in Awake : d <= o
    BY <2>1, LeastExists
  <2>3. d \in active /\ <<t, d>> \notin blind /\ t \notin astray
    BY DEF Excused
  <2>4. t \notin Range(events[d]) /\ ~Removing(d, t)
    BY <2>3 DEF Settled, Removing
  <2>5. ~OutForGood(t)
    BY DEF Gone, OutForGood
  <2>6. LeftToSmaller(d, t)
    BY <2>3, <2>4, <2>5 DEF Inv, Dealt
  <2>7. PICK e \in Devices : e < d /\ <<t, e>> \in relied
    BY <2>6 DEF LeftToSmaller
  <2>8. e \in Awake
    BY <2>7 DEF Excused
  <2>9. d <= e /\ d \in Nat /\ e \in Nat
    BY <2>1, <2>2, <2>8
  <2> QED
    BY <2>7, <2>9
<1> QED
  BY <1>1, Invariance, PTL
=============================================================================
