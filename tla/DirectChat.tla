----------------------------- MODULE DirectChat -----------------------------
(***************************************************************************)
(* Beginning a direct chat (start_direct_chat) from both ends.  A device   *)
(* looks for a chat with the peer, claims one one-time key of each of the  *)
(* peer's devices, makes the MLS group, and queues the Welcome together    *)
(* with the chat record; the peer's devices join when they read it         *)
(* (join_conversation, ensure_chat).  Each step is durable before the next *)
(* and the process may end between any two.                                *)
(*                                                                         *)
(* A chat is a number, its group a set of devices that does not change     *)
(* here: additions and removals are in module Revocation.  The relay keeps *)
(* one sequence of what was posted, of which each device reads the part    *)
(* that is addressed to it.                                                *)
(***************************************************************************)
EXTENDS Naturals, FiniteSets, Sequences

CONSTANTS
  Devices, Handle,   \* the devices, and the account of each
  Starters,          \* devices whose user asks for a direct chat
  MaxChats,          \* bound on the chats ever begun
  Keys,              \* [Devices -> Nat]: one-time keys a launch publishes
  MaxFaults          \* bound on failures and restarts

ASSUME DirectChatAssumption ==
  /\ Starters \subseteq Devices /\ Keys \in [Devices -> Nat]
  /\ MaxChats \in Nat /\ MaxFaults \in Nat

Chats == 1 .. MaxChats
Peers(d) == {e \in Devices : Handle[e] # Handle[d]}

VARIABLES
  keys,     \* one-time keys the relay has, per device
  begun,    \* the chats that were begun: [by, invited]
  step,     \* start_direct_chat, per device
  asked,    \* the device's user wants a direct chat
  groups,   \* the MLS groups a device has
  listed,   \* the chats in its vault
  welcomes, \* those whose Welcome is in its outbox
  wire,     \* what the relay was given, in order
  next,     \* per device: the first entry of wire it has not consumed
  faults

groupVars  == <<keys, begun, step, asked, groups, listed, welcomes>>
directVars == <<groupVars, wire, next, faults>>

Rest    == [at |-> "idle", invited |-> {}]
Idle(d) == step[d] = Rest

DirectTypeOK ==
  /\ keys \in [Devices -> Nat]
  /\ begun \in Seq([by : Devices, invited : SUBSET Devices])
  /\ Len(begun) <= MaxChats
  /\ step \in [Devices -> [at : {"idle", "claimed", "created"},
                          invited : SUBSET Devices]]
  /\ asked \subseteq Devices
  /\ groups \in [Devices -> SUBSET Chats]
  /\ listed \in [Devices -> SUBSET Chats]
  /\ welcomes \in [Devices -> SUBSET Chats]
  /\ next \in [Devices -> Nat] /\ faults \in Nat

\* key_packages: a launch publishes fresh one-time keys.
Published(d) == Keys[d]

DirectInit ==
  /\ keys = [d \in Devices |-> Published(d)]
  /\ begun = <<>> /\ step = [d \in Devices |-> Rest]
  /\ asked = {}
  /\ groups = [d \in Devices |-> {}] /\ listed = groups /\ welcomes = groups
  /\ wire = <<>> /\ next = [d \in Devices |-> 1] /\ faults = 0

Fault == faults < MaxFaults /\ faults' = faults + 1

Members(c) == {begun[c].by} \cup begun[c].invited
Welcome(c) == [kind |-> "welcome", chat |-> c, by |-> begun[c].by,
               at |-> 0, val |-> {}]
To(e) == Members(e.chat) \ {e.by}

-----------------------------------------------------------------------------
(* The device that asks.                                                   *)

\* direct_conversation_index: the chats with the peer that the vault lists.
DirectChats(d) == listed[d]

Ask(d) ==
  /\ d \in Starters \ asked /\ DirectChats(d) = {} /\ Idle(d)
  /\ asked' = asked \cup {d}
  /\ UNCHANGED <<keys, begun, step, groups, listed, welcomes, wire, next,
                 faults>>

\* The chat came from the peer meanwhile, or by an earlier attempt; with two
\* of them the user is asked to choose from the list.
Found(d) ==
  /\ d \in asked /\ Idle(d) /\ DirectChats(d) # {}
  /\ asked' = asked \ {d}
  /\ UNCHANGED <<keys, begun, step, groups, listed, welcomes, wire, next,
                 faults>>

\* The peer's devices that the relay has a key of.
Claimed(d) == {e \in Peers(d) : keys[e] > 0}

\* claim_key_packages: at most one key of each device of the peer, and one at
\* least; the answer may be lost after the relay has given them away.
ClaimPackages(d) ==
  /\ d \in asked /\ Idle(d) /\ DirectChats(d) = {}
  /\ Len(begun) + Cardinality({e \in Devices : step[e].at = "claimed"})
       < MaxChats
  /\ Claimed(d) # {}
  /\ keys' = [e \in Devices |->
                IF e \in Claimed(d) THEN keys[e] - 1 ELSE keys[e]]
  /\ \/ /\ step' = [step EXCEPT ![d] = [at      |-> "claimed",
                                       invited |-> Claimed(d)]]
        /\ UNCHANGED faults
     \/ Fault /\ UNCHANGED step
  /\ UNCHANGED <<begun, asked, groups, listed, welcomes, wire, next>>

\* decode_key_package: one package that is not accepted ends the attempt.
PackageRefused(d) ==
  /\ step[d].at = "claimed" /\ Fault /\ step' = [step EXCEPT ![d] = Rest]
  /\ UNCHANGED <<keys, begun, asked, groups, listed, welcomes, wire, next>>

\* create_conversation: the group is on the disk, or at least in memory.
CreateConversation(d) ==
  /\ step[d].at = "claimed"
  /\ begun' = Append(begun, [by |-> d, invited |-> step[d].invited])
  /\ groups' = [groups EXCEPT ![d] = @ \cup {Len(begun')}]
  /\ \/ step' = [step EXCEPT ![d].at = "created"] /\ UNCHANGED faults
     \/ Fault /\ step' = [step EXCEPT ![d] = Rest]
  /\ UNCHANGED <<keys, asked, listed, welcomes, wire, next>>

Latest(d) ==
  CHOOSE c \in groups[d] :
    begun[c].by = d /\ \A b \in groups[d] : begun[b].by = d => b <= c

\* upsert_conversation
Upserted(d, c) == [listed EXCEPT ![d] = @ \cup {c}]

\* Mutant: the Welcome is queued before the chat is put into the vault.
QueueWelcomeAlone(d) ==
  /\ step[d].at = "created"
  /\ step' = [step EXCEPT ![d] = Rest]
  /\ welcomes' = [welcomes EXCEPT ![d] = @ \cup {Latest(d)}]
  /\ \/ listed' = Upserted(d, Latest(d)) /\ UNCHANGED faults
     \/ Fault /\ UNCHANGED listed
  /\ UNCHANGED <<keys, begun, asked, groups, wire, next>>

\* queue_welcome: chat record and Welcome in one commit, or neither.
QueueWelcome(d) ==
  /\ step[d].at = "created"
  /\ step' = [step EXCEPT ![d] = Rest]
  /\ \/ /\ listed' = Upserted(d, Latest(d))
        /\ welcomes' = [welcomes EXCEPT ![d] = @ \cup {Latest(d)}]
        /\ UNCHANGED faults
     \/ Fault /\ UNCHANGED <<listed, welcomes>>
  /\ UNCHANGED <<keys, begun, asked, groups, wire, next>>

Post(e) == wire' = IF \E i \in DOMAIN wire : wire[i] = e THEN wire
                                                        ELSE Append(wire, e)

\* The direct send and every flush after it; the relay knows an envelope it
\* was given before, and the answer may be lost.
SendWelcome(d, c) ==
  /\ Idle(d) /\ c \in welcomes[d] /\ Post(Welcome(c))
  /\ \/ welcomes' = [welcomes EXCEPT ![d] = @ \ {c}] /\ UNCHANGED faults
     \/ Fault /\ UNCHANGED welcomes
  /\ UNCHANGED <<keys, begun, step, asked, groups, listed, next>>

\* The process ends and is started again; it publishes fresh keys.
Restart(d) ==
  /\ Fault /\ step' = [step EXCEPT ![d] = Rest]
  /\ asked' = asked \ (IF Idle(d) THEN {} ELSE {d})
  /\ keys' = [keys EXCEPT ![d] = Published(d)]
  /\ UNCHANGED <<begun, groups, listed, welcomes, wire, next>>

-----------------------------------------------------------------------------
(* The device that is invited.                                             *)

\* What is not addressed to the device is not in its mailbox.
InMailbox(d) == {i \in next[d] .. Len(wire) : d \in To(wire[i])}
Head1st(d)   == CHOOSE i \in InMailbox(d) : \A j \in InMailbox(d) : i <= j
Consume(d)   == next' = [next EXCEPT ![d] = Head1st(d) + 1]

\* join_conversation: a group that is there already is taken as it is.
Joined(d, c) == [groups EXCEPT ![d] = @ \cup {c}]

\* ensure_chat: a chat that is listed is taken as it is.
EnsureChat(d, c) == listed' = Upserted(d, c)

\* Mutant: the Welcome is acknowledged before the chat is in the vault.
JoinAcknowledgedFirst(d) ==
  /\ Idle(d) /\ InMailbox(d) # {} /\ Consume(d)
  /\ LET e == wire[Head1st(d)]
     IN /\ e.kind = "welcome" /\ groups' = Joined(d, e.chat)
        /\ \/ EnsureChat(d, e.chat) /\ UNCHANGED faults
           \/ Fault /\ UNCHANGED listed
  /\ UNCHANGED <<keys, begun, step, asked, welcomes, wire>>

\* process_mailbox_message: a write or an acknowledgement that fails leaves the
\* Welcome in the mailbox.
Join(d) ==
  /\ Idle(d) /\ InMailbox(d) # {}
  /\ LET e == wire[Head1st(d)]
     IN /\ e.kind = "welcome" /\ groups' = Joined(d, e.chat)
        /\ \/ EnsureChat(d, e.chat) /\ Consume(d) /\ UNCHANGED faults
           \/ Fault /\ (EnsureChat(d, e.chat) \/ UNCHANGED listed)
              /\ UNCHANGED next
  /\ UNCHANGED <<keys, begun, step, asked, welcomes, wire>>

Starting(d) ==
  Found(d) \/ ClaimPackages(d) \/ PackageRefused(d) \/ CreateConversation(d)
    \/ QueueWelcome(d)
Sending(d)  == \E c \in Chats : SendWelcome(d, c)

DirectNext == \E d \in Devices : Ask(d) \/ Starting(d) \/ Sending(d)
                                   \/ Restart(d) \/ Join(d)
=============================================================================
