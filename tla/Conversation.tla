---------------------------- MODULE Conversation ----------------------------
(***************************************************************************)
(* A direct chat from its beginning (module DirectChat) to what its        *)
(* members see in it (module Polls): polls, votes and reactions are sent   *)
(* by devices whose clocks differ, arrive behind each other in the mailbox *)
(* and are cancelled when the membership of the chat changes under them.   *)
(***************************************************************************)
EXTENDS DirectChat, Polls

CONSTANTS
  Writers,    \* devices that send events
  Answers,    \* what a vote chooses
  MaxEvents   \* bound on events, and on the times they carry

VARIABLES
  log,        \* per device: the events it holds, as they came in
  pending,    \* per device: own events still in its outbox
  cancelled   \* per device: own events dropped by a change of membership

eventVars == <<log, pending, cancelled>>
chatVars  == <<directVars, eventVars>>

Events == UNION {Range(log[d]) : d \in Devices}

ChatTypeOK ==
  /\ DirectTypeOK
  /\ \A d \in Devices :
       /\ pending[d] \cup cancelled[d] \subseteq Range(log[d])
       /\ pending[d] \cap cancelled[d] = {}
       /\ \A e \in Range(log[d]) : e.chat \in listed[d] \cap groups[d]

ChatInit ==
  /\ DirectInit /\ log = [d \in Devices |-> <<>>]
  /\ pending = [d \in Devices |-> {}] /\ cancelled = pending

-----------------------------------------------------------------------------
\* What counts in a chat on a device, and in which order.
Counted(d, c) ==
  InOrder(Restrict(log[d], {i \in DOMAIN log[d] :
                              /\ log[d][i].chat = c
                              /\ log[d][i] \notin cancelled[d]}))

Poll(d, c)    == Root(Counted(d, c))
Results(d, c) == {Tally(root, Counted(d, c)) : root \in Poll(d, c)}
Closed(d, c)  == \E result \in Results(d, c) : result.closed

\* ensure_sending_allowed
SendingAllowed(d, c) ==
  c \in listed[d] \cap groups[d] /\ c \notin welcomes[d]

\* A clock does not go back, but that of another device may be ahead.
Times(d) == {t \in 1 .. MaxEvents : \A e \in Events :
               e.at # t /\ (e.by = d => e.at < t)}

\* send_chat_message: the event is in the vault before it is on its way; the
\* send may fail, or only its answer be lost.
SendMessage(d, c, kind, val) ==
  /\ d \in Writers /\ Idle(d) /\ SendingAllowed(d, c)
  /\ \E t \in Times(d) :
       LET e == [kind |-> kind, chat |-> c, by |-> d, at |-> t, val |-> val]
       IN /\ log' = [log EXCEPT ![d] = Append(@, e)]
          /\ \/ Post(e) /\ UNCHANGED <<pending, faults>>
             \/ /\ Fault /\ pending' = [pending EXCEPT ![d] = @ \cup {e}]
                /\ Post(e) \/ UNCHANGED wire
  /\ UNCHANGED <<groupVars, next, cancelled>>

\* validate_message: what is answered is held.
TargetKnown(d, c) == Poll(d, c) # {}

\* PollWire::create, of which one is followed.
CreatePoll(d, c) ==
  (\A e \in Events : e.kind # "poll") /\ SendMessage(d, c, "poll", {})

\* PollWire::vote
Votes == {val \in Answers : ValidVote(val)}

\* send_poll_event
Vote(d, c) ==
  /\ TargetKnown(d, c) /\ ~Closed(d, c)
  /\ \E val \in Votes : SendMessage(d, c, "vote", val)

ClosePoll(d, c) ==
  /\ ~Closed(d, c)
  /\ \E root \in Poll(d, c) : AccountOf[root.by] = AccountOf[d]
  /\ SendMessage(d, c, "close", {})

\* toggle_reaction
ToggleReaction(d, c) ==
  SendMessage(d, c, IF AccountOf[d] \in Reactions(Counted(d, c))
                      THEN "unreact" ELSE "react", {})

\* The dialog is opened at a message that the device shows; what its key sends
\* depends on the reactions when it is pressed.
React(d, c) == TargetKnown(d, c) /\ ToggleReaction(d, c)

\* complete_outbox, mark_message_sent
MarkSent(d, e) == pending' = [pending EXCEPT ![d] = @ \ {e}]

\* flush_outbox: the same envelope again.
Retry(d) ==
  /\ Idle(d)
  /\ \E e \in pending[d] :
       Post(e) /\ MarkSent(d, e)
  /\ UNCHANGED <<groupVars, next, faults, log, cancelled>>

\* cancel_application_outbox, when a Commit changes the group: also what the
\* relay has already, when its answer was lost.
Queued(d, c) == {e \in pending[d] : e.chat = c}

MembershipChanges(d, c) ==
  /\ Queued(d, c) # {}
  /\ pending' = [pending EXCEPT ![d] = @ \ Queued(d, c)]
  /\ cancelled' = [cancelled EXCEPT ![d] = @ \cup Queued(d, c)]
  /\ UNCHANGED <<directVars, log>>

\* decrypt_application
Opens(d, e) == e.kind # "welcome" /\ e.chat \in groups[d]

\* present_chat_message: what the vault has already is not inserted again.
Presented(d, e) ==
  [log EXCEPT ![d] = IF e \in Range(@) THEN @ ELSE Append(@, e)]

\* process_mailbox_message: shown, then acknowledged.
Receive(d) ==
  /\ Idle(d) /\ InMailbox(d) # {}
  /\ LET e == wire[Head1st(d)] IN Opens(d, e) /\ log' = Presented(d, e)
  /\ \/ Consume(d) /\ UNCHANGED faults
     \/ Fault /\ UNCHANGED next
  /\ UNCHANGED <<groupVars, wire, pending, cancelled>>

-----------------------------------------------------------------------------
Begin == DirectNext /\ UNCHANGED eventVars
Write(d, c) == CreatePoll(d, c) \/ Vote(d, c) \/ ClosePoll(d, c)
                 \/ React(d, c)

ChatNext ==
  \/ Begin
  \/ \E d \in Devices : Retry(d) \/ Receive(d)
  \/ \E d \in Devices, c \in Chats : Write(d, c) \/ MembershipChanges(d, c)

\* Every device flushes its outbox and reads its mailbox again and again.
ChatSpec ==
  /\ ChatInit /\ [][ChatNext]_chatVars
  /\ \A d \in Starters : WF_chatVars(Sending(d) /\ UNCHANGED eventVars)
  /\ \A d \in Devices :
       WF_chatVars((Join(d) /\ UNCHANGED eventVars) \/ Receive(d))

-----------------------------------------------------------------------------
Delivered(c) ==
  \A d \in Members(c) :
    /\ \A i \in InMailbox(d) : wire[i].chat # c
    /\ \A e \in pending[d] : e.chat # c

Astray(c) ==
  \E d \in Members(c), i \in DOMAIN wire :
    wire[i].chat = c /\ wire[i] \in cancelled[d]

\* Devices that have got the same events show the same poll and the same
\* reactions, in whatever order these came and whatever the clocks say; only
\* an event that was cancelled after the relay had it makes them differ.
EveryoneAgrees ==
  \A c \in 1 .. Len(begun) : Delivered(c) /\ ~Astray(c) =>
    \A d, e \in {m \in Members(c) : c \in listed[m]} :
      /\ Results(d, c) = Results(e, c)
      /\ Reactions(Counted(d, c)) = Reactions(Counted(e, c))

\* However often the making of a chat is broken off and begun again, a device
\* invites its peer to one chat, it has this chat itself, and the mailbox of
\* an invited device never has an event before the Welcome it needs.
OneInvitation ==
  /\ \A i, j \in DOMAIN wire :
       wire[i].kind = "welcome" /\ wire[j].kind = "welcome" /\ i # j =>
         wire[i].by # wire[j].by
  /\ \A i \in DOMAIN wire : wire[i].chat \in listed[begun[wire[i].chat].by]
  /\ \A d \in Devices : InMailbox(d) # {} =>
       LET e == wire[Head1st(d)] IN e.kind = "welcome" \/ e.chat \in groups[d]

\* A chat that its maker sees is joined by every device that was invited.
InvitedJoin ==
  \A c \in Chats :
    (c \in DOMAIN begun /\ c \in listed[begun[c].by])
      ~> (c \in DOMAIN begun /\ \A d \in Members(c) : c \in listed[d])
=============================================================================
