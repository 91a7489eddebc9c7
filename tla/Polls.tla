------------------------------- MODULE Polls -------------------------------
(***************************************************************************)
(* What a device makes of the chat events that it holds: the state of a    *)
(* poll (PollState::fold) and of the reactions to a message                *)
(* (reactions_for).  Nothing is kept beside the messages, so each device   *)
(* computes its own view, in the order of the times the senders wrote.     *)
(*                                                                         *)
(* An event is a record [kind, chat, by, at, val].  Its time is a rank     *)
(* that stands for the pair of time and message id, so that no two are     *)
(* equal.  Answers are sets of options; the wording of polls, the limits   *)
(* of their texts and the emoji are left out: one emoji is followed.       *)
(***************************************************************************)
EXTENDS Naturals, FiniteSets, SequencesExt

CONSTANTS
  Options,    \* the answers of a poll
  Multiple,   \* whether several may be chosen
  AccountOf   \* [device -> account]

\* Messages are kept as [place -> event], with gaps where some are left out.
\* Mutant: the events are taken in the order they came in.
AsTheyCame(log) ==
  LET places == SetToSortSeq(DOMAIN log, <)
  IN [n \in DOMAIN places |-> log[places[n]]]

\* events.sort_by_key(timestamp, id)
ByTime(events) == SetToSortSeq(events, LAMBDA e, f : e.at < f.at)
InOrder(log)   == ByTime(Range(log))

\* PollWire::parse: what a vote may choose.
ValidVote(val) == val \subseteq Options /\ (Multiple \/ Cardinality(val) <= 1)

Root(events) == {e \in Range(events) : e.kind = "poll"}

NoVotes == [closed |-> FALSE, votes |-> [a \in Range(AccountOf) |-> {}]]

\* One event: the creator's account closes the poll, every account has one
\* vote, the last; an empty one withdraws it.
Taken(root, poll, e) ==
  CASE poll.closed -> poll
    [] e.kind = "close" /\ AccountOf[e.by] = AccountOf[root.by] ->
         [poll EXCEPT !.closed = TRUE]
    [] e.kind = "vote" /\ ValidVote(e.val) ->
         [poll EXCEPT !.votes[AccountOf[e.by]] = e.val]
    [] OTHER -> poll

\* PollState::fold, of a poll that is there.
Tally(root, events) ==
  FoldLeft(LAMBDA poll, e : Taken(root, poll, e), NoVotes, events)

\* parse_reaction
IsReaction(e) == e.kind \in {"react", "unreact"}

\* reactions_for: who reacts, by the last event of each account.
Reactions(events) ==
  FoldLeft(LAMBDA who, e :
             IF e.kind = "react" THEN who \cup {AccountOf[e.by]}
                                 ELSE who \ {AccountOf[e.by]},
           {}, SelectSeq(events, IsReaction))
=============================================================================
