------------------------------ MODULE MCHistory ------------------------------
EXTENDS History

CONSTANTS c1, c2

\* The messages are in one chat, where other members bring the group to epoch 3:
\* before the addition, after it or both.  The history of the other is empty, and
\* no other member changes its group.
TwoChats    == {c1, c2}
InFirst     == [m \in Messages |-> c1]
EpochBounds == [c \in Chats |-> IF c = c1 THEN 3 ELSE 1]
=============================================================================
