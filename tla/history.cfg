SPECIFICATION FairSpec
CONSTANTS
  c1 = c1
  c2 = c2
  Chats <- TwoChats
  Messages = {1, 2}
  Own = {1}
  ChatOf <- InFirst
  MaxEpoch <- EpochBounds
  MaxMishaps = 1
CHECK_DEADLOCK FALSE
INVARIANTS
  DoneIsHeld
  ImportAnswered
  ShutOutWithCause
PROPERTIES
  TransferEnds
