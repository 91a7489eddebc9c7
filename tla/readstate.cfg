SPECIFICATION FairReadSpec
CONSTANTS
  c1 = c1
  c2 = c2
  root = root
  reply = reply
  Main = Main
  Chats <- TwoChats
  Messages <- AllMessages
  ChatOf <- AllChatOf
  RootOf <- AllRootOf
  OriginalOf <- AllOriginalOf
  SendReadReceipts = TRUE
  Held = {}
  First = c1
  MaxEvents = 3
  MaxFaults = 1
INVARIANTS
  ReadBooks
PROPERTIES
  ReadInSight
  ShownIsRead
