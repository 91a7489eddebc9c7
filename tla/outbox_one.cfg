SPECIFICATION Spec
CONSTANTS
  c1 = c1
  m1 = m1
  f1 = f1
  i1 = i1
  Conversations <- OneChat
  Messages = {m1, f1}
  Attachments = {f1}
  Inbound = {i1}
  ConvOf <- OneConvOf
  HistoryJobs = {c1}
  SendReadReceipts = FALSE
  DiskFaults = TRUE
  Tickets = {1, 2, 3, 4, 5, 6, 7, 8}
  MaxEpoch = 2
  MaxCrashes = 1
CHECK_DEADLOCK FALSE
INVARIANTS
  OutboxOwnsPending
  LabelsTruthful
  ReceiptsAccounted
  FreshOnWire
