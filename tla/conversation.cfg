SPECIFICATION ChatSpec
CONSTANTS
  a = a
  b1 = b1
  b2 = b2
  alice = alice
  bob = bob
  Devices <- MCDevices
  Handle <- MCAccounts
  AccountOf <- MCAccounts
  Starters <- MCStarters
  Writers <- MCWriters
  Answers <- MCAnswers
  Keys <- MCKeys
  Options = {1, 2}
  Multiple = FALSE
  MaxChats = 2
  MaxEvents = 3
  MaxFaults = 1
CHECK_DEADLOCK FALSE
INVARIANTS
  EveryoneAgrees
  OneInvitation
PROPERTIES
  InvitedJoin
