SPECIFICATION FairSpec
CONSTANTS
  a1 = a1
  a2 = a2
  Accounts = {a1, a2}
  None = None
  MaxFaults = 3
INVARIANTS
  SignOutComplete
  AskedOnlyWhenNeeded
PROPERTIES
  AlwaysSignsIn
  SignOutFinishes
