SPECIFICATION FairSpec
CONSTANTS
  Deliveries = {1, 2, 3, 4, 5}
  Welcomes = {1}
  Commits = {3}
  Unreadable = {5}
  DiskFaults = TRUE
  MaxCrashes = 2
CHECK_DEADLOCK FALSE
INVARIANTS
  NoPoison
PROPERTIES
  ImplementsPromise
  Consumed
