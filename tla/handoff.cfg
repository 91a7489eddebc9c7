SPECIFICATION FairSpec
CONSTANTS
  gone = gone
  fresh = fresh
  Removals = {gone}
  Additions = {fresh}
  DiskFaults = TRUE
  MaxCrashes = 3
CHECK_DEADLOCK FALSE
INVARIANTS
  ForkNeedsOrphan
  ChainInOrder
  AckedIsQueued
PROPERTIES
  RemovalSettles
