SPECIFICATION FairSpec
CONSTANTS
  up = up
  down = down
  other = other
  Transfers = {up, down, other}
  Downloads = {down, other}
  DiskFaults = TRUE
  MaxCrashes = 1
INVARIANTS
  CancelHonoured
  IntentKept
PROPERTIES
  NoPhantomCancel
  CancelSettles
