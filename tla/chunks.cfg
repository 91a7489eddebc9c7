SPECIFICATION DialogSpec
CONSTANTS
  r = r
  n = n
  x = x
  Count = 3
  Others <- MCOthers
  Present <- MCPresent
  Reader = r
  MaxEdits = 2
  MaxFaults = 2
INVARIANTS
  AnnouncedIsWhole
  MissedWithCause
  PickerKeepsItsWord
PROPERTIES
  DownloadSettles
CHECK_DEADLOCK FALSE
