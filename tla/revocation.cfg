SPECIFICATION Spec
CONSTANTS
  Devices <- MCDevices
  Members <- MCMembers
  Revocable <- MCRevocable
  Askers <- MCAskers
  PeerCommits = 1
  MaxFaults = 2
  Nobody = Nobody
INVARIANTS
  LeftBehindWithCause
PROPERTIES
  RevocationSettles
