SPECIFICATION ClaimsSpec
CONSTANTS
  k1 = k1
  k2 = k2
  JobId = {j1}
  DeviceId = {d1, d2}
  ImageId = {i1}
  Mac = {a1}
  Inventory = {{k1}, {k2}}
  Token = {t1}
  Command = {c1, c2}
  Claim = {q1}
  AgentStage = {}
  AgentLease = 0
  InstallerLease = 0
  MaxTime = 1
  MaxLeases = 2
  StorageFaults = FALSE
SYMMETRY Symmetry
INVARIANTS
  EveryJobHasItsImage
PROPERTIES
  LeasedOnCurrentDisk
CHECK_DEADLOCK FALSE
