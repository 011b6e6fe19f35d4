SPECIFICATION JobsSpec
CONSTANTS
  JobId = {j1, j2}
  DeviceId = {d1, d2}
  ImageId = {i1}
  AgentStage = {"Preflight", "Partitioning"}
  AgentLease = 1
  InstallerLease = 2
  MaxTime = 3
  MaxLeases = 2
  StorageFaults = TRUE
SYMMETRY Symmetry
INVARIANTS
  JobsTypeOK
  OneActiveJobPerDevice
  MemoryMatchesManifest
  InstallerAttemptIsBound
PROPERTIES
  TerminalStaysTerminal
  InstallerHandoffIsOneWay
  LiveLeaseIsNeverTakenOver
  KeepsAssignments
CHECK_DEADLOCK FALSE
