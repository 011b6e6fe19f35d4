SPECIFICATION FairDeploymentSpec
CONSTANTS
  JobId = {j1}
  DeviceId = {d1}
  ImageId = {i1}
  SessionId = {s1, s2}
  Request = {r1, r2}
  AgentStage = {}
  EventStage = {"AwaitingFirstBoot"}
  AgentLease = 1
  InstallerLease = 1
  OfferTtl = 1
  MaxSessions = 2
  MaxTime = 2
  MaxLeases = 2
  StorageFaults = FALSE
INVARIANTS
  InstallerTypeOK
  OneSessionPerJob
  AutoinstallGoesToTheTaker
PROPERTIES
  SucceedsOnlyWhenAuthorized
  AuthorizationsEnd
CHECK_DEADLOCK FALSE
