SPECIFICATION FairExecutionSpec
CONSTANTS
  JobId = {j1}
  d1 = d1
  DeviceId = {d1}
  ImageId = {i1}
  Machine = d1
  AgentStage = {"Preflight", "Partitioning", "DownloadingImage", "ApplyingImage",
                "ConfiguringBoot", "Finalizing", "Rebooting"}
  AgentLease = 1
  InstallerLease = 1
  MaxTime = 2
  MaxLeases = 2
  MaxLate = 1
  StorageFaults = FALSE
PROPERTY CancellationTakesEffect
CHECK_DEADLOCK FALSE
