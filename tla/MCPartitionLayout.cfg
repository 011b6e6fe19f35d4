SPECIFICATION LayoutSpec
CONSTANTS
  MaxWord = 63
  CacheHeadroom = 1
  AlignmentHeadroom = 6
  MinimumData = 1
  MinimumWindows = 2
  Alignment = 1
  Partition <- Specs
  MaxPartitions = 5
  DiskSize = {16, 24}
  ImageSize = {2}
  PayloadSize = {0, 4}
INVARIANTS
  AcceptedPlansComplete
  VolumesAreLargeEnough
CHECK_DEADLOCK FALSE
