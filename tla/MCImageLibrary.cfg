SPECIFICATION MCSpec
CONSTANTS
  c1 = c1
  c2 = c2
  d1 = d1
  d2 = d2
  d3 = d3
  Caller = {c1, c2}
  Dir = {d1, d2, d3}
  Id = {1, 2}
  Index = {1, 2}
  Requested <- MCRequested
  Capital <- MCCapital
  Release = 24
  WimMaxImages = 2
  MaxCalls = 5
  MaxFaults = 2
SYMMETRY MCSymmetry
INVARIANTS
  LibraryTypeOK
  ListedImagesKeepTheirFiles
  PreparedIsWhatWasImported
  DeployableImagesAreWhole
CHECK_DEADLOCK FALSE
