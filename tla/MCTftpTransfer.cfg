SPECIFICATION FairTftpSpec
CONSTANTS
  Transfer = {1, 2}
  FileSize = {0, 3, 4}
  BlockSize = 2
  Modulus = 3
  MaxTries = 2
  MaxFaults = 3
INVARIANTS
  TftpTypeOK
  AbandonsOnlyUnanswered
PROPERTIES
  ImplementsDelivery
  TransfersEnd
CHECK_DEADLOCK FALSE
