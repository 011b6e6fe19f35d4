SPECIFICATION FairExchangeSpec
CONSTANTS
  Machine = {m1, m2}
  Address = {1, 2, 3}
  Pools <- TwoPools
  LeaseLength = 1
  StorageFaults = TRUE
INVARIANTS
  ExchangeTypeOK
  AddressHasOneUser
PROPERTIES
  MachinesGetAddresses
CHECK_DEADLOCK FALSE
