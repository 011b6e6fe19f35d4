SPECIFICATION FairPresenceSpec
CONSTANTS
  m1 = m1
  a1 = a1
  a2 = a2
  k1 = k1
  k2 = k2
  DeviceId = {d1, d2, d3, d4}
  ImageId = {i1}
  Mac = {a1, a2}
  Inventory = {{k1}}
  Token = {t1, t2, t3}
  Machine = {m1}
  Adapter <- TwoAdapters
  MaxLate = 1
  MaxDevices = 1
INVARIANTS
  PresenceTypeOK
  InventoryIsCurrent
PROPERTIES
  AgentsComeBack
CHECK_DEADLOCK FALSE
