SPECIFICATION Spec
CONSTANTS
  Layers = {"l3"}
  IdSpace = 3
  TableSize = 2
  Timeout = 1
  MaxDelay = 1
  Rate = 1
  MaxPackets = 4
  MaxTime = 3
  MaxCopies = 1
CHECK_DEADLOCK FALSE
INVARIANTS
  HalvesMatch
  NoExtraDelivery
PROPERTIES
  FreshKept
