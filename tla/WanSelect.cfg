SPECIFICATION Spec
CONSTANTS
  NWan = 3
  NProfile = 2
  WanLists <- MCLists
  Flow <- MCFlow
  BucketOf <- MCBucketOf
  Worker = {"t", "u"}
  Lens = {1, 2}
  BaseWindow = 5
  MinWindow = 3
  FLOW_TIMEOUT_SEC = 1
  Wrap = 100
  ByteWrap = 8
  IntMax = 1
  MaxDelay = 1
  MaxClock = 3
  MaxPicks = 10
CONSTRAINT MCOneHalf
CHECK_DEADLOCK FALSE
INVARIANTS
  TypeOK
  WeightedShare
PROPERTIES
  WindowsKept
  IdleForgotten
