SPECIFICATION FairSpec
CONSTANTS
  RingSize = 3
  Wrap = 6
  JobRingSize = 2
  BatchSize = 2
  Kinds = {"queued", "batch", "arp"}
CONSTRAINT MCFirstOverlap
CHECK_DEADLOCK FALSE
INVARIANTS
  TypeOK
  OneHolder
  WrittenUntilRace
PROPERTIES
  FramesReturn
