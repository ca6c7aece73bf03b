SPECIFICATION TxFairSpec
CONSTANTS
  Thread = {t1, t2}
  Payload = {a, b}
  TxRingSize = 4
  Half = 4
  KickAt = 2
  MaxLoops = 2
  MaxBatch = 3
  None = None
PROPERTIES
  FifoSpec
  JammedForever
  Drained
