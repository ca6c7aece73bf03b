SPECIFICATION Spec
CONSTANTS
  Threads = {t1, t2}
  Packets <- MCPackets
  Configs <- MCConfigs
  StartConfigs <- MCStart
  LanNets <- MCLanNets
  WireLooks <- MCLooks
  L3Tunnel = "tcp"
  MaxSent = 2
  MaxReloads = 1
SYMMETRY MCThreads
INVARIANTS
  Intact
  Recovered
  PinsAgree
PROPERTIES
  LeavesCovered
CHECK_DEADLOCK FALSE
