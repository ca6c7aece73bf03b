SPECIFICATION FairSpec
CONSTANTS
  a = a
  b = b
  c = c
  m1 = m1
  m2 = m2
  Ips = {a, b, c}
  Wanted = {a, b}
  Macs = {m1, m2}
  Answers <- MCAnswers
  Strays <- MCStrays
  Zero = Zero
  NoMac = NoMac
  Size = 2
  Hash <- MCHash
  Peers <- MCPeers
  MaxTries = 2
  MaxQueue = 2
  MaxUnasked = 2
  MaxProcesses = 2
INVARIANTS
  AnswersLatest
  CleanIsSaved
PROPERTIES
  Resolves
CHECK_DEADLOCK FALSE
