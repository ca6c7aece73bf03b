SPECIFICATION FairSpec
CONSTANTS
  w1 = w1
  n1 = n1
  q1 = q1
  f1 = f1
  k1 = k1
  k2 = k2
  ZeroKey = ZeroKey
  Workers = {w1}
  WanThreads = {}
  LocalThreads = {q1}
  Flows = {f1}
  TcpFlows = {}
  Topologies <- MCTopologies
  Actions <- MCActions
  Ids <- MCIds
  Keys <- MCKeys
  MaxPolicies = 2
  Configs <- MCLive
  InitialConfig <- MCInitial
  StoreLoadOrdered = FALSE
PROPERTIES
  ReloadCompletes
  PacketEnters
