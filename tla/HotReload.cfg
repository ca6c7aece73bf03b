SPECIFICATION Spec
CONSTANTS
  w1 = w1
  n1 = n1
  q1 = q1
  f1 = f1
  k1 = k1
  k2 = k2
  ZeroKey = ZeroKey
  Workers = {w1}
  WanThreads = {n1}
  LocalThreads = {}
  Flows = {f1}
  TcpFlows = {f1}
  Topologies <- MCTopologies
  Actions <- MCActions
  Ids <- MCIds
  Keys <- MCKeys
  MaxPolicies = 2
  Configs <- MCReloads
  InitialConfig <- MCInitial
  StoreLoadOrdered = TRUE
INVARIANTS
  InflightCounts
  ReloadExclusion
  RuntimeOfConfig
  PacketsByPolicy
PROPERTIES
  GuardSpec
