SPECIFICATION Spec
CONSTANTS
  i1 = i1
  i2 = i2
  i3 = i3
  Ifaces = {i1, i2, i3}
  Topologies <- MCTopologies
  Configs <- MCConfigs
  None = None
  Torn = Torn
  MaxBundles = 2
  MaxReloads = 2
  MaxProcesses = 2
INVARIANTS
  TypeOK
  NoDrops
  Redirected
  NothingLeft
  FiltersOfConfig
CHECK_DEADLOCK FALSE
