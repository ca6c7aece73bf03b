SPECIFICATION Spec
CONSTANTS
  p1 = p1
  p2 = p2
  p3 = p3
  Profiles = {p1}
  Encrypting = {p1}
  Iface <- MCShared
  MaxActive = 2
  MaxInbox = 2
  EnvFails = FALSE
CHECK_DEADLOCK FALSE
INVARIANTS
  LoadedIsServed
