SPECIFICATION FairSpec
CONSTANTS
  p1 = p1
  p2 = p2
  p3 = p3
  Profiles = {p1, p2, p3}
  Encrypting = {p1, p2}
  Iface <- MCIface
  MaxActive = 2
  MaxInbox = 2
  EnvFails = TRUE
CHECK_DEADLOCK FALSE
INVARIANTS
  ProfilesServed
PROPERTIES
  ForwarderUndisturbed
  StopsEnd
