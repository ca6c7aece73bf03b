SPECIFICATION BuildSpec
CONSTANTS
  Id <- MCId
  Name <- MCName
  Key <- MCKey
  Contents <- MCContents
  MaxInterfaces = 3
  MaxPolicies = 6
  MaxWire = 7
  KeyMapMax = 2
  MaxEdits = 1
CHECK_DEADLOCK FALSE
INVARIANTS
  BuildTypeOK
  WireIdsAllocated
  ProfilesFaithful
  RowIdsKept
