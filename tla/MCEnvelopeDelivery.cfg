CONSTANTS
  d1 = d1
  d2 = d2
  Path <- MCPath
  Alias <- MCAlias
  Doc <- MCDoc
  Address <- MCAddress
  Mail <- MCMail
  MaxDepth = 3
SYMMETRY DocSymmetry
SPECIFICATION Spec
INVARIANTS TypeOK ReachesAddressee NothingLost
CHECK_DEADLOCK FALSE
