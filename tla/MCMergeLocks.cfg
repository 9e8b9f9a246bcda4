SPECIFICATION FairSpec
CONSTANTS
  r1 = r1  r2 = r2  a1 = a1  a2 = a2
  Player = {1, 2, 3, 4, 5}
  Request = {r1, r2}
  Account = {a1, a2}
  Sides <- MCSides
  Manager <- MCManager
  None = None
INVARIANTS
  LocksInv
PROPERTIES
  CheckedSidesStay
  RequestsEnd
CHECK_DEADLOCK FALSE
