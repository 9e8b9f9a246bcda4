SPECIFICATION BrowserSpec
CONSTANTS
  k1 = k1  k2 = k2  k3 = k3  o1 = o1  ann = ann
  r1 = r1  r2 = r2  s1 = s1  s2 = s2  t1 = t1  t2 = t2
  Kid = {k1, k2, k3}
  OtherKid = {o1}
  Token = {1, 2}
  Member = {ann}
  Registration = {r1, r2}
  SignOut = {s1, s2}
  NoKey = NoKey
  NoOwner = NoOwner
  LIVE_KEY_LIMIT = 1
  MaxSignOuts = 2
  KeyScenes = {{"expiry", "twoRegistrations"}, {"revocation"},
               {"otherDevice"},
               {"slowSignOut", "closedTab"}, {"twoSignOuts", "closedTab"}}
  Tab = {t1, t2}
  Pass = {1, 2}
  Person = {ann}
  Nobody = Nobody
  MaxTries = 1
  SessionScenes = {{"refresh", "failures"}, {"refresh", "badGateway", "signOut", "signIn"},
                   {"twoTabs", "signOut", "badGateway"}, {"twoTabs", "signIn", "signOut"},
                   {"twoTabs", "refresh"}}
INVARIANTS
  KeysInv
  SessionInv
PROPERTIES
  KeysKept
SYMMETRY BrowserSymmetry
CHECK_DEADLOCK FALSE
