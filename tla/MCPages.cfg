SPECIFICATION PagesSpec
CONSTANTS
  me = me  m = m  x = x  acc = acc
  Account = {me}
  Player = {1, 2, 3, 4}
  Match = {m}
  Terms = {x}
  None = None
  NoList = NoList
  Listable = {1, 2, 3}
  MaxOthers = 1
  ReviewScenes = {{"lost"}, {"focus", "anotherTab"}, {"focus"}}
  Role = {"admin", "user"}
  Custom = {"games.record"}
  Verified = {"a", "b"}
  newcomer = "g"
  Key = {"k"}
  MaxWrites = 1
  AdminScenes <- MCAdminScenes
  ownPlayer = "o"
  Opponent = {"p", "q"}
  Nobody = "none"
  Length = {3, 5}
  Word = {"x", "y"}
  MaxPresses = 3
  MaxEdits = 2
  MaxTyped = 2
  NewScenes = {{"lost", "merge"}, {"leave", "lost", "save"}, {"save"}, {"search", "merge"}}
  StartCall = {1, 2, 3}
  Cookie = {1, 2, 3}
  Emailed = {acc}
  PhoneKey = {1, 2, 3}
  Nothing = Nothing
  SignInPresses = 1
  SignOutPresses = 2
  AppScenes = {{"noSignal", "relaunch"}, {"expiry"}, {"revocation"}, {"overlaps"}, {"cutShort"}}
INVARIANTS
  AdminInv
  AppModelInv
PROPERTIES
  ReviewSafe
  AdminWrites
  NewSafe
CHECK_DEADLOCK FALSE
