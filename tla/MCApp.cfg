SPECIFICATION AppSpec
CONSTANTS
  acc1 = acc1  acc2 = acc2  guest = guest  key1 = key1
  Account = {acc1, acc2, guest}
  Player = {1, 2, 3}
  Key = {key1}
  None = None
  SearchText = {"x"}
  Blank = ""
  Holding <- MCHolding
  Rank <- MCRank
  PageSize = 1
  ListScenes <- MCListScenes
  Tab = {"t", "u"}
  MaxBuild = 3
  MaxVisits = 2
  UpdateScenes = {{"shiftReload"}, {"installFails", "close"}}
  Written <- MCWritten
  EdgeItems <- MCEdgeItems
  Kid = {5}
  Places <- MCPlaces
  Wrong = {0, 88}
  WrongChar = {0, 45}
  TOAST_MS = 1
  Message = {"found"}
  MaxRaised = 4
  Trigger = {"a", "b", "c"}
  Nothing = "nothing"
  NoDate = NoDate
  FirstYear = 2027
  LastYear = 2028
  FirstWeekday = 4
  today = 390
  min = 360
  Values = {NoDate, 396}
  Texts <- MCTexts
  Picks = {365, 366}
  MaxKeys = 7
  options <- MCOptions
  NameOf <- MCNames
  Typed = {"", "a", "b", "z", "ann", "bo"}
  Includes <- MCIncludes
  NoOption = NoOption
  MaxBlurs = 2
  Lists <- MCLists
  Query = {"", "h", "zz"}
  FoundIn <- MCFoundIn
  MaxRuns = 2
  Commands <- MCCommands
  SignedIn <- MCSignedIn
  MaxOuts = 3
INVARIANTS
  WireInv
PROPERTIES
  UpdateSafe
  ListsSafe
  AppListsSettle
  WidgetsSafe
CHECK_DEADLOCK FALSE
