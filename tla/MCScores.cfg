SPECIFICATION ScoresSpec
CONSTANTS
  Blank = Blank  Garbled = Garbled  NoGame = NoGame
  BestOfs = {1, 3, 5}
  MaxPoints = 13
  Carried <- CarriedGames
  Device = {1, 2, 3}
  PadScenes <- Scenes
INVARIANTS
  ScoresReadAlike
  EndsAlike
  PadInv
  LinksInv
CHECK_DEADLOCK FALSE
