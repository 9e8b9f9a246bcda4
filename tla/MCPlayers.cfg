SPECIFICATION PlayersSpec
CONSTANTS
  Account = {a1, a2, a3}
  Player = {1, 2, 3, 4}
  Match = {m1, m2}
  Terms = {t1}
  None = None
SYMMETRY AccountSymmetry
INVARIANTS
  SidesApart
  OneStepToSurvivor
  PlayersInv
PROPERTIES
  KeepsASelfPlayer
  StaysOnePlayer
