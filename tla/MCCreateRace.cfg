SPECIFICATION PlayersSpec
CONSTANTS
  Account = {a1, a2, a3}
  Player = {1, 2, 3}
  Match = {m1}
  Terms = {t1}
  None = None
SYMMETRY AccountSymmetry
PROPERTIES
  NewMatchNamesSurvivors
