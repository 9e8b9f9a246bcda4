SPECIFICATION MCSpec
CONSTANTS
  a1 = a1  a2 = a2  g = g
  Account = {a1, a2, g}
  Player = {1, 2, 3}
  Terms = {rated, casual}
  k1 = k1  k2 = k2  m1 = m1  m2 = m2
  rated = rated  casual = casual
  None = None
  Match = {m1, m2}
  Rated = {rated}
  Key = {k1, k2}
  Payload <- MCPayload
  says <- Table
  rank <- MCRank
  Envelope <- MCEnvelope
INVARIANTS
  ResultsInv
  ChainInv
  SettledByBothSides
PROPERTIES
  HistoryStays
  ShowsMatchStates
  TakesPlayersSteps
