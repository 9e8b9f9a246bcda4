SPECIFICATION Spec
CONSTANTS
  t1 = t1  t2 = t2
  draft = draft  first = first  correction = correction  approved = approved  theirs = theirs
  Tab = {t1, t2}
  Draft = {draft}
  Envelope = {first, correction}
  Ours = {first, correction}
  content <- MCContent
  None = None
  Scenes <- Working
INVARIANTS
  SyncInv
  ResultsStay
PROPERTIES
  RateLimitWaits
SYMMETRY TabSymmetry
CHECK_DEADLOCK FALSE
