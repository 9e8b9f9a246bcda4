SPECIFICATION FairSpec
CONSTANTS
  t1 = t1  t2 = t2
  draft = draft  first = first  correction = correction  approved = approved  theirs = theirs
  Tab = {t1}
  Draft = {}
  Envelope = {first, approved, theirs}
  Ours = {first, approved}
  content <- MCContent
  None = None
  Scenes <- Waiting
INVARIANTS
  RestsWhenDone
PROPERTIES
  AllSettles
CHECK_DEADLOCK FALSE
