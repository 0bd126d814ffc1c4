\* Two workers, a revision, a reset and a failure; fits every second observation.
CONSTANTS
  c1 = c1
  c2 = c2
  w1 = w1
  w2 = w2
  w3 = w3
  NoAux = NoAux
  Creates = {c1}
  Failed = {}
  Workers = {w1, w2}
  Dimension = 11
  Constrained = FALSE
  InitialCount = 23
  MaxRevisions = 1
  MaxResets = 1
  MaxFailures = 1
SPECIFICATION FairSpec
INVARIANTS LaterRunWins
CHECK_DEADLOCK FALSE
PROPERTIES ResetIsHealed
