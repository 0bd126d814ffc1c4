\* A create of a failure, where every second success asks for a run.
CONSTANTS
  c1 = c1
  c2 = c2
  w1 = w1
  w2 = w2
  w3 = w3
  NoAux = NoAux
  Creates = {c1, c2}
  Failed = {c2}
  Workers = {w1}
  Dimension = 11
  Constrained = FALSE
  InitialCount = 23
  MaxRevisions = 1
  MaxResets = 1
  MaxFailures = 0
SPECIFICATION Spec
INVARIANTS LagCountsObservations
CHECK_DEADLOCK FALSE
