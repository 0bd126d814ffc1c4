\* Two workers; one fits while the other finds nothing to compute.
CONSTANTS
  c1 = c1
  c2 = c2
  w1 = w1
  w2 = w2
  w3 = w3
  NoAux = NoAux
  Creates = {c1}
  Failed = {}
  Workers = {w1, w2}
  Dimension = 11
  Constrained = FALSE
  InitialCount = 23
  MaxRevisions = 2
  MaxResets = 0
  MaxFailures = 0
SPECIFICATION Spec
PROPERTIES FitIsStored
CHECK_DEADLOCK FALSE
