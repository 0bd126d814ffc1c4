\* Two calls, one command sent again, one failure.
CONSTANTS
  s1 = s1
  s2 = s2
  s3 = s3
  c1 = c1
  NoTime = NoTime
  NoStore = NoStore
  Stores = {s1, s2}
  Suggestions = {1, 2, 3}
  Batch <- MCTwoBatches
  Consumers = {c1}
  Times = {5, 6}
  GenerationSize = 1
  BacklogMultiplier = 1
  MaxRepeats = 1
  MaxStops = 1
SPECIFICATION Spec
INVARIANTS NewestKept UndatedHasCause TruncatedWhenDone
CHECK_DEADLOCK FALSE
