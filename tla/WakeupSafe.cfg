\* Two changes, an update, a deletion and two workers, without faults.
CONSTANTS
  h1 = h1
  h2 = h2
  w1 = w1
  w2 = w2
  up = up
  NoKey = NoKey
  Changes = {h1, h2}
  Updates = {up}
  Workers = {w1, w2}
  MaxFaults = 0
SPECIFICATION Spec
SYMMETRY Alike
INVARIANTS NoLostWakeup BodyBeforeKey
CHECK_DEADLOCK FALSE
