\* A change, an update and two workers, with a fault: the optimizer catches up, and
\* the next message makes up for a lost one.
CONSTANTS
  h1 = h1
  h2 = h2
  w1 = w1
  w2 = w2
  up = up
  NoKey = NoKey
  Changes = {h1}
  Updates = {up}
  Workers = {w1, w2}
  MaxFaults = 1
SPECIFICATION FairSpec
PROPERTIES CatchesUp LostIsHealed
CHECK_DEADLOCK FALSE
