SPECIFICATION Spec
CONSTANTS
  c1 = c1
  c2 = c2
  c3 = c3
  Runs = {1, 2}
  Suggestions = {1, 2}
  Observations = {1, 2, 3}
  Calls = {c1, c2, c3}
  Requests <- MCRequests
  InitialStates <- MCInitialStates
  MaxCheckpoints = 1
  Mortal = {c1}
  NoRow = NoRow
  NoRequest = NoRequest
  None = None
  Same = Same
CHECK_DEADLOCK FALSE
INVARIANT CompletedIsReported
INVARIANT ReportedOnce
INVARIANT ExperimentTakesItsRuns
INVARIANT DeletedTogether
INVARIANT EditsKept
PROPERTY DeletionStands
PROPERTY CheckpointsBounded
