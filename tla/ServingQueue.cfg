\* Three calls race for two queued suggestions and a computed one that may be truncated.
CONSTANTS
  r1 = r1
  r2 = r2
  r3 = r3
  q1 = q1
  q2 = q2
  u1 = u1
  u2 = u2
  a1 = a1
  a2 = a2
  i1 = i1
  i2 = i2
  i3 = i3
  i4 = i4
  i5 = i5
  i6 = i6
  i7 = i7
  i8 = i8
  NoRow = NoRow
  NoUuid = NoUuid
  NoId = NoId
  NoQueued = NoQueued
  Requests = {r1, r2, r3}
  QueuedIds = {q1, q2}
  Uuids = {u1}
  Assignments = {a1}
  SuggestionIds = {i1, i2, i3, i4, i5, i6, i7, i8}
  QueuedAssignment <- QueuedSame
  PoolAssignment <- PoolSame
  MaxQueuedSuggestionFetches = 2
  MaxAttempts = 1
  LdsCounts = {0, 1}
  CrashingRequests = {}
  FaultyRequests = {}
  Truncatable = {u1}
  Reportable = {}
SPECIFICATION Spec
INVARIANTS QueuedServedOnce GivingUpMeansContention
CHECK_DEADLOCK FALSE
