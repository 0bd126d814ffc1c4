SPECIFICATION WebSpec
CONSTANTS
  Rows = {1,2,3,4,5,6,7,8,9}
  Keys = {"id", "value"}
  FirstKey = "id"
  Rank <- MCRank
  PageSize = 2
  EachSide = 1
  StartPages = {0, 2}
  Starts = {{1,2,3,4,5}}
  Batches = {{6,7,8,9}}
  Removals = {{4},{1,2,3,4,5,6,7,8,9}}
  CallIds = {1,2}
  IndexBound = 5
  MaxClicks = 2
  MaxChanges = 1
  MaxFailures = 1
  MaxMoves = 3
  NoRow = NoRow
  Null = Null
  Pending = Pending
  MaxItems = 3
  MaxActs = 3
  MaxFaults = 1
  MaxHides = 1
  Parts = {"observations"}
  Reports = {1, 2}
  MaxFetches = 2
  MaxClock = 1
  MaxFailed = 1
  MaxPauses = 1
CHECK_DEADLOCK FALSE
INVARIANT GoneStaysGone
INVARIANT RowsInOrder
INVARIANT NoRowSkipped
INVARIANT PagesMatchListing
PROPERTY PageArrives
PROPERTY ListCatchesUp
PROPERTY ViewCatchesUp
