CONSTANTS
  u1 = u1
  u2 = u2
  k1 = k1
  k2 = k2
  Parts = {1, 2}
  Uploads = {u1, u2}
  Completers = {k1, k2}
  Requests <- PartLists
  None = None
  Empty = Empty
  Mixed = Mixed
  MaxCrashes = 1
SPECIFICATION FairSpec
INVARIANTS TypeOK CompletedIsRequested PartsKept
PROPERTY SessionReclaimed
CHECK_DEADLOCK FALSE
