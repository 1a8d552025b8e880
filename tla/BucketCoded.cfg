CONSTANTS
  t1 = t1
  t2 = t2
  B = B
  Keys = {1, 2}
  GroupOf <- Prefixes
  Selections <- Whole
  PageSizes = {0, 1}
  Puts = {t1}
  Deletes = {t2}
  First = First
  Shard = Shard
  Mixed = Mixed
  None = None
  Coding = TRUE
SPECIFICATION Spec

PROPERTY NonEmptyBucketKept
CHECK_DEADLOCK FALSE
