CONSTANTS
  t1 = t1
  t2 = t2
  t3 = t3
  k1 = k1
  Tx = {t1, t2, t3}
  Keys = {k1}
  KeyOf <- OneKey
  Deletes = {t2}
  None = None
  Expiry = TRUE
  MaxCrashes = 1
SPECIFICATION FairSpec
INVARIANTS TypeOK LastCommitServed
PROPERTIES LeftoversReclaimed OrphansReclaimed
CHECK_DEADLOCK FALSE
