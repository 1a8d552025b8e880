CONSTANTS
  f1 = f1
  f2 = f2
  t1 = t1
  t2 = t2
  t3 = t3
  Leader = Leader
  Followers = {f1, f2}
  Tx = {t1, t2, t3}
  Deletes = {t3}
  K = 2
  M = 1
  Nested = FALSE
  MaxRaces = 1
  None = None
  Garbage = Garbage
SPECIFICATION Spec
INVARIANTS TypeOK Recoverable ReadsCurrent
SYMMETRY CodingSymmetry
