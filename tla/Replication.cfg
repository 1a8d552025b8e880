CONSTANTS
  f1 = f1
  f2 = f2
  t1 = t1
  t2 = t2
  k1 = k1
  h1 = h1
  h2 = h2
  Followers = {f1}
  Leader = Leader
  Tx = {t1, t2}
  Keys = {k1}
  KeyOf <- OneKey
  Deletes = {t2}
  Syncs = {h1, h2}
  NodeOf <- OnFirst
  None = None
  MaxFaults = 2
SPECIFICATION Spec
INVARIANT ReadyReplicasAgree
PROPERTY AliveOnlyWhenEqual
SYMMETRY HandlerSymmetry
