CONSTANTS
  w1 = w1
  w2 = w2
  s1 = s1
  s2 = s2
  s3 = s3
  n1 = n1
  n2 = n2
  Writers = {w1, w2}
  Syncs = {s1, s2, s3}
  RemoteSyncs = {s3}
  NodeIDs = {n1, n2}
  NodeOf <- HandlerNodes
  LeaseTTL = 1
SPECIFICATION FairSpec
INVARIANTS TypeOK ActiveWritesExact ProtectedSyncExcludesWrites NoLostWakeup
PROPERTIES ImplementsExclusion ParkedWriterWakes
