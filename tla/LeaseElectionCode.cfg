CONSTANTS
  n1 = n1
  n2 = n2
  Nodes = {n1, n2}
  NoNode = NoNode
  Second = 1
  LeaseDuration = 15
  GuardWindow = 2
  RequestTimeout = 5
  MaxSkew = 0
  MaxTime = 17
  MaxVersion = 2
  MaxInFlight = 1
SPECIFICATION Spec
INVARIANT AtMostOneLeader
SYMMETRY PodSymmetry
