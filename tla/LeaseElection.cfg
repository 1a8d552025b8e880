CONSTANTS
  n1 = n1
  n2 = n2
  Nodes = {n1, n2}
  NoNode = NoNode
  Second = 2
  LeaseDuration = 5
  GuardWindow = 4
  RequestTimeout = 3
  MaxSkew = 1
  MaxTime = 6
  MaxVersion = 3
  MaxInFlight = 2
SPECIFICATION Spec
INVARIANTS TypeOK PromptLeaderHolds
PROPERTIES SeizedOnlyFromSilentHolder RenewTimeNeverMovesBack
SYMMETRY PodSymmetry
