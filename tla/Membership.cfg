CONSTANTS
  p1 = p1
  p2 = p2
  w1 = w1
  h1 = h1
  h2 = h2
  Pods = {p1, p2}
  Writes = {w1}
  Handlers = {h1, h2}
  None = None
  MaxTerms = 2
  MaxRestarts = 1
  MaxAsks = 2
  MaxInFlight = 1
SPECIFICATION Spec
SYMMETRY Symmetry
INVARIANTS TypeOK  AckedOnLeader NoProxyLoop
CHECK_DEADLOCK FALSE
