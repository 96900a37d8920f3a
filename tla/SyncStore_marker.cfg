SPECIFICATION Spec
CONSTANTS
  k1 = k1 v1 = v1 v2 = v2 c1 = c1 c2 = c2 w1 = w1 w2 = w2
  Names = {k1}
  Paths <- MCPaths
  Values = {v1, v2}
  Callers = {c1}
  Threads = {w1, w2}
  MaxLeases = 3
  Limit = 1
  MaxOps = 2
  MaxFaults = 0
INVARIANT MarkerAfterUpserts
CHECK_DEADLOCK FALSE
