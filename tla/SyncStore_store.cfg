SPECIFICATION FairSpec
CONSTANTS
  k1 = k1 v1 = v1 v2 = v2 c1 = c1 c2 = c2 w1 = w1 w2 = w2
  Names = {k1}
  Paths <- MCPaths
  Values = {v1, v2}
  Callers = {c1, c2}
  Threads = {w1, w2}
  MaxLeases = 3
  Limit = 1
  MaxOps = 2
  MaxFaults = 1
INVARIANTS TypeOK LeaseCounts OneAcquisition NoLostUpdate ExpiryNoticed
PROPERTY Converges
CHECK_DEADLOCK FALSE
