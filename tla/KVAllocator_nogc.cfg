SPECIFICATION Spec
CONSTANTS
    n1 = n1
    n2 = n2
    t1 = t1
    t2 = t2
    Node = {n1, n2}
    Thread = {t1, t2}
    NodeOf <- Spread
    SyncNode = {}
    Key = {k1, k2}
    ID = {i1}
    NoKey = NoKey
    NoID = NoID
    NoOne = NoOne
    Orphan = Orphan
    GCEnabled = FALSE
    MaxRefs = 1
    MaxAttempts = 1
    MaxRev = 1
    MaxFaults = 2
SYMMETRY Symmetry
INVARIANTS
    TypeOK
    NoAliasing
    PoolConverges
PROPERTIES
    ImplementsIdentityMap
