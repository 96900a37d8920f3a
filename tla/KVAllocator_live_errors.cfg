SPECIFICATION FairSpec
CONSTANTS
    n1 = n1
    n2 = n2
    t1 = t1
    t2 = t2
    Node = {n1}
    Thread = {t1, t2}
    NodeOf <- Shared
    SyncNode = {n1}
    Key = {k1}
    ID = {i1}
    NoKey = NoKey
    NoID = NoID
    NoOne = NoOne
    Orphan = Orphan
    GCEnabled = TRUE
    MaxRefs = 1
    MaxAttempts = 1
    MaxRev = 2
    MaxFaults = 1
PROPERTIES
    CallsReturn
    MasterRestored
