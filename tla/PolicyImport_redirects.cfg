SPECIFICATION Spec
CONSTANTS
    i1 = i1
    i2 = i2
    none = none
    Ids = {i1, i2}
    NoId = none
    FirstLabel = i1
    Callers <- MCCallers
    Waiting <- MCWaiting
    Capacity = 1
    MaxRev = 2
    MaxEvents = 2
INVARIANTS
    RedirectsServed
CHECK_DEADLOCK FALSE
