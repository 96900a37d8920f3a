SPECIFICATION Spec
CONSTANTS
    a = a
    b = b
    v1 = v1
    g1 = g1
    Star = Star
    NoValue = NoValue
    Nil = Nil
    Names = {a, b}
    Values = {v1}
    Groups = {g1}
    MaxComps = 2
    Protos = {"sotw", "delta"}
    SotwInterests <- MCSotwInterests
    DeltaInterests <- MCDeltaInterests
    MaxOps = 2
    MaxEvents = 2
INVARIANTS
    TypeOK
    Converged
    AckHonest
    NackHonest
    AckedReal
    NonceValid
    WaitSound
    Served
CHECK_DEADLOCK FALSE
