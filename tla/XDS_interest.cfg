SPECIFICATION Spec
CONSTANTS
    a = a
    b = b
    v1 = v1
    g1 = g1
    Star = Star
    NoValue = NoValue
    Nil = Nil
    Names = {a, b}
    Values = {v1}
    Groups = {}
    MaxComps = 0
    Protos = {"sotw"}
    SotwInterests <- MCGrowing
    DeltaInterests <- MCDeltaInterests
    MaxOps = 2
    MaxEvents = 1
INVARIANTS
    ExpansionAnswered
CHECK_DEADLOCK FALSE
