SPECIFICATION Spec
CONSTANTS
    a = a
    b = b
    v1 = v1
    g1 = g1
    Star = Star
    NoValue = NoValue
    Nil = Nil
    Names = {a, b}
    Values = {v1}
    Groups = {}
    MaxComps = 0
    Protos = {"delta"}
    SotwInterests <- MCGrowing
    DeltaInterests <- MCShifting
    MaxOps = 2
    MaxEvents = 2
INVARIANTS
    ExpansionAnswered
CHECK_DEADLOCK FALSE
