SPECIFICATION Spec
CONSTANTS
    ClientIds = {i1, i2}
    ServerIds = {s1}
    c1 = c1
    c2 = c2
    w1 = w1
    w2 = w2
    Cursors = {c1, c2}
    NoCursor = none
    None = nothing
    Garbled = garbled
    Pages <- SomePages
    Setups <- SomeSetups
    MaxTracked = 4
    MaxEdits = 1
SYMMETRY Alike
INVARIANTS
    WrapperIsInStep
    LearnedIsWhole
CHECK_DEADLOCK FALSE
