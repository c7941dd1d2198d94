SPECIFICATION Spec
CONSTANTS
    s1 = s1
    s2 = s2
    shell = shell
    Sessions = {s1, s2}
    Operators = {"op"}
    Actions = {shell}
    NoAction = NoAction
    None = None
    Setups <- SomeSetups
    Limits <- SomeLimits
    ShieldFactor <- SomeFactors
    PressureBar = 50
    Weights <- SomeWeights
    Window = 2
    Hour = 3
    LeastShield = 1
    LeastOverride = 2
    MaxTime = 4
INVARIANTS
    LimitsHold
    QueueHolds
CHECK_DEADLOCK FALSE
