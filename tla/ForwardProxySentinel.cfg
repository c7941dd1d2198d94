SPECIFICATION Spec
CONSTANTS
    Agents = {a1}
    Nobody = nobody
    HttpConns = {h1}
    TunnelConns = {t1}
    Window = 2
    Setups <- SomeSetups
    MaxTime = 2
    MaxStops = 1
    MaxFsErrors = 1
    AnswersDie = FALSE
PROPERTIES
    SentinelKeepsHold
CHECK_DEADLOCK FALSE
