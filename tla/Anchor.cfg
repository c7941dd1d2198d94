SPECIFICATION AnchorSpec
CONSTANTS
    Nothing = Nothing
    Unreadable = Unreadable
    s1 = s1
    s2 = s2
    cli = cli
    k0 = k0
    Passes <- SomePasses
    Processes <- SomeProcesses
    ProcessOf <- SomeProcessOf
    KeyOnFile = k0
    Setups <- SomeSetups
INVARIANTS
    EvidenceStands
    VerifiersTellLoss
CHECK_DEADLOCK FALSE
