SPECIFICATION Spec
CONSTANTS
    MaxRecords = 6
    MaxFaults = 2
    MaxKills = 2
    Null = Null
INVARIANTS
    OneChain
    ReadersAreTold
PROPERTIES
    StoredStaysStored
CHECK_DEADLOCK FALSE
