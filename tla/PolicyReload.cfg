SPECIFICATION ReloadFairSpec
CONSTANTS
    PolicyFiles <- SomePolicies
    ConfigFiles <- SomeConfigs
    Profile <- SomeProfile
    Requests = {r1}
    Pinned = {r1}
    MaxEdits = 2
    MaxReloads = 2
    MaxUnwritten = 1
    MaxDrops = 1
INVARIANTS
    PolicyIsAccounted
PROPERTIES
    RefusedChangesNothing
    ReloadsMeanWhatTheySay
CHECK_DEADLOCK FALSE
