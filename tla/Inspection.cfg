SPECIFICATION MCSpec
CONSTANTS
    Setups <- SomeSetups
    Cap = 2
    MaxBody = 3
    Redirected = {c1, c2}
    PeekLimit = 2
    MaxUnits = 3
    tree = tree
    sub = sub
    env = env
    key = key
    Root = tree
    Subs = {sub}
    Files = {env, key}
    Place <- SomePlace
    Ignored = {}
    SpillSetups <- SomeSpills
INVARIANTS
    InterceptionHolds
    RedirectedRowsAreTrue
PROPERTIES
    BodyNeverHolds
    WatchIsTrue
CHECK_DEADLOCK FALSE
