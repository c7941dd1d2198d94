SPECIFICATION HttpSpec
CONSTANTS
    x1 = x1
    x2 = x2
    Exchanges = {x1, x2}
    Runs <- SomeSetups
    MaxListings = 1
    MaxEvents = 3
    Null = null
INVARIANTS
    OnlyPassedTravels
    ExchangesBalance
CHECK_DEADLOCK FALSE
