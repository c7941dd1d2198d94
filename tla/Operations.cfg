SPECIFICATION MCSpec
CONSTANTS
    NoOne = NoOne
    scraper = scraper
    pinned = pinned
    c1 = c1
    c2 = c2
    Agents <- SomeAgents
    Match <- SomeMatch
    Commands = {c1, c2}
    Secrets = {1, 2, 3}
    Setups <- SomeSetups
    s1 = s1
    sim = sim
    call = call
    Sids = {s1}
    SimSid = sim
    Deeds = {call}
    Timeline <- SomeTimeline
    FeedCap = 6
    GraphCap = 9
    EachShown = 1
    QueueCap = 2
    MaxDeskSteps = 6
    Specs <- SomeSpecs
    Ports = {"p8080", "p8081"}
    Extras <- SomeExtras
    MaxTableSteps = 4
    Calls <- SomeCalls
    OperatorPostures <- SomeOperatorPostures
    Upstreams = {"u1"}
    MaxWraps = 2
    CommandLines <- SomeLines
    Kernels <- SomeKernels
    Runtime <- SomeRuntime
    DecoyKinds = {"aws", "url"}
    Labels = {"", "2"}
    Numerals <- SomeNumerals
    DecoyCommands = {1, 2, 3}
    Together = FALSE
    Checks <- SomeChecks
    Bindings <- SomeBindings
    Attempts <- SomeAttempts
    Rulesets <- SomeRulesets
    Postures <- SomePostures
    MaxJudged = 2
    Configs <- SomeConfigs
    Machines <- SomeMachines
    MaxServices = 2
    Scripts <- SomeScripts
    MaxFrame = 2
    Fleets <- SomeFleets
    Seen <- SomeSeen
    MaxSeen = 2
    Terminals = {1}
    AgentIds = {"x", "y"}
    Careful = TRUE
    MaxTokens = 3
    MaxInits = 2
    Runs = {1, 2}
    DoctorSetups <- SomeDoctors
    ReadCap = 2
    MaxRecords = 3
    HostSetups <- SomeHosts
    StaleAfter = 1
    FileCap = 3
    RecordCap = 6
INVARIANTS
    ReviewersReadTheTruth
    RunsAreContained
    OperatorsRule
    RunsAsToldOrRefuses
    PlantedDecoysAreKept
    VerdictIsTrue
    VerdictsHold
    StartupIsHonest
    LinesTravelOnce
    ViewsSpeakForTheirPeers
    PrintedCredentialsStay
    EscapesAreAlarmed
PROPERTIES
    IdentitiesHold
    ConsoleHolds
CHECK_DEADLOCK FALSE
