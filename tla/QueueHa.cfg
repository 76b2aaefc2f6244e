CONSTANTS
    n1 = n1  n2 = n2  w1 = w1  w2 = w2
    Nodes <- TwoNodes
    Workers <- TwoWorkers
    NodeOf <- OneEach
    Keys = {k1, k2}
    JobIds = {j1, j2}
    HaMode = TRUE
    DctLimit = 1
    StaleAfter = 1
    TimelyRender = FALSE
    MaxCrashes = 1
    MaxOutages = 1
    None = None
SPECIFICATION FairSpec
CHECK_DEADLOCK FALSE
INVARIANTS TypeOK SingleFlight ExclusiveClaim
PROPERTIES ImplementsBoard RunningEnds QueuedLeavesUnlessOutage
