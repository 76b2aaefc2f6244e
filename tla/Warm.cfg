CONSTANTS
    n1 = n1  n2 = n2  w1 = w1  k1 = k1  k2 = k2
    Nodes <- TwoNodes
    Workers = {w1}
    NodeOf <- OnSecond
    Keys <- TwoKeys
    WarmKey <- KeyEach
    Hosts <- OnFirst
    JobIds = {j1, j2}
    Clients = {1, 2}
    HaMode = TRUE
    DctLimit = 0
    StaleAfter = 0
    TimelyRender = TRUE
    MaxCrashes = 0
    MaxOutages = 1
    Stamps = {1}
    None = None
SPECIFICATION WarmFairSpec
CHECK_DEADLOCK FALSE
INVARIANT WarmTypeOK
PROPERTIES WarmAnswers ReportsEndedJobs
