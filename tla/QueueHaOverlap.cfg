CONSTANTS
    n1 = n1  n2 = n2  w1 = w1  w2 = w2
    Nodes <- TwoNodes
    Workers <- TwoWorkers
    NodeOf <- OneEach
    Keys = {k1}
    JobIds = {j1, j2}
    HaMode = TRUE
    DctLimit = 1
    StaleAfter = 1
    TimelyRender = FALSE
    MaxCrashes = 0
    MaxOutages = 0
    None = None
SPECIFICATION Spec
INVARIANT OneRenderPerKey
