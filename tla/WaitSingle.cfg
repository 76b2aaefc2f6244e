CONSTANTS
    n1 = n1  w1 = w1  w2 = w2
    Nodes <- OneNode
    Workers <- TwoWorkers
    NodeOf <- AllOnOne
    Keys = {k1}
    JobIds = {j1, j2}
    Clients = {c1, c2}
    HaMode = FALSE
    DctLimit = 1
    StaleAfter = 1
    TimelyRender = FALSE
    MaxCrashes = 1
    MaxOutages = 0
    Stamps = {1}
    None = None
SPECIFICATION WaitFairSpec
INVARIANTS OneRenderPerKey NoLostWake NoOrphanRunning NoMissedDone
PROPERTIES OutcomeFinal QueuedLeaves
