CONSTANTS
    n1 = n1  w1 = w1  w2 = w2
    Nodes <- OneNode
    Workers = {w1}
    NodeOf <- AllOnOne
    Keys = {k1}
    JobIds = {j1, j2}
    Clients = {c1, c2}
    HaMode = TRUE
    DctLimit = 0
    StaleAfter = 0
    TimelyRender = FALSE
    MaxCrashes = 0
    MaxOutages = 1
    Stamps = {1, 2}
    None = None
SPECIFICATION WaitSpec
CHECK_DEADLOCK FALSE
INVARIANTS NoDoneLeak AnswerNotStale
SYMMETRY RequestSymmetry
