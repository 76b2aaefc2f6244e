CONSTANTS
    ka = ka  b1 = b1
    Keys <- OneKey
    Boards <- OneBoard
    BoardOf <- SameBoard
    FrozenFrom <- NeverFrozen
    Renderers = {r1}
    Readers = {}
    Sweeper = n1
    Twin = n2
    HaMode = TRUE
    RetentionEnabled = TRUE
    MaxAgeDays = 0
    MaxPerBoard = 1
    MaxDay = 1
    MaxCrashes = 1
    MaxLosses = 1
    None = None
SPECIFICATION JanitorFairSpec
INVARIANT OneLeader
PROPERTIES OrphanReaped OldLeaves
