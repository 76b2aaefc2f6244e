CONSTANTS
    ka = ka  kb = kb  b1 = b1
    Keys <- TwoKeys
    Boards <- OneBoard
    BoardOf <- SameBoard
    FrozenFrom <- SecondFreezes
    Renderers = {r1}
    Readers = {c1}
    Sweeper = Sweeper
    HaMode = FALSE
    RetentionEnabled = TRUE
    MaxAgeDays = 1
    MaxPerBoard = 1
    MaxDay = 2
    MaxCrashes = 1
    None = None
SPECIFICATION Spec
INVARIANTS TypeOK RowImpliesBlob ServedUnlessSwept
PROPERTIES CapEnforced FrozenKept AgedOut NewestKept ImplementsCache
