CONSTANTS
    ka = ka  kb = kb  b1 = b1
    Keys <- OneKey
    Boards <- OneBoard
    BoardOf <- SameBoard
    FrozenFrom <- NeverFrozen
    Renderers = {r1}
    Readers = {}
    Sweeper = Sweeper
    HaMode = TRUE
    RetentionEnabled = TRUE
    MaxAgeDays = 1
    MaxPerBoard = 1
    MaxDay = 2
    MaxCrashes = 0
    None = None
SPECIFICATION Spec
INVARIANT RowImpliesBlob
