SPECIFICATION ReadsSpec
CONSTANTS
    Ids = {i1, i2}
    Sweeper = sweeper
    Clearers = {}
    MaxEntries = 1
    MaxInline = 1
    Stamps = {1}
    ReqSizes = {0}
    ChunkSizes = {1}
    MaxChunks = 2
    IdleAt = {"end"}
    MaxFaults = 1
    MaxCrashes = 1
CHECK_DEADLOCK FALSE
SYMMETRY Symmetry
INVARIANTS
    GetFinds
    BodyServed
    RowBodyWhole
    HeadsKept
