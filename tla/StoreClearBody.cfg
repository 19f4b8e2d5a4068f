SPECIFICATION Spec
CONSTANTS
    Ids = {i1}
    Sweeper = sweeper
    Clearers = {k1}
    MaxEntries = 1
    MaxInline = 1
    Stamps = {1}
    ReqSizes = {0}
    ChunkSizes = {2}
    MaxChunks = 1
    IdleAt = {"end"}
    MaxFaults = 0
    MaxCrashes = 0
CHECK_DEADLOCK FALSE
INVARIANT RowBodyWhole
