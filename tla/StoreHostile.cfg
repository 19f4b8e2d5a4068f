SPECIFICATION Spec
CONSTANTS
    Ids = {i1}
    Sweeper = sweeper
    Clearers = {k1, k2}
    MaxEntries = 1
    MaxInline = 1
    Stamps = {1}
    ReqSizes = {2}
    ChunkSizes = {2}
    MaxChunks = 1
    IdleAt <- PCs
    MaxFaults = 1
    MaxCrashes = 1
CHECK_DEADLOCK FALSE
SYMMETRY Symmetry
INVARIANTS
    TypeOK
    NeverLost
    HistoryFinished
