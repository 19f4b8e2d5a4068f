SPECIFICATION ReadsSpec
CONSTANTS
    Ids = {i1}
    Sweeper = sweeper
    Clearers = {}
    MaxEntries = 1
    MaxInline = 1
    Stamps = {1}
    ReqSizes = {0}
    ChunkSizes = {1}
    MaxChunks = 0
    IdleAt = {"end"}
    MaxFaults = 0
    MaxCrashes = 0
CHECK_DEADLOCK FALSE
INVARIANT ListExact
