SPECIFICATION FairSpec
CONSTANTS
    Ids = {i1}
    Sweeper = sweeper
    Clearers = {}
    MaxEntries = 1
    MaxInline = 1
    Stamps = {1}
    ReqSizes = {1}
    ChunkSizes = {1, 2}
    MaxChunks = 2
    IdleAt = {"relay", "stream", "end"}
    MaxFaults = 2
    MaxCrashes = 1
CHECK_DEADLOCK FALSE
PROPERTY PendingDrains
