SPECIFICATION Spec
CONSTANTS
    Ids = {i1, i2, i3}
    Sweeper = sweeper
    Clearers = {}
    MaxEntries = 1
    MaxInline = 1
    Stamps = {1, 2}
    ReqSizes = {1}
    ChunkSizes = {2}
    MaxChunks = 1
    IdleAt = {"end"}
    MaxFaults = 0
    MaxCrashes = 0
CHECK_DEADLOCK FALSE
SYMMETRY Symmetry
INVARIANTS
    ViewConverges
    NoOrphans
    RetentionBound
PROPERTY OutcomeIsFinal
