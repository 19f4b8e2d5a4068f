SPECIFICATION LifeFairSpec
CONSTANTS
    Subs = {s1}
    BufferSize = 2
    Relays = {x1}
    Replays = {x2}
    MaxEvents = 4
CHECK_DEADLOCK FALSE
INVARIANTS
    NoPanic
    Contiguous
    CleanStop
PROPERTIES
    ImplementsFeed
    
    Exits
