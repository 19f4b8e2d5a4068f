SPECIFICATION PageSpec
CONSTANTS
    Ids = {i1, i2}
    None = None
    Busy = {"clearing"}
    MaxInbox = 2
    MaxDrops = 1
    MaxClears = 1
    Inline = 1
    MaxFrags = 2
    MaxSelects = 1
    InOrder = TRUE
CHECK_DEADLOCK FALSE
SYMMETRY Symmetry
INVARIANTS
    ListSound
    ListWhole
    
