SPECIFICATION PageSpec
CONSTANTS
    Ids = {i1}
    None = None
    Busy = {"down"}
    MaxInbox = 1
    MaxDrops = 1
    MaxClears = 0
    Inline = 1
    MaxFrags = 0
    MaxSelects = 0
    InOrder = TRUE
CHECK_DEADLOCK FALSE
INVARIANT ListFollows
