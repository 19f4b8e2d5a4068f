SPECIFICATION PageSpec
CONSTANTS
    Ids = {i1}
    None = None
    Busy = {}
    MaxInbox = 1
    MaxDrops = 0
    MaxClears = 0
    Inline = 1
    MaxFrags = 1
    MaxSelects = 1
    InOrder = TRUE
CHECK_DEADLOCK FALSE
INVARIANT PanePrefix
