SPECIFICATION AlgoSpec
CONSTANTS
    Absent = Absent
    Null = Null
    Tick = 2
    DefaultLimit = 2
    MaxLimit = 3
    Inline = 2
    Entries = {i1, i2, i3, i4}
    MaxInstant = 5
    MaxBytes = 3
    MaxLexemes = 4
    MaxLines = 3
    MaxPath = 3
CHECK_DEADLOCK FALSE
INVARIANTS
    PageExact
    WalkOnce
    DetailStable
    RowStable
    SniffStable
    
    
    UrlKept
    
