SPECIFICATION Spec
CONSTANTS
    MaxReads = 3
    MaxChunk = 3
    Timeout = 1
CHECK_DEADLOCK FALSE
INVARIANTS
    CaptureExact
    DeltasAreBody
    StreamUnaltered

    
    
