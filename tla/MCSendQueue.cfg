SPECIFICATION FairSpec
CONSTANTS
    BufferSize = 2
    MaxChunk = 3
    MaxBytes = 7
INVARIANTS InFlightStable WriteIffQueued IInv
PROPERTY ImplementsStream
CHECK_DEADLOCK FALSE
