SPECIFICATION VSpec
CONSTANTS
    Depth = 1
    Batch = 3
    MaxHeight = 3
    MaxSends = 2
    MaxFaults = 1
    NoTx = NoTx
INVARIANT QueuedEventsSurface
CHECK_DEADLOCK FALSE
