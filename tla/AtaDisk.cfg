SPECIFICATION Spec
CONSTANTS
    Sectors = 8
    Counts = {0, 1, 2, 3, 4, 7}
    MaxChunk = 3
    DmaMax = 2
    MaxCalls = 2
    MaxFaults = 3
INVARIANT TransferExact
CHECK_DEADLOCK FALSE
