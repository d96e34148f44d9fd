SPECIFICATION Spec
CONSTANTS
    GroupsCount = 2
    Size0 = 3
    Size1 = 2
    GroupBlocks <- MCGroupBlocks
    Reserved <- MCReserved
    RBlocks = 1
    Goals = {1, 2}
    Batches = {1}
    SectorCuts <- MCSectorCuts
    TornReads = {FALSE, TRUE}
    MaxFaults = 1
INVARIANT NoDoubleAllocation
CHECK_DEADLOCK TRUE
