SPECIFICATION FairSpec
CONSTANTS
    GroupsCount = 3
    Size0 = 3
    Size1 = 2
    GroupBlocks <- MCGroupBlocks
    Reserved <- MCReserved
    RBlocks = 1
    Goals = {1,2,3}
    Batches = {2}
    SectorCuts <- MCSectorCuts
    TornReads = {FALSE}
    MaxFaults = 1
INVARIANTS TypeOK NoDoubleAllocation OwnedMarked NoLeak GroupCountsExact SuperCountLag AllocFindsSpace CacheCoherentNoFault
PROPERTIES PoolImplemented CallsReturn
CHECK_DEADLOCK TRUE
