SPECIFICATION Spec
CONSTANTS
    MaxPerGroup = 12
    InodesPerBlock = 4
    DescsPerBlock = 2
    MinBlocks = 9
    Fallback = 24
    DiskSizes = {1, 2, 3, 4, 5, 6, 7, 8, 9, 10, 11, 12, 13, 14, 15, 16, 17, 18, 19, 20, 21, 22, 23, 24, 25, 26, 27, 28, 29, 30, 31, 32, 33, 34, 35, 36, 37, 38, 39, 40}
    MaxFaults = 2
    MaxBoots = 3
INVARIANTS FormatSound MountSound
CHECK_DEADLOCK FALSE
