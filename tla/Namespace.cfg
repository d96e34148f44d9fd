SPECIFICATION Spec
CONSTANTS
    GroupsCount = 2
    InodesPerGroup = 3
    BlocksPerGroup = 2
    Names = {"a"}
    MaxFaults = 1
    MaxCrashes = 1
INVARIANTS TypeOK EntriesValid DirBlocksOwned CountsExact LinksExact
PROPERTIES MirrorFresh TreeAtomic
