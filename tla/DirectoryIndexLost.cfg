SPECIFICATION Spec
CONSTANTS
    Names = {"a","b","c","d","e","f"}
    Size <- MCSize
    Hash <- MCHash
    BlockLen = 4
    RootMax = 2
    NDirect = 3
    PerIndirect = 2
    DiskBlocks = 5
INVARIANT IndexListsLeaves
