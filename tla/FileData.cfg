SPECIFICATION Spec
CONSTANTS
    BlockSize = 2
    FsBlocks = 14
    Used = {2, 4, 7}
    RootMax = 2
    NodeMax = 2
    MaxDepth = 2
    WalkBuffers = 1
    MaxLen = 2
    MaxRun = 2
    Goals = {1, 2}
    Fds = {"f", "g"}
    WriteLens = {5}
    ReadLens = {2}
    MaxSize = 10
    MaxGen = 2
    MaxCrashes = 1
INVARIANTS TypeOK MapExact BlocksOwnedOnce NoLeak ReadBack ClosedSaved
