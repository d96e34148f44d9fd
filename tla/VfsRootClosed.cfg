SPECIFICATION Spec
CONSTANTS
    NDentries = 4
    NInodes = 4
    NFds = 2
    a = "a"
    b = "b"
    Names = {"a", "b"}
    NewInos = {11, 12}
    OpenPaths <- RootOpenPaths
    CreatePaths <- MCCreatePaths
    MkdirPaths <- MCMkdirPaths
    OtherPaths <- MCOtherPaths
    FsFails = FALSE
    MaxRefs = 9
INVARIANT ParentsLive
