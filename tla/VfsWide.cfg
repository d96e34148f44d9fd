SPECIFICATION Spec
CONSTANTS
    NDentries = 4
    NInodes = 3
    NFds = 1
    a = "a"
    b = "b"
    Names = {"a", "b"}
    NewInos = {11, 12}
    OpenPaths <- WideOpenPaths
    CreatePaths <- WideCreatePaths
    MkdirPaths <- WideMkdirPaths
    OtherPaths <- WideOtherPaths
    FsFails = TRUE
    MaxRefs = 4
INVARIANTS TypeOK HeldDentriesLive OneObjectPerInode DcacheCoherent CwdUsable
