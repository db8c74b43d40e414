SPECIFICATION FairSpec
CONSTANTS
    NoWorkspace = none
    NoPath <- MCNoPath
    Workspaces = {w1, w2}
    Names = {1, 2}
    Kinds = {"directory", "file"}
    Dirents <- SmallDirents
    MaxDepth = 2
    MaxThreads = 2
    LoadFaults = {"raise"}
    PreviewLimit = 1
    MaxRequests = 4
INVARIANTS
    TypeOK
    TreeWellFormed
    LoadingIsPending
    ShowsItsWorkspace
PROPERTIES
    TreeKeepsContract
    LoadsEnd
CHECK_DEADLOCK FALSE
