SPECIFICATION Spec
CONSTANTS
    NULL = NULL
    DotNames = {"."}
    Roots <- MCRoots
    DirPaths <- MCOneDir
    FilePaths <- MCFilePaths
    Wanted <- MCWanted
    MayTrack = TRUE
    MaxInstances = 3
    MAX_EVENTS = 2
    MaxOps = 4
INVARIANTS ChildrenTracked
CHECK_DEADLOCK FALSE
