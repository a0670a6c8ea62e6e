SPECIFICATION Spec
CONSTANTS
    NULL = NULL
    DotNames = {".", ".h"}
    Roots <- MCRoots
    DirPaths <- MCDirPaths
    FilePaths <- MCFilePaths
    Wanted <- MCWanted
    MayTrack = TRUE
    MaxInstances = 5
    MAX_EVENTS = 2
    MaxOps = 3
INVARIANTS AllWatched PathsTrue StaysUp BooksAgree
PROPERTIES DestructorReturns
CHECK_DEADLOCK FALSE
