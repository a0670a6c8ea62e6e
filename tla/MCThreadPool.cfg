CONSTANTS
    uiCount = 3
    mBase = TRUE
    Jobs = {j1, j2, j3}
    NoJob = NoJob
SPECIFICATION FairSpec
INVARIANTS NoUseAfterDelete HandleSafety JobInOnePlace NoStrandedJob DestroyedMeansDone
PROPERTIES DestructorReturns ImplementsJobService
CHECK_DEADLOCK FALSE
