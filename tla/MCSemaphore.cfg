CONSTANTS
    Free = Free
    Procs = {p1, p2, p3}
    MaxNotify = 3
SPECIFICATION FairSpec
INVARIANTS NoLostWakeup
PROPERTIES PermitsAreUsed ImplementsCountingSemaphore
