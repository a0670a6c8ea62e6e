CONSTANTS
    TimerEvents = {e1, e2}
    MaxRestarts = 2
    MaxJobs = 7
    None = None
    Pages <- MCPages
    Unset = 3
    PageSize = 4
    WordBits = 4
SPECIFICATION StatSpec
INVARIANTS NoFault
PROPERTIES TimersFire DestructorReturns Sampling
CHECK_DEADLOCK FALSE
