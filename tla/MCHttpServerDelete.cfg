SPECIFICATION FairSpec
CONSTANTS
    Counts = {2}
    Clients = {c1}
PROPERTIES DestructorReturns
CHECK_DEADLOCK FALSE
