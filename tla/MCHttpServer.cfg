SPECIFICATION FairSpec
CONSTANTS
    Counts = {1, 2}
    Clients = {c1, c2}
PROPERTIES Answered OneThreadStops
CHECK_DEADLOCK FALSE
