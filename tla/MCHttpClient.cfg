CONSTANTS
    Requests = {r1, r2, r3}
    Users = {u1, u2}
    Pool = Pool
    None = None
SPECIFICATION FairSpec
INVARIANTS SentAreQueued LoopCovered
PROPERTIES RequestsComplete
CHECK_DEADLOCK FALSE
