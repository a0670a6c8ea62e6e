CONSTANTS
    Peers = {c1, c2}
    Locals = {e1}
    Workers = {w1, w2}
    MaxSent = 2
    Nobody = Nobody
SPECIFICATION FairServerSpec
INVARIANTS ServedToTheEnd
PROPERTIES EveryoneServed
CHECK_DEADLOCK FALSE
