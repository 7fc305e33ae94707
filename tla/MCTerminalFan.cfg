CONSTANTS
    t1 = t1
    t2 = t2
    Comms = {1}
    Threads <- TwoThreads
    NoComm = NoComm
    Plans <- FanPlans
SPECIFICATION Spec
INVARIANTS
    FannedOut
CHECK_DEADLOCK FALSE
