CONSTANTS
    t1 = t1
    t2 = t2
    Comms = {1, 2}
    Threads <- TwoThreads
    Plans <- SmallPlans
    NoComm = NoComm
SPECIFICATION FairSpec
INVARIANTS
    ServiceAlive
    
    OneAccept
    ErrorsOnce
PROPERTIES
    StopReturns
    RunReturns
    Served
CHECK_DEADLOCK FALSE
