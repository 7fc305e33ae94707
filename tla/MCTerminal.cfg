CONSTANTS
    t1 = t1
    t2 = t2
    Comms = {1, 2}
    Threads <- TwoThreads
    NoComm = NoComm
    Plans <- SmallPlans
SPECIFICATION Spec
INVARIANTS
    TypeOK
    NothingInvented
CHECK_DEADLOCK FALSE
