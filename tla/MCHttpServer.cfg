CONSTANTS
    Conns = {1, 2}
    Plans <- SmallPlans
    NoConn = NoConn
SPECIFICATION Spec
INVARIANTS
    TypeOK
    Intact
    InOrder
    NotForgotten
PROPERTIES
    Answered
    Ended
CHECK_DEADLOCK FALSE
