CONSTANTS
    Pieces = 2
    Requests = {1}
    Kinds = {"reply", "wrong", "plain", "garbled"}
    MaxWire = 2
    Pools = {1, 2}
SPECIFICATION FairSpec
INVARIANTS
    OneOutcome
    Tracked
PROPERTIES
    ArrivedProcessedAlone
    RequestSettled
CHECK_DEADLOCK FALSE
