CONSTANTS
    Pieces = 2
    Requests = {}
    Kinds = {"plain"}
    MaxWire = 1
    Pools = {2}
SPECIFICATION FairSpec
PROPERTIES
    ArrivedProcessed
CHECK_DEADLOCK FALSE
