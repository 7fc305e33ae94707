CONSTANTS
    Plans <- SomePlans
    Names <- SomeNames
    IdSize = 4
SPECIFICATION Spec
INVARIANTS
    TypeOK
    Synchronised
PROPERTIES
    ImplementsChannel
CHECK_DEADLOCK FALSE
