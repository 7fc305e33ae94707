CONSTANTS
    h1 = h1
    h2 = h2
    user = user
    Names = {"a", "b"}
    Mids = {1, 2}
    Handlers <- TwoHandlers
    Users <- OneUser
    Pass = pass
    NoHandler = NoHandler
    Plans <- SmallPlans
SPECIFICATION FairSpec
INVARIANTS
    NotMissed
    Unregistered
PROPERTIES
    Delivered
CHECK_DEADLOCK FALSE
