CONSTANTS
    u1 = u1
    u2 = u2
    Pass = pass
    Senders = {u1, u2}
    Msgs = {1, 2, 3}
    By <- MixedBy
    Priority <- MixedPriority
    Identified = {2, 3}
    Handled = {1, 2}
    NoMsg = NoMsg
SPECIFICATION FairSpec
INVARIANTS
    ExactlyOnce
    PriorityFifo
    BuffersAlive
    NotifiedOnce
    HandlersAccounted
PROPERTIES
    PushedTold
CHECK_DEADLOCK FALSE
