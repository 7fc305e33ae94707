CONSTANTS
    u1 = u1
    u2 = u2
    Pass = pass
    Senders = {u1, u2}
    Msgs = {1, 2}
    By <- TwoBy
    Priority <- Equal
    Identified = {}
    Handled = {}
    NoMsg = NoMsg
SPECIFICATION Spec
INVARIANTS
    UniqueMids
CHECK_DEADLOCK FALSE
