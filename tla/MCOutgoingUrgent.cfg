CONSTANTS
    u1 = u1
    u2 = u2
    Pass = pass
    Senders = {u1, u2}
    Msgs = {1, 2}
    By <- TwoBy
    Priority <- Urgent
    Identified = {1, 2}
    Handled = {}
    NoMsg = NoMsg
SPECIFICATION Spec
INVARIANTS
    ExactlyOnce
CHECK_DEADLOCK FALSE
