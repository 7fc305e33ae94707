CONSTANTS
    Comms = {1}
    Threads = {t1, t2}
    Users = {u1}
    Replying = {1}
    MaxIn = 1
    IdleTimer = TRUE
    NoComm = NoComm
SPECIFICATION FairSpec
INVARIANTS
    ExclusiveProcessing
    Ownership
    ReadArmed
    KickBound
PROPERTIES
    ImplementsLifecycle
    WorkServed
    LostRemoved
