SPECIFICATION Spec
CONSTANTS
    Callers = {t1, t2}
    Calls = {"Start", "Stop", "AddCallback", "CancelContext"}
    MaxCalls = 5
    MaxSessions = 2
    None = None
    QueueCap = 1
    MaxBytes = 1
    Sizes = {}
    Addrs = {}
    Sigs = {}
    Filters = {}
    MaxAddrs = 0
    MaxSlots = 1
    InitCallbacks <- OneCallback
    Incoming <- AllKinds
    MaxDelay = 2
SYMMETRY Symmetry
CHECK_DEADLOCK FALSE
INVARIANTS
    TypeOK
    SessionOwnership
    ReaderJoined
    OwnSession
