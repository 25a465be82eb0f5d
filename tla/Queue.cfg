SPECIFICATION Spec
CONSTANTS
    Callers = {t1, t2, t3}
    Calls = {"Start", "Stop", "Write"}
    MaxCalls = 7
    MaxSessions = 2
    None = None
    QueueCap = 2
    MaxBytes = 4
    Sizes = {1, 2}
    Addrs = {}
    Sigs = {}
    Filters = {}
    MaxAddrs = 0
    MaxSlots = 1
    InitCallbacks <- NoCallback
    Incoming = {}
    MaxDelay = 1
SYMMETRY Symmetry
CHECK_DEADLOCK FALSE
INVARIANTS
    QueueAccounting
    BudgetRespected
    NoBufferOutlivesSession
PROPERTY
    OwnerSpec
