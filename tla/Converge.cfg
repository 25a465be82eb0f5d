SPECIFICATION FairSpec
CONSTANTS
    Callers = {t1, t2}
    Calls = {"Start", "Subscribe", "Unsubscribe", "WithMode", "Write"}
    MaxCalls = 4
    MaxSessions = 1
    None = None
    QueueCap = 1
    MaxBytes = 1
    Sizes = {1}
    Addrs = {a1}
    Sigs = {g1}
    Filters = {f1}
    MaxAddrs = 1
    MaxSlots = 1
    InitCallbacks <- NoCallback
    Incoming = {}
    MaxDelay = 1

CHECK_DEADLOCK FALSE
PROPERTIES
    ChangesReachNode
