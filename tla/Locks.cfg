SPECIFICATION FairSpec
CONSTANTS
    Callers = {t1, t2, t3}
    Calls = {"Start", "Stop", "WithProxy", "Http", "WithWSAuthority"}
    MaxCalls = 5
    MaxSessions = 1
    None = None
    QueueCap = 1
    MaxBytes = 1
    Sizes = {1}
    Addrs = {}
    Sigs = {}
    Filters = {}
    MaxAddrs = 0
    MaxSlots = 1
    InitCallbacks <- NoCallback
    Incoming = {}
    MaxDelay = 1

CHECK_DEADLOCK FALSE
PROPERTY
    CallsReturn
