SPECIFICATION FairSpec
CONSTANTS
    Callers = {t1, t2}
    Calls = {"Start", "Stop", "WithWSAuthority", "CancelContext"}
    MaxCalls = 4
    MaxSessions = 1
    None = None
    QueueCap = 1
    MaxBytes = 1
    Sizes = {1}
    Addrs = {}
    Sigs = {}
    Filters = {}
    MaxAddrs = 0
    MaxSlots = 1
    InitCallbacks <- OneCallback
    Incoming <- EventOrRejection
    MaxDelay = 1

CHECK_DEADLOCK FALSE
PROPERTIES
    NoDispatchAfterEnd
    CancelledEnds
    RejectionEnds
    CallsReturn
