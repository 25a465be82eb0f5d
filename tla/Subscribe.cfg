SPECIFICATION Spec
CONSTANTS
    Callers = {t1, t2}
    Calls = {"Start", "Stop", "Subscribe", "Unsubscribe", "WithMode"}
    MaxCalls = 5
    MaxSessions = 2
    None = None
    QueueCap = 1
    MaxBytes = 1
    Sizes = {}
    Addrs = {a1, a2, a3}
    Sigs = {g1, g2}
    Filters = {f1}
    MaxAddrs = 2
    MaxSlots = 1
    InitCallbacks <- NoCallback
    Incoming = {}
    MaxDelay = 1
SYMMETRY Symmetry
CHECK_DEADLOCK FALSE
INVARIANTS
    NoLostWakeup
    ServerInSync
    UnsubscribeUnambiguous
    SubscribedSigned
    LimitExact
