SPECIFICATION Spec
CONSTANTS
    MaxAddresses = 2
    MaxHashes = 1
    MaxLimit = 1
    MaxLen = 3
    Clients = {}
    Absent = Absent
\* a verdict is final
CHECK_DEADLOCK FALSE
INVARIANTS
    NothingSwallowed
    SearchHasSummary
    AcceptedBounded
