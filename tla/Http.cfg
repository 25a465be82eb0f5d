SPECIFICATION Spec
CONSTANTS
    MaxAddresses = 2
    MaxHashes = 1
    MaxLimit = 1
    MaxLen = 2
    Clients = {c1, c2}
    Absent = Absent
    Users = {u1, u2}
    Called = {"LastBlock", "Tx", "TxSummary", "TxSearch", "Broadcast", "Query", "FetchNS"}
    Queries <- MCQueries
    Keys = {k1}
    Requests = {q1, q2}
    Responses = {r1, r2}
    Statuses = {200, 201, 404, 503}
    MaxCalls = 2
    MaxEdits = 1
SYMMETRY Symmetry
\* the calls of the instance run out
CHECK_DEADLOCK FALSE
INVARIANTS
    PoolSound
    SentAsBuilt
    OwnChain
    StableError
    AnswerFaithful
