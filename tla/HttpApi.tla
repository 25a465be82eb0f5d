------------------------------ MODULE HttpApi -------------------------------
(***************************************************************************)
(* The HTTP endpoints of the client (client.go): goroutines of the         *)
(* application call them on several clients at once.  A call checks its    *)
(* parameters, takes a request and a response from the pools fasthttp      *)
(* keeps for the whole process, copies the client's headers, waits for the *)
(* node, decides on status and body, and gives both objects back.          *)
(*                                                                         *)
(* All endpoints follow one pipeline; an endpoint is the record of what is *)
(* its own.  URLs, bodies and messages are left out.                       *)
(***************************************************************************)
EXTENDS Validation, FiniteSets

CONSTANTS
    Users,      \* goroutines of the application
    Called,     \* names of the endpoints they call in this instance
    Queries,    \* the values of Search (and Summary) they use; a chain in one is
                \* the caller's own
    Keys,       \* header names
    Requests,   \* objects of the request pool
    Responses,  \* objects of the response pool
    Statuses,   \* status codes of the node
    MaxCalls,   \* bound: calls altogether
    MaxEdits    \* bound: header changes altogether

ASSUME HttpAssumption ==
    /\ Queries \subseteq SearchQuery
    /\ \A q \in Queries : {q.name, q.version} \subseteq {"caller", Absent}
    /\ Statuses \subseteq 100..599
    /\ {MaxCalls, MaxEdits} \subseteq Nat
    /\ Absent \notin Requests \cup Responses \cup Statuses
    /\ Responses \cap (Requests \cup Statuses) = {}

-----------------------------------------------------------------------------
(* Endpoints: HTTP method, accepted status, how the chain is chosen,       *)
(* whether the result is prefilled, whether errors carry a code.           *)

Endpoint(name, method, accepts, chain) ==
    [name |-> name, method |-> method, accepts |-> accepts, chain |-> chain,
     prefilled |-> FALSE, coded |-> FALSE, signature |-> FALSE]

LastBlock == [Endpoint("LastBlock", "GET", {200}, "both") EXCEPT !.coded = TRUE]
Tx == [Endpoint("Tx", "GET", {200}, "both") EXCEPT !.prefilled = TRUE, !.signature = TRUE]
TxSummary == Endpoint("TxSummary", "POST", {200}, "each")
TxSearch == Endpoint("TxSearch", "POST", {200}, "each")
Broadcast == Endpoint("Broadcast", "POST", {201}, "none")
QueryWith(method) == Endpoint("Query", method, 200..299, "none")
FetchNS == [Endpoint("FetchNS", "GET", {200}, "none") EXCEPT !.prefilled = TRUE]

Endpoints == {LastBlock, Tx, TxSummary, TxSearch, Broadcast, QueryWith("GET"),
              QueryWith("POST"), FetchNS}

\* The parameter check; ok is that of an id, a type or a method.
Accepts(e, q, ok) ==
    CASE e.name = "TxSearch"  -> IsValidSearch(q)
      [] e.name = "TxSummary" -> IsValidSummary(q)
      [] e.name \in {"Tx", "Broadcast", "Query"} -> ok
      [] OTHER -> TRUE

\* LastBlock and Tx take the caller's chain only if it is complete.
ChainOf(e, c, q) ==
    CASE e.chain = "each" -> <<Filled(c, q).name, Filled(c, q).version>>
      [] e.chain = "both" -> IF Absent \in {q.name, q.version} THEN <<c, c>>
                                                               ELSE <<q.name, q.version>>
      [] OTHER -> <<Absent, Absent>>

-----------------------------------------------------------------------------
VARIABLES
    pc,         \* where each goroutine is
    call,       \* call[u]: [e, c, q] of the call in progress
    req, resp,  \* req[u], resp[u]: objects held, or Absent
    free,       \* free[o]: how often object o lies in its pool
    wire,       \* wire[r]: what request object r holds
    answer,     \* answer[r]: what response object r holds
    shared,     \* the caller's Search value
    headers,    \* headers[c]: keys in c.headers
    seen,       \* seen[u]: keys in c.headers always and ever since the call began
    result,     \* result[u]: what the last call returned
    calls, edits

poolVars == <<req, resp, free>>
vars == <<pc, call, poolVars, wire, answer, shared, headers, seen, result, calls, edits>>

EmptyRequest == [method |-> "GET", keys |-> {}, signature |-> FALSE,
                 chain |-> <<Absent, Absent>>]
EmptyResponse == [status |-> Absent, body |-> "none"]
NoResult == [kind |-> "none", code |-> 0, status |-> Absent, response |-> Absent]
NoKeys == [always |-> {}, ever |-> {}]

Bodies == {"value", "nullData", "noData", "garbage"}

\* fasthttp's pools (external): any released object, or a new one.
Acquire(o) == free[o] > 0 /\ free' = [free EXCEPT ![o] = @ - 1]

\* The parameter check, then AcquireRequest, directly or in ToRequest.
Call(u) ==
    /\ pc[u] = "idle" /\ calls > 0 /\ calls' = calls - 1
    /\ \E e \in {x \in Endpoints : x.name \in Called}, c \in Clients, ok \in BOOLEAN :
         \/ /\ ~Accepts(e, shared, ok)
            /\ result' = [result EXCEPT ![u] = [NoResult EXCEPT
                 !.kind = "error", !.code = IF e.name = "Tx" THEN 9 ELSE 0]]
            /\ UNCHANGED <<pc, call, poolVars, wire, seen, shared>>
         \/ /\ Accepts(e, shared, ok)
            /\ \E r \in Requests :
                 /\ Acquire(r) /\ req' = [req EXCEPT ![u] = r]
                 /\ wire' = [wire EXCEPT ![r] = [EmptyRequest EXCEPT
                      !.chain = ChainOf(e, c, shared)]]
            /\ call' = [call EXCEPT ![u] = [e |-> e, c |-> c, q |-> shared]]
            /\ shared' = IF e.chain = "each" THEN AfterCall(c, shared) ELSE shared
            /\ seen' = [seen EXCEPT ![u] = [always |-> headers[c], ever |-> headers[c]]]
            /\ pc' = [pc EXCEPT ![u] = "acquired"]
            /\ UNCHANGED <<resp, result>>
    /\ UNCHANGED <<answer, headers, edits>>

\* copyHeaders overwrites the header, so what is the call's own comes after it.
WithOwnFirst(e, w, keys) == [w EXCEPT !.keys = keys, !.method = "GET", !.signature = FALSE]
WithHeaders(e, w, keys) ==
    [w EXCEPT !.keys = keys, !.method = e.method, !.signature = e.signature]

Build(u) ==
    /\ pc[u] = "acquired"
    /\ wire' = [wire EXCEPT ![req[u]] = WithHeaders(call[u].e, @, headers[call[u].c])]
    /\ pc' = [pc EXCEPT ![u] = "built"]
    /\ UNCHANGED <<call, poolVars, answer, shared, headers, seen, result, calls, edits>>

\* AcquireResponse; from here on the request is with the node.
Send(u) ==
    /\ pc[u] = "built"
    /\ \E r \in Responses :
         /\ Acquire(r) /\ resp' = [resp EXCEPT ![u] = r]
         /\ answer' = [answer EXCEPT ![r] = EmptyResponse]
    /\ pc' = [pc EXCEPT ![u] = "sent"]
    /\ UNCHANGED <<call, req, wire, shared, headers, seen, result, calls, edits>>

\* The node answers (external), or do fails.
Receive(u) ==
    /\ pc[u] = "sent"
    /\ \/ /\ \E s \in Statuses, b \in Bodies :
               answer' = [answer EXCEPT ![resp[u]] = [status |-> s, body |-> b]]
          /\ pc' = [pc EXCEPT ![u] = "answered"]
          /\ UNCHANGED result
       \/ /\ result' = [result EXCEPT ![u] = [NoResult EXCEPT
               !.kind = "error", !.code = IF call[u].e.coded THEN 5 ELSE 0]]
          /\ pc' = [pc EXCEPT ![u] = "returning"]
          /\ UNCHANGED answer
    /\ UNCHANGED <<call, poolVars, wire, shared, headers, seen, calls, edits>>

\* An Error keeps the status of a response in a value of its own.
KeptResponse(r) == r
responseSnapshot(r) == answer[r].status

\* The returned error; only LastBlock gives it a code.
Failure(e, r, code) ==
    IF e.coded /\ code # 0
      THEN [kind |-> "error", code |-> code, status |-> answer[r].status,
            response |-> responseSnapshot(r)]
      ELSE [NoResult EXCEPT !.kind = "error"]

\* The accepted status codes.
AcceptsAnySuccess(e, s) == s \in 200..299
AcceptsStatus(e, s) == s \in e.accepts

\* Rejected, failed, unexpected or undecodable; then the body.  A prefilled
\* result is nil after a null and untouched without data.
Outcome(e, r) ==
    LET s == answer[r].status
        b == answer[r].body
    IN  CASE s \in 400..499 -> Failure(e, r, IF b = "garbage" THEN 6 ELSE 0)
          [] s >= 500 -> Failure(e, r, 7)
          [] s < 400 /\ ~AcceptsStatus(e, s) -> Failure(e, r, 0)
          [] s < 400 /\ AcceptsStatus(e, s) /\ b = "garbage" -> Failure(e, r, 8)
          [] s < 400 /\ AcceptsStatus(e, s) /\ b = "nullData" /\ e.prefilled -> Failure(e, r, 0)
          [] OTHER -> [NoResult EXCEPT !.kind = IF b = "value" THEN "value" ELSE "zero"]

Decode(u) ==
    /\ pc[u] = "answered"
    /\ result' = [result EXCEPT ![u] = Outcome(call[u].e, resp[u])]
    /\ pc' = [pc EXCEPT ![u] = "returning"]
    /\ UNCHANGED <<call, poolVars, wire, answer, shared, headers, seen, calls, edits>>

\* The deferred releases: how often object o goes back to its pool.
ReleasedTwice(u, o) == IF o = req[u] THEN 2 ELSE IF o = resp[u] THEN 1 ELSE 0
Releases(u, o) == IF o \in {req[u], resp[u]} THEN 1 ELSE 0

Finish(u) ==
    /\ pc[u] = "returning"
    /\ free' = [o \in DOMAIN free |-> free[o] + Releases(u, o)]
    /\ req' = [req EXCEPT ![u] = Absent] /\ resp' = [resp EXCEPT ![u] = Absent]
    /\ wire' = [wire EXCEPT ![req[u]] = EmptyRequest]
    /\ answer' = [answer EXCEPT ![resp[u]] = EmptyResponse]
    /\ call' = [call EXCEPT ![u] = Absent] /\ seen' = [seen EXCEPT ![u] = NoKeys]
    /\ pc' = [pc EXCEPT ![u] = "idle"]
    /\ UNCHANGED <<shared, headers, result, calls, edits>>

\* AddHeader and RemoveHeader.
EditHeader(c) ==
    /\ edits > 0 /\ edits' = edits - 1
    /\ \E k \in Keys : headers' = [headers EXCEPT ![c] = IF k \in @ THEN @ \ {k} ELSE @ \cup {k}]
    /\ seen' = [u \in Users |->
          IF pc[u] = "acquired" /\ call[u].c = c
            THEN [always |-> seen[u].always \cap headers'[c], ever |-> seen[u].ever \cup headers'[c]]
            ELSE seen[u]]
    /\ UNCHANGED <<pc, call, poolVars, wire, answer, shared, result, calls>>

Init ==
    /\ pc = [u \in Users |-> "idle"] /\ call = [u \in Users |-> Absent]
    /\ req = [u \in Users |-> Absent] /\ resp = [u \in Users |-> Absent]
    /\ free = [o \in Requests \cup Responses |-> 1]
    /\ wire = [r \in Requests |-> EmptyRequest]
    /\ answer = [r \in Responses |-> EmptyResponse]
    /\ shared \in Queries
    /\ headers = [c \in Clients |-> {}]
    /\ seen = [u \in Users |-> NoKeys]
    /\ result = [u \in Users |-> NoResult]
    /\ calls = MaxCalls /\ edits = MaxEdits

Step(u) == Build(u) \/ Send(u) \/ Receive(u) \/ Decode(u) \/ Finish(u)

Next == (\E u \in Users : Call(u) \/ Step(u)) \/ (\E c \in Clients : EditHeader(c))

Spec == Init /\ [][Next]_vars

-----------------------------------------------------------------------------
(* Properties.                                                             *)

\* Every pooled object is in one place: held by one call or in its pool, once.
\* No path through an endpoint leaks an object, gives it back twice or lets two
\* calls work on the same one (the deferred ReleaseRequest, ReleaseResponse).
PoolSound ==
    \A o \in Requests \cup Responses :
        free[o] + Cardinality({u \in Users : o \in {req[u], resp[u]}}) = 1

\* What goes to the node is the call's own: its method and its signature, which
\* copyHeaders would erase if it came later, every header that was set during
\* the whole call and none that was not set at any time of it, although other
\* goroutines add and remove headers meanwhile (copyHeaders).
SentAsBuilt ==
    \A u \in Users : pc[u] = "sent" =>
        LET w == wire[req[u]]
        IN  /\ w.method = call[u].e.method /\ w.signature = call[u].e.signature
            /\ seen[u].always \subseteq w.keys /\ w.keys \subseteq seen[u].ever

\* Each part of the chain a request names, the name and the version, is the
\* caller's or that of the client the request is made on, even if one Search
\* value is used with several clients (TxSearch, TxSummary).
OwnChain ==
    \A u \in Users : pc[u] = "sent" /\ call[u].e.chain # "none" =>
        \A i \in 1..2 : wire[req[u]].chain[i] \in {"caller", call[u].c}

\* A call returns what the node answered to its own request: a value exactly for
\* an accepted status with a value in the body, and nothing at all out of a
\* failed, rejected or undecodable answer (status checks of the endpoints).
AnswerFaithful ==
    \A u \in Users : pc[u] = "returning" =>
        LET a == answer[resp[u]]
        IN  /\ result[u].kind = "value" <=> a.status \in call[u].e.accepts /\ a.body = "value"
            /\ result[u].kind = "zero" => /\ a.status \in call[u].e.accepts
                                          /\ a.body \in {"nullData", "noData"}

\* What Error.Response shows stays the status of the answer that failed, although
\* the response object has gone back to the pool and serves other calls: "an
\* independent status-only response" (error.go, responseSnapshot).
StableError ==
    \A u \in Users :
        LET x == result[u].response
        IN  x # Absent => (IF x \in Responses THEN answer[x].status ELSE x) = result[u].status
=============================================================================
