----------------------------- MODULE HttpProofs -----------------------------
(***************************************************************************)
(* Calls of the HTTP endpoints do not disturb each other, for any number   *)
(* of goroutines, clients, pooled objects, headers and status codes.       *)
(***************************************************************************)
EXTENDS HttpApi, FiniteSetTheorems, TLAPS

Objects == Requests \cup Responses
Places == {"idle", "acquired", "built", "sent", "answered", "returning"}
Contexts == [e : Endpoints, c : Clients, q : Queries]
Frames == [method : {"GET", "POST"}, keys : SUBSET Keys, signature : BOOLEAN,
           chain : Chains \X Chains]
Replies == [status : Statuses \cup {Absent}, body : Bodies \cup {"none"}]
Results == [kind : {"none", "error", "value", "zero"}, code : 0..9,
            status : Statuses \cup {Absent}, response : Statuses \cup {Absent}]

HttpTypes ==
    /\ pc \in [Users -> Places]
    /\ call \in [Users -> Contexts \cup {Absent}]
    /\ req \in [Users -> Requests \cup {Absent}] /\ resp \in [Users -> Responses \cup {Absent}]
    /\ free \in [Objects -> {0, 1}]
    /\ wire \in [Requests -> Frames]
    /\ answer \in [Responses -> Replies]
    /\ shared \in Queries
    /\ headers \in [Clients -> SUBSET Keys]
    /\ seen \in [Users -> [always : SUBSET Keys, ever : SUBSET Keys]]
    /\ result \in [Users -> Results]

\* What a goroutine holds where it is.
Holding(u) ==
    /\ pc[u] = "idle" <=> req[u] = Absent
    /\ pc[u] \in {"idle", "acquired", "built"} <=> resp[u] = Absent
    /\ pc[u] # "idle" => call[u] \in Contexts

\* An object lies in its pool, once, or a single goroutine holds it.
Holds(u, o) == o \in {req[u], resp[u]}
Owned ==
    /\ \A u \in Users, o \in Objects : Holds(u, o) => free[o] = 0
    /\ \A o \in Objects : free[o] = 0 => \E u \in Users : Holds(u, o)
    /\ \A u, v \in Users, o \in Objects : Holds(u, o) /\ Holds(v, o) => u = v

\* The request of u from AcquireRequest until it is with the node.
Requested(u) ==
    /\ pc[u] \in {"acquired", "built", "sent"} /\ call[u].e.chain # "none" =>
          \A i \in 1..2 : wire[req[u]].chain[i] \in {"caller", call[u].c}
    /\ pc[u] = "acquired" => /\ seen[u].always \subseteq headers[call[u].c]
                             /\ headers[call[u].c] \subseteq seen[u].ever
    /\ pc[u] \in {"built", "sent"} =>
          /\ wire[req[u]].method = call[u].e.method
          /\ wire[req[u]].signature = call[u].e.signature
          /\ seen[u].always \subseteq wire[req[u]].keys
          /\ wire[req[u]].keys \subseteq seen[u].ever

\* What the response of u holds, and the result made of it.
Faithful(e, a, x) ==
    /\ x.kind = "value" <=> a.status \in e.accepts /\ a.body = "value"
    /\ x.kind = "zero" => a.status \in e.accepts /\ a.body \in {"nullData", "noData"}
Answered(u) ==
    /\ pc[u] = "sent" => answer[resp[u]] = EmptyResponse
    /\ pc[u] = "answered" => answer[resp[u]].status \in Statuses /\ answer[resp[u]].body \in Bodies
    /\ pc[u] = "returning" => Faithful(call[u].e, answer[resp[u]], result[u])

\* A result refers to a status, never to a pooled object.
Independent(x) == x.response \in {Absent, x.status}

UserInv(u) == Holding(u) /\ Requested(u) /\ Answered(u) /\ Independent(result[u])

HttpInv == HttpTypes /\ Owned /\ \A u \in Users : UserInv(u)

-----------------------------------------------------------------------------
(* Endpoints, requests and outcomes.                                       *)

\* No endpoint accepts a status outside 2xx.
LEMMA EndpointFields ==
  ASSUME NEW e \in Endpoints
  PROVE  /\ e.accepts \subseteq 200..299
         /\ e.method \in {"GET", "POST"} /\ e.signature \in BOOLEAN /\ e.coded \in BOOLEAN
         /\ e.prefilled \in BOOLEAN /\ e.chain \in {"each", "both", "none"}
<1> USE DEF Endpoint
<1>1. CASE e = LastBlock
  BY <1>1 DEF LastBlock
<1>2. CASE e = Tx
  BY <1>2 DEF Tx
<1>3. CASE e = TxSummary
  BY <1>3 DEF TxSummary
<1>4. CASE e = TxSearch
  BY <1>4 DEF TxSearch
<1>5. CASE e = Broadcast
  BY <1>5 DEF Broadcast
<1>6. CASE e = QueryWith("GET")
  BY <1>6 DEF QueryWith
<1>7. CASE e = QueryWith("POST")
  BY <1>7 DEF QueryWith
<1>8. CASE e = FetchNS
  BY <1>8 DEF FetchNS
<1> QED
  BY <1>1, <1>2, <1>3, <1>4, <1>5, <1>6, <1>7, <1>8 DEF Endpoints

\* What the caller leaves out of a chain is that of the client.
LEMMA ChainIsOwn ==
  ASSUME NEW e \in Endpoints, NEW c \in Clients, NEW q \in Queries
  PROVE  /\ ChainOf(e, c, q) \in Chains \X Chains
         /\ e.chain # "none" => \A i \in 1..2 : ChainOf(e, c, q)[i] \in {"caller", c}
<1>1. q \in SearchQuery /\ {q.name, q.version} \subseteq {"caller", Absent}
  BY HttpAssumption
<1>2. Filled(c, q).name \in {"caller", c} /\ Filled(c, q).version \in {"caller", c}
  BY <1>1 DEF Filled, SearchQuery
<1>3. e.chain \in {"each", "both", "none"}
  BY EndpointFields
<1>4. {"caller", c, Absent} \subseteq Chains
  BY DEF Chains
<1>5. CASE e.chain = "each"
  BY <1>2, <1>4, <1>5 DEF ChainOf
<1>6. CASE e.chain = "both"
  BY <1>1, <1>4, <1>6 DEF ChainOf
<1>7. CASE e.chain = "none"
  BY <1>4, <1>7 DEF ChainOf
<1> QED
  BY <1>3, <1>5, <1>6, <1>7

\* An error without a response.
LEMMA ErrorResult ==
  ASSUME NEW code \in 0..9
  PROVE  LET x == [NoResult EXCEPT !.kind = "error", !.code = code]
         IN  x \in Results /\ x.kind = "error" /\ x.response = Absent
<1> DEFINE x == [NoResult EXCEPT !.kind = "error", !.code = code]
<1>1. x \in Results
  BY DEF NoResult, Results
<1>2. x.kind = "error" /\ x.response = Absent
  BY DEF NoResult
<1> QED
  BY <1>1, <1>2

\* The status checks and the decoding, case by case.
LEMMA OutcomeFaithful ==
  ASSUME NEW e \in Endpoints, NEW r \in Responses, HttpTypes,
         answer[r].status \in Statuses, answer[r].body \in Bodies
  PROVE  /\ Outcome(e, r) \in Results
         /\ Faithful(e, answer[r], Outcome(e, r))
         /\ Independent(Outcome(e, r))
<1> DEFINE s == answer[r].status
           b == answer[r].body
<1>1. s \in Nat /\ 100 <= s /\ s <= 599
  <2>1. \A x \in Statuses : x \in 100..599
    BY HttpAssumption
  <2>2. s \in 100..599
    BY <2>1
  <2> QED
    BY <2>2
<1>2. e.accepts \subseteq 200..299 /\ e.coded \in BOOLEAN /\ e.prefilled \in BOOLEAN
  BY EndpointFields
<1>3. ASSUME NEW code \in {0, 6, 7, 8}
      PROVE  /\ Failure(e, r, code) \in Results
             /\ Failure(e, r, code).kind = "error"
             /\ Independent(Failure(e, r, code))
  BY <1>2 DEF Failure, responseSnapshot, Results, Independent, NoResult
<1>4. CASE s >= 400 \/ ~AcceptsStatus(e, s) \/ b = "garbage" \/ (b = "nullData" /\ e.prefilled)
  <2>1. \E code \in {0, 6, 7, 8} : Outcome(e, r) = Failure(e, r, code)
    BY <1>1, <1>2, <1>4 DEF Outcome, AcceptsStatus
  <2>2. ~(s \in e.accepts /\ b = "value")
    BY <1>1, <1>2, <1>4 DEF AcceptsStatus
  <2> QED
    BY <1>3, <2>1, <2>2 DEF Faithful
<1>5. CASE s < 400 /\ AcceptsStatus(e, s) /\ b # "garbage" /\ ~(b = "nullData" /\ e.prefilled)
  <2>1. Outcome(e, r) = [NoResult EXCEPT !.kind = IF b = "value" THEN "value" ELSE "zero"]
    BY <1>1, <1>2, <1>5 DEF Outcome, AcceptsStatus
  <2>2. s \in e.accepts /\ b \in {"value", "nullData", "noData"}
    BY <1>1, <1>2, <1>5 DEF AcceptsStatus, Bodies
  <2> QED
    BY <2>1, <2>2 DEF Faithful, Independent, Results, NoResult
<1> QED
  BY <1>1, <1>2, <1>4, <1>5

-----------------------------------------------------------------------------
(* The pools and the other goroutines.                                     *)

\* A goroutine keeps its part if its own state and its objects stay.
LEMMA Undisturbed ==
  ASSUME NEW v \in Users, UserInv(v),
         pc'[v] = pc[v], call'[v] = call[v], req'[v] = req[v], resp'[v] = resp[v],
         seen'[v] = seen[v], result'[v] = result[v], headers' = headers,
         pc[v] # "idle" => wire'[req[v]] = wire[req[v]],
         pc[v] \notin {"idle", "acquired", "built"} => answer'[resp[v]] = answer[resp[v]]
  PROVE  UserInv(v)'
<1> USE DEF UserInv
<1>1. Holding(v)'
  BY DEF Holding
<1>2. Requested(v)'
  BY DEF Requested
<1>3. Answered(v)'
  BY DEF Answered
<1>4. Independent(result[v])'
  BY DEF Independent
<1> QED
  BY <1>1, <1>2, <1>3, <1>4

\* A request and a response are different things, and neither is missing.
LEMMA ObjectKinds ==
  /\ Requests \cap Responses = {}
  /\ Absent \notin Objects
  BY HttpAssumption DEF Objects

\* Two goroutines work on different objects.
LEMMA OwnObjects ==
  ASSUME HttpInv, NEW u \in Users, NEW v \in Users, u # v
  PROVE  /\ pc[u] # "idle" => req[u] \in Requests /\ req[v] # req[u]
         /\ pc[u] \notin {"idle", "acquired", "built"} => resp[u] \in Responses /\ resp[v] # resp[u]
<1>1. Holding(u) /\ HttpTypes /\ Owned
  BY DEF HttpInv, UserInv
<1>2. pc[u] # "idle" => req[u] \in Requests
  BY <1>1 DEF Holding, HttpTypes
<1>3. pc[u] \notin {"idle", "acquired", "built"} => resp[u] \in Responses
  BY <1>1 DEF Holding, HttpTypes
<1> QED
  BY <1>1, <1>2, <1>3 DEF Owned, Holds, Objects

\* Taking an object out of its pool.
LEMMA TakeObject ==
  ASSUME HttpTypes, Owned, NEW u \in Users, NEW o \in Objects, Acquire(o),
         \A v \in Users, x \in Objects : Holds(v, x)' <=> Holds(v, x) \/ (v = u /\ x = o)
  PROVE  /\ Owned' /\ free' \in [Objects -> {0, 1}]
         /\ \A v \in Users : ~Holds(v, o)
<1>1. /\ free \in [Objects -> {0, 1}] /\ free[o] = 1
      /\ free' = [free EXCEPT ![o] = 0]
  <2>1. free \in [Objects -> {0, 1}] /\ free[o] \in {0, 1}
    BY DEF HttpTypes
  <2>2. free[o] = 1 /\ free' = [free EXCEPT ![o] = free[o] - 1]
    BY <2>1 DEF Acquire
  <2> QED
    BY <2>1, <2>2
<1>2. \A v \in Users : ~Holds(v, o)
  BY <1>1 DEF Owned
<1>3. \A x \in Objects : free'[x] = IF x = o THEN 0 ELSE free[x]
  BY <1>1
<1>4. ASSUME NEW v \in Users, NEW x \in Objects, Holds(v, x)' PROVE free'[x] = 0
  BY <1>3, <1>4 DEF Owned
<1>5. ASSUME NEW x \in Objects, free'[x] = 0 PROVE \E v \in Users : Holds(v, x)'
  BY <1>3, <1>5 DEF Owned
<1>6. ASSUME NEW v \in Users, NEW w \in Users, NEW x \in Objects, Holds(v, x)', Holds(w, x)'
      PROVE  v = w
  BY <1>2, <1>6 DEF Owned
<1> QED
  BY <1>1, <1>2, <1>4, <1>5, <1>6 DEF Owned

-----------------------------------------------------------------------------
(* One lemma per action.                                                   *)

\* A call is refused, or its request is taken and names the chain.
LEMMA CallStep == ASSUME HttpInv, NEW u \in Users, Call(u) PROVE HttpInv'
<1> DEFINE refused(e) == /\ result' = [result EXCEPT ![u] = [NoResult EXCEPT
                               !.kind = "error", !.code = IF e.name = "Tx" THEN 9 ELSE 0]]
                         /\ UNCHANGED <<pc, call, poolVars, wire, seen, shared>>
           taken(e, c, r) ==
             /\ Acquire(r) /\ req' = [req EXCEPT ![u] = r]
             /\ wire' = [wire EXCEPT ![r] = [EmptyRequest EXCEPT !.chain = ChainOf(e, c, shared)]]
             /\ call' = [call EXCEPT ![u] = [e |-> e, c |-> c, q |-> shared]]
             /\ shared' = shared
             /\ seen' = [seen EXCEPT ![u] = [always |-> headers[c], ever |-> headers[c]]]
             /\ pc' = [pc EXCEPT ![u] = "acquired"]
             /\ UNCHANGED <<resp, result>>
<1>1. pc[u] = "idle" /\ UNCHANGED <<answer, headers>>
  BY DEF Call
<1>2. PICK e \in Endpoints, c \in Clients : refused(e) \/ \E r \in Requests : taken(e, c, r)
  BY DEF Call, AfterCall
<1>t. HttpTypes /\ Owned /\ \A v \in Users : UserInv(v)
  BY DEF HttpInv
<1>3. CASE refused(e)
  <2>1. UNCHANGED <<pc, call, req, resp, free, wire, seen, shared, answer, headers>>
    BY <1>1, <1>3 DEF poolVars
  <2>2. HttpTypes'
    <3>1. (IF e.name = "Tx" THEN 9 ELSE 0) \in 0..9
      OBVIOUS
    <3>2. [NoResult EXCEPT !.kind = "error", !.code = IF e.name = "Tx" THEN 9 ELSE 0] \in Results
      BY <3>1, ErrorResult
    <3>3. result' \in [Users -> Results]
      BY <1>t, <1>3, <3>2 DEF HttpTypes
    <3> QED
      BY <1>t, <2>1, <3>3 DEF HttpTypes
  <2>3. Owned'
    BY <1>t, <2>1 DEF Owned, Holds
  <2>4. \A v \in Users \ {u} : UserInv(v)'
    BY <1>t, <1>3, <2>1, Undisturbed DEF HttpTypes
  <2>5. result'[u].response = Absent
    BY <1>t, <1>3 DEF HttpTypes, NoResult
  <2>6. UserInv(u)'
    BY <1>1, <1>t, <2>1, <2>5 DEF UserInv, Holding, Requested, Answered, Independent
  <2> QED
    BY <2>2, <2>3, <2>4, <2>6 DEF HttpInv
<1>4. ASSUME NEW r \in Requests, taken(e, c, r) PROVE HttpInv'
  <2> DEFINE w == [EmptyRequest EXCEPT !.chain = ChainOf(e, c, shared)]
  <2>1. /\ ChainOf(e, c, shared) \in Chains \X Chains
        /\ e.chain # "none" => \A i \in 1..2 : ChainOf(e, c, shared)[i] \in {"caller", c}
    BY <1>t, ChainIsOwn DEF HttpTypes
  <2>2. w \in Frames /\ w.chain = ChainOf(e, c, shared)
    BY <2>1 DEF EmptyRequest, Frames
  <2>3. req[u] = Absent /\ resp[u] = Absent
    BY <1>1, <1>t DEF UserInv, Holding
  <2>4. \A v \in Users, x \in Objects : Holds(v, x)' <=> Holds(v, x) \/ (v = u /\ x = r)
    BY <1>t, <1>4, <2>3, ObjectKinds DEF HttpTypes, Holds
  <2>5. Owned' /\ free' \in [Objects -> {0, 1}] /\ \A v \in Users : ~Holds(v, r)
    BY <1>t, <1>4, <2>4, TakeObject DEF Objects
  <2>6. HttpTypes'
    <3>1. [e |-> e, c |-> c, q |-> shared] \in Contexts
      BY <1>t DEF HttpTypes, Contexts
    <3>2. [always |-> headers[c], ever |-> headers[c]] \in [always : SUBSET Keys, ever : SUBSET Keys]
      BY <1>t DEF HttpTypes
    <3> QED
      BY <1>1, <1>t, <1>4, <2>2, <2>5, <3>1, <3>2 DEF HttpTypes, Places
  <2>7. ASSUME NEW v \in Users, v # u PROVE UserInv(v)'
    <3>1. req[v] # r
      BY <2>5 DEF Holds
    <3>2. pc[v] # "idle" => wire'[req[v]] = wire[req[v]]
      BY <1>t, <1>4, <3>1 DEF HttpTypes
    <3> QED
      BY <1>1, <1>t, <1>4, <2>7, <3>2, Undisturbed DEF HttpTypes
  <2>8. UserInv(u)'
    <3>1. /\ pc'[u] = "acquired" /\ req'[u] = r /\ resp'[u] = Absent /\ wire'[r] = w
          /\ call'[u] = [e |-> e, c |-> c, q |-> shared]
          /\ seen'[u] = [always |-> headers[c], ever |-> headers[c]]
          /\ result'[u] = result[u] /\ headers' = headers
      BY <1>1, <1>t, <1>4, <2>3 DEF HttpTypes
    <3>2. Holding(u)'
      BY <1>t, <3>1, ObjectKinds DEF Holding, Contexts, HttpTypes, Objects
    <3>3. Requested(u)'
      BY <2>1, <2>2, <3>1 DEF Requested
    <3>4. Answered(u)' /\ Independent(result[u])'
      BY <1>t, <3>1 DEF Answered, UserInv, Independent
    <3> QED
      BY <3>2, <3>3, <3>4 DEF UserInv
  <2> QED
    BY <2>5, <2>6, <2>7, <2>8 DEF HttpInv
<1> QED
  BY <1>2, <1>3, <1>4

\* The headers are copied, then come the method and the signature.
LEMMA BuildStep == ASSUME HttpInv, NEW u \in Users, Build(u) PROVE HttpInv'
<1> DEFINE w == WithHeaders(call[u].e, wire[req[u]], headers[call[u].c])
<1>1. /\ pc[u] = "acquired" /\ pc' = [pc EXCEPT ![u] = "built"]
      /\ wire' = [wire EXCEPT ![req[u]] = w]
      /\ UNCHANGED <<call, req, resp, free, answer, shared, headers, seen, result>>
  BY DEF Build, poolVars
<1>2. HttpTypes /\ Owned /\ \A v \in Users : UserInv(v)
  BY DEF HttpInv
<1>3. req[u] \in Requests /\ resp[u] = Absent /\ call[u] \in Contexts
  BY <1>1, <1>2 DEF UserInv, Holding, HttpTypes
<1>4. call[u].e \in Endpoints /\ call[u].c \in Clients
  BY <1>3 DEF Contexts
<1>5. /\ w \in Frames /\ w.method = call[u].e.method /\ w.signature = call[u].e.signature
      /\ w.keys = headers[call[u].c] /\ w.chain = wire[req[u]].chain
  <2>1. wire[req[u]] \in Frames /\ headers[call[u].c] \in SUBSET Keys
    BY <1>2, <1>3, <1>4 DEF HttpTypes
  <2>2. call[u].e.method \in {"GET", "POST"} /\ call[u].e.signature \in BOOLEAN
    BY <1>4, EndpointFields
  <2> QED
    BY <2>1, <2>2 DEF WithHeaders, Frames
<1>6. HttpTypes'
  BY <1>1, <1>2, <1>5 DEF HttpTypes, Places
<1>7. Owned'
  BY <1>1, <1>2 DEF Owned, Holds
<1>8. ASSUME NEW v \in Users, v # u PROVE UserInv(v)'
  <2>1. pc'[v] = pc[v] /\ UserInv(v)
    BY <1>1, <1>2, <1>8 DEF HttpTypes
  <2>2. req[v] # req[u]
    BY <1>1, <1>8, OwnObjects
  <2>3. pc[v] # "idle" => wire'[req[v]] = wire[req[v]]
    BY <1>1, <1>2, <2>2 DEF HttpTypes
  <2> QED
    BY <1>1, <2>1, <2>3, Undisturbed
<1>9. UserInv(u)'
  <2>1. pc'[u] = "built" /\ wire'[req[u]] = w
    BY <1>1, <1>2, <1>3 DEF HttpTypes
  <2>2. Holding(u)'
    BY <1>1, <1>2, <2>1 DEF UserInv, Holding
  <2>3. Requested(u)'
    BY <1>1, <1>2, <1>5, <2>1 DEF UserInv, Requested
  <2>4. Answered(u)' /\ Independent(result[u])'
    BY <1>1, <1>2, <2>1 DEF UserInv, Answered, Independent
  <2> QED
    BY <2>2, <2>3, <2>4 DEF UserInv
<1> QED
  BY <1>6, <1>7, <1>8, <1>9 DEF HttpInv

\* An empty response is taken; the request stays as it is.
LEMMA SendStep == ASSUME HttpInv, NEW u \in Users, Send(u) PROVE HttpInv'
<1>1. /\ pc[u] = "built" /\ pc' = [pc EXCEPT ![u] = "sent"]
      /\ UNCHANGED <<call, req, wire, shared, headers, seen, result>>
  BY DEF Send
<1>2. PICK r \in Responses : /\ Acquire(r) /\ resp' = [resp EXCEPT ![u] = r]
                             /\ answer' = [answer EXCEPT ![r] = EmptyResponse]
  BY DEF Send
<1>3. HttpTypes /\ Owned /\ \A v \in Users : UserInv(v)
  BY DEF HttpInv
<1>4. req[u] \in Requests /\ resp[u] = Absent
  BY <1>1, <1>3 DEF UserInv, Holding, HttpTypes
<1>5. \A v \in Users, x \in Objects : Holds(v, x)' <=> Holds(v, x) \/ (v = u /\ x = r)
  BY <1>1, <1>2, <1>3, <1>4, ObjectKinds DEF HttpTypes, Holds
<1>6. Owned' /\ free' \in [Objects -> {0, 1}] /\ \A v \in Users : ~Holds(v, r)
  BY <1>2, <1>3, <1>5, TakeObject DEF Objects
<1>7. HttpTypes'
  <2>1. EmptyResponse \in Replies
    BY DEF EmptyResponse, Replies
  <2> QED
    BY <1>1, <1>2, <1>3, <1>6, <2>1 DEF HttpTypes, Places
<1>8. ASSUME NEW v \in Users, v # u PROVE UserInv(v)'
  <2>1. pc'[v] = pc[v] /\ resp'[v] = resp[v] /\ UserInv(v) /\ resp[v] # r
    BY <1>1, <1>2, <1>3, <1>6, <1>8 DEF HttpTypes, Holds
  <2>2. pc[v] \notin {"idle", "acquired", "built"} => answer'[resp[v]] = answer[resp[v]]
    BY <1>2, <1>3, <2>1 DEF HttpTypes
  <2> QED
    BY <1>1, <2>1, <2>2, Undisturbed
<1>9. UserInv(u)'
  <2>1. pc'[u] = "sent" /\ resp'[u] = r /\ answer'[r] = EmptyResponse
    BY <1>1, <1>2, <1>3 DEF HttpTypes
  <2>2. Holding(u)'
    BY <1>1, <1>3, <2>1, ObjectKinds DEF UserInv, Holding, Objects
  <2>3. Requested(u)'
    BY <1>1, <1>3, <2>1 DEF UserInv, Requested
  <2>4. Answered(u)' /\ Independent(result[u])'
    BY <1>1, <1>3, <2>1 DEF UserInv, Answered, Independent
  <2> QED
    BY <2>2, <2>3, <2>4 DEF UserInv
<1> QED
  BY <1>6, <1>7, <1>8, <1>9 DEF HttpInv

\* The node answers, or do fails and the empty response stays empty.
LEMMA ReceiveStep == ASSUME HttpInv, NEW u \in Users, Receive(u) PROVE HttpInv'
<1>1. /\ pc[u] = "sent"
      /\ UNCHANGED <<call, req, resp, free, wire, shared, headers, seen>>
  BY DEF Receive, poolVars
<1>2. HttpTypes /\ Owned /\ \A v \in Users : UserInv(v)
  BY DEF HttpInv
<1>3. resp[u] \in Responses
  BY <1>1, <1>2 DEF UserInv, Holding, HttpTypes
<1>4. Owned'
  BY <1>1, <1>2 DEF Owned, Holds
<1>5. ASSUME NEW s \in Statuses, NEW b \in Bodies,
             answer' = [answer EXCEPT ![resp[u]] = [status |-> s, body |-> b]],
             pc' = [pc EXCEPT ![u] = "answered"], UNCHANGED result
      PROVE  HttpInv'
  <2>1. HttpTypes'
    <3>1. [status |-> s, body |-> b] \in Replies
      BY DEF Replies
    <3> QED
      BY <1>1, <1>2, <1>5, <3>1 DEF HttpTypes, Places
  <2>2. ASSUME NEW v \in Users, v # u PROVE UserInv(v)'
    <3>1. pc'[v] = pc[v] /\ UserInv(v) /\ resp[v] # resp[u]
      BY <1>1, <1>2, <1>5, <2>2, OwnObjects DEF HttpTypes
    <3>2. pc[v] \notin {"idle", "acquired", "built"} => answer'[resp[v]] = answer[resp[v]]
      BY <1>2, <1>5, <3>1 DEF HttpTypes
    <3> QED
      BY <1>1, <1>5, <3>1, <3>2, Undisturbed
  <2>3. pc'[u] = "answered" /\ answer'[resp[u]] = [status |-> s, body |-> b]
    BY <1>2, <1>3, <1>5 DEF HttpTypes
  <2>4. Holding(u)'
    BY <1>1, <1>2, <2>3 DEF UserInv, Holding
  <2>5. Requested(u)' /\ Answered(u)' /\ Independent(result[u])'
    BY <1>1, <1>2, <1>5, <2>3 DEF UserInv, Requested, Answered, Independent
  <2> QED
    BY <1>4, <2>1, <2>2, <2>4, <2>5 DEF HttpInv, UserInv
<1>6. ASSUME NEW code \in 0..9,
             result' = [result EXCEPT ![u] = [NoResult EXCEPT !.kind = "error", !.code = code]],
             pc' = [pc EXCEPT ![u] = "returning"], UNCHANGED answer
      PROVE  HttpInv'
  <2> DEFINE x == [NoResult EXCEPT !.kind = "error", !.code = code]
  <2>1. x \in Results /\ x.kind = "error" /\ x.response = Absent
    BY ErrorResult
  <2> HIDE DEF x
  <2>2. HttpTypes'
    BY <1>1, <1>2, <1>6, <2>1 DEF HttpTypes, Places, x
  <2>3. ASSUME NEW v \in Users, v # u PROVE UserInv(v)'
    <3>1. pc'[v] = pc[v] /\ UserInv(v) /\ result'[v] = result[v]
      BY <1>2, <1>6, <2>3 DEF HttpTypes
    <3> QED
      BY <1>1, <1>6, <3>1, Undisturbed
  <2>4. pc'[u] = "returning" /\ result'[u] = x /\ answer'[resp[u]] = EmptyResponse
    BY <1>1, <1>2, <1>6 DEF HttpTypes, UserInv, Answered, x
  <2>5. Holding(u)'
    BY <1>1, <1>2, <2>4 DEF UserInv, Holding
  <2>6. Faithful(call[u].e, EmptyResponse, x)
    BY <2>1 DEF Faithful, EmptyResponse
  <2>7. Requested(u)' /\ Answered(u)' /\ Independent(result[u])'
    BY <1>1, <2>1, <2>4, <2>6 DEF Requested, Answered, Independent
  <2> QED
    BY <1>4, <2>2, <2>3, <2>5, <2>7 DEF HttpInv, UserInv
<1>7. (IF call[u].e.coded THEN 5 ELSE 0) \in 0..9
  OBVIOUS
<1> QED
  BY <1>5, <1>6, <1>7 DEF Receive

\* The result is made of the answer to this very request.
LEMMA DecodeStep == ASSUME HttpInv, NEW u \in Users, Decode(u) PROVE HttpInv'
<1>1. /\ pc[u] = "answered" /\ pc' = [pc EXCEPT ![u] = "returning"]
      /\ result' = [result EXCEPT ![u] = Outcome(call[u].e, resp[u])]
      /\ UNCHANGED <<call, req, resp, free, wire, answer, shared, headers, seen>>
  BY DEF Decode, poolVars
<1>2. HttpTypes /\ Owned /\ \A v \in Users : UserInv(v)
  BY DEF HttpInv
<1>3. resp[u] \in Responses /\ call[u].e \in Endpoints
  BY <1>1, <1>2 DEF UserInv, Holding, HttpTypes, Contexts
<1>4. /\ Outcome(call[u].e, resp[u]) \in Results
      /\ Faithful(call[u].e, answer[resp[u]], Outcome(call[u].e, resp[u]))
      /\ Independent(Outcome(call[u].e, resp[u]))
  BY <1>1, <1>2, <1>3, OutcomeFaithful DEF UserInv, Answered
<1>5. HttpTypes'
  BY <1>1, <1>2, <1>4 DEF HttpTypes, Places
<1>6. Owned'
  BY <1>1, <1>2 DEF Owned, Holds
<1>7. ASSUME NEW v \in Users, v # u PROVE UserInv(v)'
  <2>1. pc'[v] = pc[v] /\ UserInv(v) /\ result'[v] = result[v]
    BY <1>1, <1>2, <1>7 DEF HttpTypes
  <2> QED
    BY <1>1, <2>1, Undisturbed
<1>8. UserInv(u)'
  <2>1. pc'[u] = "returning" /\ result'[u] = Outcome(call[u].e, resp[u])
    BY <1>1, <1>2 DEF HttpTypes
  <2>2. Holding(u)'
    BY <1>1, <1>2, <2>1 DEF UserInv, Holding
  <2>3. Requested(u)' /\ Answered(u)' /\ Independent(result[u])'
    BY <1>1, <1>4, <2>1 DEF Requested, Answered, Independent
  <2> QED
    BY <2>2, <2>3 DEF UserInv
<1> QED
  BY <1>5, <1>6, <1>7, <1>8 DEF HttpInv

\* Both objects go back, once each.
LEMMA FinishStep == ASSUME HttpInv, NEW u \in Users, Finish(u) PROVE HttpInv'
<1>1. /\ pc[u] = "returning" /\ pc' = [pc EXCEPT ![u] = "idle"]
      /\ req' = [req EXCEPT ![u] = Absent] /\ resp' = [resp EXCEPT ![u] = Absent]
      /\ wire' = [wire EXCEPT ![req[u]] = EmptyRequest]
      /\ answer' = [answer EXCEPT ![resp[u]] = EmptyResponse]
      /\ call' = [call EXCEPT ![u] = Absent] /\ seen' = [seen EXCEPT ![u] = NoKeys]
      /\ UNCHANGED <<shared, headers, result>>
  BY DEF Finish
<1>2. HttpTypes /\ Owned /\ \A v \in Users : UserInv(v)
  BY DEF HttpInv
<1>3. req[u] \in Requests /\ resp[u] \in Responses
  BY <1>1, <1>2 DEF UserInv, Holding, HttpTypes
<1>4. \A v \in Users, x \in Objects : Holds(v, x)' <=> Holds(v, x) /\ v # u
  BY <1>1, <1>2, ObjectKinds DEF HttpTypes, Holds
<1>5. free' \in [Objects -> {0, 1}] /\ \A x \in Objects : free'[x] = IF Holds(u, x) THEN 1 ELSE free[x]
  <2>1. free' = [x \in Objects |-> free[x] + Releases(u, x)]
    BY <1>2 DEF Finish, HttpTypes
  <2>2. ASSUME NEW x \in Objects PROVE free[x] + Releases(u, x) = IF Holds(u, x) THEN 1 ELSE free[x]
    <3>1. free[x] \in {0, 1} /\ (Holds(u, x) => free[x] = 0)
      BY <1>2 DEF HttpTypes, Owned
    <3> QED
      BY <3>1 DEF Releases, Holds
  <2>3. \A x \in Objects : free'[x] = IF Holds(u, x) THEN 1 ELSE free[x]
    BY <2>1, <2>2
  <2> QED
    BY <1>2, <2>1, <2>3 DEF HttpTypes
<1>6. Owned'
  <2>1. ASSUME NEW v \in Users, NEW x \in Objects, Holds(v, x)' PROVE free'[x] = 0
    BY <1>2, <1>4, <1>5, <2>1 DEF Owned
  <2>2. ASSUME NEW x \in Objects, free'[x] = 0 PROVE \E v \in Users : Holds(v, x)'
    BY <1>2, <1>4, <1>5, <2>2 DEF Owned
  <2>3. ASSUME NEW v \in Users, NEW w \in Users, NEW x \in Objects, Holds(v, x)', Holds(w, x)'
        PROVE  v = w
    BY <1>2, <1>4, <2>3 DEF Owned
  <2> QED
    BY <2>1, <2>2, <2>3 DEF Owned
<1>7. HttpTypes'
  <2>1. EmptyRequest \in Frames
    BY DEF EmptyRequest, Frames, Chains
  <2>2. EmptyResponse \in Replies
    BY DEF EmptyResponse, Replies
  <2>3. NoKeys \in [always : SUBSET Keys, ever : SUBSET Keys]
    BY DEF NoKeys
  <2> QED
    BY <1>1, <1>2, <1>5, <2>1, <2>2, <2>3 DEF HttpTypes, Places
<1>8. ASSUME NEW v \in Users, v # u PROVE UserInv(v)'
  <2>1. /\ pc'[v] = pc[v] /\ call'[v] = call[v] /\ req'[v] = req[v] /\ resp'[v] = resp[v]
        /\ seen'[v] = seen[v] /\ UserInv(v)
    BY <1>1, <1>2, <1>8 DEF HttpTypes
  <2>2. req[v] # req[u] /\ resp[v] # resp[u]
    BY <1>1, <1>8, OwnObjects
  <2>3. pc[v] # "idle" => wire'[req[v]] = wire[req[v]]
    BY <1>1, <1>2, <2>2 DEF HttpTypes
  <2>4. pc[v] \notin {"idle", "acquired", "built"} => answer'[resp[v]] = answer[resp[v]]
    BY <1>1, <1>2, <2>2 DEF HttpTypes
  <2> QED
    BY <1>1, <2>1, <2>3, <2>4, Undisturbed
<1>9. UserInv(u)'
  <2>1. pc'[u] = "idle" /\ req'[u] = Absent /\ resp'[u] = Absent /\ result'[u] = result[u]
    BY <1>1, <1>2 DEF HttpTypes
  <2> QED
    BY <1>2, <2>1 DEF UserInv, Holding, Requested, Answered, Independent
<1> QED
  BY <1>6, <1>7, <1>8, <1>9 DEF HttpInv

\* A header is set or removed: only calls that have not copied them yet notice.
LEMMA EditStep == ASSUME HttpInv, NEW c \in Clients, EditHeader(c) PROVE HttpInv'
<1>1. UNCHANGED <<pc, call, req, resp, free, wire, answer, shared, result>>
  BY DEF EditHeader, poolVars
<1>2. HttpTypes /\ Owned /\ \A v \in Users : UserInv(v)
  BY DEF HttpInv
<1>3. PICK k \in Keys : headers' = [headers EXCEPT ![c] = IF k \in @ THEN @ \ {k} ELSE @ \cup {k}]
  BY DEF EditHeader
<1>4. headers' \in [Clients -> SUBSET Keys] /\ \A d \in Clients : d # c => headers'[d] = headers[d]
  BY <1>2, <1>3 DEF HttpTypes
<1>5. seen' = [u \in Users |->
          IF pc[u] = "acquired" /\ call[u].c = c
            THEN [always |-> seen[u].always \cap headers'[c], ever |-> seen[u].ever \cup headers'[c]]
            ELSE seen[u]]
  BY DEF EditHeader
<1>6. HttpTypes'
  <2>1. ASSUME NEW u \in Users PROVE seen'[u] \in [always : SUBSET Keys, ever : SUBSET Keys]
    <3>1. seen[u] \in [always : SUBSET Keys, ever : SUBSET Keys] /\ headers'[c] \in SUBSET Keys
      BY <1>2, <1>4 DEF HttpTypes
    <3> QED
      BY <1>5, <3>1
  <2> QED
    BY <1>1, <1>2, <1>4, <1>5, <2>1 DEF HttpTypes
<1>7. Owned'
  BY <1>1, <1>2 DEF Owned, Holds
<1>8. ASSUME NEW u \in Users PROVE UserInv(u)'
  <2>1. Holding(u)' /\ Answered(u)' /\ Independent(result[u])'
    BY <1>1, <1>2 DEF UserInv, Holding, Answered, Independent
  <2>2. Requested(u)'
    <3>1. CASE pc[u] = "acquired"
      <4>1. call[u].c \in Clients /\ Requested(u)
        BY <1>2, <3>1 DEF UserInv, Holding, Contexts
      <4>2. CASE call[u].c = c
        <5>1. /\ seen'[u].always = seen[u].always \cap headers'[c]
              /\ seen'[u].ever = seen[u].ever \cup headers'[c]
          BY <1>5, <3>1, <4>2
        <5> QED
          BY <1>1, <3>1, <4>1, <4>2, <5>1 DEF Requested
      <4>3. CASE call[u].c # c
        <5>1. seen'[u] = seen[u] /\ headers'[call[u].c] = headers[call[u].c]
          BY <1>4, <1>5, <4>1, <4>3
        <5> QED
          BY <1>1, <3>1, <4>1, <5>1 DEF Requested
      <4> QED
        BY <4>2, <4>3
    <3>2. CASE pc[u] # "acquired"
      <4>1. seen'[u] = seen[u] /\ Requested(u)
        BY <1>2, <1>5, <3>2 DEF UserInv
      <4> QED
        BY <1>1, <3>2, <4>1 DEF Requested
    <3> QED
      BY <3>1, <3>2
  <2> QED
    BY <2>1, <2>2 DEF UserInv
<1> QED
  BY <1>6, <1>7, <1>8 DEF HttpInv

-----------------------------------------------------------------------------
(* The theorems.                                                           *)

\* The invariant holds of every reachable state.
THEOREM HttpInvariance == Spec => []HttpInv
<1>1. Init => HttpInv
  <2> SUFFICES ASSUME Init PROVE HttpInv
    OBVIOUS
  <2>1. EmptyRequest \in Frames
    BY DEF EmptyRequest, Frames, Chains
  <2>2. EmptyResponse \in Replies
    BY DEF EmptyResponse, Replies
  <2>3. NoKeys \in [always : SUBSET Keys, ever : SUBSET Keys]
    BY DEF NoKeys
  <2>4. NoResult \in Results
    BY DEF NoResult, Results
  <2>5. HttpTypes
    BY <2>1, <2>2, <2>3, <2>4 DEF Init, HttpTypes, Objects, Places
  <2>6. Owned
    BY ObjectKinds DEF Init, Owned, Holds, Objects
  <2>7. \A u \in Users : UserInv(u)
    BY DEF Init, UserInv, Holding, Requested, Answered, Independent, NoResult
  <2> QED
    BY <2>5, <2>6, <2>7 DEF HttpInv
<1>2. HttpInv /\ [Next]_vars => HttpInv'
  <2> SUFFICES ASSUME HttpInv, [Next]_vars PROVE HttpInv'
    OBVIOUS
  <2>1. CASE UNCHANGED vars
    <3>1. UNCHANGED <<pc, call, req, resp, free, wire, answer, shared, headers, seen, result>>
      BY <2>1 DEF vars, poolVars
    <3>2. HttpTypes' /\ Owned'
      BY <3>1 DEF HttpInv, HttpTypes, Owned, Holds
    <3>3. \A u \in Users : UserInv(u)'
      BY <3>1, Undisturbed DEF HttpInv
    <3> QED
      BY <3>2, <3>3 DEF HttpInv
  <2> QED
    BY <2>1, CallStep, BuildStep, SendStep, ReceiveStep, DecodeStep, FinishStep, EditStep
    DEF Next, Step
<1> QED
  BY <1>1, <1>2, PTL DEF Spec

\* A pooled object is held by one call or lies in its pool once, on every path
\* through an endpoint, for any number of calls (the deferred releases).
THEOREM PoolsSound == Spec => []PoolSound
<1>1. HttpInv => PoolSound
  <2> SUFFICES ASSUME HttpInv, NEW o \in Objects
               PROVE  free[o] + Cardinality({u \in Users : Holds(u, o)}) = 1
    BY DEF PoolSound, Objects, Holds
  <2> DEFINE S == {u \in Users : Holds(u, o)}
  <2>1. free[o] \in {0, 1} /\ Owned
    BY DEF HttpInv, HttpTypes
  <2>2. CASE free[o] = 0
    <3>1. PICK u \in Users : Holds(u, o)
      BY <2>1, <2>2 DEF Owned
    <3>2. S = {u}
      BY <2>1, <3>1 DEF Owned
    <3>3. Cardinality(S) = 1
      BY <3>2, FS_Singleton
    <3> QED
      BY <2>2, <3>3
  <2>3. CASE free[o] = 1
    <3>1. S = {}
      BY <2>1, <2>3 DEF Owned
    <3>2. Cardinality(S) = 0
      BY <3>1, FS_EmptySet
    <3> QED
      BY <2>3, <3>2
  <2> QED
    BY <2>1, <2>2, <2>3
<1> QED
  BY <1>1, HttpInvariance, PTL

\* What goes to the node has the call's own method, signature and headers,
\* however the headers change meanwhile (copyHeaders).
THEOREM RequestsAsBuilt == Spec => []SentAsBuilt
<1>1. HttpInv => SentAsBuilt
  BY DEF HttpInv, UserInv, Requested, SentAsBuilt
<1> QED
  BY <1>1, HttpInvariance, PTL

\* The name and the version of a request's chain are each the caller's or those
\* of its own client, for any number of clients that share one Search value
\* (TxSearch, TxSummary).
THEOREM ChainsOwn == Spec => []OwnChain
<1>1. HttpInv => OwnChain
  BY DEF HttpInv, UserInv, Requested, OwnChain
<1> QED
  BY <1>1, HttpInvariance, PTL

\* A call returns what the node answered to its own request, whatever the status
\* and the body (status checks of the endpoints).
THEOREM AnswersFaithful == Spec => []AnswerFaithful
<1>1. HttpInv => AnswerFaithful
  BY DEF HttpInv, UserInv, Answered, Faithful, AnswerFaithful
<1> QED
  BY <1>1, HttpInvariance, PTL

\* A returned error keeps showing the status it was made of, however often the
\* response object is used again (responseSnapshot).
THEOREM ErrorsStable == Spec => []StableError
<1>1. HttpInv => StableError
  <2> SUFFICES ASSUME HttpInv, NEW u \in Users, result[u].response # Absent
               PROVE  /\ result[u].response \notin Responses
                      /\ result[u].response = result[u].status
    BY DEF StableError
  <2>1. result[u] \in Results /\ Independent(result[u])
    BY DEF HttpInv, HttpTypes, UserInv
  <2>2. result[u].response \in Statuses
    BY <2>1 DEF Results
  <2>3. Statuses \cap Responses = {}
    BY HttpAssumption
  <2> QED
    BY <2>1, <2>2, <2>3 DEF Independent
<1> QED
  BY <1>1, HttpInvariance, PTL
=============================================================================
