------------------------------- MODULE Client -------------------------------
(***************************************************************************)
(* State shared by every part of the client struct (client.go, type        *)
(* client): the goroutines of the application that call the API, the       *)
(* session pointer, the contexts, and the three locks.                     *)
(*                                                                         *)
(* A critical section that never blocks is one atomic step, so a lock is   *)
(* represented only where a goroutine keeps it across steps or waits for   *)
(* it.  c.mut and c.httpMu are sync.RWMutexes: a goroutine inside Lock()   *)
(* announces itself, which keeps new readers out, and then waits for the   *)
(* readers that are still inside.                                          *)
(***************************************************************************)
EXTENDS Integers, FiniteSets, Sequences

CONSTANTS
    Callers,      \* goroutines of the application
    Calls,        \* the API calls they make in this instance
    MaxCalls,     \* bound: how many calls they make altogether
    MaxSessions,  \* bound: how many sessions Start may create
    None          \* no goroutine, no signature, no type filter

Sessions == 1..MaxSessions
Nil == 0          \* a nil *wsSession

ASSUME ClientAssumption ==
    /\ MaxCalls \in Nat
    /\ MaxSessions \in Nat \ {0}
    /\ IsFiniteSet(Callers) /\ \A t \in Callers : t \notin Sessions
    /\ None \notin Callers \cup Sessions

VARIABLES
    pc,           \* where each caller is; "idle" between calls
    mine,         \* local s of a Write or Stop in progress, else Nil
    calls,        \* calls the application will still make
    session,      \* c.session, Nil or the number of a session
    started,      \* sessions created so far
    cancelled,    \* cancelled[s]: s.cancel() has been called
    rootDone,     \* the context given to NewClientContext is done
    done,         \* done[s]: channel s.done is closed
    lifecycle,    \* holder of c.lifecycle, or None
    mutWaiter,    \* goroutine inside c.mut.Lock() or past it, or None
    httpWaiter    \* goroutine inside c.httpMu.Lock() or past it, or None

callVars == <<pc, mine, calls>>
ctxVars  == <<session, started, cancelled, rootDone, done>>
lockVars == <<lifecycle, mutWaiter, httpWaiter>>
clientVars == <<callVars, ctxVars, lockVars>>

\* Callers that keep c.mut.RLock() across steps: only Write does.
MutReaders == {t \in Callers : pc[t] \in {"WriteCas", "WriteEnqueue"}}

\* Callers inside client.do, which holds c.httpMu.RLock() around the request.
HttpReaders == {t \in Callers : pc[t] = "Http"}

\* RLock returns only while no goroutine is inside Lock.
CanRLock == mutWaiter = None

\* Goroutine g enters Lock; from here on new readers wait.
LockMut(g) == mutWaiter = None /\ mutWaiter' = g

\* Goroutine g holds the write lock once the last reader has left.
MutHeld(g) == mutWaiter = g /\ MutReaders = {}

\* s.ctx.Err() # nil: the session's own cancel or that of the parent context.
ctxErr(s) == cancelled[s] \/ rootDone

\* Caller t leaves the API call it is in.
Return(t) == pc' = [pc EXCEPT ![t] = "idle"]

\* Caller t, between calls, begins operation op in state `at`.
Begin(t, op, at) ==
    /\ pc[t] = "idle" /\ op \in Calls /\ calls > 0
    /\ calls' = calls - 1
    /\ pc' = [pc EXCEPT ![t] = at]

PcStates == {"idle", "Start", "Stop", "StopWait", "StopClear", "StopHttp",
             "Subscribe", "Unsubscribe", "WithMode", "WithWSAuthority",
             "AddCallback", "WithProxy", "HttpSend", "Http", "HttpLog",
             "WriteCas", "WriteEnqueue"}

ClientTypeOK ==
    /\ pc \in [Callers -> PcStates]
    /\ mine \in [Callers -> Sessions \cup {Nil}]
    /\ calls \in 0..MaxCalls
    /\ session \in Sessions \cup {Nil}
    /\ started \in Sessions \cup {0}
    /\ cancelled \in [Sessions -> BOOLEAN]
    /\ rootDone \in BOOLEAN
    /\ done \in [Sessions -> BOOLEAN]
    /\ lifecycle \in Callers \cup {None}
    /\ mutWaiter \in Callers \cup Sessions \cup {None}
    /\ httpWaiter \in Callers \cup {None}

ClientInit ==
    /\ pc = [t \in Callers |-> "idle"]
    /\ mine = [t \in Callers |-> Nil]
    /\ calls = MaxCalls
    /\ session = Nil
    /\ started = 0
    /\ cancelled = [s \in Sessions |-> FALSE]
    /\ rootDone = FALSE
    /\ done = [s \in Sessions |-> FALSE]
    /\ lifecycle = None
    /\ mutWaiter = None
    /\ httpWaiter = None
=============================================================================
