------------------------------ MODULE Session -------------------------------
(***************************************************************************)
(* The websocket client as a whole (websocket.go): Start and Stop,         *)
(* runSession with its dial, serve and back-off loop, the reader of a      *)
(* connection, and every API call that shares a lock with them.  The       *)
(* queue, the subscriptions and the callbacks are the modules extended     *)
(* here; each action below conjoins their part with its own.               *)
(***************************************************************************)
EXTENDS SendQueue, Subscriptions, Callbacks, Envelopes

CONSTANTS
    Incoming,   \* the text messages the node sends in this instance
    MaxDelay    \* longest back-off in units of the shortest: 250 x 100 ms

ASSUME SessionAssumption ==
    /\ Incoming \subseteq Envelope
    /\ MaxDelay \in Nat \ {0}

VARIABLES
    run,       \* run[s]: where runSession(s) is
    rd,        \* rd[s]: where the reader goroutine of the connection is
    conn,      \* conn[s]: "none", "open" or "closed" by this side
    readDone,  \* readDone[s]: error in the channel, or "none"
    err,       \* err[s]: local err of runSession
    delay,     \* delay[s]: local delay of runSession
    target,    \* target[s]: session captured by the reader on a rejected listen
    signer     \* an authority signer is configured

loopVars == <<run, err, delay>>
connVars == <<rd, conn, readDone, target>>
sessionVars == <<loopVars, connVars, signer>>
vars == <<clientVars, queueVars, subVars, callbackVars, sessionVars>>

\* Positions of runSession inside serveConnection once the reader exists.
Serving == {"check", "snapshot", "unsub", "sub", "select", "write"}
RunStates == {"none", "top", "retrievers", "retrieve", "sign", "dial", "serve"} \cup Serving
             \cup {"join", "failed", "report", "errors", "sleep", "cancel", "drain", "ended"}
ReadStates == {"none", "read", "listen", "error", "reject", "exited"}

\* runSession(s) has been spawned and has not closed s.done yet.
Live(s) == run[s] \notin {"none", "ended"}
Reading(s) == rd[s] \in {"read", "listen", "error", "reject"}

-----------------------------------------------------------------------------
(* API calls.                                                              *)

\* Calls whose body is one critical section under c.mut.Lock().
LockCall(t) ==
    /\ \E op \in {"Subscribe", "Unsubscribe", "WithMode", "WithWSAuthority", "AddCallback"} :
          Begin(t, op, op)
    /\ LockMut(t)
    /\ UNCHANGED <<mine, ctxVars, lifecycle, httpWaiter, queueVars, subVars,
                   callbackVars, sessionVars>>

\* Start and Stop take c.lifecycle first.
LifecycleCall(t) ==
    /\ \/ Begin(t, "Start", "Start") /\ started < MaxSessions
       \/ Begin(t, "Stop", "Stop")
    /\ lifecycle = None /\ lifecycle' = t
    /\ UNCHANGED <<mine, ctxVars, mutWaiter, httpWaiter, queueVars, subVars,
                   callbackVars, sessionVars>>

\* c.mut.Lock() inside Start, Stop and, with c.httpMu already held, WithProxy.
LockInCall(t) ==
    /\ \/ pc[t] \in {"Start", "Stop", "StopClear"}
       \/ pc[t] = "WithProxy" /\ HttpReaders = {}
    /\ LockMut(t)
    /\ UNCHANGED <<callVars, ctxVars, lifecycle, httpWaiter, queueVars, subVars,
                   callbackVars, sessionVars>>

\* Start refuses while the previous session has not closed its done channel.
RefusedUnlessCancelled == session # Nil /\ ~cancelled[session]
AlreadyStarted == session # Nil /\ ~done[session]

Start(t) ==
    /\ pc[t] = "Start" /\ MutHeld(t)
    /\ mutWaiter' = None /\ lifecycle' = None /\ Return(t)
    /\ IF AlreadyStarted \/ rootDone
         THEN UNCHANGED <<session, started, run>>
         ELSE /\ started' = started + 1
              /\ session' = started + 1
              /\ run' = [run EXCEPT ![started + 1] = "top"]
    /\ UNCHANGED <<mine, calls, cancelled, rootDone, done, httpWaiter, queueVars,
                   subVars, callbackVars, err, delay, connVars, signer>>

\* Stop without a session returns ErrNotStarted; otherwise it cancels it.
StopCancel(t) ==
    /\ pc[t] = "Stop" /\ MutHeld(t)
    /\ mutWaiter' = None
    /\ \/ /\ session = Nil
          /\ lifecycle' = None /\ Return(t)
          /\ UNCHANGED <<mine, cancelled>>
       \/ /\ session # Nil
          /\ cancelled' = [cancelled EXCEPT ![session] = TRUE]
          /\ mine' = [mine EXCEPT ![t] = session]
          /\ pc' = [pc EXCEPT ![t] = "StopWait"]
          /\ UNCHANGED lifecycle
    /\ UNCHANGED <<calls, session, started, rootDone, done, httpWaiter, queueVars,
                   subVars, callbackVars, sessionVars>>

\* <-s.done, the only wait of Stop; c.mut is not held.
StopWaitSkipped(t) == TRUE
StopMayGoOn(t) == done[mine[t]]

StopWait(t) ==
    /\ pc[t] = "StopWait"
    /\ StopMayGoOn(t)
    /\ pc' = [pc EXCEPT ![t] = "StopClear"]
    /\ UNCHANGED <<mine, calls, ctxVars, lockVars, queueVars, subVars, callbackVars,
                   sessionVars>>

\* The second critical section of Stop.
StopClearKeepsMut(t) ==
    /\ pc[t] = "StopClear" /\ MutHeld(t)
    /\ session' = Nil
    /\ ClearDesired
    /\ mine' = [mine EXCEPT ![t] = Nil]
    /\ pc' = [pc EXCEPT ![t] = "StopHttp"]
    /\ UNCHANGED <<calls, started, cancelled, rootDone, done, lockVars,
                   queueVars, notify, syncVars, callbackVars, sessionVars>>

StopClear(t) ==
    /\ pc[t] = "StopClear" /\ MutHeld(t)
    /\ mutWaiter' = None
    /\ session' = Nil
    /\ ClearDesired
    /\ mine' = [mine EXCEPT ![t] = Nil]
    /\ pc' = [pc EXCEPT ![t] = "StopHttp"]
    /\ UNCHANGED <<calls, started, cancelled, rootDone, done, lifecycle, httpWaiter,
                   queueVars, notify, syncVars, callbackVars, sessionVars>>

\* c.httpMu.Lock() in Stop, and at the beginning of WithProxy.
LockHttp(t) ==
    /\ pc[t] = "StopHttp"
    /\ httpWaiter = None /\ httpWaiter' = t
    /\ UNCHANGED <<callVars, ctxVars, lifecycle, mutWaiter, queueVars, subVars,
                   callbackVars, sessionVars>>

WithProxyCall(t) ==
    /\ Begin(t, "WithProxy", "WithProxy")
    /\ httpWaiter = None /\ httpWaiter' = t
    /\ UNCHANGED <<mine, ctxVars, lifecycle, mutWaiter, queueVars, subVars,
                   callbackVars, sessionVars>>

\* Stop closes the idle connections under the lock and returns.
StopReturn(t) ==
    /\ pc[t] = "StopHttp" /\ httpWaiter = t /\ HttpReaders = {}
    /\ httpWaiter' = None /\ lifecycle' = None /\ Return(t)
    /\ UNCHANGED <<mine, calls, ctxVars, mutWaiter, queueVars, subVars, callbackVars,
                   sessionVars>>

\* WithProxy changes the dialers (not modelled) holding both locks.
WithProxy(t) ==
    /\ pc[t] = "WithProxy" /\ httpWaiter = t /\ MutHeld(t)
    /\ httpWaiter' = None /\ mutWaiter' = None /\ Return(t)
    /\ UNCHANGED <<mine, calls, ctxVars, lifecycle, queueVars, subVars, callbackVars,
                   sessionVars>>

\* An HTTP request copies the headers under c.mut.RLock() ...
HttpCall(t) ==
    /\ Begin(t, "Http", "HttpSend")
    /\ CanRLock
    /\ UNCHANGED <<mine, ctxVars, lockVars, queueVars, subVars, callbackVars, sessionVars>>

\* ... sends itself under c.httpMu.RLock() ...
HttpDo(t) ==
    /\ pc[t] = "HttpSend" /\ httpWaiter = None
    /\ pc' = [pc EXCEPT ![t] = "Http"]

\* ... and when do has returned it either returns or, on most failures,
HttpReturn(t) ==
    /\ pc[t] = "Http"
    /\ Return(t) \/ pc' = [pc EXCEPT ![t] = "HttpLog"]

\* logs the error, which takes c.mut.RLock() once more.
HttpLog(t) ==
    /\ pc[t] = "HttpLog" /\ CanRLock
    /\ Return(t)

HttpStep(t) ==
    /\ HttpDo(t) \/ HttpReturn(t) \/ HttpLog(t)
    /\ UNCHANGED <<mine, calls, ctxVars, lockVars, queueVars, subVars, callbackVars,
                   sessionVars>>

\* A nil signer disables the authority header of the next dial.
WithWSAuthority(t) ==
    /\ pc[t] = "WithWSAuthority" /\ MutHeld(t)
    /\ mutWaiter' = None /\ Return(t)
    /\ signer' \in BOOLEAN
    /\ UNCHANGED <<mine, calls, ctxVars, lifecycle, httpWaiter, queueVars, subVars,
                   callbackVars, loopVars, connVars>>

\* Write, or WSQuery, which is Write of an encoded message.
WriteBegin(t) == WriteCall(t) /\ UNCHANGED <<subVars, callbackVars, sessionVars>>

WriteStep(t) ==
    /\ WriteCas(t) \/ WriteEnqueue(t) \/ WriteCancelled(t) \/ WriteTimeout(t)
    /\ UNCHANGED <<subVars, callbackVars, sessionVars>>

SubscriptionStep(t) ==
    /\ Subscribe(t) \/ Unsubscribe(t) \/ WithMode(t)
    /\ UNCHANGED <<queueVars, callbackVars, sessionVars>>

AddCallbackStep(t) ==
    /\ AddCallback(t)
    /\ UNCHANGED <<queueVars, subVars, sessionVars>>

\* The application cancels the context it gave to NewClientContext.
CancelContext ==
    /\ "CancelContext" \in Calls /\ ~rootDone
    /\ rootDone' = TRUE
    /\ UNCHANGED <<callVars, session, started, cancelled, done, lockVars, queueVars,
                   subVars, callbackVars, sessionVars>>

-----------------------------------------------------------------------------
(* runSession.                                                             *)

At(s, from, to) == run[s] = from /\ run' = [run EXCEPT ![s] = to]

\* The condition of the loop.
RunTop(s) ==
    /\ At(s, "top", IF ctxErr(s) THEN "cancel" ELSE "retrievers")
    /\ UNCHANGED <<clientVars, queueVars, subVars, callbackVars, err, delay, connVars, signer>>

\* callRetrievers and callErrorCallbacks; their dispatches follow.
RunCallbacks(s) ==
    /\ \/ At(s, "retrievers", "retrieve") /\ CopyCallbacks(<<"run", s>>, "retrieve")
       \/ At(s, "report", "errors") /\ CopyCallbacks(<<"run", s>>, "error")
    /\ UNCHANGED <<clientVars, queueVars, subVars, err, delay, connVars, signer>>

\* The configuration is copied under RLock, the signer among it.
RunConfigure(s) ==
    /\ Dispatched(<<"run", s>>) /\ CanRLock
    /\ At(s, "retrieve", IF signer THEN "sign" ELSE "dial")
    /\ UNCHANGED <<clientVars, queueVars, subVars, callbackVars, err, delay, connVars, signer>>

\* CreateWSAuthorityV3 with the caller's signer; a cancelled context fails it.
RunSign(s) ==
    /\ \/ ~ctxErr(s) /\ At(s, "sign", "dial") /\ UNCHANGED err
       \/ At(s, "sign", "failed") /\ err' = [err EXCEPT ![s] = "net"]
    /\ UNCHANGED <<clientVars, queueVars, subVars, callbackVars, delay, connVars, signer>>

\* dialConnection; a success resets the back-off.
RunDial(s) ==
    /\ \/ /\ ~ctxErr(s) /\ At(s, "dial", "serve")
          /\ conn' = [conn EXCEPT ![s] = "open"]
          /\ delay' = [delay EXCEPT ![s] = 1]
          /\ UNCHANGED err
       \/ /\ At(s, "dial", "failed")
          /\ err' = [err EXCEPT ![s] = "net"]
          /\ UNCHANGED <<conn, delay>>
    /\ UNCHANGED <<clientVars, queueVars, subVars, callbackVars, rd, readDone, target, signer>>

\* context.AfterFunc: cancellation closes the socket from its own goroutine.
CloseOnCancel(s) ==
    /\ conn[s] = "open" /\ ctxErr(s)
    /\ conn' = [conn EXCEPT ![s] = "closed"]
    /\ UNCHANGED <<clientVars, queueVars, subVars, callbackVars, loopVars, rd, readDone,
                   target, signer>>

\* serveConnection returns before it spawns the reader if the deadline cannot
\* be set on a socket that is already closed.
RunServe(s) ==
    /\ \/ /\ conn[s] = "closed" /\ At(s, "serve", "failed")
          /\ err' = [err EXCEPT ![s] = "net"]
          /\ UNCHANGED rd
       \/ /\ conn[s] = "open" /\ At(s, "serve", "check")
          /\ rd' = [rd EXCEPT ![s] = "read"]
          /\ UNCHANGED err
    /\ UNCHANGED <<clientVars, queueVars, subVars, callbackVars, delay, conn, readDone,
                   target, signer>>

\* serveConnection returns e: its deferred functions close the socket, and
\* the reader is joined next.
Leave(s, from, e) ==
    /\ At(s, from, "join")
    /\ err' = [err EXCEPT ![s] = e]
    /\ conn' = [conn EXCEPT ![s] = "closed"]
    /\ ForgetConnection(s)
    /\ UNCHANGED <<rd, target, delay>>

\* writeFrame fails at any time, and always on a socket this side closed.
LeaveOnWriteError(s, from) == Leave(s, from, "net") /\ UNCHANGED readDone

Stay(s, from, to) ==
    /\ At(s, from, to)
    /\ UNCHANGED <<err, delay, connVars>>

\* Head of the serve loop: compare the revision under RLock.
RunCheck(s) ==
    /\ CanRLock
    /\ Stay(s, "check", IF synced[s].first \/ synced[s].rev # subscriptionRevision
                          THEN "snapshot" ELSE "select")
    /\ UNCHANGED <<clientVars, queueVars, subVars, callbackVars, signer>>

RunSnapshot(s) ==
    /\ CanRLock
    /\ Stay(s, "snapshot", "unsub")
    /\ snap' = [snap EXCEPT ![s] = Snapshot]
    /\ UNCHANGED <<clientVars, queueVars, desiredVars, notify, synced, server,
                   callbackVars, signer>>

RunUnsubscribe(s) ==
    /\ \/ /\ ~NeedsUnsubscribe(s) /\ Stay(s, "unsub", "sub")
          /\ UNCHANGED syncVars
       \/ /\ NeedsUnsubscribe(s) /\ conn[s] = "open" /\ Stay(s, "unsub", "sub")
          /\ server' = [server EXCEPT ![s] = ServerUnsubscribe(@, Removed(s))]
          /\ UNCHANGED <<snap, synced>>
       \/ NeedsUnsubscribe(s) /\ LeaveOnWriteError(s, "unsub")
    /\ UNCHANGED <<clientVars, queueVars, desiredVars, notify, callbackVars, signer>>

RunSubscribe(s) ==
    /\ \/ /\ ~NeedsSubscribe(s) /\ Stay(s, "sub", "select")
          /\ synced' = [synced EXCEPT ![s] = SyncedTo(snap[s])]
          /\ UNCHANGED <<snap, server>>
       \/ /\ NeedsSubscribe(s) /\ conn[s] = "open" /\ Stay(s, "sub", "select")
          /\ synced' = [synced EXCEPT ![s] = SyncedTo(snap[s])]
          /\ server' = [server EXCEPT ![s] = ServerSubscribe(@, snap[s])]
          /\ UNCHANGED snap
       \/ NeedsSubscribe(s) /\ LeaveOnWriteError(s, "sub")
    /\ UNCHANGED <<clientVars, queueVars, desiredVars, notify, callbackVars, signer>>

\* case err := <-readDone puts the error back for the deferred join.
PutBackNothing(s) == readDone' = [readDone EXCEPT ![s] = "none"]
PutBack(s) == UNCHANGED readDone

\* The two cases of the select that end the connection.
SelectLeave(s) ==
    /\ \/ ctxErr(s) /\ Leave(s, "select", "net") /\ UNCHANGED readDone
       \/ readDone[s] # "none" /\ Leave(s, "select", readDone[s]) /\ PutBack(s)
    /\ UNCHANGED <<clientVars, queueVars, desiredVars, notify, callbackVars, signer>>

SelectNotify(s) ==
    /\ notify[s]
    /\ Stay(s, "select", "check")
    /\ notify' = [notify EXCEPT ![s] = FALSE]
    /\ UNCHANGED <<clientVars, queueVars, desiredVars, syncVars, callbackVars, signer>>

SelectSend(s) ==
    /\ Stay(s, "select", "write")
    /\ Dequeue(s)
    /\ UNCHANGED <<clientVars, subVars, callbackVars, signer>>

\* writeFrame of a queued message; the buffer is released in both cases.
RunWrite(s) ==
    /\ \/ conn[s] = "open" /\ Stay(s, "write", "check") /\ UNCHANGED syncVars
       \/ LeaveOnWriteError(s, "write")
    /\ Release(s)
    /\ UNCHANGED <<clientVars, desiredVars, notify, callbackVars, signer>>

\* The ticker: a ping is written, or the write fails.
SelectPing(s) ==
    /\ \/ conn[s] = "open" /\ Stay(s, "select", "check") /\ UNCHANGED syncVars
       \/ LeaveOnWriteError(s, "select")
    /\ UNCHANGED <<clientVars, queueVars, desiredVars, notify, callbackVars, signer>>

\* <-readDone in the deferred join.
JoinSkipped(s) == TRUE
ReaderFinished(s) == readDone[s] # "none"

RunJoin(s) ==
    /\ ReaderFinished(s)
    /\ At(s, "join", "failed")
    /\ readDone' = [readDone EXCEPT ![s] = "none"]
    /\ UNCHANGED <<clientVars, queueVars, subVars, callbackVars, err, delay, rd, conn,
                   target, signer>>

\* Cancellation and a normal or policy close end the session without a word;
\* any other error is reported to the error callbacks.
Final(s) == ctxErr(s) \/ err[s] = "final"

RunFailed(s) ==
    /\ conn' = [conn EXCEPT ![s] = "none"]
    /\ rd' = [rd EXCEPT ![s] = "none"]
    /\ err' = [err EXCEPT ![s] = "none"]
    /\ At(s, "failed", IF Final(s) THEN "cancel" ELSE "report")
    /\ UNCHANGED <<clientVars, queueVars, subVars, callbackVars, delay, readDone, target, signer>>

RunSleep(s) ==
    /\ Dispatched(<<"run", s>>)
    /\ At(s, "errors", "sleep")
    /\ UNCHANGED <<clientVars, queueVars, subVars, callbackVars, err, delay, connVars, signer>>

NextDelay(d) == IF 2 * d > MaxDelay THEN MaxDelay ELSE 2 * d

\* The back-off timer, or the end of the session.
RunWake(s) ==
    /\ \/ ctxErr(s) /\ At(s, "sleep", "cancel") /\ UNCHANGED delay
       \/ At(s, "sleep", "top") /\ delay' = [delay EXCEPT ![s] = NextDelay(@)]
    /\ UNCHANGED <<clientVars, queueVars, subVars, callbackVars, err, connVars, signer>>

\* The deferred function of runSession: cancel, wait for the Writes that still
\* hold the read lock, drain, close done.
RunCancel(s) ==
    /\ At(s, "cancel", "drain")
    /\ cancelled' = [cancelled EXCEPT ![s] = TRUE]
    /\ UNCHANGED <<callVars, session, started, rootDone, done, lockVars, queueVars,
                   subVars, callbackVars, err, delay, connVars, signer>>

LockForDrain(s) ==
    /\ run[s] = "drain" /\ LockMut(s)
    /\ UNCHANGED <<callVars, ctxVars, lifecycle, httpWaiter, queueVars, subVars,
                   callbackVars, sessionVars>>

DrainAllowedAtOnce(s) == mutWaiter = s
DrainAllowed(s) == MutHeld(s)

RunDrain(s) ==
    /\ run[s] = "drain" /\ DrainAllowed(s)
    /\ DrainOne(s)
    /\ UNCHANGED <<clientVars, subVars, callbackVars, sessionVars>>

RunEnd(s) ==
    /\ DrainAllowed(s) /\ send[s] = <<>>
    /\ At(s, "drain", "ended")
    /\ done' = [done EXCEPT ![s] = TRUE]
    /\ mutWaiter' = None
    /\ UNCHANGED <<callVars, session, started, cancelled, rootDone, lifecycle, httpWaiter,
                   queueVars, subVars, callbackVars, err, delay, connVars, signer>>

-----------------------------------------------------------------------------
(* The reader of a connection.                                             *)

\* parseIncoming up to its callbacks.  Frames buffered before a close can still be
\* read after it; an acknowledgement changes nothing.
Receive(s) ==
    /\ rd[s] = "read" /\ conn[s] # "none"
    /\ \E e \in Incoming :
         \/ /\ parseIncoming(e) = "event"
            /\ rd' = [rd EXCEPT ![s] = "listen"]
            /\ CopyCallbacks(<<"read", s>>, "listen")
            /\ UNCHANGED target
         \/ /\ parseIncoming(e) = "bad"
            /\ rd' = [rd EXCEPT ![s] = "error"]
            /\ CopyCallbacks(<<"read", s>>, "error")
            /\ UNCHANGED target
         \/ /\ parseIncoming(e) = "listenFail"
            /\ rd' = [rd EXCEPT ![s] = "reject"]
            /\ CopyCallbacks(<<"read", s>>, "error")
            /\ target' = [target EXCEPT ![s] = session]
    /\ UNCHANGED <<clientVars, queueVars, subVars, loopVars, conn, readDone, signer>>

\* A rejected listen cancels the captured session once it has been reported.
RejectionOnlyReported(s) == FALSE
RejectionCancels(s) == rd[s] = "reject" /\ target[s] # Nil

\* parseIncoming returns.
ReadNext(s) ==
    /\ Dispatched(<<"read", s>>)
    /\ rd[s] \in {"listen", "error", "reject"}
    /\ rd' = [rd EXCEPT ![s] = "read"]
    /\ target' = [target EXCEPT ![s] = Nil]
    /\ cancelled' = IF RejectionCancels(s)
                      THEN [cancelled EXCEPT ![target[s]] = TRUE] ELSE cancelled
    /\ UNCHANGED <<callVars, session, started, rootDone, done, lockVars, queueVars, subVars,
                   callbackVars, loopVars, conn, readDone, signer>>

\* NextReader fails: the network, the read deadline, the size limit or our own
\* close ("net"), or a close frame that ends the session ("final").
ReadFail(s) ==
    /\ rd[s] = "read"
    /\ rd' = [rd EXCEPT ![s] = "exited"]
    /\ \E e \in {"net", "final"} : readDone' = [readDone EXCEPT ![s] = e]
    /\ UNCHANGED <<clientVars, queueVars, subVars, callbackVars, loopVars, conn, target, signer>>

DispatchStep(g) ==
    /\ DispatchCtx(g) \/ DispatchSlot(g) \/ DispatchStop(g)
    /\ UNCHANGED <<clientVars, queueVars, subVars, sessionVars>>

CallbackStep ==
    /\ CallbackStart \/ CallbackReturn
    /\ UNCHANGED <<clientVars, queueVars, subVars, sessionVars>>

-----------------------------------------------------------------------------
Init ==
    /\ ClientInit /\ QueueInit /\ SubInit /\ CallbackInit
    /\ run = [s \in Sessions |-> "none"]
    /\ rd = [s \in Sessions |-> "none"]
    /\ conn = [s \in Sessions |-> "none"]
    /\ readDone = [s \in Sessions |-> "none"]
    /\ err = [s \in Sessions |-> "none"]
    /\ delay = [s \in Sessions |-> 1]
    /\ target = [s \in Sessions |-> Nil]
    /\ signer = FALSE

\* New calls: the application makes them when it likes.
Call(t) == \/ LockCall(t) \/ LifecycleCall(t) \/ WithProxyCall(t)
           \/ HttpCall(t) \/ WriteBegin(t)

\* The rest of a call.
CallerStep(t) ==
    \/ LockInCall(t) \/ Start(t) \/ StopCancel(t) \/ StopWait(t) \/ StopClear(t)
    \/ LockHttp(t) \/ StopReturn(t) \/ WithProxy(t) \/ HttpStep(t)
    \/ WithWSAuthority(t) \/ WriteStep(t) \/ SubscriptionStep(t) \/ AddCallbackStep(t)

RunStep(s) ==
    \/ RunTop(s) \/ RunCallbacks(s) \/ RunConfigure(s) \/ RunSign(s) \/ RunDial(s) \/ RunServe(s)
    \/ RunCheck(s) \/ RunSnapshot(s) \/ RunUnsubscribe(s) \/ RunSubscribe(s)
    \/ SelectLeave(s) \/ SelectNotify(s) \/ SelectSend(s) \/ SelectPing(s) \/ RunWrite(s)
    \/ RunJoin(s) \/ RunFailed(s) \/ RunSleep(s) \/ RunWake(s)
    \/ RunCancel(s) \/ LockForDrain(s) \/ RunDrain(s) \/ RunEnd(s)

ReadStep(s) == Receive(s) \/ ReadNext(s) \/ ReadFail(s)

Next ==
    \/ \E t \in Callers : Call(t) \/ CallerStep(t)
    \/ \E s \in Sessions : RunStep(s) \/ ReadStep(s) \/ CloseOnCancel(s)
    \/ \E g \in Goroutines : DispatchStep(g)
    \/ CallbackStep
    \/ CancelContext

Spec == Init /\ [][Next]_vars

SessionTypeOK ==
    /\ run \in [Sessions -> RunStates]
    /\ rd \in [Sessions -> ReadStates]
    /\ conn \in [Sessions -> {"none", "open", "closed"}]
    /\ readDone \in [Sessions -> {"none", "net", "final"}]
    /\ err \in [Sessions -> {"none", "net", "final"}]
    /\ delay \in [Sessions -> 1..MaxDelay]
    /\ target \in [Sessions -> Sessions \cup {Nil}]
    /\ signer \in BOOLEAN
=============================================================================
