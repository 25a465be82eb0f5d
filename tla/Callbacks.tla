----------------------------- MODULE Callbacks ------------------------------
(***************************************************************************)
(* User callbacks: the three lists, the channel callbackSlots that bounds  *)
(* how many callbacks run at once, and client.dispatch, which waits for a  *)
(* slot or for the end of the session.  The goroutine that runs a callback *)
(* is nobody's: neither runSession nor Stop waits for it.                  *)
(*                                                                         *)
(* The callers of dispatch are two goroutines of a session: runSession     *)
(* <<"run", s>> and the reader of its connection <<"read", s>>.            *)
(***************************************************************************)
EXTENDS Client

CONSTANTS
    MaxSlots,       \* capacity of callbackSlots: 16
    InitCallbacks   \* length of each callback list when Start is first called

Kinds == {"retrieve", "listen", "error"}

ASSUME CallbackAssumption ==
    /\ MaxSlots \in Nat \ {0}
    /\ InitCallbacks \in [Kinds -> Nat]

Goroutines == {"run", "read"} \X Sessions
NoCtx == -1       \* dispatch has not read its context yet

VARIABLES
    slots,      \* slots taken: len(callbackSlots)
    spawned,    \* of these, goroutines that have not begun their callback yet
    callbacks,  \* lengths of the callback lists
    todo,       \* todo[g]: callbacks of the copied list still to dispatch
    dctx        \* dctx[g]: local ctx of dispatch; Nil stands for c.ctx

callbackVars == <<slots, spawned, callbacks, todo, dctx>>

\* The Add*Callback functions append; SetListenCallback replaces the list.
AddCallback(t) ==
    /\ pc[t] = "AddCallback" /\ MutHeld(t)
    /\ mutWaiter' = None /\ Return(t)
    /\ \/ \E k \in Kinds : callbacks' = [callbacks EXCEPT ![k] = @ + 1]
       \/ \E n \in {0, 1} : callbacks' = [callbacks EXCEPT !["listen"] = n]
    /\ UNCHANGED <<mine, calls, ctxVars, lifecycle, httpWaiter, slots, spawned,
                   todo, dctx>>

\* callListenCallbacks, callErrorCallbacks, callRetrievers copy their list.
CopyCallbacks(g, kind) ==
    /\ CanRLock
    /\ todo' = [todo EXCEPT ![g] = callbacks[kind]]
    /\ UNCHANGED <<slots, spawned, callbacks, dctx>>

\* The loop over the copied list has ended or was abandoned.
NotAwaited(g) == TRUE
Dispatched(g) == todo[g] = 0

\* dispatch picks its context: the one of c.session, else that of the client.
DispatchCtxOfClient(g) ==
    /\ todo[g] > 0 /\ dctx[g] = NoCtx
    /\ CanRLock
    /\ dctx' = [dctx EXCEPT ![g] = Nil]
    /\ UNCHANGED <<slots, spawned, callbacks, todo>>

DispatchCtx(g) ==
    /\ todo[g] > 0 /\ dctx[g] = NoCtx
    /\ CanRLock
    /\ dctx' = [dctx EXCEPT ![g] = session]
    /\ UNCHANGED <<slots, spawned, callbacks, todo>>

\* case c.callbackSlots <- struct{}{}, and the go statement after it.  dispatch
\* returns; the new goroutine calls fn when the scheduler lets it.
DispatchUnbounded(g) ==
    /\ todo[g] > 0 /\ dctx[g] # NoCtx
    /\ slots' = slots + 1 /\ spawned' = spawned + 1
    /\ todo' = [todo EXCEPT ![g] = @ - 1]
    /\ dctx' = [dctx EXCEPT ![g] = NoCtx]
    /\ UNCHANGED callbacks

DispatchSlot(g) ==
    /\ todo[g] > 0 /\ dctx[g] # NoCtx
    /\ slots < MaxSlots
    /\ slots' = slots + 1 /\ spawned' = spawned + 1
    /\ todo' = [todo EXCEPT ![g] = @ - 1]
    /\ dctx' = [dctx EXCEPT ![g] = NoCtx]
    /\ UNCHANGED callbacks

\* case <-ctx.Done(): dispatch returns false and the loop stops.
DispatchStopNever(g) == FALSE /\ UNCHANGED callbackVars

DispatchStop(g) ==
    /\ todo[g] > 0 /\ dctx[g] # NoCtx
    /\ IF dctx[g] = Nil THEN rootDone ELSE ctxErr(dctx[g])
    /\ todo' = [todo EXCEPT ![g] = 0]
    /\ dctx' = [dctx EXCEPT ![g] = NoCtx]
    /\ UNCHANGED <<slots, spawned, callbacks>>

\* A spawned goroutine calls fn, whatever has become of the session by then.
CallbackStart ==
    /\ spawned > 0
    /\ spawned' = spawned - 1
    /\ UNCHANGED <<slots, callbacks, todo, dctx>>

\* A user callback returns and its goroutine frees the slot.
CallbackReturn ==
    /\ slots > spawned
    /\ slots' = slots - 1
    /\ UNCHANGED <<spawned, callbacks, todo, dctx>>

CallbackTypeOK ==
    /\ slots \in 0..MaxSlots /\ spawned \in 0..slots
    /\ callbacks \in [Kinds -> Nat]
    /\ todo \in [Goroutines -> Nat]
    /\ dctx \in [Goroutines -> {NoCtx, Nil} \cup Sessions]

CallbackInit ==
    /\ slots = 0 /\ spawned = 0
    /\ callbacks = InitCallbacks
    /\ todo = [g \in Goroutines |-> 0]
    /\ dctx = [g \in Goroutines |-> NoCtx]
=============================================================================
