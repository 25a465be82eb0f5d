---------------------------- MODULE SessionTypes ----------------------------
(***************************************************************************)
(* Type correctness of the websocket client: one step per action, and      *)
(* under it one step per component whose variables the action changes.     *)
(***************************************************************************)
EXTENDS SessionProperties, TLAPS

\* What a step needs beyond the types: the session number Start will use is in
\* range, and a Write in progress is bound to a session.
CallsBound ==
    \A t \in Callers :
        /\ pc[t] = "Start" => started < MaxSessions
        /\ pc[t] \in {"WriteCas", "WriteEnqueue"} => mine[t] \in Sessions

-----------------------------------------------------------------------------
(* The operators of Subscriptions are well typed.                          *)

\* The message syncSubscription builds under the lock is a message.
LEMMA SnapshotType ==
  ASSUME SubTypeOK PROVE Snapshot \in Message
  BY DEF SubTypeOK, Snapshot, Message, Signed

\* So are the views a new connection starts with.
LEMMA InitialViews ==
  NoMessage \in Message /\ NotSynced \in SyncState /\ NewConnection \in ServerState
  BY DEF NoMessage, Message, NotSynced, SyncState, NewConnection, ServerState, Signed, NoneSigned

\* A list of addresses lists addresses.
LEMMA ListedType ==
  ASSUME NEW list \in Lists PROVE Listed(list) \subseteq Addrs
<1>1. PICK n \in 1..MaxAddrs : list \in [1..n -> Addrs]
  BY DEF Lists
<1> QED
  BY <1>1 DEF Listed

\* A notification keeps the type of the channels.
LEMMA NotifyType ==
  ASSUME SubTypeOK, notifySubscriptionLocked PROVE notify' \in [Sessions -> BOOLEAN]
  BY DEF SubTypeOK, notifySubscriptionLocked

\* Forgetting a connection resets the views of one session.
LEMMA ForgetType ==
  ASSUME NEW s \in Sessions, SubTypeOK, ForgetConnection(s)
  PROVE  /\ snap' \in [Sessions -> Message]
         /\ synced' \in [Sessions -> SyncState]
         /\ server' \in [Sessions -> ServerState]
  BY InitialViews DEF SubTypeOK, ForgetConnection

\* What the read node holds after a frame.
LEMMA ServerType ==
  ASSUME NEW v \in ServerState
  PROVE  /\ \A R \in SUBSET Addrs : ServerUnsubscribe(v, R) \in ServerState
         /\ \A m \in Message : ServerSubscribe(v, m) \in ServerState
<1>1. ASSUME NEW R \in SUBSET Addrs PROVE ServerUnsubscribe(v, R) \in ServerState
  BY DEF ServerUnsubscribe, ServerState, Signed
<1>2. ASSUME NEW m \in Message PROVE ServerSubscribe(v, m) \in ServerState
  BY DEF ServerSubscribe, ServerState, Message, Signed
<1> QED
  BY <1>1, <1>2

\* What syncSubscription returns to the serve loop.
LEMMA SyncedType ==
  ASSUME NEW m \in Message PROVE SyncedTo(m) \in SyncState
  BY DEF SyncedTo, SyncState, Message

-----------------------------------------------------------------------------

\* Initially every variable has its type.
LEMMA InitType == Init => TypeOK
<1> SUFFICES ASSUME Init PROVE TypeOK
  OBVIOUS
<1>1. ClientTypeOK
  <2>1. MaxCalls \in 0..MaxCalls
    BY ClientAssumption
  <2> QED
    BY <2>1 DEF Init, ClientInit, ClientTypeOK, Nil, PcStates
<1>2. QueueTypeOK
  BY DEF Init, QueueInit, QueueTypeOK
<1>3. SubTypeOK
  BY InitialViews DEF Init, SubInit, SubTypeOK, Modes, Signed, NoneSigned
<1>4. CallbackTypeOK
  BY CallbackAssumption DEF Init, CallbackInit, CallbackTypeOK
<1>5. SessionTypeOK
  <2>1. 1 \in 1..MaxDelay
    BY SessionAssumption
  <2> QED
    BY <2>1 DEF Init, SessionTypeOK, RunStates, ReadStates
<1> QED
  BY <1>1, <1>2, <1>3, <1>4, <1>5 DEF TypeOK

\* Every step of every goroutine preserves the types.
LEMMA NextType == TypeOK /\ CallsBound /\ [Next]_vars => TypeOK'
<1> SUFFICES ASSUME TypeOK, CallsBound, [Next]_vars PROVE TypeOK'
  OBVIOUS
<1> USE DEF TypeOK, clientVars, callVars, ctxVars, lockVars, queueVars,
        subVars, desiredVars, syncVars, callbackVars, sessionVars, loopVars, connVars
<1>1. ASSUME NEW t \in Callers, LockCall(t) PROVE TypeOK'
  <2>1. ClientTypeOK'
    BY <1>1, ClientAssumption DEF LockCall, Begin, LockMut, ClientTypeOK, PcStates,
       Sessions, Nil
  <2>2. QueueTypeOK' /\ SubTypeOK' /\ CallbackTypeOK' /\ SessionTypeOK'
    BY <1>1 DEF LockCall, Begin, LockMut, QueueTypeOK, SubTypeOK, CallbackTypeOK,
       SessionTypeOK
  <2> QED
    BY <2>1, <2>2
<1>2. ASSUME NEW t \in Callers, LifecycleCall(t) PROVE TypeOK'
  <2>1. ClientTypeOK'
    BY <1>2, ClientAssumption DEF LifecycleCall, Begin, ClientTypeOK, PcStates,
       Sessions, Nil
  <2>2. QueueTypeOK' /\ SubTypeOK' /\ CallbackTypeOK' /\ SessionTypeOK'
    BY <1>2 DEF LifecycleCall, Begin, QueueTypeOK, SubTypeOK, CallbackTypeOK,
       SessionTypeOK
  <2> QED
    BY <2>1, <2>2
<1>3. ASSUME NEW t \in Callers, WithProxyCall(t) PROVE TypeOK'
  <2>1. ClientTypeOK'
    BY <1>3, ClientAssumption DEF WithProxyCall, Begin, ClientTypeOK, PcStates,
       Sessions, Nil
  <2>2. QueueTypeOK' /\ SubTypeOK' /\ CallbackTypeOK' /\ SessionTypeOK'
    BY <1>3 DEF WithProxyCall, Begin, QueueTypeOK, SubTypeOK, CallbackTypeOK,
       SessionTypeOK
  <2> QED
    BY <2>1, <2>2
<1>4. ASSUME NEW t \in Callers, HttpCall(t) PROVE TypeOK'
  <2>1. ClientTypeOK'
    BY <1>4, ClientAssumption DEF HttpCall, Begin, ClientTypeOK, PcStates, Sessions, Nil
  <2>2. QueueTypeOK' /\ SubTypeOK' /\ CallbackTypeOK' /\ SessionTypeOK'
    BY <1>4 DEF HttpCall, Begin, QueueTypeOK, SubTypeOK, CallbackTypeOK, SessionTypeOK
  <2> QED
    BY <2>1, <2>2
<1>5. ASSUME NEW t \in Callers, WriteBegin(t) PROVE TypeOK'
  <2>1. ClientTypeOK'
    BY <1>5, ClientAssumption DEF WriteBegin, WriteCall, Begin, ClientTypeOK, PcStates,
       Sessions, Nil
  <2>2. QueueTypeOK'
    <3>1. PICK m \in Sizes : msg' = [msg EXCEPT ![t] = m]
      BY <1>5 DEF WriteBegin, WriteCall
    <3>4. m \in Nat
      BY QueueAssumption
    <3>2. session \in Sessions /\ used' = [used EXCEPT ![t] = queuedBytes[session]]
      BY <1>5 DEF WriteBegin, WriteCall, ClientTypeOK
    <3>3. UNCHANGED <<send, queuedBytes, writing>>
      BY <1>5 DEF WriteBegin, WriteCall
    <3> QED
      BY <1>5, <3>1, <3>2, <3>3, <3>4 DEF QueueTypeOK
  <2>3. SubTypeOK' /\ CallbackTypeOK' /\ SessionTypeOK'
    BY <1>5 DEF WriteBegin, WriteCall, Begin, SubTypeOK, CallbackTypeOK, SessionTypeOK
  <2> QED
    BY <2>1, <2>2, <2>3
<1>6. ASSUME NEW t \in Callers, LockInCall(t) PROVE TypeOK'
  <2>1. ClientTypeOK'
    BY <1>6, ClientAssumption DEF LockInCall, LockMut, ClientTypeOK, PcStates, Sessions,
       Nil
  <2>2. QueueTypeOK' /\ SubTypeOK' /\ CallbackTypeOK' /\ SessionTypeOK'
    BY <1>6 DEF LockInCall, LockMut, QueueTypeOK, SubTypeOK, CallbackTypeOK,
       SessionTypeOK
  <2> QED
    BY <2>1, <2>2
<1>7. ASSUME NEW t \in Callers, Start(t) PROVE TypeOK'
  <2>1. ClientTypeOK'
    BY <1>7, ClientAssumption DEF Start, Return, AlreadyStarted, CallsBound,
       ClientTypeOK, PcStates, Sessions, Nil
  <2>2. SessionTypeOK'
    BY <1>7 DEF Start, Return, AlreadyStarted, CallsBound, SessionTypeOK, RunStates,
       Serving, ReadStates
  <2>3. QueueTypeOK' /\ SubTypeOK' /\ CallbackTypeOK'
    BY <1>7 DEF Start, Return, AlreadyStarted, CallsBound, QueueTypeOK, SubTypeOK,
       CallbackTypeOK
  <2> QED
    BY <2>1, <2>2, <2>3
<1>8. ASSUME NEW t \in Callers, StopCancel(t) PROVE TypeOK'
  <2>1. ClientTypeOK'
    <3>1. CASE session = Nil
      BY <1>8, <3>1 DEF StopCancel, Return, ClientTypeOK, PcStates
    <3>2. CASE session # Nil
      BY <1>8, <3>2 DEF StopCancel, ClientTypeOK, PcStates
    <3> QED
      BY <3>1, <3>2
  <2>2. QueueTypeOK' /\ SubTypeOK' /\ CallbackTypeOK' /\ SessionTypeOK'
    BY <1>8 DEF StopCancel, Return, QueueTypeOK, SubTypeOK, CallbackTypeOK,
       SessionTypeOK
  <2> QED
    BY <2>1, <2>2
<1>9. ASSUME NEW t \in Callers, StopWait(t) PROVE TypeOK'
  <2>1. ClientTypeOK'
    BY <1>9, ClientAssumption DEF StopWait, ClientTypeOK, PcStates, Sessions, Nil
  <2>2. QueueTypeOK' /\ SubTypeOK' /\ CallbackTypeOK' /\ SessionTypeOK'
    BY <1>9 DEF StopWait, QueueTypeOK, SubTypeOK, CallbackTypeOK, SessionTypeOK
  <2> QED
    BY <2>1, <2>2
<1>10. ASSUME NEW t \in Callers, StopClear(t) PROVE TypeOK'
  <2>1. ClientTypeOK'
    BY <1>10, ClientAssumption DEF StopClear, ClearDesired, NextRevision, NoneSigned,
       Signed, ClientTypeOK, PcStates, Sessions, Nil
  <2>2. SubTypeOK'
    BY <1>10 DEF StopClear, ClearDesired, NextRevision, NoneSigned, Signed, SubTypeOK
  <2>3. QueueTypeOK' /\ CallbackTypeOK' /\ SessionTypeOK'
    BY <1>10 DEF StopClear, ClearDesired, NextRevision, NoneSigned, Signed, QueueTypeOK,
       CallbackTypeOK, SessionTypeOK
  <2> QED
    BY <2>1, <2>2, <2>3
<1>11. ASSUME NEW t \in Callers, LockHttp(t) PROVE TypeOK'
  <2>1. ClientTypeOK'
    BY <1>11, ClientAssumption DEF LockHttp, ClientTypeOK, PcStates, Sessions, Nil
  <2>2. QueueTypeOK' /\ SubTypeOK' /\ CallbackTypeOK' /\ SessionTypeOK'
    BY <1>11 DEF LockHttp, QueueTypeOK, SubTypeOK, CallbackTypeOK, SessionTypeOK
  <2> QED
    BY <2>1, <2>2
<1>12. ASSUME NEW t \in Callers, StopReturn(t) PROVE TypeOK'
  <2>1. ClientTypeOK'
    BY <1>12, ClientAssumption DEF StopReturn, Return, ClientTypeOK, PcStates, Sessions,
       Nil
  <2>2. QueueTypeOK' /\ SubTypeOK' /\ CallbackTypeOK' /\ SessionTypeOK'
    BY <1>12 DEF StopReturn, Return, QueueTypeOK, SubTypeOK, CallbackTypeOK,
       SessionTypeOK
  <2> QED
    BY <2>1, <2>2
<1>13. ASSUME NEW t \in Callers, WithProxy(t) PROVE TypeOK'
  <2>1. ClientTypeOK'
    BY <1>13, ClientAssumption DEF WithProxy, Return, ClientTypeOK, PcStates, Sessions,
       Nil
  <2>2. QueueTypeOK' /\ SubTypeOK' /\ CallbackTypeOK' /\ SessionTypeOK'
    BY <1>13 DEF WithProxy, Return, QueueTypeOK, SubTypeOK, CallbackTypeOK,
       SessionTypeOK
  <2> QED
    BY <2>1, <2>2
<1>14. ASSUME NEW t \in Callers, HttpStep(t) PROVE TypeOK'
  <2>1. ClientTypeOK'
    BY <1>14, ClientAssumption DEF HttpStep, HttpDo, HttpReturn, HttpLog, Return,
       ClientTypeOK, PcStates, Sessions, Nil
  <2>2. QueueTypeOK' /\ SubTypeOK' /\ CallbackTypeOK' /\ SessionTypeOK'
    BY <1>14 DEF HttpStep, QueueTypeOK, SubTypeOK, CallbackTypeOK, SessionTypeOK
  <2> QED
    BY <2>1, <2>2
<1>15. ASSUME NEW t \in Callers, WithWSAuthority(t) PROVE TypeOK'
  <2>1. ClientTypeOK'
    BY <1>15, ClientAssumption DEF WithWSAuthority, Return, ClientTypeOK, PcStates,
       Sessions, Nil
  <2>2. SessionTypeOK'
    BY <1>15 DEF WithWSAuthority, Return, SessionTypeOK, RunStates, Serving, ReadStates
  <2>3. QueueTypeOK' /\ SubTypeOK' /\ CallbackTypeOK'
    BY <1>15 DEF WithWSAuthority, Return, QueueTypeOK, SubTypeOK, CallbackTypeOK
  <2> QED
    BY <2>1, <2>2, <2>3
<1>16. ASSUME NEW t \in Callers, WriteStep(t) PROVE TypeOK'
  <2>1. ClientTypeOK'
    BY <1>16, ClientAssumption DEF WriteStep, WriteCas, WriteEnqueue, WriteCancelled,
       WriteTimeout, WriteReturn, Return, GiveBack, OverBudget, ClientTypeOK, PcStates,
       Sessions, Nil
  <2>2. QueueTypeOK'
    <3>1. CASE WriteCas(t)
      BY <1>16, <3>1 DEF WriteCas, WriteReturn, QueueTypeOK, CallsBound
    <3>2. CASE WriteEnqueue(t)
      <4>1. Append(send[mine[t]], msg[t]) \in Seq(Nat)
        BY <1>16, <3>2 DEF WriteEnqueue, QueueTypeOK, CallsBound
      <4> QED
        BY <1>16, <3>2, <4>1 DEF WriteEnqueue, WriteReturn, QueueTypeOK, CallsBound
    <3>3. CASE WriteCancelled(t)
      BY <1>16, <3>3 DEF WriteCancelled, GiveBack, WriteReturn, QueueTypeOK, CallsBound
    <3>4. CASE WriteTimeout(t)
      BY <1>16, <3>4 DEF WriteTimeout, GiveBack, WriteReturn, QueueTypeOK, CallsBound
    <3> QED
      BY <1>16, <3>1, <3>2, <3>3, <3>4 DEF WriteStep
  <2>3. SubTypeOK' /\ CallbackTypeOK' /\ SessionTypeOK'
    BY <1>16 DEF WriteStep, WriteCas, WriteEnqueue, WriteCancelled, WriteTimeout,
       WriteReturn, Return, GiveBack, OverBudget, SubTypeOK, CallbackTypeOK,
       SessionTypeOK
  <2> QED
    BY <2>1, <2>2, <2>3
<1>17. ASSUME NEW t \in Callers, SubscriptionStep(t) PROVE TypeOK'
  <2>1. ClientTypeOK'
    BY <1>17, ClientAssumption DEF SubscriptionStep, Subscribe, Unsubscribe, WithMode,
       Return, ClearDesired, NextRevision, notifySubscriptionLocked, NoneSigned, Signed,
       ClientTypeOK, PcStates, Sessions, Nil
  <2>2. SubTypeOK'
    <3>1. CASE Subscribe(t)
      <4>1. CASE UNCHANGED <<desiredVars, notify>>
        BY <1>17, <3>1, <4>1 DEF Subscribe, SubTypeOK
      <4>2. ASSUME NEW list \in Lists, NEW f \in Filters \cup {None},
                   NEW sig \in [Listed(list) -> Sigs],
                   subscribedAddresses' = subscribedAddresses \cup Listed(list),
                   subscribedSignedData' = [a \in Addrs |->
                       IF a \in Listed(list) THEN sig[a] ELSE subscribedSignedData[a]],
                   subscribedTypes' = IF f = None THEN subscribedTypes ELSE f,
                   UNCHANGED mode, NextRevision, notifySubscriptionLocked
            PROVE  SubTypeOK'
        <5>1. Listed(list) \subseteq Addrs
          BY <4>2, ListedType
        <5> QED
          BY <1>17, <3>1, <4>2, <5>1, NotifyType DEF Subscribe, NextRevision, SubTypeOK, Signed
      <4> QED
        BY <1>17, <3>1, <4>1, <4>2 DEF Subscribe
    <3>2. CASE Unsubscribe(t)
      BY <1>17, <3>2, NotifyType
      DEF Unsubscribe, ClearDesired, NextRevision, SubTypeOK, Signed, NoneSigned
    <3>3. CASE WithMode(t)
      BY <1>17, <3>3, NotifyType DEF WithMode, NextRevision, SubTypeOK
    <3> QED
      BY <1>17, <3>1, <3>2, <3>3 DEF SubscriptionStep
  <2>3. QueueTypeOK' /\ CallbackTypeOK' /\ SessionTypeOK'
    BY <1>17 DEF SubscriptionStep, Subscribe, Unsubscribe, WithMode, Return,
       ClearDesired, NextRevision, notifySubscriptionLocked, NoneSigned, Signed,
       QueueTypeOK, CallbackTypeOK, SessionTypeOK
  <2> QED
    BY <2>1, <2>2, <2>3
<1>18. ASSUME NEW t \in Callers, AddCallbackStep(t) PROVE TypeOK'
  <2>1. ClientTypeOK'
    BY <1>18, ClientAssumption DEF AddCallbackStep, AddCallback, Return, ClientTypeOK,
       PcStates, Sessions, Nil
  <2>2. CallbackTypeOK'
    BY <1>18, CallbackAssumption DEF AddCallbackStep, AddCallback, Return,
       CallbackTypeOK, Goroutines, Kinds
  <2>3. QueueTypeOK' /\ SubTypeOK' /\ SessionTypeOK'
    BY <1>18 DEF AddCallbackStep, AddCallback, Return, QueueTypeOK, SubTypeOK,
       SessionTypeOK
  <2> QED
    BY <2>1, <2>2, <2>3
<1>19. ASSUME NEW s \in Sessions, RunTop(s) PROVE TypeOK'
  <2>1. SessionTypeOK'
    BY <1>19 DEF RunTop, At, SessionTypeOK, RunStates, Serving, ReadStates
  <2>2. ClientTypeOK' /\ QueueTypeOK' /\ SubTypeOK' /\ CallbackTypeOK'
    BY <1>19 DEF RunTop, At, ClientTypeOK, QueueTypeOK, SubTypeOK, CallbackTypeOK
  <2> QED
    BY <2>1, <2>2
<1>20. ASSUME NEW s \in Sessions, RunCallbacks(s) PROVE TypeOK'
  <2>1. CallbackTypeOK'
    BY <1>20, CallbackAssumption DEF RunCallbacks, At, CopyCallbacks, Goroutines, Kinds,
       CallbackTypeOK
  <2>2. SessionTypeOK'
    BY <1>20 DEF RunCallbacks, At, CopyCallbacks, Goroutines, Kinds, SessionTypeOK,
       RunStates, Serving, ReadStates
  <2>3. ClientTypeOK' /\ QueueTypeOK' /\ SubTypeOK'
    BY <1>20 DEF RunCallbacks, At, CopyCallbacks, Goroutines, Kinds, ClientTypeOK,
       QueueTypeOK, SubTypeOK
  <2> QED
    BY <2>1, <2>2, <2>3
<1>21. ASSUME NEW s \in Sessions, RunConfigure(s) PROVE TypeOK'
  <2>1. SessionTypeOK'
    BY <1>21 DEF RunConfigure, At, SessionTypeOK, RunStates, Serving, ReadStates
  <2>2. ClientTypeOK' /\ QueueTypeOK' /\ SubTypeOK' /\ CallbackTypeOK'
    BY <1>21 DEF RunConfigure, At, ClientTypeOK, QueueTypeOK, SubTypeOK, CallbackTypeOK
  <2> QED
    BY <2>1, <2>2
<1>22. ASSUME NEW s \in Sessions, RunSign(s) PROVE TypeOK'
  <2>1. SessionTypeOK'
    BY <1>22 DEF RunSign, At, SessionTypeOK, RunStates, Serving, ReadStates
  <2>2. ClientTypeOK' /\ QueueTypeOK' /\ SubTypeOK' /\ CallbackTypeOK'
    BY <1>22 DEF RunSign, At, ClientTypeOK, QueueTypeOK, SubTypeOK, CallbackTypeOK
  <2> QED
    BY <2>1, <2>2
<1>23. ASSUME NEW s \in Sessions, RunDial(s) PROVE TypeOK'
  <2>1. SessionTypeOK'
    <3>1. 1 \in 1..MaxDelay
      BY SessionAssumption
    <3> QED
      BY <1>23, <3>1 DEF RunDial, At, SessionTypeOK, RunStates, Serving
  <2>2. ClientTypeOK' /\ QueueTypeOK' /\ SubTypeOK' /\ CallbackTypeOK'
    BY <1>23 DEF RunDial, At, ClientTypeOK, QueueTypeOK, SubTypeOK, CallbackTypeOK
  <2> QED
    BY <2>1, <2>2
<1>24. ASSUME NEW s \in Sessions, RunServe(s) PROVE TypeOK'
  <2>1. SessionTypeOK'
    BY <1>24 DEF RunServe, At, SessionTypeOK, RunStates, Serving, ReadStates
  <2>2. ClientTypeOK' /\ QueueTypeOK' /\ SubTypeOK' /\ CallbackTypeOK'
    BY <1>24 DEF RunServe, At, ClientTypeOK, QueueTypeOK, SubTypeOK, CallbackTypeOK
  <2> QED
    BY <2>1, <2>2
<1>25. ASSUME NEW s \in Sessions, RunCheck(s) PROVE TypeOK'
  <2>1. SessionTypeOK'
    BY <1>25 DEF RunCheck, Stay, At, SessionTypeOK, RunStates, Serving, ReadStates
  <2>2. ClientTypeOK' /\ QueueTypeOK' /\ SubTypeOK' /\ CallbackTypeOK'
    BY <1>25 DEF RunCheck, Stay, At, ClientTypeOK, QueueTypeOK, SubTypeOK,
       CallbackTypeOK
  <2> QED
    BY <2>1, <2>2
<1>26. ASSUME NEW s \in Sessions, RunSnapshot(s) PROVE TypeOK'
  <2>1. SubTypeOK'
    BY <1>26, SnapshotType DEF RunSnapshot, SubTypeOK
  <2>2. SessionTypeOK'
    BY <1>26 DEF RunSnapshot, Stay, At, SessionTypeOK, RunStates, Serving, ReadStates
  <2>3. ClientTypeOK' /\ QueueTypeOK' /\ CallbackTypeOK'
    BY <1>26 DEF RunSnapshot, Stay, At, ClientTypeOK, QueueTypeOK, CallbackTypeOK
  <2> QED
    BY <2>1, <2>2, <2>3
<1>27. ASSUME NEW s \in Sessions, RunUnsubscribe(s) PROVE TypeOK'
  <2>1. SubTypeOK'
    <3>1. ServerUnsubscribe(server[s], Removed(s)) \in ServerState
      <4>1. server[s] \in ServerState /\ Removed(s) \in SUBSET Addrs
        BY DEF SubTypeOK, Removed, SyncState
      <4> QED
        BY <4>1, ServerType
    <3> QED
      BY <1>27, <3>1, ForgetType DEF RunUnsubscribe, LeaveOnWriteError, Leave, SubTypeOK
  <2>2. SessionTypeOK'
    BY <1>27 DEF RunUnsubscribe, Stay, At, LeaveOnWriteError, Leave, ForgetConnection,
       SessionTypeOK, RunStates, Serving, ReadStates
  <2>3. ClientTypeOK' /\ QueueTypeOK' /\ CallbackTypeOK'
    BY <1>27 DEF RunUnsubscribe, Stay, At, LeaveOnWriteError, Leave, ForgetConnection,
       ClientTypeOK, QueueTypeOK, CallbackTypeOK
  <2> QED
    BY <2>1, <2>2, <2>3
<1>28. ASSUME NEW s \in Sessions, RunSubscribe(s) PROVE TypeOK'
  <2>1. SubTypeOK'
    <3>1. /\ ServerSubscribe(server[s], snap[s]) \in ServerState
          /\ SyncedTo(snap[s]) \in SyncState
      BY ServerType, SyncedType DEF SubTypeOK
    <3> QED
      BY <1>28, <3>1, ForgetType DEF RunSubscribe, LeaveOnWriteError, Leave, SubTypeOK
  <2>2. SessionTypeOK'
    BY <1>28 DEF RunSubscribe, Stay, At, LeaveOnWriteError, Leave, ForgetConnection,
       SessionTypeOK, RunStates, Serving, ReadStates
  <2>3. ClientTypeOK' /\ QueueTypeOK' /\ CallbackTypeOK'
    BY <1>28 DEF RunSubscribe, Stay, At, LeaveOnWriteError, Leave, ForgetConnection,
       ClientTypeOK, QueueTypeOK, CallbackTypeOK
  <2> QED
    BY <2>1, <2>2, <2>3
<1>29. ASSUME NEW s \in Sessions, SelectLeave(s) PROVE TypeOK'
  <2>1. SubTypeOK'
    BY <1>29, ForgetType DEF SelectLeave, Leave, SubTypeOK
  <2>2. SessionTypeOK'
    BY <1>29
    DEF SelectLeave, Leave, At, PutBack, SessionTypeOK, RunStates, Serving
  <2>3. ClientTypeOK' /\ QueueTypeOK' /\ CallbackTypeOK'
    BY <1>29 DEF SelectLeave, Leave, At, ForgetConnection, PutBack, ClientTypeOK,
       QueueTypeOK, CallbackTypeOK
  <2> QED
    BY <2>1, <2>2, <2>3
<1>30. ASSUME NEW s \in Sessions, SelectNotify(s) PROVE TypeOK'
  <2>1. SubTypeOK'
    BY <1>30 DEF SelectNotify, Stay, At, SubTypeOK
  <2>2. SessionTypeOK'
    BY <1>30 DEF SelectNotify, Stay, At, SessionTypeOK, RunStates, Serving, ReadStates
  <2>3. ClientTypeOK' /\ QueueTypeOK' /\ CallbackTypeOK'
    BY <1>30 DEF SelectNotify, Stay, At, ClientTypeOK, QueueTypeOK, CallbackTypeOK
  <2> QED
    BY <2>1, <2>2, <2>3
<1>31. ASSUME NEW s \in Sessions, SelectSend(s) PROVE TypeOK'
  <2>1. QueueTypeOK'
    BY <1>31 DEF SelectSend, Stay, At, Dequeue, QueueTypeOK
  <2>2. SessionTypeOK'
    BY <1>31 DEF SelectSend, Stay, At, Dequeue, SessionTypeOK, RunStates, Serving,
       ReadStates
  <2>3. ClientTypeOK' /\ SubTypeOK' /\ CallbackTypeOK'
    BY <1>31 DEF SelectSend, Stay, At, Dequeue, ClientTypeOK, SubTypeOK, CallbackTypeOK
  <2> QED
    BY <2>1, <2>2, <2>3
<1>32. ASSUME NEW s \in Sessions, SelectPing(s) PROVE TypeOK'
  <2>1. SubTypeOK'
    BY <1>32, ForgetType DEF SelectPing, LeaveOnWriteError, Leave, SubTypeOK
  <2>2. SessionTypeOK'
    BY <1>32 DEF SelectPing, Stay, At, LeaveOnWriteError, Leave, ForgetConnection,
       SessionTypeOK, RunStates, Serving, ReadStates
  <2>3. ClientTypeOK' /\ QueueTypeOK' /\ CallbackTypeOK'
    BY <1>32 DEF SelectPing, Stay, At, LeaveOnWriteError, Leave, ForgetConnection,
       ClientTypeOK, QueueTypeOK, CallbackTypeOK
  <2> QED
    BY <2>1, <2>2, <2>3
<1>33. ASSUME NEW s \in Sessions, RunWrite(s) PROVE TypeOK'
  <2>1. QueueTypeOK'
    BY <1>33 DEF RunWrite, Release, QueueTypeOK
  <2>2. SubTypeOK'
    BY <1>33, ForgetType DEF RunWrite, LeaveOnWriteError, Leave, SubTypeOK
  <2>3. SessionTypeOK'
    BY <1>33 DEF RunWrite, Stay, At, LeaveOnWriteError, Leave, ForgetConnection,
       Release, SessionTypeOK, RunStates, Serving, ReadStates
  <2>4. ClientTypeOK' /\ CallbackTypeOK'
    BY <1>33 DEF RunWrite, Stay, At, LeaveOnWriteError, Leave, ForgetConnection,
       Release, ClientTypeOK, CallbackTypeOK
  <2> QED
    BY <2>1, <2>2, <2>3, <2>4
<1>34. ASSUME NEW s \in Sessions, RunJoin(s) PROVE TypeOK'
  <2>1. SessionTypeOK'
    BY <1>34 DEF RunJoin, At, SessionTypeOK, RunStates, Serving, ReadStates
  <2>2. ClientTypeOK' /\ QueueTypeOK' /\ SubTypeOK' /\ CallbackTypeOK'
    BY <1>34 DEF RunJoin, At, ClientTypeOK, QueueTypeOK, SubTypeOK, CallbackTypeOK
  <2> QED
    BY <2>1, <2>2
<1>35. ASSUME NEW s \in Sessions, RunFailed(s) PROVE TypeOK'
  <2>1. SessionTypeOK'
    BY <1>35 DEF RunFailed, At, SessionTypeOK, RunStates, Serving, ReadStates
  <2>2. ClientTypeOK' /\ QueueTypeOK' /\ SubTypeOK' /\ CallbackTypeOK'
    BY <1>35 DEF RunFailed, At, ClientTypeOK, QueueTypeOK, SubTypeOK, CallbackTypeOK
  <2> QED
    BY <2>1, <2>2
<1>36. ASSUME NEW s \in Sessions, RunSleep(s) PROVE TypeOK'
  <2>1. SessionTypeOK'
    BY <1>36 DEF RunSleep, At, SessionTypeOK, RunStates, Serving, ReadStates
  <2>2. ClientTypeOK' /\ QueueTypeOK' /\ SubTypeOK' /\ CallbackTypeOK'
    BY <1>36 DEF RunSleep, At, ClientTypeOK, QueueTypeOK, SubTypeOK, CallbackTypeOK
  <2> QED
    BY <2>1, <2>2
<1>37. ASSUME NEW s \in Sessions, RunWake(s) PROVE TypeOK'
  <2>1. SessionTypeOK'
    <3>1. NextDelay(delay[s]) \in 1..MaxDelay
      BY SessionAssumption DEF NextDelay, SessionTypeOK
    <3> QED
      BY <1>37, <3>1 DEF RunWake, At, SessionTypeOK, RunStates, Serving
  <2>2. ClientTypeOK' /\ QueueTypeOK' /\ SubTypeOK' /\ CallbackTypeOK'
    BY <1>37 DEF RunWake, At, NextDelay, ClientTypeOK, QueueTypeOK, SubTypeOK,
       CallbackTypeOK
  <2> QED
    BY <2>1, <2>2
<1>38. ASSUME NEW s \in Sessions, RunCancel(s) PROVE TypeOK'
  <2>1. ClientTypeOK'
    BY <1>38, ClientAssumption DEF RunCancel, At, ClientTypeOK, PcStates, Sessions, Nil
  <2>2. SessionTypeOK'
    BY <1>38 DEF RunCancel, At, SessionTypeOK, RunStates, Serving, ReadStates
  <2>3. QueueTypeOK' /\ SubTypeOK' /\ CallbackTypeOK'
    BY <1>38 DEF RunCancel, At, QueueTypeOK, SubTypeOK, CallbackTypeOK
  <2> QED
    BY <2>1, <2>2, <2>3
<1>39. ASSUME NEW s \in Sessions, LockForDrain(s) PROVE TypeOK'
  <2>1. ClientTypeOK'
    BY <1>39, ClientAssumption DEF LockForDrain, LockMut, ClientTypeOK, PcStates,
       Sessions, Nil
  <2>2. QueueTypeOK' /\ SubTypeOK' /\ CallbackTypeOK' /\ SessionTypeOK'
    BY <1>39 DEF LockForDrain, LockMut, QueueTypeOK, SubTypeOK, CallbackTypeOK,
       SessionTypeOK
  <2> QED
    BY <2>1, <2>2
<1>40. ASSUME NEW s \in Sessions, RunDrain(s) PROVE TypeOK'
  <2>1. QueueTypeOK'
    <3>1. Head(send[s]) \in Nat /\ Tail(send[s]) \in Seq(Nat)
      BY <1>40 DEF RunDrain, DrainOne, QueueTypeOK
    <3> QED
      BY <1>40, <3>1 DEF RunDrain, DrainOne, QueueTypeOK
  <2>2. ClientTypeOK' /\ SubTypeOK' /\ CallbackTypeOK' /\ SessionTypeOK'
    BY <1>40 DEF RunDrain, DrainOne, ClientTypeOK, SubTypeOK, CallbackTypeOK,
       SessionTypeOK
  <2> QED
    BY <2>1, <2>2
<1>41. ASSUME NEW s \in Sessions, RunEnd(s) PROVE TypeOK'
  <2>1. ClientTypeOK'
    BY <1>41, ClientAssumption DEF RunEnd, At, ClientTypeOK, PcStates, Sessions, Nil
  <2>2. SessionTypeOK'
    BY <1>41 DEF RunEnd, At, SessionTypeOK, RunStates, Serving, ReadStates
  <2>3. QueueTypeOK' /\ SubTypeOK' /\ CallbackTypeOK'
    BY <1>41 DEF RunEnd, At, QueueTypeOK, SubTypeOK, CallbackTypeOK
  <2> QED
    BY <2>1, <2>2, <2>3
<1>42. ASSUME NEW s \in Sessions, Receive(s) PROVE TypeOK'
  <2>1. CallbackTypeOK'
    BY <1>42, CallbackAssumption DEF Receive, CopyCallbacks, Goroutines, Kinds,
       CallbackTypeOK
  <2>2. SessionTypeOK'
    BY <1>42 DEF Receive, ClientTypeOK, SessionTypeOK, ReadStates, RunStates, Serving
  <2>3. ClientTypeOK' /\ QueueTypeOK' /\ SubTypeOK'
    BY <1>42 DEF Receive, CopyCallbacks, Goroutines, Kinds, ClientTypeOK, QueueTypeOK,
       SubTypeOK
  <2> QED
    BY <2>1, <2>2, <2>3
<1>43. ASSUME NEW s \in Sessions, ReadNext(s) PROVE TypeOK'
  <2>1. ClientTypeOK'
    BY <1>43, ClientAssumption DEF ReadNext, ClientTypeOK, PcStates, Sessions, Nil
  <2>2. SessionTypeOK'
    BY <1>43 DEF ReadNext, SessionTypeOK, RunStates, Serving, ReadStates
  <2>3. QueueTypeOK' /\ SubTypeOK' /\ CallbackTypeOK'
    BY <1>43 DEF ReadNext, QueueTypeOK, SubTypeOK, CallbackTypeOK
  <2> QED
    BY <2>1, <2>2, <2>3
<1>44. ASSUME NEW s \in Sessions, ReadFail(s) PROVE TypeOK'
  <2>1. SessionTypeOK'
    BY <1>44 DEF ReadFail, SessionTypeOK, RunStates, Serving, ReadStates
  <2>2. ClientTypeOK' /\ QueueTypeOK' /\ SubTypeOK' /\ CallbackTypeOK'
    BY <1>44 DEF ReadFail, ClientTypeOK, QueueTypeOK, SubTypeOK, CallbackTypeOK
  <2> QED
    BY <2>1, <2>2
<1>45. ASSUME NEW s \in Sessions, CloseOnCancel(s) PROVE TypeOK'
  <2>1. SessionTypeOK'
    BY <1>45 DEF CloseOnCancel, SessionTypeOK, RunStates, Serving, ReadStates
  <2>2. ClientTypeOK' /\ QueueTypeOK' /\ SubTypeOK' /\ CallbackTypeOK'
    BY <1>45 DEF CloseOnCancel, ClientTypeOK, QueueTypeOK, SubTypeOK, CallbackTypeOK
  <2> QED
    BY <2>1, <2>2
<1>46. ASSUME NEW g \in Goroutines, DispatchStep(g) PROVE TypeOK'
  <2>1. CallbackTypeOK'
    <3>1. CASE DispatchCtx(g)
      BY <1>46, <3>1 DEF DispatchCtx, CallbackTypeOK, ClientTypeOK
    <3>2. CASE DispatchSlot(g)
      BY <1>46, <3>2, CallbackAssumption DEF DispatchSlot, CallbackTypeOK
    <3>3. CASE DispatchStop(g)
      BY <1>46, <3>3 DEF DispatchStop, CallbackTypeOK
    <3> QED
      BY <1>46, <3>1, <3>2, <3>3 DEF DispatchStep
  <2>2. ClientTypeOK' /\ QueueTypeOK' /\ SubTypeOK' /\ SessionTypeOK'
    BY <1>46 DEF DispatchStep, DispatchCtx, DispatchSlot, DispatchStop, ClientTypeOK,
       QueueTypeOK, SubTypeOK, SessionTypeOK
  <2> QED
    BY <2>1, <2>2
<1>47. CASE CallbackStep
  <2>1. CallbackTypeOK'
    BY <1>47, CallbackAssumption DEF CallbackStep, CallbackStart, CallbackReturn,
       CallbackTypeOK, Goroutines, Kinds
  <2>2. ClientTypeOK' /\ QueueTypeOK' /\ SubTypeOK' /\ SessionTypeOK'
    BY <1>47 DEF CallbackStep, ClientTypeOK, QueueTypeOK, SubTypeOK, SessionTypeOK
  <2> QED
    BY <2>1, <2>2
<1>48. CASE CancelContext
  <2>1. ClientTypeOK'
    BY <1>48, ClientAssumption DEF CancelContext, ClientTypeOK, PcStates, Sessions, Nil
  <2>2. QueueTypeOK' /\ SubTypeOK' /\ CallbackTypeOK' /\ SessionTypeOK'
    BY <1>48 DEF CancelContext, QueueTypeOK, SubTypeOK, CallbackTypeOK, SessionTypeOK
  <2> QED
    BY <2>1, <2>2
<1>49. CASE UNCHANGED vars
  BY <1>49 DEF vars, ClientTypeOK, QueueTypeOK, SubTypeOK, CallbackTypeOK, SessionTypeOK
<1> QED
  BY <1>1, <1>2, <1>3, <1>4, <1>5, <1>6, <1>7, <1>8, <1>9, <1>10, <1>11, <1>12, <1>13,
     <1>14, <1>15, <1>16, <1>17, <1>18, <1>19, <1>20, <1>21, <1>22, <1>23, <1>24, <1>25,
     <1>26, <1>27, <1>28, <1>29, <1>30, <1>31, <1>32, <1>33, <1>34, <1>35, <1>36, <1>37,
     <1>38, <1>39, <1>40, <1>41, <1>42, <1>43, <1>44, <1>45, <1>46, <1>47, <1>48, <1>49
     DEF Next, Call, CallerStep, RunStep, ReadStep
=============================================================================
