--------------------------- MODULE SessionProofs ----------------------------
(***************************************************************************)
(* The safety properties of the websocket client, for any number of        *)
(* callers, calls, sessions, messages and addresses.  They follow from one *)
(* inductive invariant whose parts are proved one after the other.         *)
(***************************************************************************)
EXTENDS SessionTypes

Writing(t) == pc[t] \in {"WriteCas", "WriteEnqueue"}

\* Who is inside Start or Stop holds c.lifecycle; the local s of Stop and Write
\* is still c.session, and a Write keeps its session from finishing.
CallInv ==
    \A t \in Callers :
        /\ pc[t] \in {"Start", "Stop", "StopWait", "StopClear", "StopHttp"} => lifecycle = t
        /\ pc[t] = "Start" => started < MaxSessions
        /\ pc[t] \in {"StopWait", "StopClear"} => session # Nil /\ mine[t] = session
        /\ pc[t] = "StopClear" => done[session]
        /\ Writing(t) => session # Nil /\ mine[t] = session /\ ~done[session]

\* Sessions are numbered as they start, a live one is c.session, and done is
\* closed exactly by the end of runSession, after the cancellation.
LoopInv ==
    /\ session \in 0..started
    /\ \A s \in Sessions :
        /\ run[s] = "none" <=> s > started
        /\ done[s] <=> run[s] = "ended"
        /\ Live(s) => session = s
        /\ run[s] \in {"drain", "ended"} => cancelled[s]

\* The reader lives inside its serve loop, and its last message is its end.
ReaderInv ==
    \A s \in Sessions :
        /\ Reading(s) => run[s] \in Serving \cup {"join"}
        /\ run[s] \in {"serve", "join"} \cup Serving => conn[s] # "none"
        /\ readDone[s] # "none" => rd[s] = "exited" /\ run[s] \in Serving \cup {"join"}

\* Callbacks are dispatched only at the places that copied a list.
DispatchInv ==
    /\ OwnSession
    /\ \A s \in Sessions :
        /\ todo[<<"run", s>>] # 0 => run[s] \in {"retrieve", "errors"}
        /\ todo[<<"read", s>>] # 0 => rd[s] \in {"listen", "error", "reject"}

\* A reservation about to be swapped in fits the budget as it was loaded.
QueueInv ==
    /\ BudgetRespected
    /\ \A t \in Callers : pc[t] = "WriteCas" => used[t] + msg[t] <= MaxBytes
    /\ \A s \in Sessions : done[s] => send[s] = <<>>

IndInv == TypeOK /\ CallInv /\ LoopInv /\ ReaderInv /\ DispatchInv /\ QueueInv /\ NoLostWakeup

-----------------------------------------------------------------------------
(* Groups of actions.                                                      *)

\* API steps that change neither c.session nor a context.
OtherCall(t) ==
    \/ LockCall(t) \/ LifecycleCall(t) \/ WithProxyCall(t) \/ HttpCall(t) \/ WriteBegin(t)
    \/ LockInCall(t) \/ StopWait(t) \/ LockHttp(t) \/ StopReturn(t) \/ WithProxy(t)
    \/ HttpStep(t) \/ WithWSAuthority(t) \/ WriteStep(t) \/ SubscriptionStep(t)
    \/ AddCallbackStep(t)

\* Steps of runSession between its first and its last.
MoveStep(s) ==
    \/ RunTop(s) \/ RunCallbacks(s) \/ RunConfigure(s) \/ RunSign(s) \/ RunDial(s)
    \/ RunServe(s) \/ RunCheck(s) \/ RunSnapshot(s) \/ RunUnsubscribe(s) \/ RunSubscribe(s)
    \/ SelectLeave(s) \/ SelectNotify(s) \/ SelectSend(s) \/ SelectPing(s) \/ RunWrite(s)
    \/ RunJoin(s) \/ RunFailed(s) \/ RunSleep(s) \/ RunWake(s)

\* Steps that change neither where runSession is nor a context.
SideStep(s) == LockForDrain(s) \/ RunDrain(s) \/ Receive(s) \/ ReadFail(s) \/ CloseOnCancel(s)

\* What a MoveStep does to the loop.
Moves(s) ==
    /\ Live(s) /\ run[s] # "drain"
    /\ \E to \in RunStates \ {"none", "drain", "ended"} : run' = [run EXCEPT ![s] = to]
    /\ UNCHANGED ctxVars

\* The groups and the remaining actions make up Next.
LEMMA NextCases ==
  ASSUME [Next]_vars
  PROVE  \/ \E t \in Callers : OtherCall(t) \/ Start(t) \/ StopCancel(t) \/ StopClear(t)
         \/ \E s \in Sessions : \/ MoveStep(s) \/ SideStep(s) \/ RunCancel(s) \/ RunEnd(s)
                                \/ ReadNext(s)
         \/ \E g \in Goroutines : DispatchStep(g)
         \/ CallbackStep \/ CancelContext \/ UNCHANGED vars
  BY DEF Next, Call, CallerStep, RunStep, ReadStep, OtherCall, MoveStep, SideStep

\* OtherCall leaves the sessions, their goroutines and dispatches alone.
LEMMA OtherCallFrame ==
  ASSUME NEW t \in Callers, OtherCall(t)
  PROVE  UNCHANGED <<ctxVars, loopVars, connVars, slots, spawned, todo, dctx, syncVars>>
<1> USE DEF clientVars, callVars, ctxVars, lockVars, queueVars, subVars, desiredVars,
   syncVars, callbackVars, sessionVars, loopVars, connVars
<1>1. CASE LockCall(t)
  BY <1>1 DEF LockCall
<1>2. CASE LifecycleCall(t)
  BY <1>2 DEF LifecycleCall
<1>3. CASE WithProxyCall(t)
  BY <1>3 DEF WithProxyCall
<1>4. CASE HttpCall(t)
  BY <1>4 DEF HttpCall
<1>5. CASE WriteBegin(t)
  BY <1>5 DEF WriteBegin, WriteCall
<1>6. CASE LockInCall(t)
  BY <1>6 DEF LockInCall
<1>7. CASE StopWait(t)
  BY <1>7 DEF StopWait
<1>8. CASE LockHttp(t)
  BY <1>8 DEF LockHttp
<1>9. CASE StopReturn(t)
  BY <1>9 DEF StopReturn
<1>10. CASE WithProxy(t)
  BY <1>10 DEF WithProxy
<1>11. CASE HttpStep(t)
  BY <1>11 DEF HttpStep
<1>12. CASE WithWSAuthority(t)
  BY <1>12 DEF WithWSAuthority
<1>13. CASE WriteStep(t)
  BY <1>13 DEF WriteStep, WriteCas, WriteEnqueue, WriteCancelled, WriteTimeout
<1>14. CASE SubscriptionStep(t)
  BY <1>14 DEF SubscriptionStep, Subscribe, Unsubscribe, WithMode
<1>15. CASE AddCallbackStep(t)
  BY <1>15 DEF AddCallbackStep, AddCallback
<1> QED
  BY <1>1, <1>2, <1>3, <1>4, <1>5, <1>6, <1>7, <1>8, <1>9, <1>10, <1>11, <1>12, <1>13,
     <1>14, <1>15 DEF OtherCall

-----------------------------------------------------------------------------
(* Each part is preserved.                                                 *)

\* The lifecycle lock and the read lock of Write protect what they should.
LEMMA CallStep == IndInv /\ [Next]_vars => CallInv'
<1> SUFFICES ASSUME IndInv, [Next]_vars PROVE CallInv'
  OBVIOUS
<1> USE DEF IndInv, TypeOK, ClientTypeOK, PcStates, CallInv, Writing, LoopInv
<1> USE DEF clientVars, callVars, ctxVars, lockVars, queueVars, subVars, desiredVars,
   syncVars, callbackVars, sessionVars, loopVars, connVars
<1>1. ASSUME NEW t \in Callers, LockCall(t) PROVE CallInv'
  BY <1>1 DEF LockCall, Begin, LockMut
<1>2. ASSUME NEW t \in Callers, LifecycleCall(t) PROVE CallInv'
  BY <1>2, ClientAssumption DEF LifecycleCall, Begin
<1>3. ASSUME NEW t \in Callers, WithProxyCall(t) PROVE CallInv'
  BY <1>3 DEF WithProxyCall, Begin
<1>4. ASSUME NEW t \in Callers, HttpCall(t) PROVE CallInv'
  BY <1>4 DEF HttpCall, Begin
<1>5. ASSUME NEW t \in Callers, WriteBegin(t) PROVE CallInv'
  BY <1>5 DEF WriteBegin, WriteCall, Begin, ctxErr
<1>6. ASSUME NEW t \in Callers, LockInCall(t) PROVE CallInv'
  BY <1>6 DEF LockInCall, LockMut
<1>7. ASSUME NEW t \in Callers, Start(t) PROVE CallInv'
  BY <1>7 DEF Start, Return, MutHeld, MutReaders
<1>8. ASSUME NEW t \in Callers, StopCancel(t) PROVE CallInv'
  BY <1>8 DEF StopCancel, Return, MutHeld
<1>9. ASSUME NEW t \in Callers, StopWait(t) PROVE CallInv'
  BY <1>9 DEF StopWait, StopMayGoOn
<1>10. ASSUME NEW t \in Callers, StopClear(t) PROVE CallInv'
  BY <1>10 DEF StopClear, MutHeld, MutReaders
<1>11. ASSUME NEW t \in Callers, LockHttp(t) PROVE CallInv'
  BY <1>11 DEF LockHttp
<1>12. ASSUME NEW t \in Callers, StopReturn(t) PROVE CallInv'
  BY <1>12 DEF StopReturn, Return
<1>13. ASSUME NEW t \in Callers, WithProxy(t) PROVE CallInv'
  BY <1>13 DEF WithProxy, Return
<1>14. ASSUME NEW t \in Callers, HttpStep(t) PROVE CallInv'
  BY <1>14 DEF HttpStep, HttpDo, HttpReturn, HttpLog, Return
<1>15. ASSUME NEW t \in Callers, WithWSAuthority(t) PROVE CallInv'
  BY <1>15 DEF WithWSAuthority, Return
<1>16. ASSUME NEW t \in Callers, WriteStep(t) PROVE CallInv'
  BY <1>16 DEF WriteStep, WriteCas, WriteEnqueue, WriteCancelled, WriteTimeout,
     WriteReturn, Return
<1>17. ASSUME NEW t \in Callers, SubscriptionStep(t) PROVE CallInv'
  BY <1>17 DEF SubscriptionStep, Subscribe, Unsubscribe, WithMode, Return
<1>18. ASSUME NEW t \in Callers, AddCallbackStep(t) PROVE CallInv'
  BY <1>18 DEF AddCallbackStep, AddCallback, Return
<1>19. ASSUME NEW s \in Sessions, RunEnd(s) PROVE CallInv'
  BY <1>19 DEF RunEnd, At, DrainAllowed, MutHeld, MutReaders
<1>20. ASSUME NEW s \in Sessions,
               RunTop(s) \/ RunCallbacks(s) \/ RunConfigure(s) \/
               RunSign(s) \/ RunDial(s) \/ RunServe(s) \/ RunCheck(s)
               \/ RunSnapshot(s) \/ RunUnsubscribe(s) \/
               RunSubscribe(s) \/ SelectLeave(s) \/ SelectNotify(s) \/
               SelectSend(s) \/ SelectPing(s) \/ RunWrite(s) \/
               RunJoin(s) \/ RunFailed(s) \/ RunSleep(s) \/ RunWake(s)
               \/ RunCancel(s) \/ LockForDrain(s) \/ RunDrain(s) \/
               Receive(s) \/ ReadNext(s) \/ ReadFail(s) \/
               CloseOnCancel(s)
      PROVE  CallInv'
  BY <1>20 DEF RunTop, At, RunCallbacks, CopyCallbacks, RunConfigure, RunSign, RunDial,
     RunServe, RunCheck, Stay, RunSnapshot, RunUnsubscribe, LeaveOnWriteError, Leave,
     ForgetConnection, RunSubscribe, SelectLeave, PutBack, SelectNotify, SelectSend,
     Dequeue, SelectPing, RunWrite, Release, RunJoin, RunFailed, RunSleep, RunWake,
     NextDelay, RunCancel, LockForDrain, LockMut, RunDrain, DrainOne, Receive, ReadNext,
     ReadFail, CloseOnCancel
<1>21. CASE (\E g \in Goroutines : DispatchStep(g)) \/ CallbackStep \/ CancelContext
            \/ UNCHANGED vars
  BY <1>21 DEF DispatchStep, CallbackStep, CancelContext, vars
<1> QED
  BY <1>1, <1>2, <1>3, <1>4, <1>5, <1>6, <1>7, <1>8, <1>9, <1>10, <1>11, <1>12, <1>13,
     <1>14, <1>15, <1>16, <1>17, <1>18, <1>19, <1>20, <1>21 DEF Next, Call, CallerStep,
     RunStep, ReadStep

\* A MoveStep moves the loop and nothing else of it.
LEMMA RunMoves ==
  ASSUME NEW s \in Sessions, MoveStep(s)
  PROVE  Moves(s)
<1> USE DEF Moves, Live, RunStates, Serving, At, clientVars
<1>1. CASE RunTop(s)
  BY <1>1 DEF RunTop
<1>2. CASE RunCallbacks(s)
  BY <1>2 DEF RunCallbacks
<1>3. CASE RunConfigure(s)
  BY <1>3 DEF RunConfigure
<1>4. CASE RunSign(s)
  BY <1>4 DEF RunSign
<1>5. CASE RunDial(s)
  BY <1>5 DEF RunDial
<1>6. CASE RunServe(s)
  BY <1>6 DEF RunServe
<1>7. CASE RunCheck(s)
  BY <1>7 DEF RunCheck, Stay
<1>8. CASE RunSnapshot(s)
  BY <1>8 DEF RunSnapshot, Stay
<1>9. CASE RunUnsubscribe(s)
  BY <1>9 DEF RunUnsubscribe, Stay, LeaveOnWriteError, Leave
<1>10. CASE RunSubscribe(s)
  BY <1>10 DEF RunSubscribe, Stay, LeaveOnWriteError, Leave
<1>11. CASE SelectLeave(s)
  BY <1>11 DEF SelectLeave, Leave
<1>12. CASE SelectNotify(s)
  BY <1>12 DEF SelectNotify, Stay
<1>13. CASE SelectSend(s)
  BY <1>13 DEF SelectSend, Stay
<1>14. CASE SelectPing(s)
  BY <1>14 DEF SelectPing, Stay, LeaveOnWriteError, Leave
<1>15. CASE RunWrite(s)
  BY <1>15 DEF RunWrite, Stay, LeaveOnWriteError, Leave
<1>16. CASE RunJoin(s)
  BY <1>16 DEF RunJoin
<1>17. CASE RunFailed(s)
  BY <1>17 DEF RunFailed
<1>18. CASE RunSleep(s)
  BY <1>18 DEF RunSleep
<1>19. CASE RunWake(s)
  BY <1>19 DEF RunWake
<1> QED
  BY <1>1, <1>2, <1>3, <1>4, <1>5, <1>6, <1>7, <1>8, <1>9, <1>10, <1>11, <1>12, <1>13,
     <1>14, <1>15, <1>16, <1>17, <1>18, <1>19 DEF MoveStep

\* Start refuses, or it takes the next session number when no runSession is left.
LEMMA StartFresh ==
  ASSUME IndInv, NEW t \in Callers, Start(t)
  PROVE  \/ UNCHANGED <<session, started, run>>
         \/ /\ started + 1 \in Sessions /\ run[started + 1] = "none"
            /\ started' = started + 1 /\ session' = started + 1
            /\ run' = [run EXCEPT ![started + 1] = "top"]
            /\ \A s \in Sessions : ~Live(s)
<1> USE DEF IndInv, TypeOK, ClientTypeOK
<1>1. CASE AlreadyStarted \/ rootDone
  BY <1>1 DEF Start
<1>2. CASE ~(AlreadyStarted \/ rootDone)
  <2>1. started + 1 \in Sessions /\ started \in Nat
    BY ClientAssumption DEF Start, CallInv, Sessions
  <2>2. run[started + 1] = "none"
    BY <2>1 DEF LoopInv
  <2>3. ASSUME NEW s \in Sessions PROVE ~Live(s)
    BY <1>2, <2>3 DEF AlreadyStarted, LoopInv, Live, Sessions, Nil
  <2> QED
    BY <1>2, <2>1, <2>2, <2>3 DEF Start
<1> QED
  BY <1>1, <1>2

\* Start and Stop change c.session only when no runSession is left.
LEMMA LoopStep == IndInv /\ [Next]_vars => LoopInv'
<1> SUFFICES ASSUME IndInv, [Next]_vars PROVE LoopInv'
  OBVIOUS
<1> USE DEF IndInv, TypeOK, ClientTypeOK, SessionTypeOK, LoopInv, Live
<1>1. ASSUME NEW t \in Callers, Start(t) PROVE LoopInv'
  <2>1. UNCHANGED <<cancelled, done>> /\ started \in Nat
    BY <1>1, ClientAssumption DEF Start, Sessions
  <2>2. CASE UNCHANGED <<session, started, run>>
    BY <2>1, <2>2
  <2>3. CASE /\ started + 1 \in Sessions /\ run[started + 1] = "none"
             /\ started' = started + 1 /\ session' = started + 1
             /\ run' = [run EXCEPT ![started + 1] = "top"]
             /\ \A s \in Sessions : ~Live(s)
    <3>1. session' \in 0..started'
      BY <2>1, <2>3
    <3>2. ASSUME NEW s \in Sessions
          PROVE  /\ run'[s] = "none" <=> s > started'
                 /\ done'[s] <=> run'[s] = "ended"
                 /\ run'[s] \notin {"none", "ended"} => session' = s
                 /\ run'[s] \in {"drain", "ended"} => cancelled'[s]
      <4>1. CASE s = started + 1
        BY <2>1, <2>3, <4>1
      <4>2. CASE s # started + 1
        BY <2>1, <2>3, <4>2 DEF Sessions
      <4> QED
        BY <4>1, <4>2
    <3> QED
      BY <3>1, <3>2
  <2> QED
    BY <1>1, <2>2, <2>3, StartFresh
<1>2. ASSUME NEW t \in Callers, StopCancel(t) PROVE LoopInv'
  BY <1>2 DEF StopCancel, sessionVars, loopVars
<1>3. ASSUME NEW t \in Callers, StopClear(t) PROVE LoopInv'
  <2>1. \A s \in Sessions : ~Live(s)
    BY <1>3 DEF StopClear, CallInv
  <2>2. /\ session' = Nil /\ 0 \in 0..started /\ Nil = 0
        /\ UNCHANGED <<started, run, done, cancelled>>
    BY <1>3, ClientAssumption DEF StopClear, sessionVars, loopVars, Sessions, Nil
  <2> QED
    BY <2>1, <2>2
<1>4. ASSUME NEW t \in Callers, OtherCall(t) PROVE LoopInv'
  BY <1>4, OtherCallFrame DEF ctxVars, loopVars
<1>5. ASSUME NEW s \in Sessions, MoveStep(s) PROVE LoopInv'
  BY <1>5, RunMoves DEF Moves, ctxVars
<1>6. ASSUME NEW s \in Sessions, SideStep(s) PROVE LoopInv'
  BY <1>6 DEF SideStep, LockForDrain, RunDrain, Receive, ReadFail, CloseOnCancel, clientVars,
     ctxVars, sessionVars, loopVars
<1>7. ASSUME NEW s \in Sessions, RunCancel(s) PROVE LoopInv'
  BY <1>7 DEF RunCancel, At
<1>8. ASSUME NEW s \in Sessions, RunEnd(s) PROVE LoopInv'
  BY <1>8 DEF RunEnd, At
<1>9. ASSUME NEW s \in Sessions, ReadNext(s) PROVE LoopInv'
  BY <1>9 DEF ReadNext, loopVars
<1>10. CASE \/ \E g \in Goroutines : DispatchStep(g)
            \/ CallbackStep \/ CancelContext \/ UNCHANGED vars
  BY <1>10 DEF DispatchStep, CallbackStep, CancelContext, vars, clientVars, ctxVars,
     sessionVars, loopVars
<1> QED
  BY <1>1, <1>2, <1>3, <1>4, <1>5, <1>6, <1>7, <1>8, <1>9, <1>10, NextCases

\* The join of the serve loop waits for the reader.
LEMMA ReaderStep == IndInv /\ [Next]_vars => ReaderInv'
<1> SUFFICES ASSUME IndInv, [Next]_vars PROVE ReaderInv'
  OBVIOUS
<1> USE DEF IndInv, TypeOK, SessionTypeOK, ReaderInv, Reading, Serving
<1>1. ASSUME NEW t \in Callers, Start(t) PROVE ReaderInv'
  <2>1. UNCHANGED <<rd, conn, readDone>>
    BY <1>1 DEF Start, connVars
  <2> QED
    BY <1>1, <2>1, StartFresh
<1>2. ASSUME NEW t \in Callers, StopCancel(t) \/ StopClear(t) PROVE ReaderInv'
  BY <1>2 DEF StopCancel, StopClear, sessionVars, loopVars, connVars
<1>3. ASSUME NEW t \in Callers, OtherCall(t) PROVE ReaderInv'
  BY <1>3, OtherCallFrame DEF loopVars, connVars
<1>4. ASSUME NEW s \in Sessions, MoveStep(s) PROVE ReaderInv'
  <2> USE <1>4 DEF At, connVars
  <2>1. CASE RunTop(s) \/ RunCallbacks(s) \/ RunConfigure(s) \/ RunSleep(s)
    BY <2>1 DEF RunTop, RunCallbacks, RunConfigure, RunSleep
  <2>2. CASE RunSign(s) \/ RunWake(s)
    BY <2>2 DEF RunSign, RunWake
  <2>3. CASE RunDial(s)
    BY <2>3 DEF RunDial
  <2>4. CASE RunServe(s)
    BY <2>4 DEF RunServe
  <2>5. CASE RunCheck(s) \/ RunSnapshot(s)
    BY <2>5 DEF RunCheck, RunSnapshot, Stay
  <2>6. CASE RunUnsubscribe(s)
    BY <2>6 DEF RunUnsubscribe, Stay, LeaveOnWriteError, Leave
  <2>7. CASE RunSubscribe(s)
    BY <2>7 DEF RunSubscribe, Stay, LeaveOnWriteError, Leave
  <2>8. CASE SelectLeave(s)
    BY <2>8 DEF SelectLeave, Leave, PutBack
  <2>9. CASE SelectNotify(s) \/ SelectSend(s)
    BY <2>9 DEF SelectNotify, SelectSend, Stay
  <2>10. CASE SelectPing(s) \/ RunWrite(s)
    BY <2>10 DEF SelectPing, RunWrite, Stay, LeaveOnWriteError, Leave
  <2>11. CASE RunJoin(s)
    BY <2>11 DEF RunJoin, ReaderFinished
  <2>12. CASE RunFailed(s)
    BY <2>12 DEF RunFailed
  <2> QED
    BY <2>1, <2>2, <2>3, <2>4, <2>5, <2>6, <2>7, <2>8, <2>9, <2>10, <2>11, <2>12 DEF MoveStep
<1>5. ASSUME NEW s \in Sessions, SideStep(s) PROVE ReaderInv'
  <2> USE <1>5
  <2>1. CASE LockForDrain(s) \/ RunDrain(s)
    BY <2>1 DEF LockForDrain, RunDrain, sessionVars, loopVars, connVars
  <2>2. CASE Receive(s)
    BY <2>2 DEF Receive, loopVars
  <2>3. CASE ReadFail(s)
    BY <2>3 DEF ReadFail, loopVars
  <2>4. CASE CloseOnCancel(s)
    BY <2>4 DEF CloseOnCancel, loopVars
  <2> QED
    BY <2>1, <2>2, <2>3, <2>4 DEF SideStep
<1>6. ASSUME NEW s \in Sessions, RunCancel(s) \/ RunEnd(s) PROVE ReaderInv'
  BY <1>6 DEF RunCancel, RunEnd, At, connVars
<1>7. ASSUME NEW s \in Sessions, ReadNext(s) PROVE ReaderInv'
  BY <1>7 DEF ReadNext, loopVars
<1>8. CASE \/ \E g \in Goroutines : DispatchStep(g)
           \/ CallbackStep \/ CancelContext \/ UNCHANGED vars
  BY <1>8 DEF DispatchStep, CallbackStep, CancelContext, vars, sessionVars, loopVars, connVars
<1> QED
  BY <1>1, <1>2, <1>3, <1>4, <1>5, <1>6, <1>7, <1>8, NextCases

\* A goroutine that may dispatch belongs to the session in c.session, which has
\* not ended.
LEMMA DispatcherLive ==
  ASSUME IndInv, NEW s \in Sessions
  PROVE  /\ todo[<<"run", s>>] # 0 => session = s /\ ~done[s]
         /\ todo[<<"read", s>>] # 0 => session = s /\ ~done[s]
         /\ Reading(s) => session = s
  BY DEF IndInv, LoopInv, ReaderInv, DispatchInv, Live, Reading, Serving

\* dispatch and parseIncoming find their own session in c.session.
LEMMA DispatchPlaceStep == IndInv /\ [Next]_vars => DispatchInv'
<1> SUFFICES ASSUME IndInv, [Next]_vars PROVE DispatchInv'
  OBVIOUS
<1> USE DEF IndInv, TypeOK, CallbackTypeOK, SessionTypeOK, DispatchInv, OwnSession, Goroutines
<1>1. ASSUME NEW t \in Callers, Start(t) PROVE DispatchInv'
  <2>1. UNCHANGED <<rd, target, todo, dctx>>
    BY <1>1 DEF Start, connVars, callbackVars
  <2> QED
    BY <1>1, <2>1, StartFresh
<1>2. ASSUME NEW t \in Callers, StopCancel(t) \/ StopClear(t) PROVE DispatchInv'
  BY <1>2 DEF StopCancel, StopClear, sessionVars, loopVars, connVars, callbackVars
<1>3. ASSUME NEW t \in Callers, OtherCall(t) PROVE DispatchInv'
  BY <1>3, OtherCallFrame DEF loopVars, connVars
<1>4. ASSUME NEW s \in Sessions, MoveStep(s) PROVE DispatchInv'
  <2> USE <1>4 DEF At, connVars, callbackVars, Dispatched
  <2>1. CASE RunCallbacks(s)
    BY <2>1 DEF RunCallbacks, CopyCallbacks
  <2>2. CASE RunConfigure(s) \/ RunSleep(s)
    BY <2>2 DEF RunConfigure, RunSleep
  <2>3. CASE RunTop(s) \/ RunSign(s) \/ RunDial(s) \/ RunWake(s)
    BY <2>3 DEF RunTop, RunSign, RunDial, RunWake
  <2>4. CASE RunServe(s)
    BY <2>4 DEF RunServe, ReaderInv, Reading, Serving
  <2>5. CASE RunCheck(s) \/ RunSnapshot(s) \/ SelectNotify(s) \/ SelectSend(s)
    BY <2>5 DEF RunCheck, RunSnapshot, SelectNotify, SelectSend, Stay
  <2>6. CASE RunUnsubscribe(s) \/ RunSubscribe(s)
    BY <2>6 DEF RunUnsubscribe, RunSubscribe, Stay, LeaveOnWriteError, Leave
  <2>7. CASE SelectLeave(s) \/ SelectPing(s) \/ RunWrite(s)
    BY <2>7 DEF SelectLeave, SelectPing, RunWrite, Stay, LeaveOnWriteError, Leave
  <2>8. CASE RunJoin(s)
    BY <2>8 DEF RunJoin
  <2>9. CASE RunFailed(s)
    BY <2>9 DEF RunFailed, ReaderInv, Reading, Serving
  <2> QED
    BY <2>1, <2>2, <2>3, <2>4, <2>5, <2>6, <2>7, <2>8, <2>9 DEF MoveStep
<1>5. ASSUME NEW s \in Sessions, SideStep(s) PROVE DispatchInv'
  <2> USE <1>5
  <2>1. CASE LockForDrain(s) \/ RunDrain(s)
    BY <2>1 DEF LockForDrain, RunDrain, sessionVars, loopVars, connVars, callbackVars
  <2>2. CASE Receive(s)
    <3>1. session = s
      BY <2>2, DispatcherLive DEF Receive, Reading
    <3> QED
      BY <2>2, <3>1 DEF Receive, CopyCallbacks, loopVars
  <2>3. CASE ReadFail(s)
    BY <2>3 DEF ReadFail, loopVars, callbackVars
  <2>4. CASE CloseOnCancel(s)
    BY <2>4 DEF CloseOnCancel, loopVars, callbackVars
  <2> QED
    BY <2>1, <2>2, <2>3, <2>4 DEF SideStep
<1>6. ASSUME NEW s \in Sessions, RunCancel(s) \/ RunEnd(s) PROVE DispatchInv'
  BY <1>6 DEF RunCancel, RunEnd, At, connVars, callbackVars
<1>7. ASSUME NEW s \in Sessions, ReadNext(s) PROVE DispatchInv'
  BY <1>7 DEF ReadNext, loopVars, callbackVars, Dispatched
<1>8. ASSUME NEW g \in Goroutines, DispatchStep(g) PROVE DispatchInv'
  <2>1. UNCHANGED <<run, rd, target>>
    BY <1>8 DEF DispatchStep, sessionVars, loopVars, connVars
  <2>2. PICK k \in {"run", "read"}, s \in Sessions : g = <<k, s>>
    BY <1>8
  <2>3. todo[<<k, s>>] # 0 => session = s
    BY DispatcherLive
  <2>4. CASE DispatchCtx(g)
    BY <2>1, <2>2, <2>3, <2>4 DEF DispatchCtx
  <2>5. CASE DispatchSlot(g)
    BY <2>1, <2>2, <2>5 DEF DispatchSlot
  <2>6. CASE DispatchStop(g)
    BY <2>1, <2>2, <2>6 DEF DispatchStop
  <2> QED
    BY <1>8, <2>4, <2>5, <2>6 DEF DispatchStep
<1>9. CASE CallbackStep \/ CancelContext \/ UNCHANGED vars
  BY <1>9 DEF CallbackStep, CallbackStart, CallbackReturn, CancelContext, vars, sessionVars, loopVars,
     connVars, callbackVars
<1> QED
  BY <1>1, <1>2, <1>3, <1>4, <1>5, <1>6, <1>7, <1>8, <1>9, NextCases

\* OtherCall without Write leaves the queues and the Writes in progress alone.
LEMMA QueueFrame ==
  ASSUME TypeOK, NEW t \in Callers,
         \/ OtherCall(t) /\ ~WriteBegin(t) /\ ~WriteStep(t)
         \/ Start(t) \/ StopCancel(t) \/ StopClear(t)
  PROVE  UNCHANGED queueVars /\ \A u \in Callers : pc'[u] = "WriteCas" => pc[u] = "WriteCas"
<1> USE DEF TypeOK, ClientTypeOK, Begin, Return, callVars
<1>1. CASE LockCall(t) \/ LifecycleCall(t) \/ WithProxyCall(t) \/ HttpCall(t)
  BY <1>1 DEF LockCall, LifecycleCall, WithProxyCall, HttpCall
<1>2. CASE LockInCall(t) \/ StopWait(t) \/ LockHttp(t) \/ StopReturn(t) \/ WithProxy(t)
  BY <1>2 DEF LockInCall, StopWait, LockHttp, StopReturn, WithProxy
<1>3. CASE HttpStep(t) \/ WithWSAuthority(t) \/ AddCallbackStep(t)
  BY <1>3 DEF HttpStep, HttpDo, HttpReturn, HttpLog, WithWSAuthority, AddCallbackStep,
     AddCallback
<1>4. CASE SubscriptionStep(t)
  BY <1>4 DEF SubscriptionStep, Subscribe, Unsubscribe, WithMode
<1>5. CASE Start(t) \/ StopCancel(t) \/ StopClear(t)
  BY <1>5 DEF Start, StopCancel, StopClear
<1> QED
  BY <1>1, <1>2, <1>3, <1>4, <1>5 DEF OtherCall

\* Bytes given back by any path leave the budget respected.
LEMMA GiveBackBound ==
  ASSUME QueueTypeOK, BudgetRespected, NEW s \in Sessions, NEW n \in Nat,
         queuedBytes' = [queuedBytes EXCEPT ![s] = @ - n]
  PROVE  BudgetRespected'
<1> SUFFICES ASSUME NEW r \in Sessions PROVE queuedBytes'[r] <= MaxBytes
  BY DEF BudgetRespected
<1>1. queuedBytes[r] \in Int /\ queuedBytes[r] <= MaxBytes /\ MaxBytes \in Nat
  BY QueueAssumption DEF QueueTypeOK, BudgetRespected
<1>2. queuedBytes'[r] = IF r = s THEN queuedBytes[r] - n ELSE queuedBytes[r]
  BY DEF QueueTypeOK
<1> QED
  BY <1>1, <1>2

\* The compare-and-swap and the drain under the lock keep the queue in bounds.
LEMMA QueueStep == IndInv /\ [Next]_vars => QueueInv'
<1> SUFFICES ASSUME IndInv, [Next]_vars PROVE QueueInv'
  OBVIOUS
<1> USE DEF IndInv, TypeOK, ClientTypeOK, QueueTypeOK, QueueInv, BudgetRespected
<1>1. ASSUME NEW t \in Callers, Start(t) \/ StopCancel(t) \/ StopClear(t) PROVE QueueInv'
  <2>1. UNCHANGED done
    BY <1>1 DEF Start, StopCancel, StopClear
  <2> QED
    BY <1>1, <2>1, QueueFrame DEF queueVars
<1>2. ASSUME NEW t \in Callers, OtherCall(t), ~WriteBegin(t), ~WriteStep(t) PROVE QueueInv'
  BY <1>2, OtherCallFrame, QueueFrame DEF queueVars, ctxVars
<1>3. ASSUME NEW t \in Callers, WriteBegin(t) PROVE QueueInv'
  <2>1. PICK m \in Sizes : /\ ~OverBudget(queuedBytes[session], m)
                           /\ msg' = [msg EXCEPT ![t] = m]
    BY <1>3 DEF WriteBegin, WriteCall
  <2>2. /\ used' = [used EXCEPT ![t] = queuedBytes[session]]
        /\ pc' = [pc EXCEPT ![t] = "WriteCas"]
        /\ session \in Sessions
        /\ UNCHANGED <<queuedBytes, send, done>>
    BY <1>3 DEF WriteBegin, WriteCall, Begin, ctxVars
  <2>3. m \in Nat /\ MaxBytes \in Nat /\ queuedBytes[session] \in Int
    BY <2>2, QueueAssumption
  <2>4. queuedBytes[session] + m <= MaxBytes
    BY <2>1, <2>3 DEF OverBudget
  <2> QED
    BY <1>3, <2>1, <2>2, <2>3, <2>4
<1>4. ASSUME NEW t \in Callers, WriteStep(t) PROVE QueueInv'
  <2>1. /\ mine[t] \in Sessions /\ ~done[mine[t]] /\ UNCHANGED done
        /\ queuedBytes[mine[t]] \in Int /\ msg[t] \in Nat /\ MaxBytes \in Nat
    BY <1>4, QueueAssumption DEF WriteStep, WriteCas, WriteEnqueue, WriteCancelled,
       WriteTimeout, CallInv, Writing, ctxVars
  <2>2. \A r \in Sessions : done'[r] => send'[r] = <<>>
    BY <1>4, <2>1 DEF WriteStep, WriteCas, WriteEnqueue, WriteCancelled, WriteTimeout
  <2>3. CASE WriteCas(t) /\ CasSucceeds(t)
    <3>1. queuedBytes' = [queuedBytes EXCEPT ![mine[t]] = used[t] + msg[t]]
      BY <1>4, <2>1, <2>3 DEF WriteCas, CasSucceeds
    <3>2. /\ used[t] + msg[t] <= MaxBytes /\ pc' = [pc EXCEPT ![t] = "WriteEnqueue"]
          /\ UNCHANGED <<msg, used>>
      BY <1>4, <2>3 DEF WriteCas
    <3>3. BudgetRespected'
      BY <2>1, <3>1, <3>2
    <3>4. \A u \in Callers : pc'[u] = "WriteCas" => used'[u] + msg'[u] <= MaxBytes
      BY <1>4, <3>2
    <3> QED
      BY <2>2, <3>3, <3>4
  <2>4. CASE WriteCas(t) /\ ~CasSucceeds(t)
    <3>1. UNCHANGED queuedBytes
      BY <2>4 DEF WriteCas
    <3>2. ASSUME NEW u \in Callers, pc'[u] = "WriteCas" PROVE used'[u] + msg'[u] <= MaxBytes
      <4>1. CASE OverBudget(queuedBytes[mine[t]], msg[t])
        BY <1>4, <2>4, <3>2, <4>1 DEF WriteCas, WriteReturn, Return
      <4>2. CASE ~OverBudget(queuedBytes[mine[t]], msg[t])
        <5>1. queuedBytes[mine[t]] + msg[t] <= MaxBytes
          BY <2>1, <4>2 DEF OverBudget
        <5>2. /\ used' = [used EXCEPT ![t] = queuedBytes[mine[t]]]
              /\ UNCHANGED <<pc, msg>>
          BY <2>4, <4>2 DEF WriteCas
        <5> QED
          BY <1>4, <3>2, <5>1, <5>2
      <4> QED
        BY <4>1, <4>2
    <3> QED
      BY <2>2, <3>1, <3>2
  <2>5. CASE WriteEnqueue(t)
    BY <1>4, <2>2, <2>5 DEF WriteEnqueue, WriteReturn, Return
  <2>6. CASE WriteCancelled(t) \/ WriteTimeout(t)
    <3>1. /\ queuedBytes' = [queuedBytes EXCEPT ![mine[t]] = @ - msg[t]]
          /\ pc' = [pc EXCEPT ![t] = "idle"]
          /\ msg' = [msg EXCEPT ![t] = 0] /\ used' = [used EXCEPT ![t] = 0]
      BY <2>6 DEF WriteCancelled, WriteTimeout, GiveBack, WriteReturn, Return
    <3>2. BudgetRespected'
      BY ONLY IndInv, <2>1, <3>1, GiveBackBound DEF IndInv, TypeOK, QueueInv
    <3>3. \A u \in Callers : pc'[u] = "WriteCas" => used'[u] + msg'[u] <= MaxBytes
      BY <1>4, <3>1
    <3> QED
      BY <2>2, <3>2, <3>3
  <2> QED
    BY <1>4, <2>3, <2>4, <2>5, <2>6 DEF WriteStep
<1>5. ASSUME NEW s \in Sessions, MoveStep(s) PROVE QueueInv'
  <2>1. UNCHANGED <<pc, done>>
    BY <1>5 DEF MoveStep, RunTop, RunCallbacks, RunConfigure, RunSign, RunDial, RunServe,
       RunCheck, RunSnapshot, RunUnsubscribe, RunSubscribe, SelectLeave, SelectNotify,
       SelectSend, SelectPing, RunWrite, RunJoin, RunFailed, RunSleep, RunWake, clientVars,
       callVars, ctxVars
  <2>2. CASE SelectSend(s)
    <3>1. ~done[s]
      BY <1>5, <2>2 DEF SelectSend, Stay, At, LoopInv
    <3> QED
      BY <1>5, <2>1, <2>2, <3>1 DEF SelectSend, Dequeue
  <2>3. CASE RunWrite(s)
    <3>1. queuedBytes[s] \in Int /\ writing[s] \in Nat /\ MaxBytes \in Nat
      BY <1>5, QueueAssumption
    <3> QED
      BY <1>5, <2>1, <2>3, <3>1 DEF RunWrite, Release
  <2>4. CASE ~SelectSend(s) /\ ~RunWrite(s)
    <3>1. UNCHANGED queueVars
      BY <1>5, <2>4 DEF MoveStep, RunTop, RunCallbacks, RunConfigure, RunSign, RunDial,
         RunServe, RunCheck, RunSnapshot, RunUnsubscribe, RunSubscribe, SelectLeave,
         SelectNotify, SelectPing, RunJoin, RunFailed, RunSleep, RunWake
    <3> QED
      BY <2>1, <3>1 DEF queueVars
  <2> QED
    BY <2>2, <2>3, <2>4
<1>6. ASSUME NEW s \in Sessions, SideStep(s) PROVE QueueInv'
  <2>1. UNCHANGED <<pc, done>>
    BY <1>6 DEF SideStep, LockForDrain, RunDrain, Receive, ReadFail, CloseOnCancel,
       clientVars, callVars, ctxVars
  <2>2. CASE RunDrain(s)
    <3>1. /\ Head(send[s]) \in Nat /\ ~done[s]
          /\ queuedBytes' = [queuedBytes EXCEPT ![s] = @ - Head(send[s])]
          /\ send' = [send EXCEPT ![s] = Tail(@)] /\ UNCHANGED <<msg, used>>
      BY <1>6, <2>2 DEF RunDrain, DrainOne, LoopInv
    <3>2. BudgetRespected'
      BY ONLY IndInv, <1>6, <3>1, GiveBackBound DEF IndInv, TypeOK, QueueInv
    <3>3. \A r \in Sessions : done'[r] => send'[r] = <<>>
      BY <1>6, <2>1, <3>1
    <3> QED
      BY <2>1, <3>1, <3>2, <3>3
  <2>3. CASE ~RunDrain(s)
    BY <1>6, <2>1, <2>3 DEF SideStep, LockForDrain, Receive, ReadFail, CloseOnCancel, queueVars
  <2> QED
    BY <2>2, <2>3
<1>7. ASSUME NEW s \in Sessions, RunCancel(s) \/ RunEnd(s) \/ ReadNext(s) PROVE QueueInv'
  BY <1>7 DEF RunCancel, RunEnd, ReadNext, queueVars, callVars
<1>8. CASE \/ \E g \in Goroutines : DispatchStep(g)
           \/ CallbackStep \/ CancelContext \/ UNCHANGED vars
  BY <1>8 DEF DispatchStep, CallbackStep, CancelContext, vars, clientVars, callVars, ctxVars,
     queueVars
<1> QED
  BY <1>1, <1>2, <1>3, <1>4, <1>5, <1>6, <1>7, <1>8, NextCases

\* A change of the desired state either does not happen or notifies c.session.
LEMMA ChangeNotifies ==
  ASSUME SubTypeOK, ClientTypeOK, NEW t \in Callers, SubscriptionStep(t)
  PROVE  \/ UNCHANGED <<subscriptionRevision, notify>>
         \/ session = Nil /\ UNCHANGED notify
         \/ session \in Sessions /\ notify' = [notify EXCEPT ![session] = TRUE]
<1> USE DEF ClientTypeOK, notifySubscriptionLocked, desiredVars
<1>1. CASE Subscribe(t)
  BY <1>1 DEF Subscribe
<1>2. CASE Unsubscribe(t)
  BY <1>2 DEF Unsubscribe
<1>3. CASE WithMode(t)
  BY <1>3 DEF WithMode
<1> QED
  BY <1>1, <1>2, <1>3 DEF SubscriptionStep

\* No change of the subscription falls between the snapshot and the select.
LEMMA WakeupStep == IndInv /\ [Next]_vars => NoLostWakeup'
<1> SUFFICES ASSUME IndInv, [Next]_vars PROVE NoLostWakeup'
  OBVIOUS
<1> USE DEF IndInv, TypeOK, ClientTypeOK, SubTypeOK, SessionTypeOK, NoLostWakeup, LoopRevision
<1>1. ASSUME NEW t \in Callers, Start(t) PROVE NoLostWakeup'
  <2>1. UNCHANGED <<notify, snap, synced, subscriptionRevision>>
    BY <1>1 DEF Start, subVars, desiredVars, syncVars
  <2> QED
    BY <1>1, <2>1, StartFresh
<1>2. ASSUME NEW t \in Callers, StopCancel(t) PROVE NoLostWakeup'
  BY <1>2 DEF StopCancel, subVars, desiredVars, syncVars, sessionVars, loopVars
<1>3. ASSUME NEW t \in Callers, StopClear(t) PROVE NoLostWakeup'
  <2>1. \A s \in Sessions : ~Live(s)
    BY <1>3 DEF StopClear, CallInv, LoopInv, Live
  <2> QED
    BY <1>3, <2>1 DEF StopClear, sessionVars, loopVars, Live
<1>4. ASSUME NEW t \in Callers, SubscriptionStep(t) PROVE NoLostWakeup'
  <2>1. UNCHANGED <<run, snap, synced>>
    BY <1>4, OtherCallFrame DEF OtherCall, loopVars, syncVars
  <2>2. \A s \in Sessions : run[s] \in {"unsub", "sub", "select"} => session = s /\ s # Nil
    BY ClientAssumption DEF LoopInv, Live, Sessions, Nil
  <2> QED
    BY <1>4, <2>1, <2>2, ChangeNotifies
<1>5. ASSUME NEW t \in Callers, OtherCall(t), ~SubscriptionStep(t) PROVE NoLostWakeup'
  <2>1. UNCHANGED subVars
    BY <1>5 DEF OtherCall, LockCall, LifecycleCall, WithProxyCall, HttpCall, WriteBegin,
       LockInCall, StopWait, LockHttp, StopReturn, WithProxy, HttpStep, WithWSAuthority,
       WriteStep, AddCallbackStep
  <2> QED
    BY <1>5, <2>1, OtherCallFrame DEF loopVars, subVars, desiredVars, syncVars
<1>6. ASSUME NEW s \in Sessions, MoveStep(s) PROVE NoLostWakeup'
  <2> USE <1>6 DEF At, subVars, desiredVars, syncVars
  <2>1. CASE \/ RunTop(s) \/ RunCallbacks(s) \/ RunConfigure(s) \/ RunSign(s) \/ RunDial(s)
             \/ RunServe(s) \/ RunJoin(s) \/ RunFailed(s) \/ RunSleep(s) \/ RunWake(s)
    BY <2>1 DEF RunTop, RunCallbacks, RunConfigure, RunSign, RunDial, RunServe, RunJoin,
       RunFailed, RunSleep, RunWake
  <2>2. CASE RunCheck(s)
    BY <2>2 DEF RunCheck, Stay
  <2>3. CASE RunSnapshot(s)
    BY <2>3 DEF RunSnapshot, Stay, Snapshot
  <2>4. CASE RunUnsubscribe(s)
    BY <2>4 DEF RunUnsubscribe, Stay, LeaveOnWriteError, Leave, ForgetConnection
  <2>5. CASE RunSubscribe(s)
    BY <2>5 DEF RunSubscribe, Stay, SyncedTo, LeaveOnWriteError, Leave, ForgetConnection
  <2>6. CASE SelectNotify(s) \/ SelectSend(s)
    BY <2>6 DEF SelectNotify, SelectSend, Stay
  <2>7. CASE SelectLeave(s) \/ SelectPing(s) \/ RunWrite(s)
    BY <2>7 DEF SelectLeave, SelectPing, RunWrite, Stay, LeaveOnWriteError, Leave,
       ForgetConnection
  <2> QED
    BY <2>1, <2>2, <2>3, <2>4, <2>5, <2>6, <2>7 DEF MoveStep
<1>7. ASSUME NEW s \in Sessions, SideStep(s) \/ RunCancel(s) \/ RunEnd(s) \/ ReadNext(s)
      PROVE  NoLostWakeup'
  BY <1>7 DEF SideStep, LockForDrain, RunDrain, Receive, ReadFail, CloseOnCancel, RunCancel,
     RunEnd, ReadNext, At, subVars, desiredVars, syncVars, sessionVars, loopVars
<1>8. CASE \/ \E g \in Goroutines : DispatchStep(g)
           \/ CallbackStep \/ CancelContext \/ UNCHANGED vars
  BY <1>8 DEF DispatchStep, CallbackStep, CancelContext, vars, subVars, desiredVars, syncVars,
     sessionVars, loopVars
<1> QED
  BY <1>1, <1>2, <1>3, <1>4, <1>5, <1>6, <1>7, <1>8, NextCases

-----------------------------------------------------------------------------
(* The theorems.                                                           *)

\* A new client, before its first Start, satisfies the invariant.
LEMMA InitInv == Init => IndInv
<1> SUFFICES ASSUME Init PROVE IndInv
  OBVIOUS
<1> USE DEF Init
<1>1. TypeOK
  BY InitType
<1>2. CallInv
  BY DEF ClientInit, CallInv, Writing
<1>3. LoopInv
  BY ClientAssumption DEF ClientInit, LoopInv, Live, Sessions, Nil
<1>4. ReaderInv
  BY DEF ReaderInv, Reading, Serving
<1>5. DispatchInv
  BY DEF CallbackInit, DispatchInv, OwnSession, Goroutines
<1>6. QueueInv
  BY QueueAssumption DEF ClientInit, QueueInit, QueueInv, BudgetRespected
<1>7. NoLostWakeup
  BY DEF NoLostWakeup
<1> QED
  BY <1>1, <1>2, <1>3, <1>4, <1>5, <1>6, <1>7 DEF IndInv

\* Every step of the client, its callers and its goroutines preserves it.
LEMMA StepInv == IndInv /\ [Next]_vars => IndInv'
<1> SUFFICES ASSUME IndInv, [Next]_vars PROVE IndInv'
  OBVIOUS
<1>1. CallsBound
  BY DEF IndInv, TypeOK, ClientTypeOK, CallInv, Writing, CallsBound
<1>2. TypeOK'
  BY <1>1, NextType DEF IndInv
<1> QED
  BY <1>2, CallStep, LoopStep, ReaderStep, DispatchPlaceStep, QueueStep, WakeupStep DEF IndInv

\* The invariant holds in every reachable state.
THEOREM Invariance == Spec => []IndInv
  BY InitInv, StepInv, PTL DEF Spec

\* Every variable keeps its type; at most MaxSlots callbacks are spawned or running
\* (dispatch, callbackSlots).
THEOREM TypeCorrect == Spec => []TypeOK
<1>1. IndInv => TypeOK
  BY DEF IndInv
<1> QED
  BY <1>1, Invariance, PTL

\* A running loop or reader belongs to c.session, whose done channel is open:
\* Start, Stop and runSession never overlap two sets of goroutines.
THEOREM Ownership == Spec => []SessionOwnership
<1>1. IndInv => SessionOwnership
  BY DEF IndInv, LoopInv, ReaderInv, SessionOwnership, Live, Reading, Serving
<1> QED
  BY <1>1, Invariance, PTL

\* serveConnection joins its reader before runSession goes on.
THEOREM ReadersJoined == Spec => []ReaderJoined
<1>1. IndInv => ReaderJoined
  BY DEF IndInv, ReaderInv, ReaderJoined
<1> QED
  BY <1>1, Invariance, PTL

\* dispatch and parseIncoming, which read c.session anew, find the session of
\* their own goroutine.
THEOREM SessionIsOwn == Spec => []OwnSession
<1>1. IndInv => OwnSession
  BY DEF IndInv, DispatchInv
<1> QED
  BY <1>1, Invariance, PTL

\* dispatch spawns nothing once done is closed, until the next Start (Stop,
\* runSession, dispatch).
THEOREM QuietAfterEnd == Spec => NoDispatchAfterEnd
<1>1. IndInv /\ [Next]_vars
        => [slots' > slots \/ spawned' > spawned => session # Nil /\ ~done[session]]_vars
  <2> SUFFICES ASSUME IndInv, [Next]_vars, slots' > slots \/ spawned' > spawned
               PROVE  session # Nil /\ ~done[session]
    OBVIOUS
  <2> USE DEF IndInv, TypeOK, CallbackTypeOK
  <2>1. slots \in Nat /\ spawned \in Nat /\ ~UNCHANGED <<slots, spawned>>
    BY CallbackAssumption
  <2>2. PICK g \in Goroutines : DispatchStep(g)
    <3>1. ASSUME NEW t \in Callers, OtherCall(t) \/ Start(t) \/ StopCancel(t) \/ StopClear(t)
          PROVE  UNCHANGED <<slots, spawned>>
      BY <3>1, OtherCallFrame DEF Start, StopCancel, StopClear, callbackVars
    <3>2. ASSUME NEW s \in Sessions, MoveStep(s) PROVE UNCHANGED <<slots, spawned>>
      BY <3>2 DEF MoveStep, RunTop, RunCallbacks, CopyCallbacks, RunConfigure, RunSign, RunDial,
         RunServe, RunCheck, RunSnapshot, RunUnsubscribe, RunSubscribe, SelectLeave,
         SelectNotify, SelectSend, SelectPing, RunWrite, RunJoin, RunFailed, RunSleep, RunWake,
         callbackVars
    <3>3. ASSUME NEW s \in Sessions, SideStep(s) \/ RunCancel(s) \/ RunEnd(s) \/ ReadNext(s)
          PROVE  UNCHANGED <<slots, spawned>>
      BY <3>3 DEF SideStep, LockForDrain, RunDrain, Receive, CopyCallbacks, ReadFail,
         CloseOnCancel, RunCancel, RunEnd, ReadNext, callbackVars
    <3>4. CASE CallbackStep
      <4>1. slots' \in {slots, slots - 1} /\ spawned' \in {spawned, spawned - 1}
        BY <3>4 DEF CallbackStep, CallbackStart, CallbackReturn
      <4> QED
        BY <2>1, <4>1
    <3>5. CASE CancelContext \/ UNCHANGED vars
      BY <2>1, <3>5 DEF CancelContext, vars, callbackVars
    <3> QED
      BY <2>1, <3>1, <3>2, <3>3, <3>4, <3>5, NextCases
  <2>3. todo[g] # 0
    BY <2>2 DEF DispatchStep, DispatchCtx, DispatchSlot, DispatchStop
  <2>4. PICK k \in {"run", "read"}, s \in Sessions : g = <<k, s>>
    BY DEF Goroutines
  <2>5. session = s /\ ~done[s]
    BY <2>3, <2>4, DispatcherLive
  <2> QED
    BY <2>5, ClientAssumption DEF Sessions, Nil
<1> QED
  BY <1>1, Invariance, PTL DEF Spec, NoDispatchAfterEnd

\* No interleaving of Writes overruns the byte budget of a session.
THEOREM Budget == Spec => []BudgetRespected
<1>1. IndInv => BudgetRespected
  BY DEF IndInv, QueueInv
<1> QED
  BY <1>1, Invariance, PTL

\* When done closes, the queue is empty and no Write is left to fill it.
THEOREM Drained == Spec => []NoBufferOutlivesSession
<1>1. IndInv => NoBufferOutlivesSession
  BY DEF IndInv, QueueInv, CallInv, Writing, NoBufferOutlivesSession
<1> QED
  BY <1>1, Invariance, PTL

\* A waiting serve loop has seen the latest revision or will be woken.
THEOREM Wakeup == Spec => []NoLostWakeup
<1>1. IndInv => NoLostWakeup
  BY DEF IndInv
<1> QED
  BY <1>1, Invariance, PTL
=============================================================================
