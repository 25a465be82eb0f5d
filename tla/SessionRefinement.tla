------------------------- MODULE SessionRefinement --------------------------
(***************************************************************************)
(* The websocket client implements SessionOwner, for any number of         *)
(* callers, calls, sessions and messages.                                  *)
(***************************************************************************)
EXTENDS SessionProofs

\* What a Write carries is one of the application's messages.
MsgInv == \A t \in Callers : Writing(t) => msg[t] \in Sizes

LiveSessions == {s \in Sessions : Live(s)}
Running == {s \in Sessions : Live(s) \/ Reading(s)}
Queues == [s \in Sessions |-> Pending(s)]
Links == [s \in Sessions |-> Link(s)]

-----------------------------------------------------------------------------
(* Sequences with a first element of their own.                            *)

\* Nothing before the channel.
LEMMA PrefixEmpty ==
  ASSUME NEW q \in Seq(Nat)
  PROVE  <<>> \o q = q
  OBVIOUS

\* Taking the oldest message into the hand changes nothing altogether.
LEMMA HeadFirst ==
  ASSUME NEW q \in Seq(Nat), q # <<>>
  PROVE  <<Head(q)>> \o Tail(q) = q
  OBVIOUS

\* Letting it go leaves the rest.
LEMMA TailOfPrefixed ==
  ASSUME NEW q \in Seq(Nat), NEW w \in Nat
  PROVE  <<w>> \o q # <<>> /\ Tail(<<w>> \o q) = q
  OBVIOUS

\* A new message goes behind both.
LEMMA AppendPrefixed ==
  ASSUME NEW q \in Seq(Nat), NEW w \in Nat, NEW m \in Nat
  PROVE  Append(<<w>> \o q, m) = <<w>> \o Append(q, m)
  OBVIOUS

-----------------------------------------------------------------------------
(* Facts about the mapped variables.                                       *)

\* A reader lives inside a live loop, so the loops alone decide.
LEMMA RunningIsLive ==
  /\ IndInv => Running = LiveSessions
  /\ IndInv' => Running' = LiveSessions'
  BY DEF IndInv, ReaderInv, Running, LiveSessions, Live, Reading, Serving

\* There is at most one, and it is c.session.
LEMMA OnlyOne ==
  ASSUME IndInv, NEW s \in Sessions, Live(s)
  PROVE  session = s /\ Running = {s}
<1>1. \A r \in Sessions : Live(r) => session = r
  BY DEF IndInv, LoopInv
<1> QED
  BY <1>1, RunningIsLive DEF LiveSessions

\* What is pending, by the place of the loop.
LEMMA PendingIs ==
  ASSUME TypeOK, NEW s \in Sessions
  PROVE  /\ run[s] = "write" => Pending(s) = <<writing[s]>> \o send[s]
         /\ run[s] # "write" => Pending(s) = send[s]
<1>1. send[s] \in Seq(Nat)
  BY DEF TypeOK, QueueTypeOK
<1> QED
  BY <1>1, PrefixEmpty DEF Pending

\* Steps that leave the mapped variables alone.
LEMMA Stutter ==
  ASSUME IndInv, IndInv', UNCHANGED <<started, session, run, send, writing>>
  PROVE  UNCHANGED Owner!ownerVars
<1>1. Running' = Running
  BY RunningIsLive DEF LiveSessions, Live
<1>2. Queues' = Queues /\ Links' = Links
  BY DEF Queues, Pending, Links, Link
<1> QED
  BY <1>1, <1>2 DEF Owner!ownerVars, Running, Queues, Links

\* What the link is, by the place of the loop.
LinkOf(at) == IF at \in Serving THEN "up" ELSE IF at = "drain" THEN "closing" ELSE "down"

\* The links change with the place of one loop.
LEMMA LinkMoves ==
  ASSUME TypeOK, NEW s \in Sessions, NEW to, run' = [run EXCEPT ![s] = to]
  PROVE  Links[s] = LinkOf(run[s]) /\ Links' = [Links EXCEPT ![s] = LinkOf(to)]
<1>1. run \in [Sessions -> RunStates]
  BY DEF TypeOK, SessionTypeOK
<1>2. \A r \in Sessions : Link(r) = LinkOf(run[r]) /\ Link(r)' = LinkOf(run'[r])
  BY DEF Link, LinkOf
<1> QED
  BY <1>1, <1>2 DEF Links

\* The loop of s moves between two places at which it holds no message: the link
\* makes the same move, and nothing else of the mapped state changes.
LEMMA LinkTurns ==
  ASSUME IndInv, IndInv', NEW s \in Sessions, NEW to \in RunStates \ {"none", "ended", "write"},
         Live(s), run[s] # "write", run' = [run EXCEPT ![s] = to],
         UNCHANGED <<started, session, send, writing>>
  PROVE  /\ Owner!Turn(s, LinkOf(run[s]), LinkOf(to))
         /\ Running' = Running /\ Queues' = Queues
<1>1. run \in [Sessions -> RunStates]
  BY DEF IndInv, TypeOK, SessionTypeOK
<1>2. Running' = Running /\ Running = {s}
  BY <1>1, RunningIsLive, OnlyOne DEF LiveSessions, Live
<1>3. Queues' = Queues
  BY <1>1 DEF Queues, Pending
<1>4. Links[s] = LinkOf(run[s]) /\ Links' = [Links EXCEPT ![s] = LinkOf(to)]
  BY LinkMoves DEF IndInv
<1> QED
  BY <1>2, <1>3, <1>4 DEF Owner!Turn, Running, Links

\* Such a move is a new connection, the end of one without a loss, the beginning
\* of the end, or nothing to see.
LEMMA MoveSeen ==
  ASSUME IndInv, IndInv', NEW s \in Sessions, NEW to \in RunStates \ {"none", "ended", "write"},
         Live(s), run[s] # "write", run' = [run EXCEPT ![s] = to],
         UNCHANGED <<started, session, send, writing>>,
         run[s] # "drain", to = "drain" => run[s] \notin Serving
  PROVE  Owner!Connect(s) \/ Owner!Break(s) \/ Owner!Close(s) \/ UNCHANGED Owner!ownerVars
<1>1. /\ Owner!Turn(s, LinkOf(run[s]), LinkOf(to))
      /\ Running' = Running /\ Queues' = Queues
  BY LinkTurns
<1>2. CASE LinkOf(run[s]) = LinkOf(to)
  <2>1. Links[s] = LinkOf(run[s]) /\ Links' = [Links EXCEPT ![s] = LinkOf(to)]
    BY LinkMoves DEF IndInv
  <2>2. Links' = Links
    BY <1>2, <2>1 DEF Links
  <2> QED
    BY <1>1, <2>2 DEF Owner!ownerVars, Running, Queues, Links
<1>3. CASE LinkOf(run[s]) = "down" /\ LinkOf(to) = "up"
  BY <1>1, <1>3 DEF Owner!Connect, Running, Queues
<1>4. CASE LinkOf(run[s]) = "up" /\ LinkOf(to) = "down"
  BY <1>1, <1>4 DEF Owner!Break, Running, Queues
<1>5. CASE LinkOf(run[s]) = "down" /\ LinkOf(to) = "closing"
  BY <1>1, <1>5 DEF Owner!Close, Running, Queues
<1> QED
  BY <1>2, <1>3, <1>4, <1>5 DEF LinkOf, Serving

-----------------------------------------------------------------------------
(* The steps that SessionOwner sees.                                       *)

\* Start begins a session or changes nothing.
LEMMA StartBegins ==
  ASSUME IndInv, IndInv', NEW t \in Callers, Start(t)
  PROVE  Owner!Begin \/ UNCHANGED Owner!ownerVars
<1>1. UNCHANGED <<send, writing>>
  BY DEF Start, queueVars
<1>2. CASE UNCHANGED <<session, started, run>>
  BY <1>1, <1>2, Stutter
<1>3. CASE /\ started + 1 \in Sessions /\ run[started + 1] = "none"
           /\ started' = started + 1 /\ session' = started + 1
           /\ run' = [run EXCEPT ![started + 1] = "top"]
           /\ \A s \in Sessions : ~Live(s)
  <2>1. run \in [Sessions -> RunStates]
    BY DEF IndInv, TypeOK, SessionTypeOK
  <2>2. Running = {} /\ Running' = {started + 1}
    BY <1>3, <2>1, RunningIsLive DEF LiveSessions, Live
  <2>3. Queues' = Queues
    BY <1>1, <1>3, <2>1 DEF Queues, Pending
  <2>4. Links' = Links
    <3>1. /\ Links[started + 1] = LinkOf("none")
          /\ Links' = [Links EXCEPT ![started + 1] = LinkOf("top")]
      BY <1>3, LinkMoves DEF IndInv
    <3>2. LinkOf("none") = "down" /\ LinkOf("top") = "down"
      BY DEF LinkOf, Serving
    <3> QED
      BY <3>1, <3>2 DEF Links
  <2> QED
    BY <1>3, <2>2, <2>3, <2>4 DEF Owner!Begin, Running, Queues, Links
<1> QED
  BY <1>2, <1>3, StartFresh

\* Stop forgets a session that has ended.
LEMMA StopForgets ==
  ASSUME IndInv, IndInv', NEW t \in Callers, StopClear(t)
  PROVE  Owner!Forget
<1>1. /\ session' = 0 /\ UNCHANGED <<started, run, send, writing>>
      /\ done[session] /\ session \in Sessions
  BY DEF StopClear, queueVars, sessionVars, loopVars, IndInv, CallInv, TypeOK, ClientTypeOK, Nil
<1>2. \A s \in Sessions : ~Live(s)
  BY <1>1 DEF IndInv, LoopInv, Live
<1>3. Running = {} /\ Running' = {}
  BY <1>1, <1>2, RunningIsLive DEF LiveSessions, Live
<1>4. Queues' = Queues /\ Links' = Links
  BY <1>1 DEF Queues, Pending, Links, Link
<1> QED
  BY <1>1, <1>3, <1>4 DEF Owner!Forget, Running, Queues, Links

\* A Write that finds room puts its message behind all others.
LEMMA EnqueuePuts ==
  ASSUME IndInv, IndInv', MsgInv, NEW t \in Callers, WriteEnqueue(t), UNCHANGED sessionVars
  PROVE  \E m \in Sizes : Owner!Put(m)
<1> USE DEF IndInv, TypeOK, QueueTypeOK, ClientTypeOK
<1>1. /\ session \in Sessions /\ mine[t] = session /\ ~done[session]
      /\ msg[t] \in Sizes /\ msg[t] \in Nat
      /\ send' = [send EXCEPT ![session] = Append(@, msg[t])]
      /\ UNCHANGED <<session, started, run, writing>>
  BY DEF WriteEnqueue, CallInv, Writing, MsgInv, ctxVars, sessionVars, loopVars
<1>2. Live(session)
  <2>1. session \in Int /\ started \in Int /\ session <= started
    BY <1>1, ClientAssumption DEF LoopInv, Sessions
  <2>2. /\ run[session] = "none" => session > started
        /\ run[session] # "ended"
    BY <1>1 DEF LoopInv
  <2> QED
    BY ONLY <2>1, <2>2 DEF Live
<1>3. Running = {session} /\ Running' = Running
  BY <1>1, <1>2, OnlyOne, RunningIsLive DEF LiveSessions, Live
<1>4. Pending(session)' = Append(Pending(session), msg[t])
  <2>1. send[session] \in Seq(Nat) /\ writing[session] \in Nat /\ msg[t] \in Nat
    BY <1>1
  <2>2. send'[session] = Append(send[session], msg[t])
    BY <1>1
  <2>3. CASE run[session] = "write"
    <3>1. Pending(session) = <<writing[session]>> \o send[session]
      BY <2>3 DEF Pending
    <3>2. Pending(session)' = <<writing[session]>> \o send'[session]
      BY <1>1, <2>3 DEF Pending
    <3> QED
      BY ONLY <2>1, <2>2, <3>1, <3>2, AppendPrefixed
  <2>4. CASE run[session] # "write"
    BY <1>1, <2>1, <2>2, <2>4, PrefixEmpty DEF Pending
  <2> QED
    BY <2>3, <2>4
<1>5. \A s \in Sessions : s # session => Pending(s)' = Pending(s)
  BY <1>1 DEF Pending
<1>6. Queues' = [Queues EXCEPT ![session] = Append(@, msg[t])]
  BY <1>1, <1>4, <1>5 DEF Queues
<1>7. Links' = Links
  BY <1>1 DEF Links, Link
<1>8. Owner!Put(msg[t])
  BY <1>1, <1>3, <1>6, <1>7 DEF Owner!Put, Running, Queues, Links
<1> QED
  BY <1>1, <1>8

\* Taking a message out of the channel is not yet visible.
LEMMA SelectStutters ==
  ASSUME IndInv, IndInv', NEW s \in Sessions, SelectSend(s)
  PROVE  UNCHANGED Owner!ownerVars
<1> USE DEF IndInv, TypeOK, QueueTypeOK, SessionTypeOK
<1>1. /\ run[s] = "select" /\ run' = [run EXCEPT ![s] = "write"] /\ send[s] # <<>>
      /\ writing' = [writing EXCEPT ![s] = Head(send[s])]
      /\ send' = [send EXCEPT ![s] = Tail(@)]
      /\ UNCHANGED <<started, session>>
  BY DEF SelectSend, Stay, At, Dequeue, clientVars, ctxVars
<1>2. Running' = Running
  <2>1. LiveSessions' = LiveSessions
    BY <1>1 DEF LiveSessions, Live
  <2> QED
    BY <2>1, RunningIsLive
<1>3. Pending(s)' = Pending(s)
  <2>1. send[s] \in Seq(Nat) /\ send'[s] = Tail(send[s]) /\ writing'[s] = Head(send[s])
        /\ run'[s] = "write"
    BY <1>1
  <2> QED
    BY <1>1, <2>1, HeadFirst, PrefixEmpty DEF Pending
<1>4. \A r \in Sessions : r # s => Pending(r)' = Pending(r)
  BY <1>1 DEF Pending
<1>5. Queues' = Queues
  BY <1>3, <1>4 DEF Queues
<1>6. Links' = Links
  BY <1>1 DEF Links, Link, Serving
<1> QED
  BY <1>1, <1>2, <1>5, <1>6 DEF Owner!ownerVars, Running, Queues, Links

\* A message is sent, or it is lost with its connection.
LEMMA WriteSends ==
  ASSUME IndInv, IndInv', NEW s \in Sessions, RunWrite(s)
  PROVE  Owner!Send(s) \/ Owner!Break(s)
<1> USE DEF IndInv, TypeOK, QueueTypeOK, SessionTypeOK
<1>0. PICK to \in {"check", "join"} :
      /\ run[s] = "write" /\ run' = [run EXCEPT ![s] = to]
      /\ writing' = [writing EXCEPT ![s] = 0]
      /\ UNCHANGED <<send, started, session>>
  BY DEF RunWrite, Stay, LeaveOnWriteError, Leave, At, Release, clientVars, ctxVars
<1>1. /\ run[s] = "write" /\ run' = [run EXCEPT ![s] = to] /\ to \notin {"none", "ended", "write"}
      /\ writing' = [writing EXCEPT ![s] = 0]
      /\ UNCHANGED <<send, started, session>>
  BY <1>0
<1>2. Running = {s} /\ Running' = {s}
  <2>1. Live(s) /\ Running = {s}
    BY <1>1, OnlyOne DEF Live
  <2>2. LiveSessions' = LiveSessions
    BY <1>1 DEF LiveSessions, Live
  <2> QED
    BY <2>1, <2>2, RunningIsLive
<1>3. Pending(s) # <<>> /\ Pending(s)' = Tail(Pending(s))
  <2>1. send[s] \in Seq(Nat) /\ send'[s] = send[s] /\ writing[s] \in Nat /\ run'[s] # "write"
    BY <1>1
  <2> QED
    BY <1>1, <2>1, TailOfPrefixed, PrefixEmpty DEF Pending
<1>4. \A r \in Sessions : r # s => Pending(r)' = Pending(r)
  <2>1. \A r \in Sessions : r # s =>
          run'[r] = run[r] /\ writing'[r] = writing[r] /\ send'[r] = send[r]
    BY <1>1
  <2> QED
    BY <2>1 DEF Pending
<1>5. Queues[s] # <<>> /\ Queues' = [Queues EXCEPT ![s] = Tail(@)]
  BY <1>3, <1>4 DEF Queues
<1>6. Links[s] = LinkOf("write") /\ Links' = [Links EXCEPT ![s] = LinkOf(to)]
  BY <1>1, LinkMoves
<1>7. LinkOf("write") = "up" /\ LinkOf("check") = "up" /\ LinkOf("join") = "down"
  BY DEF LinkOf, Serving
<1>8. CASE to = "check"
  BY <1>1, <1>2, <1>5, <1>6, <1>7, <1>8
  DEF Owner!Send, Owner!Turn, Owner!Take, Running, Queues, Links
<1>9. CASE to = "join"
  BY <1>1, <1>2, <1>5, <1>6, <1>7, <1>9
  DEF Owner!Break, Owner!Turn, Owner!Take, Running, Queues, Links
<1> QED
  BY <1>0, <1>8, <1>9

\* The drain drops the oldest message.
LEMMA DrainDrops ==
  ASSUME IndInv, IndInv', NEW s \in Sessions, RunDrain(s)
  PROVE  Owner!Drop(s)
<1> USE DEF IndInv, TypeOK, QueueTypeOK, SessionTypeOK
<1>1. /\ run[s] = "drain" /\ send[s] # <<>>
      /\ send' = [send EXCEPT ![s] = Tail(@)]
      /\ UNCHANGED <<run, writing, started, session>>
  BY DEF RunDrain, DrainOne, clientVars, ctxVars, sessionVars, loopVars
<1>2. Running = {s} /\ Running' = {s}
  <2>1. Live(s) /\ Running = {s}
    BY <1>1, OnlyOne DEF Live
  <2>2. LiveSessions' = LiveSessions
    BY <1>1 DEF LiveSessions, Live
  <2> QED
    BY <2>1, <2>2, RunningIsLive
<1>3. Pending(s) # <<>> /\ Pending(s)' = Tail(Pending(s))
  <2>1. send[s] \in Seq(Nat) /\ send'[s] = Tail(send[s]) /\ Tail(send[s]) \in Seq(Nat)
    BY <1>1
  <2> QED
    BY <1>1, <2>1, PrefixEmpty DEF Pending
<1>4. \A r \in Sessions : r # s => Pending(r)' = Pending(r)
  BY <1>1 DEF Pending
<1>5. Queues[s] # <<>> /\ Queues' = [Queues EXCEPT ![s] = Tail(@)]
  BY <1>3, <1>4 DEF Queues
<1>6. Links[s] = "closing" /\ Links' = Links
  BY <1>1 DEF Links, Link, Serving
<1>7. Links' = [Links EXCEPT ![s] = "closing"]
  BY <1>6 DEF Links
<1> QED
  BY <1>1, <1>2, <1>5, <1>6, <1>7 DEF Owner!Drop, Owner!Turn, Owner!Take, Running, Queues, Links

\* done closes on an empty queue.
LEMMA EndEnds ==
  ASSUME IndInv, IndInv', NEW s \in Sessions, RunEnd(s)
  PROVE  Owner!End(s)
<1> USE DEF IndInv, TypeOK, QueueTypeOK, SessionTypeOK
<1>1. /\ run[s] = "drain" /\ run' = [run EXCEPT ![s] = "ended"] /\ send[s] = <<>>
      /\ UNCHANGED <<send, writing, started, session>>
  BY DEF RunEnd, At, queueVars
<1>2. Live(s) /\ Running = {s}
  BY <1>1, OnlyOne DEF Live
<1>3. Running' = {}
  <2>1. LiveSessions = {s}
    BY <1>2, RunningIsLive
  <2>2. LiveSessions' = {}
    BY <1>1, <2>1 DEF LiveSessions, Live
  <2> QED
    BY <2>2, RunningIsLive
<1>4. Pending(s) = <<>>
  BY <1>1, PrefixEmpty DEF Pending
<1>5. Queues[s] = <<>> /\ Queues' = Queues
  BY <1>1, <1>4 DEF Queues, Pending
<1>6. Links[s] = LinkOf("drain") /\ Links' = [Links EXCEPT ![s] = LinkOf("ended")]
  BY <1>1, LinkMoves
<1>7. LinkOf("drain") = "closing" /\ LinkOf("ended") = "down"
  BY DEF LinkOf, Serving
<1> QED
  BY <1>1, <1>2, <1>3, <1>5, <1>6, <1>7 DEF Owner!End, Owner!Turn, Running, Queues, Links

-----------------------------------------------------------------------------
(* All steps.                                                              *)

\* The message of a Write is chosen once.
LEMMA MsgStep == IndInv /\ MsgInv /\ [Next]_vars => MsgInv'
<1> SUFFICES ASSUME IndInv, MsgInv, [Next]_vars PROVE MsgInv'
  OBVIOUS
<1> USE DEF MsgInv, Writing, IndInv, TypeOK, ClientTypeOK, QueueTypeOK
<1>1. ASSUME NEW t \in Callers, Start(t) \/ StopCancel(t) \/ StopClear(t) PROVE MsgInv'
  BY <1>1 DEF Start, StopCancel, StopClear, Return, queueVars
<1>2. ASSUME NEW t \in Callers, OtherCall(t), ~WriteBegin(t), ~WriteStep(t) PROVE MsgInv'
  <2> USE DEF Begin, Return, callVars, queueVars
  <2>1. CASE LockCall(t) \/ LifecycleCall(t) \/ WithProxyCall(t) \/ HttpCall(t)
    BY <1>2, <2>1 DEF LockCall, LifecycleCall, WithProxyCall, HttpCall
  <2>2. CASE LockInCall(t) \/ StopWait(t) \/ LockHttp(t) \/ StopReturn(t) \/ WithProxy(t)
    BY <1>2, <2>2 DEF LockInCall, StopWait, LockHttp, StopReturn, WithProxy
  <2>3. CASE HttpStep(t) \/ WithWSAuthority(t) \/ AddCallbackStep(t)
    BY <1>2, <2>3 DEF HttpStep, HttpDo, HttpReturn, HttpLog, WithWSAuthority, AddCallbackStep,
       AddCallback
  <2>4. CASE SubscriptionStep(t)
    BY <1>2, <2>4 DEF SubscriptionStep, Subscribe, Unsubscribe, WithMode
  <2> QED
    BY <1>2, <2>1, <2>2, <2>3, <2>4 DEF OtherCall
<1>3. ASSUME NEW t \in Callers, WriteBegin(t) PROVE MsgInv'
  BY <1>3 DEF WriteBegin, WriteCall, Begin
<1>4. ASSUME NEW t \in Callers, WriteStep(t) PROVE MsgInv'
  BY <1>4 DEF WriteStep, WriteCas, WriteEnqueue, WriteCancelled, WriteTimeout, WriteReturn, Return
<1>5. ASSUME NEW s \in Sessions, MoveStep(s) PROVE MsgInv'
  <2>1. UNCHANGED <<pc, msg>>
    BY <1>5 DEF MoveStep, RunTop, RunCallbacks, RunConfigure, RunSign, RunDial, RunServe,
       RunCheck, RunSnapshot, RunUnsubscribe, RunSubscribe, SelectLeave, SelectNotify,
       SelectSend, SelectPing, RunWrite, RunJoin, RunFailed, RunSleep, RunWake, clientVars,
       callVars, queueVars, Dequeue, Release
  <2> QED
    BY <2>1
<1>6. ASSUME NEW s \in Sessions, SideStep(s) \/ RunCancel(s) \/ RunEnd(s) \/ ReadNext(s)
      PROVE  MsgInv'
  <2>1. UNCHANGED <<pc, msg>>
    BY <1>6 DEF SideStep, LockForDrain, RunDrain, DrainOne, Receive, ReadFail, CloseOnCancel,
       RunCancel, RunEnd, ReadNext, clientVars, callVars, queueVars
  <2> QED
    BY <2>1
<1>7. CASE \/ \E g \in Goroutines : DispatchStep(g)
           \/ CallbackStep \/ CancelContext \/ UNCHANGED vars
  <2>1. UNCHANGED <<pc, msg>>
    BY <1>7 DEF DispatchStep, CallbackStep, CancelContext, vars, clientVars, callVars, queueVars
  <2> QED
    BY <2>1
<1> QED
  BY <1>1, <1>2, <1>3, <1>4, <1>5, <1>6, <1>7, NextCases

\* The loop's other moves hold no message before or after.
LEMMA MoveHoldsNothing ==
  ASSUME NEW s \in Sessions, MoveStep(s), ~SelectSend(s), ~RunWrite(s)
  PROVE  /\ run[s] \notin {"write", "drain"} /\ Live(s)
         /\ UNCHANGED <<started, session, send, writing>>
         /\ \E to \in RunStates \ {"none", "ended", "write", "drain"} :
               run' = [run EXCEPT ![s] = to]
<1> USE DEF Live, RunStates, Serving, At, Stay, Leave, LeaveOnWriteError, clientVars, ctxVars,
   queueVars
<1>1. CASE RunTop(s) \/ RunCallbacks(s) \/ RunConfigure(s) \/ RunSign(s) \/ RunDial(s)
  BY <1>1 DEF RunTop, RunCallbacks, RunConfigure, RunSign, RunDial
<1>2. CASE RunServe(s) \/ RunCheck(s) \/ RunSnapshot(s) \/ RunUnsubscribe(s)
  BY <1>2 DEF RunServe, RunCheck, RunSnapshot, RunUnsubscribe
<1>3. CASE RunSubscribe(s) \/ SelectLeave(s) \/ SelectNotify(s) \/ SelectPing(s)
  BY <1>3 DEF RunSubscribe, SelectLeave, SelectNotify, SelectPing
<1>4. CASE RunJoin(s) \/ RunFailed(s) \/ RunSleep(s) \/ RunWake(s)
  BY <1>4 DEF RunJoin, RunFailed, RunSleep, RunWake
<1> QED
  BY <1>1, <1>2, <1>3, <1>4 DEF MoveStep

\* Every step of the client is a step of SessionOwner or changes none of its
\* variables.
LEMMA OwnerStep ==
  IndInv /\ IndInv' /\ MsgInv /\ [Next]_vars => [Owner!Next]_(Owner!ownerVars)
<1> SUFFICES ASSUME IndInv, IndInv', MsgInv, [Next]_vars
             PROVE  Owner!Next \/ UNCHANGED Owner!ownerVars
  OBVIOUS
<1> DEFINE Seen == Owner!Next \/ UNCHANGED Owner!ownerVars
<1>1. ASSUME NEW t \in Callers, Start(t) PROVE Seen
  BY <1>1, StartBegins DEF Owner!Next
<1>2. ASSUME NEW t \in Callers, StopClear(t) PROVE Seen
  BY <1>2, StopForgets DEF Owner!Next
<1>3. ASSUME NEW t \in Callers, StopCancel(t) PROVE Seen
  <2>1. UNCHANGED <<started, session, run, send, writing>>
    BY <1>3 DEF StopCancel, queueVars, sessionVars, loopVars
  <2> QED
    BY <2>1, Stutter
<1>4. ASSUME NEW t \in Callers, OtherCall(t) PROVE Seen
  <2>1. UNCHANGED <<started, session, run>>
    BY <1>4, OtherCallFrame DEF ctxVars, loopVars
  <2>2. CASE ~WriteBegin(t) /\ ~WriteStep(t)
    <3>1. UNCHANGED queueVars
      BY <1>4, <2>2, QueueFrame DEF IndInv
    <3> QED
      BY <2>1, <3>1, Stutter DEF queueVars
  <2>3. CASE WriteBegin(t)
    BY <2>1, <2>3, Stutter DEF WriteBegin, WriteCall
  <2>4. CASE WriteStep(t)
    <3>1. CASE WriteEnqueue(t)
      BY <2>4, <3>1, EnqueuePuts DEF WriteStep, Owner!Next
    <3>2. CASE ~WriteEnqueue(t)
      BY <2>1, <2>4, <3>2, Stutter DEF WriteStep, WriteCas, WriteCancelled, WriteTimeout
    <3> QED
      BY <3>1, <3>2
  <2> QED
    BY <2>2, <2>3, <2>4
<1>5. ASSUME NEW s \in Sessions, MoveStep(s) PROVE Seen
  <2>1. CASE SelectSend(s)
    BY <1>5, <2>1, SelectStutters
  <2>2. CASE RunWrite(s)
    BY <1>5, <2>2, WriteSends DEF Owner!Next
  <2>3. CASE ~SelectSend(s) /\ ~RunWrite(s)
    BY <1>5, <2>3, MoveHoldsNothing, MoveSeen DEF Owner!Next
  <2> QED
    BY <2>1, <2>2, <2>3
<1>6. ASSUME NEW s \in Sessions, SideStep(s) PROVE Seen
  <2>1. CASE RunDrain(s)
    BY <1>6, <2>1, DrainDrops DEF Owner!Next
  <2>2. CASE ~RunDrain(s)
    <3>1. UNCHANGED <<started, session, run, send, writing>>
      BY <1>6, <2>2 DEF SideStep, LockForDrain, Receive, ReadFail, CloseOnCancel, clientVars,
         ctxVars, queueVars, sessionVars, loopVars
    <3> QED
      BY <3>1, Stutter
  <2> QED
    BY <2>1, <2>2
<1>7. ASSUME NEW s \in Sessions, RunCancel(s) PROVE Seen
  <2>1. /\ Live(s) /\ run[s] = "cancel" /\ run' = [run EXCEPT ![s] = "drain"]
        /\ UNCHANGED <<started, session, send, writing>>
    BY <1>7 DEF RunCancel, At, Live, queueVars
  <2>2. "drain" \in RunStates \ {"none", "ended", "write"}
    BY DEF RunStates
  <2> QED
    BY <1>7, <2>1, <2>2, MoveSeen DEF Owner!Next, Serving
<1>8. ASSUME NEW s \in Sessions, RunEnd(s) PROVE Seen
  BY <1>8, EndEnds DEF Owner!Next
<1>9. ASSUME NEW s \in Sessions, ReadNext(s) PROVE Seen
  <2>1. UNCHANGED <<started, session, run, send, writing>>
    BY <1>9 DEF ReadNext, queueVars, loopVars
  <2> QED
    BY <2>1, Stutter
<1>10. CASE \/ \E g \in Goroutines : DispatchStep(g)
            \/ CallbackStep \/ CancelContext \/ UNCHANGED vars
  <2>1. UNCHANGED <<started, session, run, send, writing>>
    BY <1>10 DEF DispatchStep, CallbackStep, CancelContext, vars, clientVars, ctxVars, queueVars,
       sessionVars, loopVars
  <2> QED
    BY <2>1, Stutter
<1>11. \/ \E t \in Callers : OtherCall(t) \/ Start(t) \/ StopCancel(t) \/ StopClear(t)
       \/ \E s \in Sessions : \/ MoveStep(s) \/ SideStep(s) \/ RunCancel(s) \/ RunEnd(s)
                              \/ ReadNext(s)
       \/ \E g \in Goroutines : DispatchStep(g)
       \/ CallbackStep \/ CancelContext \/ UNCHANGED vars
  BY NextCases
<1> QED
  BY <1>1, <1>2, <1>3, <1>4, <1>5, <1>6, <1>7, <1>8, <1>9, <1>10, <1>11

\* A client that was never started is a SessionOwner at its beginning.
LEMMA OwnerInit == Init => Owner!Init
<1> SUFFICES ASSUME Init PROVE Owner!Init
  OBVIOUS
<1>1. /\ started = 0 /\ session = 0 /\ send = [s \in Sessions |-> <<>>]
      /\ \A s \in Sessions : run[s] = "none"
  BY DEF Init, ClientInit, QueueInit, Nil
<1>2. Running = {}
  BY <1>1, InitInv, RunningIsLive DEF LiveSessions, Live
<1>3. \A s \in Sessions : Pending(s) = <<>>
  BY <1>1, PrefixEmpty DEF Pending
<1>4. Queues = [s \in Sessions |-> <<>>]
  BY <1>3 DEF Queues
<1>5. Links = [s \in Sessions |-> "down"]
  BY <1>1 DEF Links, Link, Serving
<1> QED
  BY <1>1, <1>2, <1>4, <1>5 DEF Owner!Init, Running, Queues, Links

\* The websocket client implements SessionOwner: a session has its queue and its
\* goroutines to itself, messages are sent in order and once, a broken connection
\* loses at most one, and nothing is left behind (Start, Stop, Write, runSession,
\* serveConnection).
THEOREM Implementation == Spec => OwnerSpec
<1>1. Init => MsgInv
  BY DEF Init, ClientInit, MsgInv, Writing
<1>2. Spec => [](IndInv /\ MsgInv)
  BY <1>1, InitInv, StepInv, MsgStep, PTL DEF Spec
<1>3. Spec => Owner!Spec
  BY <1>2, OwnerInit, OwnerStep, PTL DEF Spec, Owner!Spec
<1> QED
  BY <1>3 DEF OwnerSpec
=============================================================================
