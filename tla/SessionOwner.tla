---------------------------- MODULE SessionOwner ----------------------------
(***************************************************************************)
(* What the websocket client promises of its sessions, in the words of     *)
(* websocket.go: "A session owns its queue and all network goroutines      *)
(* until done closes."  One session is alive at a time and starts with an  *)
(* empty queue.  The queue is first-in first-out; while a connection is up *)
(* its messages are sent one by one, a connection that breaks costs at     *)
(* most the oldest of them, between two connections all of them stay, and  *)
(* only a session that is closing drops what is left.  When the queue is   *)
(* empty the session ends; only then may the client forget it or start     *)
(* the next.                                                               *)
(***************************************************************************)
EXTENDS Naturals, Sequences

CONSTANTS
    Sessions,   \* numbers of sessions
    Messages    \* what can be queued

VARIABLES
    count,      \* sessions started so far
    current,    \* the session the client knows, 0 if none
    alive,      \* sessions that have a network goroutine
    queue,      \* queue[s]: messages accepted and neither sent, lost nor dropped
    link        \* link[s]: connection "down" or "up", or session "closing"

ownerVars == <<count, current, alive, queue, link>>

Init == /\ count = 0 /\ current = 0 /\ alive = {}
        /\ queue = [s \in Sessions |-> <<>>]
        /\ link = [s \in Sessions |-> "down"]

Begin == /\ alive = {}
         /\ count' = count + 1 /\ current' = count + 1 /\ alive' = {count + 1}
         /\ UNCHANGED <<queue, link>>

Put(m) == /\ alive = {current}
          /\ queue' = [queue EXCEPT ![current] = Append(@, m)]
          /\ UNCHANGED <<count, current, alive, link>>

\* The link of a live session goes from one state to the next.
Turn(s, from, to) == /\ alive = {s} /\ link[s] = from
                     /\ link' = [link EXCEPT ![s] = to]
                     /\ UNCHANGED <<count, current>>

\* The oldest message leaves the queue.
Take(s) == queue[s] # <<>> /\ queue' = [queue EXCEPT ![s] = Tail(@)]

Connect(s) == Turn(s, "down", "up") /\ UNCHANGED <<alive, queue>>

Send(s) == Turn(s, "up", "up") /\ Take(s) /\ UNCHANGED alive

\* The message being sent may be lost with the connection.
Break(s) == Turn(s, "up", "down") /\ (Take(s) \/ UNCHANGED queue) /\ UNCHANGED alive

Close(s) == Turn(s, "down", "closing") /\ UNCHANGED <<alive, queue>>

Drop(s) == Turn(s, "closing", "closing") /\ Take(s) /\ UNCHANGED alive

End(s) == /\ Turn(s, "closing", "down") /\ queue[s] = <<>>
          /\ alive' = {} /\ UNCHANGED queue

Forget == /\ alive = {} /\ current' = 0
          /\ UNCHANGED <<count, alive, queue, link>>

Next == \/ Begin \/ Forget
        \/ \E m \in Messages : Put(m)
        \/ \E s \in Sessions : \/ Connect(s) \/ Send(s) \/ Break(s)
                               \/ Close(s) \/ Drop(s) \/ End(s)

Spec == Init /\ [][Next]_ownerVars
=============================================================================
