----------------------------- MODULE SendQueue ------------------------------
(***************************************************************************)
(* The outgoing queue of a session: the channel s.send with its capacity,  *)
(* the byte budget s.queuedBytes, and client.Write, which reserves bytes   *)
(* with a compare-and-swap loop and then waits for room in the channel     *)
(* while it keeps c.mut.RLock().                                           *)
(*                                                                         *)
(* A message is represented by its length in bytes.                        *)
(***************************************************************************)
EXTENDS Client

CONSTANTS
    QueueCap,   \* capacity of s.send: 64
    MaxBytes,   \* maxMessageSize: 16 MiB
    Sizes       \* lengths of the messages the application writes

ASSUME QueueAssumption ==
    /\ QueueCap \in Nat \ {0}
    /\ MaxBytes \in Nat
    /\ Sizes \subseteq 0..MaxBytes

VARIABLES
    send,         \* send[s]: contents of the channel, oldest first
    queuedBytes,  \* queuedBytes[s]: the atomic counter
    msg,          \* msg[t]: length of the message a Write carries, else 0
    used,         \* used[t]: value loaded by the reservation loop, else 0
    writing       \* writing[s]: message taken by the serve loop, else 0

queueVars == <<send, queuedBytes, msg, used, writing>>

OverBudget(u, m) == u + m > MaxBytes

\* CompareAndSwap(used, used+size) succeeds: nobody changed the counter.
CasSucceedsAlways(t) == TRUE
CasSucceeds(t) == queuedBytes[mine[t]] = used[t]

\* The deferred RUnlock of Write; its locals are gone.
WriteReturn(t) ==
    /\ Return(t)
    /\ mine' = [mine EXCEPT ![t] = Nil]
    /\ msg' = [msg EXCEPT ![t] = 0]
    /\ used' = [used EXCEPT ![t] = 0]

\* Write up to the first Load that leaves room.  The early returns (nil or
\* cancelled session, message or budget too large) change no state.
WriteCall(t) ==
    /\ Begin(t, "Write", "WriteCas")
    /\ CanRLock
    /\ session # Nil /\ ~ctxErr(session)
    /\ \E m \in Sizes : /\ ~OverBudget(queuedBytes[session], m)
                        /\ msg' = [msg EXCEPT ![t] = m]
    /\ used' = [used EXCEPT ![t] = queuedBytes[session]]
    /\ mine' = [mine EXCEPT ![t] = session]
    /\ UNCHANGED <<ctxVars, lockVars, send, queuedBytes, writing>>

\* The CompareAndSwap, and after a failed one the next Load of the loop.
WriteCas(t) ==
    /\ pc[t] = "WriteCas"
    /\ \/ /\ CasSucceeds(t)
          /\ queuedBytes' = [queuedBytes EXCEPT ![mine[t]] = @ + msg[t]]
          /\ pc' = [pc EXCEPT ![t] = "WriteEnqueue"]
          /\ UNCHANGED <<mine, msg, used>>
       \/ /\ ~CasSucceeds(t)
          /\ ~OverBudget(queuedBytes[mine[t]], msg[t])
          /\ used' = [used EXCEPT ![t] = queuedBytes[mine[t]]]
          /\ UNCHANGED <<pc, mine, msg, queuedBytes>>
       \/ /\ ~CasSucceeds(t)
          /\ OverBudget(queuedBytes[mine[t]], msg[t])
          /\ WriteReturn(t)
          /\ UNCHANGED queuedBytes
    /\ UNCHANGED <<calls, ctxVars, lockVars, send, writing>>

\* case s.send <- owned
WriteEnqueue(t) ==
    /\ pc[t] = "WriteEnqueue"
    /\ Len(send[mine[t]]) < QueueCap
    /\ send' = [send EXCEPT ![mine[t]] = Append(@, msg[t])]
    /\ WriteReturn(t)
    /\ UNCHANGED <<calls, ctxVars, lockVars, queuedBytes, writing>>

\* The reservation a Write returns when its message was not queued.
GiveNothingBack(t) == UNCHANGED queuedBytes
GiveBack(t) == queuedBytes' = [queuedBytes EXCEPT ![mine[t]] = @ - msg[t]]

\* case <-s.ctx.Done()
WriteCancelled(t) ==
    /\ pc[t] = "WriteEnqueue"
    /\ ctxErr(mine[t])
    /\ GiveBack(t) /\ WriteReturn(t)
    /\ UNCHANGED <<calls, ctxVars, lockVars, send, writing>>

\* case <-timer.C, after enqueueTimeout
WriteNeverTimesOut(t) == FALSE /\ UNCHANGED <<clientVars, queueVars>>
WriteTimeout(t) ==
    /\ pc[t] = "WriteEnqueue"
    /\ GiveBack(t) /\ WriteReturn(t)
    /\ UNCHANGED <<calls, ctxVars, lockVars, send, writing>>

\* The serve loop takes the oldest message: case b := <-s.send
DequeueNewest(s) ==
    /\ send[s] # <<>>
    /\ writing' = [writing EXCEPT ![s] = send[s][Len(send[s])]]
    /\ send' = [send EXCEPT ![s] = SubSeq(@, 1, Len(@) - 1)]
    /\ UNCHANGED <<queuedBytes, msg, used>>

Dequeue(s) ==
    /\ send[s] # <<>>
    /\ writing' = [writing EXCEPT ![s] = Head(send[s])]
    /\ send' = [send EXCEPT ![s] = Tail(@)]
    /\ UNCHANGED <<queuedBytes, msg, used>>

\* After writeFrame, whether it failed or not: Add(-len(b)) and clear(b).
Release(s) ==
    /\ queuedBytes' = [queuedBytes EXCEPT ![s] = @ - writing[s]]
    /\ writing' = [writing EXCEPT ![s] = 0]
    /\ UNCHANGED <<send, msg, used>>

\* One turn of the drain loop at the end of runSession.
DrainOne(s) ==
    /\ send[s] # <<>>
    /\ queuedBytes' = [queuedBytes EXCEPT ![s] = @ - Head(send[s])]
    /\ send' = [send EXCEPT ![s] = Tail(@)]
    /\ UNCHANGED <<msg, used, writing>>

QueueTypeOK ==
    /\ send \in [Sessions -> Seq(Nat)]
    /\ queuedBytes \in [Sessions -> Int]
    /\ msg \in [Callers -> Nat]
    /\ used \in [Callers -> Int]
    /\ writing \in [Sessions -> Nat]

QueueInit ==
    /\ send = [s \in Sessions |-> <<>>]
    /\ queuedBytes = [s \in Sessions |-> 0]
    /\ msg = [t \in Callers |-> 0]
    /\ used = [t \in Callers |-> 0]
    /\ writing = [s \in Sessions |-> 0]
=============================================================================
