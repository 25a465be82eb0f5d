------------------------- MODULE SessionProperties --------------------------
(***************************************************************************)
(* What makes the websocket client correct: ownership of sessions and      *)
(* goroutines, the byte budget of the send queue, agreement between the    *)
(* desired subscription and the read node, and progress.                   *)
(***************************************************************************)
EXTENDS Session, FiniteSetsExt

\* Every variable has its type; in particular the callbacks spawned or running
\* at once never exceed the capacity of callbackSlots (websocket.go, dispatch).
TypeOK == ClientTypeOK /\ QueueTypeOK /\ SubTypeOK /\ CallbackTypeOK /\ SessionTypeOK

-----------------------------------------------------------------------------
(* Ownership.                                                              *)

\* A running runSession or reader belongs to the session in c.session, whose
\* done channel is open: Start never creates a second set of network
\* goroutines and Stop never forgets a running one (Start, Stop, runSession).
SessionOwnership ==
    \A s \in Sessions : Live(s) \/ Reading(s) => session = s /\ ~done[s]

\* A reader exists only while the serve loop that spawned it runs or joins
\* it: no reader survives into the next connection (deferred <-readDone).
ReaderJoined ==
    \A s \in Sessions : Reading(s) => /\ run[s] \in Serving \cup {"join"}
                                      /\ conn[s] # "none"

\* dispatch and parseIncoming read c.session anew on every message; what they
\* find is always the session their goroutine works for, so a callback waits
\* on the right context and a rejected listen cancels no other session.
OwnSession ==
    \A s \in Sessions :
        /\ \A k \in {"run", "read"} : dctx[<<k, s>>] \in {NoCtx, s}
        /\ target[s] \in {Nil, s}

\* A callback is dispatched only by a session whose done channel is open: from
\* the moment runSession ends, by itself or for a Stop that waits for it, until
\* the next Start, dispatch spawns nothing.  Callbacks it spawned before, at most
\* MaxSlots, may still begin and run after Stop has returned: nobody waits for
\* them (Stop, runSession, dispatch).
NoDispatchAfterEnd ==
    [][slots' > slots \/ spawned' > spawned => session # Nil /\ ~done[session]]_vars

-----------------------------------------------------------------------------
(* The send queue.                                                         *)

SumOf(h, S) == MapThenSumSet(LAMBDA i : h[i], S)
SeqSum(q) == SumOf(q, DOMAIN q)

\* Writes that wait for room in the channel of s, and the bytes they reserved.
Waiting(s) == {t \in Callers : pc[t] = "WriteEnqueue" /\ mine[t] = s}
Reserved(s) == SumOf(msg, Waiting(s))

\* queuedBytes counts exactly the bytes queued, being written or reserved by a
\* Write in progress, on every path of Write, serveConnection and the drain.
QueueAccounting ==
    \A s \in Sessions : queuedBytes[s] = SeqSum(send[s]) + writing[s] + Reserved(s)

\* Concurrent Writes never exceed maxMessageSize together: no interleaving of
\* their Load and CompareAndSwap steps overruns the budget (Write).
BudgetRespected == \A s \in Sessions : queuedBytes[s] <= MaxBytes

\* When done closes, the queue is empty and no Write on the session is in
\* flight: nothing is queued behind the drain (deferred function of
\* runSession, "Wait for any concurrent enqueue before draining").
NoBufferOutlivesSession ==
    \A s \in Sessions : done[s] =>
        /\ send[s] = <<>>
        /\ \A t \in Callers : ~(pc[t] \in {"WriteCas", "WriteEnqueue"} /\ mine[t] = s)

-----------------------------------------------------------------------------
(* Implementation of SessionOwner.                                         *)

\* Messages of s that Write has queued, the one being written first.
Pending(s) == (IF run[s] = "write" THEN <<writing[s]>> ELSE <<>>) \o send[s]

\* The serve loop of s owns a connection, or its session is being wound up.
Link(s) == IF run[s] \in Serving THEN "up"
           ELSE IF run[s] = "drain" THEN "closing" ELSE "down"

Owner == INSTANCE SessionOwner WITH
            Messages <- Sizes,
            count <- started,
            current <- session,
            alive <- {s \in Sessions : Live(s) \/ Reading(s)},
            queue <- [s \in Sessions |-> Pending(s)],
            link <- [s \in Sessions |-> Link(s)]

\* The client implements SessionOwner: however Start, Stop, Write, the loop and
\* its reader interleave, a session has its queue and its goroutines to itself,
\* messages are sent in the order in which Write queued them and none twice, a
\* connection that breaks loses at most the message it was sending, and nothing
\* is left behind (Start, Stop, Write, runSession, serveConnection).
OwnerSpec == Owner!Spec

-----------------------------------------------------------------------------
(* Subscriptions.                                                          *)

\* The revision the serve loop works with when it next looks at the channel.
LoopRevision(s) == IF run[s] \in {"unsub", "sub"} THEN snap[s].rev ELSE synced[s].rev

\* A serve loop about to wait has either seen the latest revision or finds a
\* notification in the channel: a change between the snapshot and the select
\* is not lost (serveConnection, notifySubscriptionLocked).
NoLostWakeup ==
    \A s \in Sessions :
        run[s] \in {"unsub", "sub", "select"} /\ ~notify[s]
            => LoopRevision(s) = subscriptionRevision

\* The read node holds for the connection of s exactly the desired state.
InSync(s) ==
    /\ server[s].addrs = Snapshot.addrs
    /\ server[s].sig = Snapshot.sig
    /\ server[s].listening = Snapshot.listening
    /\ Snapshot.addrs # {} \/ Snapshot.listening => server[s].types = Snapshot.types

\* A serve loop that has synchronised the current revision left the read node
\* with the desired addresses, signatures, filter and mode, whatever sequence
\* of calls and earlier synchronisations came before (syncSubscription).
ServerInSync ==
    \A s \in Sessions :
        run[s] \in {"select", "write"} /\ synced[s].rev = subscriptionRevision => InSync(s)

\* An unsubscribe frame means one thing: it either names addresses or ends
\* listening.  A frame that had to do both would leave the node listening.
UnsubscribeUnambiguous ==
    \A s \in Sessions : run[s] = "unsub" /\ LeavesListen(s) => Removed(s) = {}

\* The map of signatures covers the subscribed addresses and nothing else,
\* and the limit on addresses holds over any sequence of Subscribe calls.
SubscribedSigned ==
    /\ \A a \in Addrs : a \in subscribedAddresses <=> subscribedSignedData[a] # None
    /\ Cardinality(subscribedAddresses) <= MaxAddrs

\* Subscribe refuses a list exactly if the addresses would then be too many: one
\* that comes twice in the list, or is subscribed already, counts once (the loop
\* over addresses with its seen map, Subscribe).
LimitExact ==
    \A list \in Lists :
        TooMany(list) <=> Cardinality(subscribedAddresses \cup Listed(list)) > MaxAddrs

-----------------------------------------------------------------------------
(* Progress.                                                               *)

\* A closed socket hands out only the frames buffered before the close.
ReadClosed(s) == conn[s] = "closed" /\ ReadFail(s)

\* Goroutines run, the ones of callbacks too, timers fire and network calls have
\* deadlines.  Nothing is assumed of the application (that it makes a call, that
\* a callback returns) or of the read node.
Fairness ==
    /\ \A t \in Callers : WF_vars(CallerStep(t))
    /\ \A s \in Sessions :
         /\ WF_vars(RunStep(s)) /\ WF_vars(CloseOnCancel(s))
         /\ WF_vars(ReadNext(s)) /\ SF_vars(ReadClosed(s))
    /\ \A g \in Goroutines : WF_vars(DispatchStep(g))
    /\ WF_vars(CallbackStart /\ CallbackStep)

FairSpec == Spec /\ Fairness

\* An API call that has its first lock returns, Stop included, even if callbacks
\* hang and the send queue stays full: the wait of Write with c.mut read-locked,
\* a pending Lock and the serve loop's RLock form a cycle that only the timer
\* breaks.
CallsReturn == \A t \in Callers : pc[t] # "idle" ~> pc[t] = "idle"

\* A cancelled session ends: sign, dial, reads, writes, dispatch and back-off
\* all give way to cancellation and the reader is joined (runSession).
CancelledEnds == \A s \in Sessions : Live(s) /\ ctxErr(s) ~> done[s]

\* A rejected listen ends the session if callbacks return in the end.  The
\* rejection is reported before the session is cancelled and the report waits
\* for a callback slot: with every slot taken for ever the session would go on
\* without the events it was started for (parseIncoming, dispatch).
RejectionEnds ==
    WF_vars(CallbackReturn /\ CallbackStep) => \A s \in Sessions : rd[s] = "reject" ~> done[s]

\* A change of the desired state reaches the node unless the connection ends.
ChangesReachNode ==
    \A s \in Sessions : run[s] \in Serving ~> conn[s] # "open" \/ InSync(s)
=============================================================================
