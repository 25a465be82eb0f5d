--------------------------- MODULE Subscriptions ----------------------------
(***************************************************************************)
(* The desired subscription (addresses with their signatures, type filter, *)
(* mode), its revision counter, the one-place notification channel of a    *)
(* session, and syncSubscription, which brings a connection up to date     *)
(* with a snapshot of the desired state.                                   *)
(*                                                                         *)
(* Addresses, signatures and type filters are opaque values.               *)
(***************************************************************************)
EXTENDS Client

CONSTANTS
    Addrs,      \* addresses
    Sigs,       \* signatures
    Filters,    \* non-empty lists of transaction types
    MaxAddrs    \* limit on subscribed addresses: 251

ASSUME SubscriptionAssumption ==
    /\ IsFiniteSet(Addrs)
    /\ MaxAddrs \in Nat
    /\ None \notin Sigs \cup Filters

Modes == {"Subscription", "Listen", "Push"}

VARIABLES
    subscribedAddresses,   \* keys of the map
    subscribedSignedData,  \* map; None where the key is absent
    subscribedTypes,       \* a filter, or None when nil
    mode,
    subscriptionRevision,
    notify,   \* notify[s]: s.subscriptions holds an element
    snap,     \* snap[s]: locals of syncSubscription
    synced,   \* synced[s]: locals first, previous, wasListening, revision
    server    \* server[s]: what the read node holds for the connection

desiredVars == <<subscribedAddresses, subscribedSignedData, subscribedTypes,
                 mode, subscriptionRevision>>
syncVars == <<snap, synced, server>>
subVars  == <<desiredVars, notify, syncVars>>

Signed == [Addrs -> Sigs \cup {None}]
NoneSigned == [a \in Addrs |-> None]

\* The addresses, signatures, filter and mode a message to the node carries.
Message == [rev : Nat, listening : BOOLEAN, addrs : SUBSET Addrs,
            sig : Signed, types : Filters \cup {None}]
SyncState == [first : BOOLEAN, addrs : SUBSET Addrs, listening : BOOLEAN, rev : Nat]
ServerState == [addrs : SUBSET Addrs, sig : Signed, types : Filters \cup {None},
                listening : BOOLEAN]

NoMessage == [rev |-> 0, listening |-> FALSE, addrs |-> {},
              sig |-> NoneSigned, types |-> None]
NotSynced == [first |-> TRUE, addrs |-> {}, listening |-> FALSE, rev |-> 0]
NewConnection == [addrs |-> {}, sig |-> NoneSigned, types |-> None,
                  listening |-> FALSE]

-----------------------------------------------------------------------------
(* The desired state.                                                      *)

\* A send that does not block: a full channel keeps its element.
notifySubscriptionLocked ==
    notify' = IF session = Nil THEN notify ELSE [notify EXCEPT ![session] = TRUE]

NextRevision == subscriptionRevision' = subscriptionRevision + 1

\* Subscribe and Unsubscribe return early without a running session.
Usable == session # Nil /\ ~ctxErr(session)

\* The lists of addresses a call may carry; an address may come twice.
Lists == UNION {[1..n -> Addrs] : n \in 1..MaxAddrs}
Listed(list) == {list[i] : i \in DOMAIN list}

\* Where the loop finds an address that is neither in the map nor in `seen`.
Unsubscribed(list) == {i \in DOMAIN list : list[i] \notin subscribedAddresses}
UnseenForgotten(list) == Unsubscribed(list)
Unseen(list) ==
    {i \in Unsubscribed(list) : \A j \in Unsubscribed(list) : j < i => list[j] # list[i]}

total(list) == Cardinality(subscribedAddresses) + Cardinality(Unseen(list))

TooMany(list) == total(list) > MaxAddrs

Subscribe(t) ==
    /\ pc[t] = "Subscribe" /\ MutHeld(t)
    /\ mutWaiter' = None /\ Return(t)
    /\ \/ /\ Usable
          /\ \E list \in Lists, f \in Filters \cup {None} :
               \E sig \in [Listed(list) -> Sigs] :
               /\ ~TooMany(list)
               /\ subscribedAddresses' = subscribedAddresses \cup Listed(list)
               /\ subscribedSignedData' = [a \in Addrs |->
                     IF a \in Listed(list) THEN sig[a] ELSE subscribedSignedData[a]]
               /\ subscribedTypes' = IF f = None THEN subscribedTypes ELSE f
          /\ UNCHANGED mode
          /\ NextRevision
          /\ notifySubscriptionLocked
       \/ /\ ~Usable \/ \E list \in Lists : TooMany(list)
          /\ UNCHANGED <<desiredVars, notify>>
    /\ UNCHANGED <<mine, calls, ctxVars, lifecycle, httpWaiter, syncVars>>

ClearKeepsSignatures ==
    /\ subscribedAddresses' = {} /\ subscribedTypes' = None
    /\ UNCHANGED <<subscribedSignedData, mode>>
    /\ NextRevision

ClearDesired ==
    /\ subscribedAddresses' = {}
    /\ subscribedSignedData' = NoneSigned
    /\ subscribedTypes' = None
    /\ UNCHANGED mode
    /\ NextRevision

Unsubscribe(t) ==
    /\ pc[t] = "Unsubscribe" /\ MutHeld(t)
    /\ mutWaiter' = None /\ Return(t)
    /\ \/ /\ Usable /\ subscribedAddresses # {}
          /\ ClearDesired
          /\ notifySubscriptionLocked
       \/ /\ ~Usable \/ subscribedAddresses = {}
          /\ UNCHANGED <<desiredVars, notify>>
    /\ UNCHANGED <<mine, calls, ctxVars, lifecycle, httpWaiter, syncVars>>

WithModeSilent(t) ==
    /\ pc[t] = "WithMode" /\ MutHeld(t)
    /\ mutWaiter' = None /\ Return(t)
    /\ \E m \in Modes : mode' = m
    /\ NextRevision
    /\ UNCHANGED <<subscribedAddresses, subscribedSignedData, subscribedTypes, notify,
                   mine, calls, ctxVars, lifecycle, httpWaiter, syncVars>>

WithMode(t) ==
    /\ pc[t] = "WithMode" /\ MutHeld(t)
    /\ mutWaiter' = None /\ Return(t)
    /\ \E m \in Modes : mode' = m
    /\ NextRevision
    /\ notifySubscriptionLocked
    /\ UNCHANGED <<subscribedAddresses, subscribedSignedData, subscribedTypes,
                   mine, calls, ctxVars, lifecycle, httpWaiter, syncVars>>

-----------------------------------------------------------------------------
(* One connection.                                                         *)

\* The snapshot syncSubscription takes under RLock.
SnapshotInEveryMode ==
    [rev |-> subscriptionRevision, listening |-> mode = "Listen",
     addrs |-> subscribedAddresses, sig |-> subscribedSignedData,
     types |-> subscribedTypes]

Snapshot ==
    LET addrs == IF mode = "Subscription" THEN subscribedAddresses ELSE {}
    IN  [rev |-> subscriptionRevision,
         listening |-> mode = "Listen",
         addrs |-> addrs,
         sig |-> [a \in Addrs |-> IF a \in addrs THEN subscribedSignedData[a]
                                                 ELSE None],
         types |-> subscribedTypes]

\* Addresses sent earlier on this connection and absent from the snapshot.
RemovedNothing(s) == {}
Removed(s) == synced[s].addrs \ snap[s].addrs

LeavesListenForgotten(s) == FALSE
LeavesListen(s) == synced[s].listening /\ ~snap[s].listening

NeedsUnsubscribe(s) == Removed(s) # {} \/ LeavesListen(s)
NeedsSubscribe(s)   == snap[s].addrs # {} \/ snap[s].listening

\* The read node applies frames in order (external).  An unsubscribe without
\* addresses ends listening; a subscribe adds to what the node holds.
ServerUnsubscribe(v, removed) ==
    [v EXCEPT !.addrs = @ \ removed,
              !.sig = [a \in Addrs |-> IF a \in removed THEN None ELSE @[a]],
              !.listening = @ /\ removed # {}]

ServerSubscribe(v, m) ==
    [v EXCEPT !.addrs = @ \cup m.addrs,
              !.sig = [a \in Addrs |-> IF a \in m.addrs THEN m.sig[a] ELSE @[a]],
              !.types = m.types,
              !.listening = @ \/ m.listening]

\* What syncSubscription hands back to the serve loop.
SyncedTo(m) == [first |-> FALSE, addrs |-> m.addrs, listening |-> m.listening,
                rev |-> m.rev]

\* The connection is gone, and with it the loop's locals and the node's view.
ForgetConnection(s) ==
    /\ snap' = [snap EXCEPT ![s] = NoMessage]
    /\ synced' = [synced EXCEPT ![s] = NotSynced]
    /\ server' = [server EXCEPT ![s] = NewConnection]

SubTypeOK ==
    /\ subscribedAddresses \in SUBSET Addrs
    /\ subscribedSignedData \in Signed
    /\ subscribedTypes \in Filters \cup {None}
    /\ mode \in Modes
    /\ subscriptionRevision \in Nat
    /\ notify \in [Sessions -> BOOLEAN]
    /\ snap \in [Sessions -> Message]
    /\ synced \in [Sessions -> SyncState]
    /\ server \in [Sessions -> ServerState]

SubInit ==
    /\ subscribedAddresses = {}
    /\ subscribedSignedData = NoneSigned
    /\ subscribedTypes = None
    /\ mode = "Subscription"
    /\ subscriptionRevision = 0
    /\ notify = [s \in Sessions |-> FALSE]
    /\ snap = [s \in Sessions |-> NoMessage]
    /\ synced = [s \in Sessions |-> NotSynced]
    /\ server = [s \in Sessions |-> NewConnection]
=============================================================================
