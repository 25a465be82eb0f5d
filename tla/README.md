# A TLA+ model of tcabci-read-go-client

The repository is a Go client of a TransferChain read node: an HTTP API for
blocks and transactions, and a websocket over which the node pushes events.
The websocket client (`src/websocket.go`) is where the difficult behaviour is:
one session owns several goroutines, three locks and four channels, and any
number of application goroutines call into it. This directory models it,
model-checks it on small instances and proves its safety properties for every
instance. The messages of the node, the websocket authority, the HTTP endpoints
with their parameter checks, and certificate pinning are modelled, checked and
proved as well, each in modules of its own.

## 1. The system

| Component | State | Operations | Hard behaviour |
| --- | --- | --- | --- |
| Session lifecycle (`Start`, `Stop`, `runSession`, `serveConnection`) | `c.session`, its context, `done`, the connection, `readDone`, the back-off delay | start, stop, sign, dial, serve, join, back off, drain | `Stop` waits without `c.mut`; a session can end by itself; cancellation from four places |
| Send queue (`Write`, `WSQuery`) | `s.send` (64 messages), `s.queuedBytes` (16 MiB) | reserve, enqueue, dequeue, release, drain | a lock-free reservation; a wait with `c.mut` read-locked |
| Subscriptions (`Subscribe`, `Unsubscribe`, `WithMode`, `syncSubscription`) | two maps, filter, mode, revision, `s.subscriptions`; what the node holds | change, notify, snapshot, unsubscribe frame, subscribe frame | changes between snapshot and wait; differences against a remembered list |
| Callbacks (`Add*Callback`, `call*`, `dispatch`) | three lists, `callbackSlots` (16) | register, copy, dispatch, begin, return | callbacks that never return, or begin late; the context is looked up anew each time |
| Locks shared with HTTP (`WithProxy`, `copyHeaders`, `do`, `logError`) | `c.mut`, `c.lifecycle`, `c.httpMu` | lock, read-lock | several lock orders, a read lock kept for a whole request |
| Pinning (`newClient`, `verifyPeer`, default list) | default list, the pin captured by the client | set, add, create client, handshake | the list changes during handshakes; combinations of inputs |
| Incoming messages (`parseIncoming`, `decodeTransaction`) | none | classify, call back, cancel | values that decode without being there; two answers with different ideas of success |
| Websocket authority (`WithWSAuthority`, `CreateWSAuthorityV3`) | address and signer, websocket headers | configure, copy, sign, dial | the configuration changes between copy and dial; a header is good for one handshake |
| HTTP endpoints (`LastBlock`, `Tx`, `TxSummary`, `TxSearch`, `Broadcast*`, `Query`, `FetchNS`) | `c.headers`; requests and responses from pools of the process | check, acquire, build, send, decide, release | early returns with pooled objects; `copyHeaders` overwrites; status and body combine |
| Request validation (`Search`, `Summary`, `Type`) | none | check, copy, fill in the chain | the same limits written twice; a value shared by several calls |
| Errors (`Error`, `responseSnapshot`) | the error itself | | outlives the response it is about |
| Logger, transport, instance id, utilities | none of interest | | |

They interact through `c.mut` (all of them), through `c.session` (the API calls,
`dispatch` and `parseIncoming` read it; only `Start` and `Stop` write it), and
through the channels of the session. What makes each correct:

* lifecycle: at most one set of network goroutines, owned by `c.session`; a
  cancelled session ends; every call returns;
* queue: the counter equals the bytes it stands for, the budget holds, nothing
  survives the session;
* subscriptions: no change is missed; the node ends with the desired state; the
  limit on addresses is exact;
* callbacks: at most 16 spawned or running at once, none dispatched after the end
  of the session, always under the session they belong to;
* incoming messages: nothing but an acknowledgement passes in silence;
* authority: fresh for each handshake, of one configuration, never left out;
* HTTP: a pooled object is in one place, a request carries what is its own, a
  result belongs to its answer, an error stays what it was;
* pinning: an accepted chain was vouched for by a pin in force; what was pinned
  is not rejected; inputs bind.

`PROJECT.json` lists the hazards line by line.

## 2. The modules

```
Client ──┬── SendQueue ─────┐
         ├── Subscriptions ─┤
         ├── Callbacks ─────┼── Session ── SessionProperties ─┬── MCSession
Envelopes ──┬───────────────┘       SessionOwner ─┘ (refined)  └── SessionTypes ── SessionProofs ─┬── SessionDataProofs
            └── MCInputs ── InputProofs                                                         └── SessionRefinement
Validation ─┴── HttpApi ─┬── MCHttpApi
                         └── HttpProofs
Authority ── AuthorityProofs
Pinning ─┬── MCPinning
         └── PinningProofs
```

* **Client** – what everything shares: where each application goroutine is
  (`pc`), its local `s` (`mine`), `c.session`, contexts, `done`, the locks. A
  session is a number, given by `Start` in order, so that "a later session" has
  a meaning. A critical section that cannot block is one step. A lock appears
  only where it is kept across steps or waited for: `mutWaiter` is the
  goroutine inside `c.mut.Lock()`, which shuts out new readers at once (as
  `sync.RWMutex` does) and holds the lock when the last reader has left
  (`MutHeld`). `httpWaiter` is the same for `c.httpMu`.
* **SendQueue** – `Write`: the `Load` and the `CompareAndSwap` are separate steps,
  then the three-way `select`. A message is its length.
* **Subscriptions** – the desired state and one connection's view of it: `snap`
  and `synced` are the locals of `syncSubscription` and of the serve loop,
  `server` what the node holds. The node is external: frames are applied in
  order, an unsubscribe without addresses ends listening, a subscribe adds. A
  `Subscribe` carries a list that may repeat an address, and `Unseen` are the
  places at which its loop counts one.
* **Callbacks** – the lists by their length, `todo` and `dctx` the progress of one
  loop over a copied list. `dispatch` takes a slot and spawns a goroutine
  (`spawned`); that goroutine calls the callback in a step of its own
  (`CallbackStart`), when the session may be over and `Stop` may have returned.
* **Session** – the composition: API calls, `runSession`, the reader. `run[s]` is
  the program counter of `runSession`, `rd[s]` of the reader. Every action
  conjoins what it does to each component. The network is nondeterministic:
  a dial, a read or a write may fail at any time and always fails on a socket
  this side has closed; frames that were buffered may still be read.
* **Envelopes** – a message of the node is what the code asks of it: is it JSON, an
  object or a bare `null`, its id, its type, its state, and whether the payload
  is there, is null, and decodes. An empty object decodes as a block: the code
  then delivers a zero `Block` (`src/websocket.go:471`). `parseIncoming` gives its effect (`event`,
  `bad`, `listenFail`, `quiet`), and `Session` takes it from there.
* **SessionOwner** – the abstract specification, after `src/websocket.go:18` ("A
  session owns its queue and all network goroutines until done closes"): one
  session at a time is alive and its queue is first-in first-out. `link` tells
  what may happen to a message: `Send` while a connection is up, lost (the head,
  at most) in the step in which the connection breaks, kept while it is down, and
  `Drop` only when the session is closing. It ends empty, and only then is it
  forgotten or followed by another.
* **SessionProperties** – properties, fairness, and the refinement: `started`,
  `c.session`, the sessions with a loop or a reader, and for each session the
  message being written followed by the channel (`Pending`) stand for `count`,
  `current`, `alive` and `queue` of `SessionOwner`; `Link` is up while the serve
  loop runs and closing during the drain. Everything else stutters.
  **MCSession** – TLC instances.
* **SessionTypes**, **SessionProofs**, **SessionDataProofs**, **SessionRefinement**,
  **AuthorityProofs**, **HttpProofs**, **InputProofs**, **PinningProofs** – proofs.
* **Validation** – `Search` and `Summary` by the lengths of their lists and by
  whether a name is empty, known or unknown; `Filled` and `AfterCall` are the
  defaults and the copy they go into. `Absent` is a nil pointer.
* **HttpApi** – the seven endpoints as one pipeline (check and acquire, copy
  headers, send, receive, decide, release) and a record of what is each one's
  own: method, accepted status, choice of the chain, whether the result is
  prefilled (`Tx`, `FetchNS`), whether errors carry a code (`LastBlock`), whether
  there is a signature. The pools are external: `free` counts how often an object
  lies in its pool. `seen` is a history variable: the headers set all the time,
  and at some time, during the call.
* **Authority** – the turn of `runSession` up to the dial: copy, sign, dial, retry,
  against changes by the application. Nonces are drawn in order; that 32 random
  bytes never repeat is assumed. `inForce` is a history variable: the
  configurations since the copy. A cancelled attempt is a failed one here; what
  cancellation does is in `Session`.
* **MCInputs** – one step over all messages and all searches.
* **Pinning** – the pin list, `newClient`, one handshake. Digests stand for
  certificates; pin texts keep their case and may be malformed. `listed` is a
  history variable: the pins that were in the list at some time, and all the
  time, during the handshake. That a certificate vouches for the leaf is stated
  without `signedChain`: every set of presented certificates that holds it and
  all that its members have signed holds the leaf.

Definitions whose name is explained as "what it must not be" next to the real
one (`StopWaitSkipped`, `CasSucceedsAlways`, …) are mutated forms of the
definition that follows; `PROJECT.json` says which property each one breaks.

### Abstractions

* Time: timers and deadlines may fire at any moment. `enqueueTimeout`, the ping
  ticker, the back-off and the write deadline are therefore disjuncts without
  a guard on time. Fairness says that they fire.
* Acquiring a lock and beginning the call are one step: a call is in progress
  once it has its first lock. An HTTP request has three waits, for its headers
  (`HttpCall`), for `c.httpMu` (`HttpDo`) and, after a failure, for `logError`
  (`HttpLog`); in `Session` it may log whatever the answer was.
* Early returns that change nothing (arguments out of range, no session) are
  steps that change nothing; the ones behind a lock release it.
* Callbacks are counted, not identified: spawned, begun, and gone when one returns
  and frees its slot. One that hangs keeps it.
* JSON is what the code asks of a value, see Envelopes; that a key may appear
  twice or in another case is `encoding/json`'s.
* Bodies of answers are a value, a null `data`, no `data`, or undecodable. A
  prefilled result stays zero without `data` and is refused for a null: that a
  zero `Transaction` is returned for an answer without `data` is what the code
  does, and `AnswerFaithful` says in which case.
* `ToRequest` cannot fail: the structs it encodes hold nothing JSON cannot express.
* URLs, the pool of URIs (acquired and released next to the requests), bodies,
  the extra headers of `Query`, and log lines are left out. The three broadcasts
  differ in the path only and are one endpoint.

## 3. The runs

| Run | Instance | Question |
| --- | --- | --- |
| `lifecycle` | 2 callers, 5 calls, 2 sessions, 1 slot, 1 callback per kind, all kinds of messages | Do goroutines, contexts and `c.session` always belong together? |
| `queue` | 3 callers, 7 calls, 2 sessions, capacity 2, budget 4, sizes 1 and 2 | Is every byte accounted for, is the budget kept, is nothing left behind the drain, do messages leave in order and once? |
| `subscribe` | 2 callers, 5 calls, 2 sessions, 3 addresses, 2 signatures, limit 2, lists of one and two | Is no change missed, does the node hold the desired state, is the limit exact? |
| `progress` | 2 callers, 5 calls (`Write`, `WithMode`, `Start`, `Stop`), capacity 1 | Does every call return, although `Write` waits inside the read lock? |
| `shutdown` | 2 callers, 4 calls, callbacks that may hang, rejected listens, context cancelled | Does a cancelled session end, is nothing dispatched after that, does every call return, does a rejected listen end its session? |
| `locks` | 3 callers, 5 calls (`Stop`, `WithProxy`, HTTP, `WithWSAuthority`) | Is there an order of the three locks that blocks? |
| `converge` | 2 callers, 4 calls, 1 address | Does an open connection reach the desired state? |
| `inputs` | all 21 thousand shapes of a message, all searches with lists up to 3 and limits 2, 1, 1 | Does nothing but an acknowledgement pass in silence, are the address lists of an accepted search bounded, has it a summary? |
| `http` | 2 goroutines, 2 calls, 2 clients, all endpoints, statuses 200, 201, 404, 503, every body, one header, two shared queries | Do pooled objects, requests, chains, results and errors keep apart? |
| `authority` | 2 addresses, 2 signers, bounds on dials, nonces and changes | Is each authority fresh, of one configuration, and never left out? |
| `pinning` | leaf, intermediate, root, stranger; chains up to 3, every input | Does an accepted chain satisfy the pins in force, and the converse? |
| `pin_leaf` | the same | Does an enabled pin always match the leaf, as the README says? (No.) |

All but `pin_leaf` pass; each takes between two seconds and three minutes, with
46 thousand to 2.7 million distinct states. `queue` also checks `OwnerSpec`, that the client
implements `SessionOwner`: it is the run in which messages compete.

**Bounds.** Two sessions are enough for every relation between an old and a new
one, because `Start` demands that all earlier ones have ended. Two callers make
every pair of calls overlap; three are used where a property involves a third
(two writers and a stopper, three locks). The queue of two places is filled,
and blocks a third `Write`; the budget of 4 is exceeded by two Writes of 2 on
top of one; two of three addresses exceed the limit by one. One slot is the
smallest number that can be full. Two HTTP calls suffice for two holders of a
pooled object, for a second use of one after the first error, and for two clients
that share a query; the four statuses are one of each branch, and 201 is accepted
by some endpoints only. List lengths go from zero to one above the largest limit.
`MaxCalls` and `MaxSessions` bound the runs
only; the proofs hold for any value.

**Deadlock** is not checked as such: once the calls of the instance are used up,
a stopped client has nothing to do. Blocking is what `CallsReturn` and
`CancelledEnds` are about.

**Fairness** (`Fairness` in SessionProperties). Weakly fair: the steps of a call
in progress, of `runSession`, of a dispatch, of the reader when a message has
been handled, the `AfterFunc` that closes the socket, and the beginning of a
spawned callback. The Go scheduler runs
every goroutine that can run, `sync.RWMutex` does not starve a writer, timers
fire, dials and writes have deadlines, an HTTP request has time-outs of seven
seconds, and a signer must "honor cancellation promptly" (`src/authority.go:53`).
Strongly fair: a read from a socket that this side has closed fails in the end,
because only finitely many frames were buffered (the model lets any number
arrive, so that the reader is between two messages again and again). Nothing is
assumed of the application's next calls, of its callbacks (they may hang), of
the node, or of the choice `select` makes when several cases are ready.

`RejectionEnds` is the one property that needs callbacks to return, and says so
(`WF_vars(CallbackReturn /\ CallbackStep) => ...`). Without it TLC finds the session that goes on: an
event's callback holds the last slot for ever, the report of the rejection waits
for a slot, and the cancellation comes after the report (`src/websocket.go:488`).
No doc says which of the two should come first.

**Late callbacks.** `NoDispatchAfterEnd` says that nothing is dispatched from the end
of a session to the next `Start`. It does not say that no callback runs then: a
goroutine spawned before may call its callback after `Stop` has returned, or in
the next session. The model has these behaviours, `MaxSlots` bounds how many
there are, and no doc of the repository promises more.

**Callbacks that hang.** Only `lifecycle` and `shutdown` have callbacks. `CallsReturn` is
checked in three runs: `progress` for the queue, `locks` for the three locks,
`shutdown` for dispatches that wait for a slot no callback gives back.

**What `converge` says.** `ChangesReachNode` promises agreement at some moment or
the end of the connection, while calls may go on changing the state; since the
calls of the instance run out, the last change is covered too.

**Finding.** `src/README.md:94` and `:100` say that an enabled pin binds to the
leaf certificate. `verifyPeer` accepts the pin of any CA of the presented chain
that signs down to the leaf, as the comments in `src/client.go:209` and
`src/certificate.go:74` say. The run `pin_leaf` shows a chain accepted by the pin
of the intermediate. The code and its comments agree with one another, and the
default list contains intermediates on purpose: the README is out of date.

## 4. The proofs

`SessionTypes` proves that each action keeps every variable in its type; the only
things it needs beyond the types are that a `Start` in progress has a session
number left and that a `Write` in progress has a session (`CallsBound`).

`SessionProofs` proves, for all constants satisfying the named assumptions
(`ClientAssumption`, `QueueAssumption`, `SubscriptionAssumption`,
`CallbackAssumption`, `SessionAssumption`), that `IndInv` is inductive:

* `CallInv` – who is in `Start` or `Stop` holds `c.lifecycle`, and the local `s` of
  `Stop` and `Write` is still `c.session`; a `Write` keeps its session from
  closing `done`. Needed because `Stop` uses its `s` after giving up `c.mut`.
* `LoopInv` – numbers up to `started` are in use, a live loop is `c.session`,
  `done` is closed exactly when the loop has ended. Without it nothing says that
  `Start` finds no live loop when `done` of the last session is closed.
* `ReaderInv` – a reader lives inside its serve loop; `readDone` is filled only by
  a reader that has exited, so the join really joins.
* `DispatchInv` – a loop over copied callbacks is under way only at the places
  that copied them; with the above, the session found there is the own one.
* `QueueInv` – the budget, and that what a `Write` has loaded leaves room for its
  message, so a swap that succeeds keeps the budget.
* `NoLostWakeup` – inductive given `LoopInv`: a change notifies `c.session`, and a
  waiting loop is `c.session`.

The steps are grouped (`OtherCall`, `MoveStep`, `SideStep`) so that a part of the
invariant is argued once for all actions that leave its variables alone. From
`IndInv` follow `TypeCorrect`, `Ownership`, `ReadersJoined`, `SessionIsOwn`,
`QuietAfterEnd` (an action property), `Budget`, `Drained` and `Wakeup`.

`SessionRefinement` proves `Implementation`, that the client implements
`SessionOwner`. By `ReaderInv` a reader lives inside a live loop, so the set `alive`
is decided by the loops, and by `LoopInv` it is empty or `{c.session}`. Then each
visible step is one step of the owner: `Start` is `Begin` (`StartFresh`: no loop is
live), the enqueue of `Write` is `Put` (`CallInv`: its session is `c.session` and not
done), a dial is `Connect`, a write is `Send`, a step that leaves the serve loop is
`Break`, with the message in hand if it is a write that failed, the turn from the
loop to the drain is `Close`, a turn of the drain `Drop`, its end `End`, and the second
half of `Stop` is `Forget` (`CallInv`: done is closed). `LinkMoves` and `LinkTurns` read the
owner's step off the place `runSession` comes from and goes to. Taking a message
out of the channel is no step: it moves from the channel into the hand, and
`Pending` stays the same. Besides `IndInv` only `MsgInv` is needed: what a `Write`
carries is one of the application's messages.

`AuthorityProofs` proves the three properties of `Authority` for any signers,
addresses and bounds. `LoopInv` there says what the loop's variables hold at each
place (a header only on the way to the dial, made from the copied configuration),
`NonceInv` that nonces grow from handshake to handshake and that the header under
way has a larger one than all before. The assumption that an authority is neither
`Nil` nor `Own` is part of `AuthorityAssumption`.

### What a session holds

`SessionDataProofs` adds two invariants to `IndInv`, each inductive together with it.

`AccountInv` is the byte counter: `queuedBytes[s]` equals the messages in the
channel, the one the loop is writing and those reserved by a `Write` that has
swapped and not yet sent; and nothing is in the loop's hand except while it
writes. The second part is needed when the loop takes the next message. The sums
are folds of the community modules (`MapThenSumSet`) over the places of the
channel and over the waiting callers. That such a fold is a sum, in whatever
order it takes the elements, is proved first: `AdditiveExists` and
`AdditiveUnique` say that one function on the subsets of a finite set adds up its
elements, `SumIsAdditive` that the fold is it, and `SumRemove`, `SumAppend` and
`SumTail` follow. From there each step moves one length from one of the three
places to another (`WriteBalance`, `TakeBalance`).

`SubscriptionInv` ties the desired state, the snapshot, what the serve loop
remembers and what the node holds together, place by place: `Remembered` (the
loop's memory is the node's state except between the unsubscribe and the
subscribe frame, where the node may hold less), `SnapshotInUse` (the snapshot is
the desired state of its revision; after the unsubscribe frame the node holds
nothing outside of it) and `LastSynced` (what was synchronised last is the
desired state of its revision). A change raises the revision, which makes older
snapshots claim nothing. `SignaturesMatch`, `FramesUnambiguous` and `NodeAgrees`
follow. `LimitIsExact` rests on a bijection between the places `Subscribe` counts and
the addresses that are new, each at its first place (`UnseenCountsNew`).

### Pinning

`PinInv`: the pins `verifyPeer` has copied lie between those listed all the time
and those listed at some time during the handshake (`CopyInv`), so edits between
the copy and the comparison do no harm, and a verdict is one about the signed
prefix of the chain that later edits cannot undo (`VerdictInv`). `SignedPrefix` and
`PrefixVouches` say of `signedChain`, for chains of any length, that it returns a
prefix in which each certificate has signed the one before it, and that each
member of it vouches for the leaf.

### HTTP

`HttpInv` says what a goroutine holds at each place (`Holding`, `Requested`,
`Answered`), that a pooled object is in its pool once or in one hand (`Owned`), and
that a result refers to a status and to no pooled object (`Independent`). `Owned` is
what makes a step of one call leave the request and the response of another
alone.

### Inputs

`InputProofs` proves the properties of `MCInputs` for every limit and every length
of a list: a verdict is that of `parseIncoming` or of `IsValidSearch` on the input
at hand (`VerdictInv`), and the rest follows from the definitions.

### Assumptions, and what stays with TLC

The assumptions are the named ones of the modules. Besides types and distinct
model values they say that the application has finitely many goroutines
(`IsFiniteSet(Callers)`, needed for the sum over the waiting Writes; it is so of
every Go program), that there are finitely many addresses, that the caller of
`TxSearch` and `TxSummary` fills in a chain of its own or none (`HttpAssumption`; the
chain of a client gets into a query only through the code under proof), and that
the two pools hold different objects. Bounds (`MaxCalls`, `MaxSessions`, `MaxEdits`,
`MaxChain`, …) are arbitrary numbers.

The theorems of the library that do induction take an operator as a parameter,
which the installed provers cannot instantiate. Where an argument needs
induction (`SumTail`, `AdditiveExists`, `PrefixVouches`) it is given as one about a
least or minimal counterexample, from `WFMin` and the well-foundedness of `<` on
the naturals and of strict inclusion on the subsets of a finite set
(`LeastElement`, `FiniteLeast`).

Every invariant and every action property of the runs is a theorem. The inductive
invariants were checked by TLC on the instances of section 3 before they were
proved. Only model-checked: `CallsReturn`, `CancelledEnds`, `RejectionEnds` and
`ChangesReachNode`, which are liveness and need fairness and ENABLED. The run
`pin_leaf` refutes its property, so there is nothing to prove.

## 5. Plan

Done: the websocket client with its runs, proofs and refinement; the messages of
the node; the authority; the HTTP endpoints, validation and errors; pinning; for
each, the safety properties are proved. Left: the safety half of the liveness
arguments, that is, who holds the lock or the slot a waiting goroutine waits
for, as an invariant of `Session`; and a statement of what `SessionOwner` by itself
promises, which the refinement carries over to the client.

## 6. Not modelled

* Logger (`src/logger.go`), `WithLogger`, `SetVerbose`, transport (`src/transport.go`):
  output only.
* Instance id (`src/passkey.go`): a random name drawn once; nothing depends on it.
* Utilities (`src/util.go`): `InArray` is used for the method of `Query`, which is the
  `ok` of `Accepts`; `StringOR` is not used by the client.
* The names in `TypesSlice`, `OrderBy` and `HeightOperator`: a name is known or not.
* What fasthttp does by itself: retries, connections kept open, the dialler that
  `WithProxy` replaces. A request that fails after the node accepted it (a
  broadcast, say) is an error for the caller, who cannot tell.
* The text of URLs, headers, JSON and signatures; hostname checks and expiry, which
  belong to `crypto/tls`; the node's clock, and with it the ten seconds an
  authority is valid.
* URL checks at the head of `newClient`: errors before any state exists.
