------------------------- MODULE SessionDataProofs --------------------------
(***************************************************************************)
(* What a session holds: the byte counter of its send queue is exact, and  *)
(* its subscriptions agree with the read node, for any messages,           *)
(* addresses, signatures, filters and any number of callers and sessions.  *)
(***************************************************************************)
EXTENDS SessionProofs, FiniteSetTheorems

-----------------------------------------------------------------------------
(* Sums over finite sets.                                                  *)

\* A non-empty set of natural numbers has a least element.
LEMMA LeastElement ==
  ASSUME NEW T \in SUBSET Nat, T # {}
  PROVE  \E m \in T : \A n \in T : m <= n
<1> DEFINE R == OpToRel(<, Nat)
<1>1. IsWellFoundedOn(R, Nat)
  BY NatLessThanWellFounded
<1> HIDE DEF R
<1>2. PICK m \in T : \A n \in T : <<n, m>> \notin R
  BY <1>1, WFMin
<1>3. \A n \in T : ~(n < m)
  BY <1>2 DEF R, OpToRel
<1> QED
  BY <1>2, <1>3

\* A non-empty set of subsets of a finite set has a minimal one.
LEMMA FiniteLeast ==
  ASSUME NEW S, IsFiniteSet(S), NEW T \in SUBSET (SUBSET S), T # {}
  PROVE  \E m \in T : \A n \in T : n \subseteq m => n = m
<1> DEFINE R == StrictSubsetOrdering(S)
<1>1. IsWellFoundedOn(R, SUBSET S)
  BY FS_StrictSubsetOrderingWellFounded, FS_FiniteSubsetsOfFinite
<1> HIDE DEF R
<1>2. PICK m \in T : \A n \in T : <<n, m>> \notin R
  BY <1>1, WFMin
<1>3. \A n \in T : n \subseteq m => n = m
  BY <1>2 DEF R, StrictSubsetOrdering
<1> QED
  BY <1>2, <1>3

\* f sums h over the subsets of S, whatever the order.
Additive(f, h, S) ==
    /\ f \in [SUBSET S -> Int] /\ f[{}] = 0
    /\ \A U \in SUBSET S : \A x \in U : f[U] = h[x] + f[U \ {x}]

\* Such a function exists: elements are added one at a time.
LEMMA AdditiveExists ==
  ASSUME NEW S, IsFiniteSet(S), NEW h, \A x \in S : h[x] \in Int
  PROVE  \E f : Additive(f, h, S)
<1> DEFINE bad == {T \in SUBSET S : ~ \E f : Additive(f, h, T)}
<1> SUFFICES ASSUME bad # {} PROVE FALSE
  OBVIOUS
<1>0. bad \in SUBSET (SUBSET S)
  OBVIOUS
<1> HIDE DEF bad
<1>1. PICK T \in bad : \A n \in bad : n \subseteq T => n = T
  BY <1>0, FiniteLeast
<1> USE DEF bad
<1>2. CASE T = {}
  <2>1. Additive([U \in SUBSET T |-> 0], h, T)
    BY <1>2 DEF Additive
  <2> QED
    BY <1>1, <2>1
<1>3. CASE T # {}
  <2>1. PICK a \in T : TRUE
    BY <1>3
  <2>2. PICK f : Additive(f, h, T \ {a})
    BY <1>1
  <2> DEFINE g == [U \in SUBSET T |-> IF a \in U THEN h[a] + f[U \ {a}] ELSE f[U]]
  <2>3. h[a] \in Int /\ \A U \in SUBSET (T \ {a}) : f[U] \in Int
    BY <1>1, <2>2 DEF Additive
  <2>4. g \in [SUBSET T -> Int] /\ g[{}] = 0
    BY <2>2, <2>3 DEF Additive
  <2>5. ASSUME NEW U \in SUBSET T, NEW x \in U PROVE g[U] = h[x] + g[U \ {x}]
    <3>1. CASE x = a
      BY <2>5, <3>1
    <3>2. CASE x # a /\ a \notin U
      <4>1. U \in SUBSET (T \ {a}) /\ U \ {x} \in SUBSET T /\ a \notin U \ {x}
        BY <3>2
      <4> QED
        BY <2>2, <3>2, <4>1 DEF Additive
    <3>3. CASE x # a /\ a \in U
      <4>1. x \in U \ {a} /\ U \ {a} \in SUBSET (T \ {a})
        BY <3>3
      <4>2. f[U \ {a}] = h[x] + f[(U \ {a}) \ {x}]
        BY <2>2, <4>1 DEF Additive
      <4>3. (U \ {a}) \ {x} = (U \ {x}) \ {a}
        OBVIOUS
      <4>4. g[U] = h[a] + f[U \ {a}] /\ g[U \ {x}] = h[a] + f[(U \ {x}) \ {a}]
        BY <3>3
      <4>5. h[x] \in Int /\ f[(U \ {x}) \ {a}] \in Int
        BY <1>1, <2>3, <2>5
      <4>6. f[U \ {a}] = h[x] + f[(U \ {x}) \ {a}]
        BY <4>2, <4>3
      <4> HIDE DEF g
      <4> QED
        BY <2>3, <4>4, <4>5, <4>6
    <3> QED
      BY <3>1, <3>2, <3>3
  <2>6. Additive(g, h, T)
    BY <2>4, <2>5 DEF Additive
  <2> QED
    BY <1>1, <2>6
<1> QED
  BY <1>2, <1>3

\* Two of them agree where both are defined and sum the same values.
LEMMA AdditiveUnique ==
  ASSUME NEW S, IsFiniteSet(S), NEW h, NEW k, \A x \in S : h[x] = k[x] /\ h[x] \in Int,
         NEW f, NEW g, NEW A, NEW B, S \subseteq A, S \subseteq B,
         Additive(f, h, A), Additive(g, k, B)
  PROVE  f[S] = g[S]
<1> DEFINE bad == {T \in SUBSET S : f[T] # g[T]}
<1> SUFFICES ASSUME bad # {} PROVE FALSE
  OBVIOUS
<1>0. bad \in SUBSET (SUBSET S)
  OBVIOUS
<1> HIDE DEF bad
<1>1. PICK T \in bad : \A n \in bad : n \subseteq T => n = T
  BY <1>0, FiniteLeast
<1> USE DEF bad
<1>2. T # {}
  BY <1>1 DEF Additive
<1>3. PICK a \in T : TRUE
  BY <1>2
<1>4. f[T \ {a}] = g[T \ {a}]
  BY <1>1, <1>3
<1>5. f[T] = h[a] + f[T \ {a}] /\ g[T] = k[a] + g[T \ {a}]
  BY <1>1, <1>3 DEF Additive
<1> QED
  BY <1>1, <1>3, <1>4, <1>5

\* The fold that defines SumOf is one, although it chooses the order itself.
LEMMA SumIsAdditive ==
  ASSUME NEW S, IsFiniteSet(S), NEW h, \A x \in S : h[x] \in Int
  PROVE  \E f : Additive(f, h, S) /\ SumOf(h, S) = f[S]
<1> DEFINE F(f) == [s \in SUBSET S |->
                      IF s = {} THEN 0
                      ELSE LET x == CHOOSE x \in s : TRUE IN h[x] + f[s \ {x}]]
           iter == CHOOSE f : f = F(f)
<1>1. SumOf(h, S) = iter[S]
  BY DEF SumOf, MapThenSumSet, MapThenFoldSet
<1>2. PICK f : Additive(f, h, S)
  BY AdditiveExists
<1>3. f = F(f)
  BY <1>2 DEF Additive
<1>4. iter = F(iter)
  BY <1>3
<1>5. ASSUME NEW s \in SUBSET S PROVE iter[s] = f[s]
  <2> DEFINE bad == {T \in SUBSET S : iter[T] # f[T]}
  <2> SUFFICES ASSUME bad # {} PROVE FALSE
    OBVIOUS
  <2>1. bad \in SUBSET (SUBSET S)
    OBVIOUS
  <2> HIDE DEF bad
  <2>2. PICK T \in bad : \A n \in bad : n \subseteq T => n = T
    BY <2>1, FiniteLeast
  <2> HIDE DEF iter
  <2>3. T \in SUBSET S /\ iter[T] # f[T]
    BY <2>2 DEF bad
  <2>4. CASE T = {}
    BY <1>3, <1>4, <2>3, <2>4
  <2>5. CASE T # {}
    <3> DEFINE x == CHOOSE x \in T : TRUE
    <3>1. x \in T
      BY <2>5
    <3>2. iter[T] = h[x] + iter[T \ {x}]
      BY <1>4, <2>3, <2>5
    <3>3. f[T] = h[x] + f[T \ {x}]
      BY <1>3, <2>3, <2>5
    <3> HIDE DEF x
    <3>4. T \ {x} \notin bad
      BY <2>2, <3>1
    <3>5. iter[T \ {x}] = f[T \ {x}]
      BY <2>3, <3>4 DEF bad
    <3> QED
      BY <2>3, <3>2, <3>3, <3>5
  <2> QED
    BY <2>4, <2>5
<1> QED
  BY <1>1, <1>2, <1>5

\* Nothing sums up to 0.
LEMMA SumEmpty == ASSUME NEW h PROVE SumOf(h, {}) = 0
<1>1. \E f : Additive(f, h, {}) /\ SumOf(h, {}) = f[{}]
  BY SumIsAdditive, FS_EmptySet
<1> QED
  BY <1>1 DEF Additive

\* A sum of integers is an integer.
LEMMA SumInt ==
  ASSUME NEW S, IsFiniteSet(S), NEW h, \A x \in S : h[x] \in Int
  PROVE  SumOf(h, S) \in Int
<1>1. PICK f : Additive(f, h, S) /\ SumOf(h, S) = f[S]
  BY SumIsAdditive
<1> QED
  BY <1>1 DEF Additive

\* A sum depends on the values summed only.
LEMMA SumSame ==
  ASSUME NEW S, IsFiniteSet(S), NEW h, NEW k, \A x \in S : h[x] = k[x] /\ h[x] \in Int
  PROVE  SumOf(h, S) = SumOf(k, S)
<1>1. PICK f : Additive(f, h, S) /\ SumOf(h, S) = f[S]
  BY SumIsAdditive
<1>2. PICK g : Additive(g, k, S) /\ SumOf(k, S) = g[S]
  BY SumIsAdditive
<1>3. f[S] = g[S]
  BY <1>1, <1>2, AdditiveUnique
<1> QED
  BY <1>1, <1>2, <1>3

\* Any element may be taken out first.
LEMMA SumRemove ==
  ASSUME NEW S, IsFiniteSet(S), NEW h, \A y \in S : h[y] \in Int, NEW x \in S
  PROVE  SumOf(h, S) = h[x] + SumOf(h, S \ {x})
<1>1. PICK f : Additive(f, h, S) /\ SumOf(h, S) = f[S]
  BY SumIsAdditive
<1>2. IsFiniteSet(S \ {x})
  BY FS_RemoveElement
<1>3. PICK g : Additive(g, h, S \ {x}) /\ SumOf(h, S \ {x}) = g[S \ {x}]
  BY <1>2, SumIsAdditive
<1>4. f[S \ {x}] = g[S \ {x}]
  BY <1>1, <1>2, <1>3, AdditiveUnique
<1>5. f[S] = h[x] + f[S \ {x}]
  BY <1>1 DEF Additive
<1> QED
  BY <1>1, <1>3, <1>4, <1>5

-----------------------------------------------------------------------------
(* Sums over the channel.                                                  *)

\* The domain of a sequence of lengths is a finite interval.
LEMMA SeqDomain ==
  ASSUME NEW q \in Seq(Nat)
  PROVE  /\ Len(q) \in Nat /\ DOMAIN q = 1..Len(q) /\ IsFiniteSet(DOMAIN q)
         /\ \A i \in DOMAIN q : q[i] \in Int
<1>1. Len(q) \in Nat /\ DOMAIN q = 1..Len(q) /\ \A i \in DOMAIN q : q[i] \in Int
  OBVIOUS
<1>2. IsFiniteSet(1..Len(q))
  BY <1>1, FS_Interval
<1> QED
  BY <1>1, <1>2

\* The bytes of a channel are an integer.
LEMMA SeqSumInt == ASSUME NEW q \in Seq(Nat) PROVE SeqSum(q) \in Int
  BY SeqDomain, SumInt DEF SeqSum

\* The last element of an interval is taken out first.
LEMMA SumInterval ==
  ASSUME NEW n \in Nat, NEW h, \A i \in 1..(n + 1) : h[i] \in Int
  PROVE  /\ SumOf(h, 1..n) \in Int
         /\ SumOf(h, 1..(n + 1)) = h[n + 1] + SumOf(h, 1..n)
<1> DEFINE S == 1..(n + 1)
<1>1. IsFiniteSet(1..n) /\ IsFiniteSet(S)
  BY FS_Interval
<1>2. (\A i \in 1..n : h[i] \in Int) /\ n + 1 \in S /\ S \ {n + 1} = 1..n
  OBVIOUS
<1>3. SumOf(h, 1..n) \in Int
  BY <1>1, <1>2, SumInt
<1> HIDE DEF S
<1>4. \A y \in S : h[y] \in Int
  BY DEF S
<1>5. SumOf(h, S) = h[n + 1] + SumOf(h, S \ {n + 1})
  BY <1>1, <1>2, <1>4, SumRemove
<1> QED
  BY <1>2, <1>3, <1>5 DEF S

\* Queueing a message adds its length.
LEMMA SumAppend ==
  ASSUME NEW q \in Seq(Nat), NEW m \in Nat
  PROVE  SeqSum(Append(q, m)) = SeqSum(q) + m
<1> DEFINE p == Append(q, m)
           n == Len(q)
<1>1. p \in Seq(Nat) /\ Len(p) = n + 1 /\ p[n + 1] = m /\ \A i \in 1..n : p[i] = q[i]
  OBVIOUS
<1>2. n \in Nat /\ DOMAIN q = 1..n /\ IsFiniteSet(1..n) /\ \A i \in 1..n : q[i] \in Int
  BY SeqDomain
<1> HIDE DEF p, n
<1>3. DOMAIN p = 1..(n + 1) /\ \A i \in 1..(n + 1) : p[i] \in Int
  BY <1>1, SeqDomain
<1>4. SumOf(p, 1..(n + 1)) = p[n + 1] + SumOf(p, 1..n) /\ SumOf(p, 1..n) \in Int
  BY <1>2, <1>3, SumInterval
<1>5. SumOf(p, 1..n) = SumOf(q, 1..n)
  BY <1>1, <1>2, SumSame
<1> QED
  BY <1>1, <1>2, <1>3, <1>4, <1>5 DEF SeqSum, p

\* Taking the oldest message takes its length.
LEMMA SumTail ==
  ASSUME NEW q \in Seq(Nat), q # <<>>
  PROVE  SeqSum(q) = Head(q) + SeqSum(Tail(q))
<1> DEFINE r == Tail(q)
           n == Len(r)
           Shifted(k) == SumOf(q, 1..(k + 1)) = q[1] + SumOf(r, 1..k)
           bad == {k \in 0..n : ~Shifted(k)}
<1>1. /\ r \in Seq(Nat) /\ n \in Nat /\ Len(q) = n + 1 /\ Head(q) = q[1] /\ q[1] \in Nat
      /\ \A i \in 1..n : r[i] = q[i + 1]
  OBVIOUS
<1>2. /\ DOMAIN q = 1..(n + 1) /\ DOMAIN r = 1..n
      /\ \A i \in 1..(n + 1) : q[i] \in Int
      /\ \A i \in 1..n : r[i] \in Int
  BY <1>1, SeqDomain
<1> HIDE DEF r, n
<1>3. ASSUME NEW z \in Nat, z = 0 PROVE Shifted(z)
  <2>1. \A i \in 1..(z + 1) : q[i] \in Int
    BY <1>1, <1>2, <1>3
  <2>2. SumOf(q, 1..(z + 1)) = q[z + 1] + SumOf(q, 1..z)
    BY <2>1, SumInterval
  <2>3. 1..z = {} /\ q[z + 1] = q[1]
    BY <1>3
  <2>4. SumOf(q, 1..z) = 0 /\ SumOf(r, 1..z) = 0
    BY <2>3, SumEmpty
  <2> QED
    BY <1>1, <2>2, <2>3, <2>4
<1>4. ASSUME NEW k \in Nat, k + 1 \in 0..n, Shifted(k) PROVE Shifted(k + 1)
  <2>1. /\ \A i \in 1..(k + 1) : r[i] \in Int
        /\ \A i \in 1..((k + 1) + 1) : q[i] \in Int
        /\ r[k + 1] = q[(k + 1) + 1] /\ r[k + 1] \in Int
    BY <1>1, <1>2, <1>4
  <2>2. SumOf(r, 1..(k + 1)) = r[k + 1] + SumOf(r, 1..k) /\ SumOf(r, 1..k) \in Int
    BY <2>1, SumInterval
  <2>3. SumOf(q, 1..((k + 1) + 1)) = q[(k + 1) + 1] + SumOf(q, 1..(k + 1))
    BY <2>1, SumInterval
  <2> QED
    BY <1>1, <1>4, <2>1, <2>2, <2>3
<1> HIDE DEF Shifted
<1>5. Shifted(n)
  <2> SUFFICES ASSUME ~Shifted(n) PROVE FALSE
    OBVIOUS
  <2>0. n \in 0..n /\ 0..n \subseteq Nat
    BY <1>1
  <2>1. n \in bad /\ bad \in SUBSET Nat
    BY <2>0
  <2> HIDE DEF bad
  <2>2. PICK k \in bad : \A j \in bad : k <= j
    BY <2>1, LeastElement
  <2>3. k \in 0..n /\ k # 0 /\ ~Shifted(k)
    BY <1>3, <2>0, <2>2 DEF bad
  <2>4. k - 1 \in Nat /\ k - 1 \in 0..n /\ (k - 1) + 1 = k /\ ~(k <= k - 1)
    BY <1>1, <2>3
  <2>5. Shifted(k - 1)
    BY <2>2, <2>4 DEF bad
  <2>6. Shifted((k - 1) + 1)
    BY <1>4, <2>3, <2>4, <2>5
  <2> QED
    BY <2>3, <2>4, <2>6
<1> QED
  BY <1>1, <1>2, <1>5 DEF SeqSum, r, Shifted

-----------------------------------------------------------------------------
(* The send queue: the counter of one session.                             *)

Balanced(s) == queuedBytes[s] = SeqSum(send[s]) + writing[s] + Reserved(s)

\* A message in the hand of the loop is being written.
AccountInv ==
    /\ \A s \in Sessions : Balanced(s)
    /\ \A s \in Sessions : run[s] # "write" => writing[s] = 0

\* All the parts are integers.
LEMMA Integral ==
  ASSUME TypeOK, NEW s \in Sessions
  PROVE  /\ queuedBytes[s] \in Int /\ SeqSum(send[s]) \in Int /\ writing[s] \in Nat
         /\ Reserved(s) \in Int /\ IsFiniteSet(Waiting(s)) /\ Waiting(s) \subseteq Callers
         /\ \A t \in Callers : msg[t] \in Nat
<1>1. queuedBytes[s] \in Int /\ send[s] \in Seq(Nat) /\ writing[s] \in Nat
  BY DEF TypeOK, QueueTypeOK
<1>2. \A t \in Callers : msg[t] \in Nat
  BY DEF TypeOK, QueueTypeOK
<1>3. Waiting(s) \subseteq Callers /\ IsFiniteSet(Waiting(s))
  BY ClientAssumption, FS_Subset DEF Waiting
<1>4. Reserved(s) \in Int
  BY <1>2, <1>3, SumInt DEF Reserved
<1> QED
  BY <1>1, <1>2, <1>3, <1>4, SeqSumInt

\* A step that moves nothing of s keeps its balance.
LEMMA BalanceKept ==
  ASSUME TypeOK, NEW s \in Sessions, Balanced(s),
         queuedBytes'[s] = queuedBytes[s], send'[s] = send[s], writing'[s] = writing[s],
         Waiting(s)' = Waiting(s), \A t \in Waiting(s) : msg'[t] = msg[t]
  PROVE  Balanced(s)'
<1>1. SumOf(msg', Waiting(s)) = SumOf(msg, Waiting(s))
  BY Integral, SumSame
<1>2. Reserved(s)' = Reserved(s)
  BY <1>1 DEF Reserved
<1> QED
  BY <1>2 DEF Balanced

\* A reservation adds the length of the message.
LEMMA ReservedMore ==
  ASSUME TypeOK, NEW s \in Sessions, NEW t \in Callers, t \notin Waiting(s),
         Waiting(s)' = Waiting(s) \cup {t}, msg' = msg
  PROVE  Reserved(s)' = Reserved(s) + msg[t]
<1> DEFINE W == Waiting(s) \cup {t}
<1>1. IsFiniteSet(W) /\ \A u \in W : msg[u] \in Int
  BY Integral, FS_AddElement
<1>2. t \in W /\ W \ {t} = Waiting(s)
  OBVIOUS
<1> HIDE DEF W
<1>3. SumOf(msg, W) = msg[t] + SumOf(msg, W \ {t})
  BY <1>1, <1>2, SumRemove
<1>4. Reserved(s)' = SumOf(msg, W)
  BY DEF Reserved, W
<1>5. Reserved(s) = SumOf(msg, W \ {t})
  BY <1>2 DEF Reserved
<1>6. Reserved(s) \in Int /\ msg[t] \in Nat
  BY Integral
<1> QED
  BY <1>3, <1>4, <1>5, <1>6

\* A Write that stops waiting takes its own length out of the reservations.
LEMMA ReservedLess ==
  ASSUME TypeOK, NEW s \in Sessions, NEW t \in Waiting(s),
         Waiting(s)' = Waiting(s) \ {t}, \A u \in Callers \ {t} : msg'[u] = msg[u]
  PROVE  Reserved(s)' = Reserved(s) - msg[t]
<1> DEFINE W == Waiting(s)
<1>1. IsFiniteSet(W) /\ W \subseteq Callers /\ \A u \in W : msg[u] \in Int
  BY Integral
<1>2. IsFiniteSet(W \ {t}) /\ \A u \in W \ {t} : msg[u] \in Int
  BY <1>1, FS_RemoveElement
<1>3. SumOf(msg, W) = msg[t] + SumOf(msg, W \ {t})
  BY <1>1, SumRemove
<1>4. SumOf(msg', W \ {t}) = SumOf(msg, W \ {t})
  BY <1>1, <1>2, SumSame
<1>5. SumOf(msg, W \ {t}) \in Int
  BY <1>2, SumInt
<1> QED
  BY <1>1, <1>3, <1>4, <1>5 DEF Reserved

-----------------------------------------------------------------------------
(* The send queue: every step.                                             *)

\* The steps of a Write on its own session.
LEMMA WriteBalance ==
  ASSUME IndInv, NEW t \in Callers, WriteStep(t), NEW s \in Sessions, Balanced(s), s = mine[t]
  PROVE  Balanced(s)'
<1>t. TypeOK /\ ClientTypeOK /\ QueueTypeOK
  BY DEF IndInv, TypeOK
<1>i. /\ queuedBytes[s] \in Int /\ SeqSum(send[s]) \in Int /\ writing[s] \in Nat
      /\ Reserved(s) \in Int /\ msg[t] \in Nat /\ send[s] \in Seq(Nat)
      /\ Waiting(s) \subseteq Callers
  BY <1>t, Integral DEF QueueTypeOK
<1>1. CASE WriteCas(t) /\ CasSucceeds(t)
  <2>1. /\ pc[t] = "WriteCas" /\ pc' = [pc EXCEPT ![t] = "WriteEnqueue"]
        /\ queuedBytes'[s] = queuedBytes[s] + msg[t]
        /\ UNCHANGED <<mine, msg, send, writing>>
    BY <1>t, <1>1 DEF WriteCas, QueueTypeOK
  <2>2. t \notin Waiting(s) /\ Waiting(s)' = Waiting(s) \cup {t}
    BY <1>t, <2>1 DEF Waiting, ClientTypeOK
  <2>3. Reserved(s)' = Reserved(s) + msg[t]
    BY <1>t, <2>1, <2>2, ReservedMore
  <2> QED
    BY <1>i, <2>1, <2>3 DEF Balanced
<1>2. CASE WriteCas(t) /\ ~CasSucceeds(t)
  <2>1. /\ pc[t] = "WriteCas" /\ UNCHANGED <<queuedBytes, send, writing>>
        /\ \A u \in Callers \ {t} : pc'[u] = pc[u] /\ mine'[u] = mine[u] /\ msg'[u] = msg[u]
        /\ pc'[t] # "WriteEnqueue"
    BY <1>t, <1>2 DEF WriteCas, WriteReturn, Return, ClientTypeOK, QueueTypeOK
  <2>2. t \notin Waiting(s) /\ Waiting(s)' = Waiting(s)
    BY <2>1 DEF Waiting
  <2> QED
    BY <1>t, <1>i, <2>1, <2>2, BalanceKept
<1>3. CASE WriteEnqueue(t) \/ WriteCancelled(t) \/ WriteTimeout(t)
  <2>1. /\ pc[t] = "WriteEnqueue" /\ pc'[t] = "idle" /\ UNCHANGED writing
        /\ \A u \in Callers \ {t} : pc'[u] = pc[u] /\ mine'[u] = mine[u] /\ msg'[u] = msg[u]
    BY <1>t, <1>3 DEF WriteEnqueue, WriteCancelled, WriteTimeout, WriteReturn, Return,
       ClientTypeOK, QueueTypeOK
  <2>2. t \in Waiting(s) /\ Waiting(s)' = Waiting(s) \ {t}
    BY <2>1 DEF Waiting
  <2>3. Reserved(s)' = Reserved(s) - msg[t]
    BY <1>t, <2>1, <2>2, ReservedLess
  <2>4. CASE WriteEnqueue(t)
    <3>1. send'[s] = Append(send[s], msg[t]) /\ UNCHANGED queuedBytes
      BY <1>t, <2>4 DEF WriteEnqueue, QueueTypeOK
    <3>2. SeqSum(send'[s]) = SeqSum(send[s]) + msg[t]
      BY <1>i, <3>1, SumAppend
    <3> QED
      BY <1>i, <2>1, <2>3, <3>1, <3>2 DEF Balanced
  <2>5. CASE WriteCancelled(t) \/ WriteTimeout(t)
    <3>1. queuedBytes'[s] = queuedBytes[s] - msg[t] /\ UNCHANGED send
      BY <1>t, <2>5 DEF WriteCancelled, WriteTimeout, GiveBack, QueueTypeOK
    <3> QED
      BY <1>i, <2>1, <2>3, <3>1 DEF Balanced
  <2> QED
    BY <1>3, <2>4, <2>5
<1> QED
  BY <1>1, <1>2, <1>3 DEF WriteStep

\* A Write leaves the other sessions alone.
LEMMA WriteElsewhere ==
  ASSUME IndInv, NEW t \in Callers, WriteStep(t), NEW s \in Sessions, Balanced(s), s # mine[t]
  PROVE  Balanced(s)'
<1>t. TypeOK /\ ClientTypeOK /\ QueueTypeOK
  BY DEF IndInv, TypeOK
<1>1. /\ queuedBytes'[s] = queuedBytes[s] /\ send'[s] = send[s] /\ writing'[s] = writing[s]
  BY <1>t DEF WriteStep, WriteCas, WriteEnqueue, WriteCancelled, WriteTimeout, GiveBack,
     QueueTypeOK
<1>2. /\ \A u \in Callers \ {t} : pc'[u] = pc[u] /\ mine'[u] = mine[u] /\ msg'[u] = msg[u]
      /\ mine'[t] = mine[t] \/ pc'[t] = "idle"
  BY <1>t DEF WriteStep, WriteCas, WriteEnqueue, WriteCancelled, WriteTimeout, WriteReturn,
     Return, ClientTypeOK, QueueTypeOK
<1>3. t \notin Waiting(s) /\ Waiting(s)' = Waiting(s)
  BY <1>2 DEF Waiting
<1>4. \A u \in Waiting(s) : msg'[u] = msg[u]
  BY <1>2, <1>3 DEF Waiting
<1> QED
  BY <1>t, <1>1, <1>3, <1>4, BalanceKept

\* A Write begins: it has reserved nothing yet.
LEMMA BeginBalance ==
  ASSUME IndInv, NEW t \in Callers, WriteBegin(t), NEW s \in Sessions, Balanced(s)
  PROVE  Balanced(s)'
<1>t. TypeOK /\ ClientTypeOK /\ QueueTypeOK
  BY DEF IndInv, TypeOK
<1>1. /\ UNCHANGED <<queuedBytes, send, writing>> /\ pc[t] = "idle" /\ pc'[t] = "WriteCas"
      /\ \A u \in Callers \ {t} : pc'[u] = pc[u] /\ mine'[u] = mine[u] /\ msg'[u] = msg[u]
  BY <1>t DEF WriteBegin, WriteCall, Begin, ClientTypeOK, QueueTypeOK
<1>2. t \notin Waiting(s) /\ Waiting(s)' = Waiting(s)
  BY <1>1 DEF Waiting
<1>3. \A u \in Waiting(s) : msg'[u] = msg[u]
  BY <1>1, <1>2 DEF Waiting
<1> QED
  BY <1>t, <1>1, <1>2, <1>3, BalanceKept

\* Calls other than Write move no Write in progress.
LEMMA NotWriting ==
  ASSUME IndInv, NEW t \in Callers,
         \/ OtherCall(t) /\ ~WriteBegin(t) /\ ~WriteStep(t)
         \/ Start(t) \/ StopCancel(t) \/ StopClear(t),
         NEW s \in Sessions
  PROVE  UNCHANGED queueVars /\ Waiting(s)' = Waiting(s)
<1> USE DEF IndInv, TypeOK, ClientTypeOK, Begin, Return, callVars, Waiting
<1>1. UNCHANGED queueVars
  BY QueueFrame
<1>2. CASE LockCall(t) \/ LifecycleCall(t) \/ WithProxyCall(t) \/ HttpCall(t)
  BY <1>2 DEF LockCall, LifecycleCall, WithProxyCall, HttpCall
<1>3. CASE LockInCall(t) \/ StopWait(t) \/ LockHttp(t) \/ StopReturn(t) \/ WithProxy(t)
  BY <1>3 DEF LockInCall, StopWait, LockHttp, StopReturn, WithProxy
<1>4. CASE HttpStep(t) \/ WithWSAuthority(t) \/ AddCallbackStep(t)
  BY <1>4 DEF HttpStep, HttpDo, HttpReturn, HttpLog, WithWSAuthority, AddCallbackStep,
     AddCallback
<1>5. CASE SubscriptionStep(t)
  BY <1>5 DEF SubscriptionStep, Subscribe, Unsubscribe, WithMode
<1>6. CASE Start(t) \/ StopCancel(t) \/ StopClear(t)
  BY <1>6 DEF Start, StopCancel, StopClear
<1> QED
  BY <1>1, <1>2, <1>3, <1>4, <1>5, <1>6 DEF OtherCall

\* The serve loop and the drain take from the channel and from the counter alike.
LEMMA TakeBalance ==
  ASSUME IndInv, AccountInv, NEW r \in Sessions, NEW s \in Sessions,
         SelectSend(r) \/ RunWrite(r) \/ RunDrain(r)
  PROVE  Balanced(s)' /\ (run'[s] # "write" => writing'[s] = 0)
<1>t. TypeOK /\ QueueTypeOK /\ SessionTypeOK
  BY DEF IndInv, TypeOK
<1>1. UNCHANGED <<pc, mine, msg>>
  BY DEF SelectSend, Dequeue, RunWrite, Release, RunDrain, DrainOne, clientVars, callVars
<1>2. Waiting(s)' = Waiting(s) /\ Reserved(s)' = Reserved(s)
  BY <1>1 DEF Waiting, Reserved
<1>3. /\ queuedBytes[s] \in Int /\ SeqSum(send[s]) \in Int /\ writing[s] \in Nat
      /\ Reserved(s) \in Int /\ send[s] \in Seq(Nat)
  BY <1>t, Integral DEF QueueTypeOK
<1>4. Balanced(s) /\ (run[s] # "write" => writing[s] = 0)
  BY DEF AccountInv
<1>5. CASE r # s
  <2>1. /\ queuedBytes'[s] = queuedBytes[s] /\ send'[s] = send[s] /\ writing'[s] = writing[s]
        /\ run'[s] = run[s]
    BY <1>t, <1>5 DEF SelectSend, Dequeue, RunWrite, Release, RunDrain, DrainOne, Stay, At,
       LeaveOnWriteError, Leave, QueueTypeOK, SessionTypeOK, sessionVars, loopVars
  <2> QED
    BY <1>2, <1>4, <2>1 DEF Balanced
<1>6. CASE r = s /\ SelectSend(s)
  <2>1. /\ run[s] = "select" /\ run'[s] = "write" /\ send[s] # <<>>
        /\ writing'[s] = Head(send[s]) /\ send'[s] = Tail(send[s])
        /\ UNCHANGED queuedBytes
    BY <1>t, <1>6 DEF SelectSend, Dequeue, Stay, At, QueueTypeOK, SessionTypeOK
  <2>2. SeqSum(send[s]) = Head(send[s]) + SeqSum(Tail(send[s]))
    BY <1>3, <2>1, SumTail
  <2>3. Head(send[s]) \in Nat /\ Tail(send[s]) \in Seq(Nat)
    BY <1>3, <2>1
  <2>4. SeqSum(Tail(send[s])) \in Int
    BY <2>3, SeqSumInt
  <2> QED
    BY <1>2, <1>3, <1>4, <2>1, <2>2, <2>3, <2>4 DEF Balanced
<1>7. CASE r = s /\ RunWrite(s)
  <2>1. /\ queuedBytes'[s] = queuedBytes[s] - writing[s] /\ writing'[s] = 0
        /\ UNCHANGED send
    BY <1>t, <1>7 DEF RunWrite, Release, QueueTypeOK
  <2> QED
    BY <1>2, <1>3, <1>4, <2>1 DEF Balanced
<1>8. CASE r = s /\ RunDrain(s)
  <2>1. /\ send[s] # <<>> /\ queuedBytes'[s] = queuedBytes[s] - Head(send[s])
        /\ send'[s] = Tail(send[s]) /\ UNCHANGED <<writing, run>>
    BY <1>t, <1>8 DEF RunDrain, DrainOne, QueueTypeOK, sessionVars, loopVars
  <2>2. SeqSum(send[s]) = Head(send[s]) + SeqSum(Tail(send[s]))
    BY <1>3, <2>1, SumTail
  <2>3. Head(send[s]) \in Nat /\ Tail(send[s]) \in Seq(Nat)
    BY <1>3, <2>1
  <2>4. SeqSum(Tail(send[s])) \in Int
    BY <2>3, SeqSumInt
  <2>5. writing'[s] = writing[s] /\ run'[s] = run[s]
    BY <2>1
  <2> DEFINE h == Head(send[s])
             rest == SeqSum(Tail(send[s]))
  <2>6. /\ queuedBytes'[s] = queuedBytes[s] - h /\ SeqSum(send'[s]) = rest
        /\ SeqSum(send[s]) = h + rest /\ h \in Nat /\ rest \in Int
    BY <2>1, <2>2, <2>3, <2>4
  <2> HIDE DEF h, rest
  <2>7. queuedBytes[s] = SeqSum(send[s]) + writing[s] + Reserved(s)
    BY <1>4 DEF Balanced
  <2>8. queuedBytes'[s] = SeqSum(send'[s]) + writing'[s] + Reserved(s)'
    BY <1>2, <1>3, <2>5, <2>6, <2>7
  <2> QED
    BY <1>4, <2>5, <2>8 DEF Balanced
<1> QED
  BY <1>5, <1>6, <1>7, <1>8

\* All other steps of a session leave the queue alone.
LEMMA LoopQueueFrame ==
  ASSUME SessionTypeOK, NEW r \in Sessions, ~SelectSend(r), ~RunWrite(r), ~RunDrain(r),
         MoveStep(r) \/ SideStep(r) \/ RunCancel(r) \/ RunEnd(r) \/ ReadNext(r)
  PROVE  /\ UNCHANGED <<queueVars, pc, mine>>
         /\ \A s \in Sessions : run'[s] # "write" => run[s] # "write"
<1> USE DEF clientVars, callVars
<1>1. CASE MoveStep(r)
  <2>1. UNCHANGED <<queueVars, pc, mine>>
    BY <1>1 DEF MoveStep, RunTop, RunCallbacks, RunConfigure, RunSign, RunDial,
       RunServe, RunCheck, RunSnapshot, RunUnsubscribe, RunSubscribe, SelectLeave,
       SelectNotify, SelectPing, RunJoin, RunFailed, RunSleep, RunWake
  <2>2. run[r] # "write"
    BY <1>1 DEF MoveStep, RunTop, RunCallbacks, RunConfigure, RunSign, RunDial,
       RunServe, RunCheck, RunSnapshot, RunUnsubscribe, RunSubscribe, SelectLeave,
       SelectNotify, SelectPing, RunJoin, RunFailed, RunSleep, RunWake, At, Stay, Leave,
       LeaveOnWriteError
  <2>3. \A s \in Sessions \ {r} : run'[s] = run[s]
    BY <1>1, RunMoves DEF Moves, SessionTypeOK
  <2> QED
    BY <2>1, <2>2, <2>3
<1>2. CASE SideStep(r) \/ ReadNext(r)
  BY <1>2 DEF SideStep, LockForDrain, Receive, ReadFail, CloseOnCancel, ReadNext, sessionVars,
     loopVars
<1>3. CASE RunCancel(r) \/ RunEnd(r)
  BY <1>3 DEF RunCancel, RunEnd, At, SessionTypeOK
<1> QED
  BY <1>1, <1>2, <1>3

\* Every step keeps the account of every session.
LEMMA AccountStep ==
  ASSUME IndInv, AccountInv, [Next]_vars
  PROVE  AccountInv'
<1> SUFFICES ASSUME NEW s \in Sessions
             PROVE  Balanced(s)' /\ (run'[s] # "write" => writing'[s] = 0)
  BY DEF AccountInv
<1>a. TypeOK /\ SessionTypeOK /\ Balanced(s) /\ (run[s] # "write" => writing[s] = 0)
  BY DEF IndInv, TypeOK, AccountInv
<1>b. ASSUME UNCHANGED queueVars, Waiting(s)' = Waiting(s),
             run'[s] # "write" => run[s] # "write"
      PROVE  Balanced(s)' /\ (run'[s] # "write" => writing'[s] = 0)
  BY <1>a, <1>b, BalanceKept DEF queueVars
<1>1. ASSUME NEW t \in Callers, Start(t) \/ StopCancel(t) \/ StopClear(t)
      PROVE  Balanced(s)' /\ (run'[s] # "write" => writing'[s] = 0)
  <2>1. run'[s] # "write" => run[s] # "write"
    <3>1. CASE Start(t)
      BY <1>a, <3>1, StartFresh DEF SessionTypeOK
    <3>2. CASE StopCancel(t) \/ StopClear(t)
      BY <3>2 DEF StopCancel, StopClear, sessionVars, loopVars
    <3> QED
      BY <1>1, <3>1, <3>2
  <2> QED
    BY <1>1, <1>b, <2>1, NotWriting
<1>2. ASSUME NEW t \in Callers, OtherCall(t)
      PROVE  Balanced(s)' /\ (run'[s] # "write" => writing'[s] = 0)
  <2>1. UNCHANGED run
    BY <1>2, OtherCallFrame DEF loopVars
  <2>2. CASE WriteBegin(t)
    BY <1>a, <2>1, <2>2, BeginBalance DEF WriteBegin, WriteCall
  <2>3. CASE WriteStep(t)
    <3>1. UNCHANGED writing
      BY <2>3 DEF WriteStep, WriteCas, WriteEnqueue, WriteCancelled, WriteTimeout
    <3> QED
      BY <1>a, <2>1, <2>3, <3>1, WriteBalance, WriteElsewhere
  <2>4. CASE ~WriteBegin(t) /\ ~WriteStep(t)
    BY <1>2, <1>b, <2>1, <2>4, NotWriting
  <2> QED
    BY <2>2, <2>3, <2>4
<1>3. ASSUME NEW r \in Sessions,
             MoveStep(r) \/ SideStep(r) \/ RunCancel(r) \/ RunEnd(r) \/ ReadNext(r)
      PROVE  Balanced(s)' /\ (run'[s] # "write" => writing'[s] = 0)
  <2>1. CASE SelectSend(r) \/ RunWrite(r) \/ RunDrain(r)
    BY <2>1, TakeBalance
  <2>2. CASE ~SelectSend(r) /\ ~RunWrite(r) /\ ~RunDrain(r)
    <3>1. UNCHANGED <<queueVars, pc, mine>> /\ (run'[s] # "write" => run[s] # "write")
      BY <1>a, <1>3, <2>2, LoopQueueFrame
    <3>2. Waiting(s)' = Waiting(s)
      BY <3>1 DEF Waiting
    <3> QED
      BY <1>b, <3>1, <3>2
  <2> QED
    BY <2>1, <2>2
<1>4. CASE \/ \E g \in Goroutines : DispatchStep(g)
           \/ CallbackStep \/ CancelContext \/ UNCHANGED vars
  <2>1. UNCHANGED <<queueVars, pc, mine, run>>
    BY <1>4 DEF DispatchStep, CallbackStep, CancelContext, vars, clientVars, callVars,
       sessionVars, loopVars
  <2>2. Waiting(s)' = Waiting(s)
    BY <2>1 DEF Waiting
  <2> QED
    BY <1>b, <2>1, <2>2
<1> QED
  BY <1>1, <1>2, <1>3, <1>4, NextCases

-----------------------------------------------------------------------------
(* The send queue: the theorem.                                            *)

\* queuedBytes is the number of bytes queued, being written or reserved, whatever
\* Writes, timeouts, cancellations, failed frames and drains came before (Write,
\* serveConnection, runSession).
THEOREM CounterExact == Spec => []QueueAccounting
<1>1. Init => AccountInv
  <2> SUFFICES ASSUME Init, NEW s \in Sessions PROVE Balanced(s) /\ writing[s] = 0
    BY DEF AccountInv
  <2>1. send[s] = <<>> /\ queuedBytes[s] = 0 /\ writing[s] = 0 /\ Waiting(s) = {}
    BY DEF Init, QueueInit, ClientInit, Waiting
  <2>2. DOMAIN send[s] = {}
    BY <2>1
  <2>3. SeqSum(send[s]) = 0 /\ Reserved(s) = 0
    BY <2>1, <2>2, SumEmpty DEF SeqSum, Reserved
  <2> QED
    BY <2>1, <2>3 DEF Balanced
<1>2. IndInv /\ AccountInv /\ [Next]_vars => AccountInv'
  BY AccountStep
<1>3. AccountInv => QueueAccounting
  BY DEF AccountInv, Balanced, QueueAccounting
<1> QED
  BY <1>1, <1>2, <1>3, Invariance, PTL DEF Spec

-----------------------------------------------------------------------------
(* Subscriptions: the client and the read node.                            *)

\* A message names addresses or asks to listen, and signs only what it names.
Plain(m) ==
    /\ m.listening => m.addrs = {}
    /\ \A a \in Addrs : a \notin m.addrs => m.sig[a] = None

\* What the serve loop of s remembers is what the node holds, except between
\* the two frames of a synchronisation.  Off a connection both are empty.
Remembered(s) ==
    /\ run[s] \notin Serving => synced[s] = NotSynced /\ server[s] = NewConnection
    /\ run[s] # "sub" => /\ server[s].addrs = synced[s].addrs
                         /\ server[s].listening = synced[s].listening
    /\ synced[s].listening => synced[s].addrs = {}
    /\ \A a \in Addrs : a \notin server[s].addrs => server[s].sig[a] = None

\* The snapshot in use is that of its revision, and after the unsubscribe the
\* node holds nothing the snapshot does not ask for.
SnapshotInUse(s) ==
    /\ run[s] \in {"unsub", "sub"} =>
          /\ Plain(snap[s])
          /\ snap[s].rev <= subscriptionRevision
          /\ snap[s].rev = subscriptionRevision => snap[s] = Snapshot
    /\ run[s] = "sub" => /\ server[s].addrs \subseteq snap[s].addrs
                         /\ server[s].listening => snap[s].listening

\* What was synchronised last is the desired state of its revision.
LastSynced(s) ==
    /\ synced[s].rev <= subscriptionRevision
    /\ run[s] \in {"select", "write"} => ~synced[s].first
    /\ run[s] # "sub" /\ ~synced[s].first /\ synced[s].rev = subscriptionRevision => InSync(s)

InStep(s) == Remembered(s) /\ SnapshotInUse(s) /\ LastSynced(s)

SubscriptionInv == SubscribedSigned /\ \A s \in Sessions : InStep(s)

-----------------------------------------------------------------------------
(* Subscriptions: one session at a time.                                   *)

\* What syncSubscription builds under the lock names addresses or listens.
LEMMA PlainSnapshot == Plain(Snapshot)
  BY DEF Plain, Snapshot

\* The snapshot depends on the desired state only.
LEMMA SnapshotFrame ==
  ASSUME UNCHANGED desiredVars PROVE Snapshot' = Snapshot
  BY DEF desiredVars, Snapshot

\* A session whose loop and views stay as they are stays in step.
LEMMA InStepFrame ==
  ASSUME NEW s \in Sessions, InStep(s), UNCHANGED desiredVars,
         run'[s] = run[s], snap'[s] = snap[s], synced'[s] = synced[s], server'[s] = server[s]
  PROVE  InStep(s)'
<1>1. Snapshot' = Snapshot /\ subscriptionRevision' = subscriptionRevision
  BY SnapshotFrame DEF desiredVars
<1> QED
  BY <1>1 DEF InStep, Remembered, SnapshotInUse, Plain, LastSynced, InSync

\* So does one whose loop moves outside of serveConnection.
LEMMA InStepOutside ==
  ASSUME NEW s \in Sessions, InStep(s), UNCHANGED desiredVars,
         run[s] \notin Serving, run'[s] \notin Serving,
         synced'[s] = synced[s], server'[s] = server[s]
  PROVE  InStep(s)'
<1>1. Snapshot' = Snapshot /\ subscriptionRevision' = subscriptionRevision
  BY SnapshotFrame DEF desiredVars
<1>2. run'[s] # "sub" /\ run'[s] \notin {"unsub", "sub", "select", "write"} /\ run[s] # "sub"
  BY DEF Serving
<1> QED
  BY <1>1, <1>2 DEF InStep, Remembered, SnapshotInUse, LastSynced, InSync

\* Within serveConnection, away from a synchronisation.
LEMMA InStepServing ==
  ASSUME NEW s \in Sessions, InStep(s), UNCHANGED desiredVars,
         run[s] \in {"serve", "check", "select", "write"},
         run'[s] \in {"check", "snapshot", "select", "write"},
         run'[s] \in {"select", "write"} => ~synced[s].first,
         synced'[s] = synced[s], server'[s] = server[s]
  PROVE  InStep(s)'
<1>1. Snapshot' = Snapshot /\ subscriptionRevision' = subscriptionRevision
  BY SnapshotFrame DEF desiredVars
<1> QED
  BY <1>1 DEF InStep, Remembered, SnapshotInUse, LastSynced, InSync, Serving

\* A connection that has been left is forgotten on both sides.
LEMMA InStepLeft ==
  ASSUME NEW s \in Sessions, SubTypeOK, ForgetConnection(s), run'[s] \notin Serving,
         subscriptionRevision' \in Nat
  PROVE  InStep(s)'
<1>1. synced'[s] = NotSynced /\ server'[s] = NewConnection
  BY DEF ForgetConnection, SubTypeOK
<1>2. run'[s] # "sub" /\ run'[s] \notin {"unsub", "sub", "select", "write"}
  BY DEF Serving
<1> QED
  BY <1>1, <1>2 DEF InStep, Remembered, SnapshotInUse, LastSynced, NotSynced, NewConnection,
     NoneSigned

\* A new revision makes every earlier snapshot and synchronisation an old one.
LEMMA InStepChange ==
  ASSUME NEW s \in Sessions, SubTypeOK, InStep(s), NextRevision, UNCHANGED <<run, syncVars>>
  PROVE  InStep(s)'
<1>1. /\ subscriptionRevision \in Nat /\ synced[s].rev \in Nat /\ snap[s].rev \in Nat
      /\ subscriptionRevision' = subscriptionRevision + 1
  BY DEF SubTypeOK, SyncState, Message, NextRevision
<1>2. UNCHANGED <<run, snap, synced, server>>
  BY DEF syncVars
<1>3. Remembered(s)'
  BY <1>2 DEF InStep, Remembered
<1>4. SnapshotInUse(s)'
  BY <1>1, <1>2 DEF InStep, SnapshotInUse, Plain
<1>5. LastSynced(s)'
  BY <1>1, <1>2 DEF InStep, LastSynced
<1> QED
  BY <1>3, <1>4, <1>5 DEF InStep

-----------------------------------------------------------------------------
(* Subscriptions: the three steps of a synchronisation.                    *)

\* The snapshot is taken.
LEMMA InStepSnapshot ==
  ASSUME NEW s \in Sessions, SubTypeOK, SessionTypeOK, InStep(s), RunSnapshot(s)
  PROVE  InStep(s)'
<1>1. /\ run[s] = "snapshot" /\ run'[s] = "unsub" /\ snap'[s] = Snapshot
      /\ UNCHANGED <<synced, server, desiredVars>>
  BY DEF RunSnapshot, Stay, At, SubTypeOK, SessionTypeOK
<1>2. Snapshot' = Snapshot /\ subscriptionRevision' = subscriptionRevision
  BY <1>1, SnapshotFrame DEF desiredVars
<1>3. Plain(Snapshot) /\ Snapshot.rev = subscriptionRevision /\ subscriptionRevision \in Nat
  BY PlainSnapshot DEF Snapshot, SubTypeOK
<1>4. Remembered(s)'
  BY <1>1 DEF InStep, Remembered, Serving
<1>5. SnapshotInUse(s)'
  BY <1>1, <1>2, <1>3 DEF SnapshotInUse, Plain
<1>6. LastSynced(s)'
  BY <1>1, <1>2 DEF InStep, LastSynced, InSync
<1> QED
  BY <1>4, <1>5, <1>6 DEF InStep

\* The unsubscribe frame removes what the snapshot does not ask for.
LEMMA InStepUnsubscribe ==
  ASSUME NEW s \in Sessions, SubTypeOK, SessionTypeOK, InStep(s),
         Stay(s, "unsub", "sub"), UNCHANGED <<snap, synced, desiredVars>>,
         \/ ~NeedsUnsubscribe(s) /\ server'[s] = server[s]
         \/ NeedsUnsubscribe(s) /\ server'[s] = ServerUnsubscribe(server[s], Removed(s))
  PROVE  InStep(s)'
<1>1. run[s] = "unsub" /\ run'[s] = "sub"
  BY DEF Stay, At, SessionTypeOK
<1>2. Snapshot' = Snapshot /\ subscriptionRevision' = subscriptionRevision
  BY SnapshotFrame DEF desiredVars
<1>3. /\ server[s].addrs = synced[s].addrs /\ server[s].listening = synced[s].listening
      /\ synced[s].listening => synced[s].addrs = {}
      /\ \A a \in Addrs : a \notin server[s].addrs => server[s].sig[a] = None
  BY <1>1 DEF InStep, Remembered
<1>4. server[s] \in ServerState
  BY DEF SubTypeOK
<1>5. /\ server'[s].addrs = server[s].addrs \ Removed(s)
      /\ server'[s].listening => server[s].listening /\ ~LeavesListen(s)
      /\ \A a \in Addrs : a \notin server'[s].addrs => server'[s].sig[a] = None
  <2>1. CASE ~NeedsUnsubscribe(s)
    BY <1>3, <2>1 DEF NeedsUnsubscribe
  <2>2. CASE NeedsUnsubscribe(s)
    <3>1. server'[s] = ServerUnsubscribe(server[s], Removed(s))
      BY <2>2
    <3>2. /\ server'[s].addrs = server[s].addrs \ Removed(s)
          /\ server'[s].sig = [a \in Addrs |-> IF a \in Removed(s) THEN None ELSE server[s].sig[a]]
          /\ server'[s].listening = (server[s].listening /\ Removed(s) # {})
      BY <1>4, <3>1 DEF ServerUnsubscribe, ServerState
    <3>3. server'[s].listening => server[s].listening /\ ~LeavesListen(s)
      BY <1>3, <3>2 DEF LeavesListen, Removed
    <3> QED
      BY <1>3, <3>2, <3>3
  <2> QED
    BY <2>1, <2>2
<1>6. Remembered(s)'
  BY <1>1, <1>3, <1>5 DEF Remembered, Serving
<1>7. SnapshotInUse(s)'
  BY <1>1, <1>2, <1>3, <1>5 DEF InStep, SnapshotInUse, Plain, Removed, LeavesListen
<1>8. LastSynced(s)'
  BY <1>1, <1>2 DEF InStep, LastSynced
<1> QED
  BY <1>6, <1>7, <1>8 DEF InStep

\* The subscribe frame adds what is missing: the node holds the snapshot.
LEMMA InStepSubscribe ==
  ASSUME NEW s \in Sessions, SubTypeOK, SessionTypeOK, InStep(s),
         Stay(s, "sub", "select"), UNCHANGED <<snap, desiredVars>>,
         synced'[s] = SyncedTo(snap[s]),
         \/ ~NeedsSubscribe(s) /\ server'[s] = server[s]
         \/ NeedsSubscribe(s) /\ server'[s] = ServerSubscribe(server[s], snap[s])
  PROVE  InStep(s)'
<1>1. run[s] = "sub" /\ run'[s] = "select"
  BY DEF Stay, At, SessionTypeOK
<1>2. Snapshot' = Snapshot /\ subscriptionRevision' = subscriptionRevision
  BY SnapshotFrame DEF desiredVars
<1>3. /\ Plain(snap[s]) /\ snap[s].rev <= subscriptionRevision
      /\ snap[s].rev = subscriptionRevision => snap[s] = Snapshot
      /\ server[s].addrs \subseteq snap[s].addrs
      /\ server[s].listening => snap[s].listening
      /\ \A a \in Addrs : a \notin server[s].addrs => server[s].sig[a] = None
  BY <1>1 DEF InStep, SnapshotInUse, Remembered
<1>4. server[s] \in ServerState /\ snap[s] \in Message
  BY DEF SubTypeOK
<1>5. /\ server'[s].addrs = snap[s].addrs /\ server'[s].listening = snap[s].listening
      /\ server'[s].sig = snap[s].sig
      /\ NeedsSubscribe(s) => server'[s].types = snap[s].types
  <2>1. CASE ~NeedsSubscribe(s)
    <3>1. snap[s].addrs = {} /\ snap[s].listening = FALSE /\ server[s].addrs = {}
      BY <1>3, <1>4, <2>1 DEF NeedsSubscribe, Message
    <3>2. server[s].listening = FALSE
      BY <1>3, <1>4, <3>1 DEF ServerState
    <3>3. server[s].sig = snap[s].sig
      BY <1>3, <1>4, <3>1 DEF ServerState, Message, Signed, Plain
    <3> QED
      BY <2>1, <3>1, <3>2, <3>3
  <2>2. CASE NeedsSubscribe(s)
    <3>1. /\ server'[s].addrs = server[s].addrs \cup snap[s].addrs
          /\ server'[s].sig = [a \in Addrs |-> IF a \in snap[s].addrs THEN snap[s].sig[a]
                                                                    ELSE server[s].sig[a]]
          /\ server'[s].types = snap[s].types
          /\ server'[s].listening = (server[s].listening \/ snap[s].listening)
      BY <1>4, <2>2 DEF ServerSubscribe, ServerState
    <3>2. server'[s].sig = snap[s].sig
      BY <1>3, <1>4, <3>1 DEF Message, Signed, Plain
    <3>3. server'[s].listening = snap[s].listening
      BY <1>3, <1>4, <3>1 DEF Message, ServerState
    <3> QED
      BY <1>3, <3>1, <3>2, <3>3
  <2> QED
    BY <2>1, <2>2
<1>6. /\ synced'[s].first = FALSE /\ synced'[s].addrs = snap[s].addrs
      /\ synced'[s].listening = snap[s].listening /\ synced'[s].rev = snap[s].rev
  BY DEF SyncedTo
<1>7. Remembered(s)'
  BY <1>1, <1>3, <1>5, <1>6 DEF Remembered, Serving, Plain
<1>8. SnapshotInUse(s)'
  BY <1>1 DEF SnapshotInUse
<1>9. LastSynced(s)'
  BY <1>1, <1>2, <1>3, <1>5, <1>6 DEF LastSynced, InSync, NeedsSubscribe
<1> QED
  BY <1>7, <1>8, <1>9 DEF InStep

-----------------------------------------------------------------------------
(* Subscriptions: every step.                                              *)

\* The desired state changes with its revision, and only by a call that moves
\* no loop and no view.
LEMMA DesiredChanges ==
  ASSUME NEW t \in Callers, OtherCall(t) \/ StopClear(t)
  PROVE  /\ UNCHANGED <<run, syncVars>>
         /\ UNCHANGED desiredVars \/ NextRevision
<1>1. CASE StopClear(t)
  BY <1>1 DEF StopClear, ClearDesired, sessionVars, loopVars
<1>2. CASE OtherCall(t)
  <2>1. UNCHANGED <<run, syncVars>>
    BY <1>2, OtherCallFrame DEF loopVars
  <2>2. CASE SubscriptionStep(t)
    BY <2>1, <2>2 DEF SubscriptionStep, Subscribe, Unsubscribe, WithMode, ClearDesired
  <2>3. CASE ~SubscriptionStep(t)
    <3>1. UNCHANGED subVars
      BY <1>2, <2>3 DEF OtherCall, LockCall, LifecycleCall, WithProxyCall, HttpCall,
         WriteBegin, LockInCall, StopWait, LockHttp, StopReturn, WithProxy, HttpStep,
         WithWSAuthority, WriteStep, AddCallbackStep
    <3> QED
      BY <2>1, <3>1 DEF subVars
  <2> QED
    BY <2>2, <2>3
<1> QED
  BY <1>1, <1>2

\* A step of the loop of s leaves the other sessions alone.
LEMMA LoopFrame ==
  ASSUME SubTypeOK, SessionTypeOK, NEW s \in Sessions, MoveStep(s)
  PROVE  /\ UNCHANGED desiredVars
         /\ \A r \in Sessions \ {s} : /\ run'[r] = run[r] /\ snap'[r] = snap[r]
                                     /\ synced'[r] = synced[r] /\ server'[r] = server[r]
<1> USE DEF SubTypeOK, SessionTypeOK, At, subVars, syncVars
<1>1. CASE \/ RunTop(s) \/ RunCallbacks(s) \/ RunConfigure(s) \/ RunSign(s) \/ RunDial(s)
           \/ RunServe(s) \/ RunJoin(s) \/ RunFailed(s) \/ RunSleep(s) \/ RunWake(s)
  BY <1>1 DEF RunTop, RunCallbacks, RunConfigure, RunSign, RunDial, RunServe, RunJoin,
     RunFailed, RunSleep, RunWake
<1>2. CASE RunCheck(s) \/ RunSnapshot(s) \/ SelectNotify(s) \/ SelectSend(s)
  BY <1>2 DEF RunCheck, RunSnapshot, SelectNotify, SelectSend, Stay
<1>3. CASE RunUnsubscribe(s)
  BY <1>3 DEF RunUnsubscribe, Stay, LeaveOnWriteError, Leave, ForgetConnection
<1>4. CASE RunSubscribe(s)
  BY <1>4 DEF RunSubscribe, Stay, LeaveOnWriteError, Leave, ForgetConnection
<1>5. CASE SelectLeave(s) \/ SelectPing(s) \/ RunWrite(s)
  BY <1>5 DEF SelectLeave, SelectPing, RunWrite, Stay, LeaveOnWriteError, Leave,
     ForgetConnection
<1> QED
  BY <1>1, <1>2, <1>3, <1>4, <1>5 DEF MoveStep

\* Leaving serveConnection keeps the session in step.
LEMMA InStepLeave ==
  ASSUME NEW s \in Sessions, NEW from, NEW e, SubTypeOK, SessionTypeOK, UNCHANGED desiredVars,
         Leave(s, from, e)
  PROVE  InStep(s)'
<1>1. ForgetConnection(s) /\ run'[s] \notin Serving /\ subscriptionRevision' \in Nat
  BY DEF Leave, At, Serving, SubTypeOK, SessionTypeOK, desiredVars
<1> QED
  BY <1>1, InStepLeft

\* So does every other step of its loop.
LEMMA InStepMove ==
  ASSUME SubTypeOK, SessionTypeOK, NEW s \in Sessions, InStep(s), MoveStep(s)
  PROVE  InStep(s)'
<1>1. UNCHANGED desiredVars
  BY LoopFrame
<1>2. CASE \/ RunTop(s) \/ RunCallbacks(s) \/ RunConfigure(s) \/ RunSign(s) \/ RunDial(s)
           \/ RunJoin(s) \/ RunFailed(s) \/ RunSleep(s) \/ RunWake(s)
  <2>1. run[s] \notin Serving /\ run'[s] \notin Serving
    BY <1>2 DEF RunTop, RunCallbacks, RunConfigure, RunSign, RunDial, RunJoin, RunFailed,
       RunSleep, RunWake, At, Serving, SessionTypeOK
  <2>2. UNCHANGED <<synced, server>>
    BY <1>2 DEF RunTop, RunCallbacks, RunConfigure, RunSign, RunDial, RunJoin, RunFailed,
       RunSleep, RunWake, subVars, syncVars
  <2> QED
    BY <1>1, <2>1, <2>2, InStepOutside
<1>3. CASE RunServe(s)
  <2>1. UNCHANGED <<synced, server>>
    BY <1>3 DEF RunServe, subVars, syncVars
  <2>2. CASE run'[s] = "failed"
    BY <1>1, <1>3, <2>1, <2>2, InStepOutside DEF RunServe, At, Serving
  <2>3. CASE run'[s] = "check"
    BY <1>1, <1>3, <2>1, <2>3, InStepServing DEF RunServe, At
  <2> QED
    BY <1>3, <2>2, <2>3 DEF RunServe, At, SessionTypeOK
<1>4. CASE RunCheck(s)
  <2>1. /\ UNCHANGED <<synced, server>> /\ run[s] = "check"
        /\ run'[s] = IF synced[s].first \/ synced[s].rev # subscriptionRevision
                       THEN "snapshot" ELSE "select"
    BY <1>4 DEF RunCheck, Stay, At, SessionTypeOK, subVars, syncVars
  <2> QED
    BY <1>1, <2>1, InStepServing
<1>5. CASE RunSnapshot(s)
  BY <1>5, InStepSnapshot
<1>6. CASE RunUnsubscribe(s)
  <2>1. CASE LeaveOnWriteError(s, "unsub")
    BY <1>1, <2>1, InStepLeave DEF LeaveOnWriteError
  <2>2. CASE ~NeedsUnsubscribe(s) /\ Stay(s, "unsub", "sub") /\ UNCHANGED syncVars
    BY <1>1, <2>2, InStepUnsubscribe DEF syncVars
  <2>3. CASE /\ NeedsUnsubscribe(s) /\ Stay(s, "unsub", "sub") /\ UNCHANGED <<snap, synced>>
             /\ server' = [server EXCEPT ![s] = ServerUnsubscribe(@, Removed(s))]
    <3>1. server'[s] = ServerUnsubscribe(server[s], Removed(s))
      BY <2>3 DEF SubTypeOK
    <3> QED
      BY <1>1, <2>3, <3>1, InStepUnsubscribe
  <2> QED
    BY <1>6, <2>1, <2>2, <2>3 DEF RunUnsubscribe
<1>7. CASE RunSubscribe(s)
  <2>1. CASE LeaveOnWriteError(s, "sub")
    BY <1>1, <2>1, InStepLeave DEF LeaveOnWriteError
  <2>2. CASE /\ ~NeedsSubscribe(s) /\ Stay(s, "sub", "select") /\ UNCHANGED <<snap, server>>
             /\ synced' = [synced EXCEPT ![s] = SyncedTo(snap[s])]
    <3>1. synced'[s] = SyncedTo(snap[s])
      BY <2>2 DEF SubTypeOK
    <3> QED
      BY <1>1, <2>2, <3>1, InStepSubscribe
  <2>3. CASE /\ NeedsSubscribe(s) /\ Stay(s, "sub", "select") /\ UNCHANGED snap
             /\ synced' = [synced EXCEPT ![s] = SyncedTo(snap[s])]
             /\ server' = [server EXCEPT ![s] = ServerSubscribe(@, snap[s])]
    <3>1. synced'[s] = SyncedTo(snap[s]) /\ server'[s] = ServerSubscribe(server[s], snap[s])
      BY <2>3 DEF SubTypeOK
    <3> QED
      BY <1>1, <2>3, <3>1, InStepSubscribe
  <2> QED
    BY <1>7, <2>1, <2>2, <2>3 DEF RunSubscribe
<1>8. CASE SelectLeave(s)
  BY <1>1, <1>8, InStepLeave DEF SelectLeave
<1>9. CASE SelectNotify(s) \/ SelectSend(s) \/ SelectPing(s) \/ RunWrite(s)
  <2>1. CASE LeaveOnWriteError(s, "select") \/ LeaveOnWriteError(s, "write")
    BY <1>1, <2>1, InStepLeave DEF LeaveOnWriteError
  <2>2. CASE ~(LeaveOnWriteError(s, "select") \/ LeaveOnWriteError(s, "write"))
    <3>1. /\ UNCHANGED <<synced, server>>
          /\ run[s] \in {"select", "write"} /\ run'[s] \in {"check", "write"}
      BY <1>9, <2>2 DEF SelectNotify, SelectSend, SelectPing, RunWrite, Stay, At,
         SessionTypeOK, subVars, syncVars
    <3>2. ~synced[s].first
      BY <3>1 DEF InStep, LastSynced
    <3> QED
      BY <1>1, <3>1, <3>2, InStepServing
  <2> QED
    BY <2>1, <2>2
<1> QED
  BY <1>2, <1>3, <1>4, <1>5, <1>6, <1>7, <1>8, <1>9 DEF MoveStep

\* Every step keeps every session in step with the node.
LEMMA NodeStep ==
  ASSUME IndInv, [Next]_vars, NEW s \in Sessions, InStep(s)
  PROVE  InStep(s)'
<1> USE DEF IndInv, TypeOK
<1>1. ASSUME NEW t \in Callers, Start(t) PROVE InStep(s)'
  <2>1. UNCHANGED <<desiredVars, snap, synced, server>>
    BY <1>1 DEF Start, subVars, syncVars
  <2>2. run'[s] = run[s] \/ (run[s] \notin Serving /\ run'[s] \notin Serving)
    BY <1>1, StartFresh DEF SessionTypeOK, Serving
  <2> QED
    BY <2>1, <2>2, InStepFrame, InStepOutside
<1>2. ASSUME NEW t \in Callers, StopCancel(t) PROVE InStep(s)'
  BY <1>2, InStepFrame DEF StopCancel, subVars, syncVars, sessionVars, loopVars
<1>3. ASSUME NEW t \in Callers, OtherCall(t) \/ StopClear(t) PROVE InStep(s)'
  <2>1. UNCHANGED <<run, syncVars>> /\ (UNCHANGED desiredVars \/ NextRevision)
    BY <1>3, DesiredChanges
  <2>2. UNCHANGED <<run, snap, synced, server>>
    BY <2>1 DEF syncVars
  <2> QED
    BY <2>1, <2>2, InStepFrame, InStepChange
<1>4. ASSUME NEW r \in Sessions, MoveStep(r) PROVE InStep(s)'
  <2>1. CASE r = s
    BY <1>4, <2>1, InStepMove
  <2>2. CASE r # s
    BY <1>4, <2>2, LoopFrame, InStepFrame
  <2> QED
    BY <2>1, <2>2
<1>5. ASSUME NEW r \in Sessions, RunCancel(r) \/ RunEnd(r) PROVE InStep(s)'
  <2>1. UNCHANGED <<desiredVars, snap, synced, server>>
    BY <1>5 DEF RunCancel, RunEnd, subVars, syncVars
  <2>2. run'[s] = run[s] \/ (run[s] \notin Serving /\ run'[s] \notin Serving)
    BY <1>5 DEF RunCancel, RunEnd, At, Serving, SessionTypeOK
  <2> QED
    BY <2>1, <2>2, InStepFrame, InStepOutside
<1>6. ASSUME NEW r \in Sessions, SideStep(r) \/ ReadNext(r) PROVE InStep(s)'
  BY <1>6, InStepFrame DEF SideStep, LockForDrain, RunDrain, Receive, ReadFail, CloseOnCancel,
     ReadNext, subVars, syncVars, sessionVars, loopVars
<1>7. CASE \/ \E g \in Goroutines : DispatchStep(g)
           \/ CallbackStep \/ CancelContext \/ UNCHANGED vars
  BY <1>7, InStepFrame DEF DispatchStep, CallbackStep, CancelContext, vars, subVars, syncVars,
     sessionVars, loopVars
<1> QED
  BY <1>1, <1>2, <1>3, <1>4, <1>5, <1>6, <1>7, NextCases

\* The places the loop of Subscribe counts and the addresses that are new
\* correspond one to one: of the places of an address it counts the first.
LEMMA UnseenCountsNew ==
  ASSUME NEW list \in Lists
  PROVE  /\ IsFiniteSet(Unseen(list))
         /\ IsFiniteSet(Listed(list) \ subscribedAddresses)
         /\ Cardinality(Listed(list) \ subscribedAddresses) = Cardinality(Unseen(list))
<1> DEFINE U == Unseen(list)
           N == Listed(list) \ subscribedAddresses
           f == [i \in U |-> list[i]]
<1>1. PICK n \in 1..MaxAddrs : list \in [1..n -> Addrs]
  BY DEF Lists
<1>2. n \in Nat /\ DOMAIN list = 1..n /\ U \subseteq 1..n
  BY <1>1, SubscriptionAssumption DEF Unseen, Unsubscribed
<1>3. IsFiniteSet(U)
  BY <1>2, FS_Interval, FS_Subset
<1>4. f \in [U -> N]
  BY <1>2 DEF Unseen, Unsubscribed, Listed
<1>5. ASSUME NEW i \in U, NEW j \in U, f[i] = f[j] PROVE i = j
  <2>1. i \in Nat /\ j \in Nat /\ list[i] = list[j]
    BY <1>2, <1>5
  <2>2. ~(i < j) /\ ~(j < i)
    BY <1>5, <2>1 DEF Unseen
  <2> QED
    BY <2>1, <2>2
<1>6. ASSUME NEW a \in N PROVE \E i \in U : f[i] = a
  <2> DEFINE Places == {i \in Unsubscribed(list) : list[i] = a}
  <2>1. Places \in SUBSET Nat /\ Places # {}
    BY <1>2, <1>6 DEF Listed, Unsubscribed
  <2>2. PICK m \in Places : \A k \in Places : m <= k
    BY <2>1, LeastElement
  <2>3. ASSUME NEW j \in Unsubscribed(list), j < m PROVE list[j] # list[m]
    <3>1. j \in Nat /\ m \in Nat
      BY <1>2, <2>1, <2>2, <2>3 DEF Unsubscribed
    <3>2. j \notin Places
      BY <2>2, <2>3, <3>1
    <3> QED
      BY <2>2, <2>3, <3>2
  <2>4. m \in U
    BY <2>2, <2>3 DEF Unseen
  <2> QED
    BY <2>2, <2>4
<1>7. f \in Bijection(U, N)
  BY <1>4, <1>5, <1>6 DEF Bijection, Injection, Surjection, IsInjective
<1>8. ExistsBijection(U, N)
  BY <1>7 DEF ExistsBijection
<1> QED
  BY <1>3, <1>8, FS_Bijection

\* So the total of the loop is the number of addresses there would be.
LEMMA TotalIsUnion ==
  ASSUME SubTypeOK, NEW list \in Lists
  PROVE  /\ total(list) = Cardinality(subscribedAddresses \cup Listed(list))
         /\ total(list) \in Nat
<1> DEFINE S == subscribedAddresses
           N == Listed(list) \ S
<1>1. IsFiniteSet(S)
  BY SubscriptionAssumption, FS_Subset DEF SubTypeOK
<1>2. IsFiniteSet(N) /\ Cardinality(N) = Cardinality(Unseen(list))
  BY UnseenCountsNew
<1>3. S \cup Listed(list) = S \cup N /\ S \cap N = {}
  OBVIOUS
<1>4. Cardinality(S \cap N) = 0
  BY <1>3, FS_EmptySet
<1>5. Cardinality(S \cup N) = Cardinality(S) + Cardinality(N) - 0
  BY <1>1, <1>2, <1>4, FS_Union
<1>6. Cardinality(S) \in Nat /\ Cardinality(N) \in Nat
  BY <1>1, <1>2, FS_CardinalityType
<1> HIDE DEF N
<1> QED
  BY <1>2, <1>3, <1>5, <1>6 DEF total

\* Subscribe and the clearing of Unsubscribe and Stop keep map and set together.
LEMMA SignedStep ==
  ASSUME IndInv, [Next]_vars, SubscribedSigned
  PROVE  SubscribedSigned'
<1> USE DEF IndInv, TypeOK, SubTypeOK
<1>1. CASE UNCHANGED desiredVars
  BY <1>1 DEF SubscribedSigned, desiredVars
<1>2. CASE ClearDesired
  BY <1>2, FS_EmptySet, SubscriptionAssumption DEF ClearDesired, NoneSigned, SubscribedSigned
<1>3. ASSUME NEW t \in Callers, Subscribe(t) PROVE SubscribedSigned'
  <2>1. CASE UNCHANGED desiredVars
    BY <1>1, <2>1
  <2>2. ASSUME NEW list \in Lists, NEW sig \in [Listed(list) -> Sigs], ~TooMany(list),
               subscribedAddresses' = subscribedAddresses \cup Listed(list),
               subscribedSignedData' = [a \in Addrs |->
                   IF a \in Listed(list) THEN sig[a] ELSE subscribedSignedData[a]]
        PROVE  SubscribedSigned'
    <3>1. total(list) \in Nat /\ MaxAddrs \in Nat
      BY <2>2, SubscriptionAssumption, TotalIsUnion
    <3>2. total(list) = Cardinality(subscribedAddresses')
      BY <2>2, TotalIsUnion
    <3>3. Cardinality(subscribedAddresses') <= MaxAddrs
      BY <2>2, <3>1, <3>2 DEF TooMany
    <3>4. ASSUME NEW a \in Addrs
          PROVE  a \in subscribedAddresses' <=> subscribedSignedData'[a] # None
      BY <2>2, SubscriptionAssumption DEF SubscribedSigned
    <3> QED
      BY <3>3, <3>4 DEF SubscribedSigned
  <2> QED
    BY <1>3, <2>1, <2>2 DEF Subscribe
<1>4. ASSUME NEW t \in Callers, OtherCall(t), ~Subscribe(t)
      PROVE  UNCHANGED desiredVars \/ ClearDesired \/ WithMode(t)
  <2>1. CASE SubscriptionStep(t)
    BY <1>4, <2>1 DEF SubscriptionStep, Unsubscribe
  <2>2. CASE ~SubscriptionStep(t)
    BY <1>4, <2>2 DEF OtherCall, LockCall, LifecycleCall, WithProxyCall, HttpCall,
       WriteBegin, LockInCall, StopWait, LockHttp, StopReturn, WithProxy, HttpStep,
       WithWSAuthority, WriteStep, AddCallbackStep, subVars
  <2> QED
    BY <2>1, <2>2
<1>5. ASSUME NEW t \in Callers, WithMode(t) PROVE SubscribedSigned'
  BY <1>5 DEF WithMode, SubscribedSigned
<1>6. ASSUME NEW t \in Callers, Start(t) \/ StopCancel(t) \/ StopClear(t)
      PROVE  UNCHANGED desiredVars \/ ClearDesired
  BY <1>6 DEF Start, StopCancel, StopClear, subVars
<1>7. ASSUME NEW s \in Sessions,
             \/ MoveStep(s) \/ SideStep(s) \/ RunCancel(s) \/ RunEnd(s) \/ ReadNext(s)
      PROVE  UNCHANGED desiredVars
  BY <1>7, LoopFrame DEF SideStep, LockForDrain, RunDrain, Receive, ReadFail, CloseOnCancel,
     RunCancel, RunEnd, ReadNext, subVars
<1>8. CASE \/ \E g \in Goroutines : DispatchStep(g)
           \/ CallbackStep \/ CancelContext \/ UNCHANGED vars
  BY <1>1, <1>8 DEF DispatchStep, CallbackStep, CancelContext, vars, subVars
<1> QED
  BY <1>1, <1>2, <1>3, <1>4, <1>5, <1>6, <1>7, <1>8, NextCases

-----------------------------------------------------------------------------
(* Subscriptions: the theorems.                                            *)

\* The subscriptions of a client and what its read node holds agree in every
\* reachable state, as far as the serve loop has come (syncSubscription).
THEOREM SubscriptionInvariance == Spec => []SubscriptionInv
<1>1. Init => SubscriptionInv
  <2> SUFFICES ASSUME Init PROVE SubscriptionInv
    OBVIOUS
  <2>1. SubscribedSigned
    BY FS_EmptySet, SubscriptionAssumption DEF Init, SubInit, NoneSigned, SubscribedSigned
  <2>2. ASSUME NEW s \in Sessions PROVE InStep(s)
    <3>1. /\ run[s] = "none" /\ synced[s] = NotSynced /\ server[s] = NewConnection
          /\ subscriptionRevision = 0
      BY DEF Init, SubInit
    <3> QED
      BY <3>1 DEF InStep, Remembered, SnapshotInUse, LastSynced, NotSynced, NewConnection,
         NoneSigned, Serving
  <2> QED
    BY <2>1, <2>2 DEF SubscriptionInv
<1>2. IndInv /\ SubscriptionInv /\ [Next]_vars => SubscriptionInv'
  BY NodeStep, SignedStep DEF SubscriptionInv
<1> QED
  BY <1>1, <1>2, Invariance, PTL DEF Spec

\* The signatures kept are those of the subscribed addresses, of which there are
\* at most MaxAddrs (Subscribe, Unsubscribe, Stop).
THEOREM SignaturesMatch == Spec => []SubscribedSigned
<1>1. SubscriptionInv => SubscribedSigned
  BY DEF SubscriptionInv
<1> QED
  BY <1>1, SubscriptionInvariance, PTL

\* Subscribe refuses a list exactly if the addresses would be more than MaxAddrs,
\* for every MaxAddrs and lists with any repetitions (Subscribe).
THEOREM LimitIsExact == Spec => []LimitExact
<1>1. TypeOK => LimitExact
  BY TotalIsUnion DEF TypeOK, LimitExact, TooMany
<1> QED
  BY <1>1, TypeCorrect, PTL

\* An unsubscribe frame names addresses or ends listening, never both
\* (syncSubscription).
THEOREM FramesUnambiguous == Spec => []UnsubscribeUnambiguous
<1>1. SubscriptionInv => UnsubscribeUnambiguous
  BY DEF SubscriptionInv, InStep, Remembered, UnsubscribeUnambiguous, LeavesListen, Removed
<1> QED
  BY <1>1, SubscriptionInvariance, PTL

\* Once the current revision is synchronised the node holds exactly the desired
\* addresses, signatures, filter and mode (syncSubscription, serveConnection).
THEOREM NodeAgrees == Spec => []ServerInSync
<1>1. SubscriptionInv => ServerInSync
  BY DEF SubscriptionInv, InStep, LastSynced, ServerInSync
<1> QED
  BY <1>1, SubscriptionInvariance, PTL
=============================================================================
