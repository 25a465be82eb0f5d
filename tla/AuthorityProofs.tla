-------------------------- MODULE AuthorityProofs ---------------------------
(***************************************************************************)
(* The properties of the websocket authority for any signers, addresses,   *)
(* and number of dials, failures and configuration changes.                *)
(***************************************************************************)
EXTENDS Authority, TLAPS

Authorities == [nonce : 1..MaxNonces, address : Addresses, signer : Signers]
Headers == Authorities \cup {Nil, Own}

\* Where the loop is decides what its local variables hold.
LoopInv ==
    /\ config \in Configs /\ copied \in Configs /\ wsHeader \in {Nil, Own}
    /\ at \in {"top", "sign", "dial", "retry"}
    /\ nonces \in 0..MaxNonces
    /\ header \in Headers /\ handshakes \in Seq(Headers)
    /\ at = "sign" => nonces < MaxNonces /\ copied # NoAuthority
    /\ at \in {"sign", "dial"} => copied \in inForce
    /\ at # "dial" => ~Generated(header)
    /\ Generated(header) => header.address = copied.address /\ header.signer = copied.signer

\* Nonces of authorities grow from handshake to handshake.
NonceInv ==
    /\ Generated(header) => header.nonce <= nonces
    /\ \A i \in DOMAIN handshakes : Generated(handshakes[i]) =>
          /\ handshakes[i].nonce <= nonces
          /\ Generated(header) => handshakes[i].nonce < header.nonce
    /\ \A i, j \in DOMAIN handshakes :
          Generated(handshakes[i]) /\ Generated(handshakes[j]) /\ i < j
              => handshakes[i].nonce < handshakes[j].nonce

IndInv == LoopInv /\ NonceInv /\ NoUnsignedDial

\* A signer without an address, or the converse, is never configured.
LEMMA ConfigsShape ==
  ASSUME NEW c \in Configs
  PROVE  /\ c.signer = Nil <=> c = NoAuthority
         /\ c # NoAuthority => c.address \in Addresses /\ c.signer \in Signers
         /\ c = [address |-> c.address, signer |-> c.signer]
  BY AuthorityAssumption DEF Configs, NoAuthority

\* The initial state.
LEMMA InitInv == Init => IndInv
  BY AuthorityAssumption DEF Init, IndInv, LoopInv, NonceInv, NoUnsignedDial, Generated, Configs,
     Headers, NoAuthority

\* The loop's variables fit where it is.
LEMMA LoopStep == IndInv /\ [Next]_vars => LoopInv' /\ NoUnsignedDial'
<1> SUFFICES ASSUME IndInv, [Next]_vars PROVE LoopInv' /\ NoUnsignedDial'
  OBVIOUS
<1> USE DEF IndInv, LoopInv, NoUnsignedDial, Generated, vars, loopVars
<1>1. CASE WithWSAuthority
  BY <1>1 DEF WithWSAuthority
<1>2. CASE EditWSHeader
  BY <1>2 DEF EditWSHeader
<1>3. CASE Configure
  <2>1. config.signer # Nil <=> config # NoAuthority
    BY ConfigsShape
  <2> QED
    BY <1>3, <2>1, AuthorityAssumption DEF Configure, Headers
<1>4. CASE CreateWSAuthorityV3
  <2>1. copied.address \in Addresses /\ copied.signer \in Signers
    BY <1>4, ConfigsShape DEF CreateWSAuthorityV3
  <2>2. /\ nonces + 1 \in 1..MaxNonces /\ nonces + 1 \in 0..MaxNonces
        /\ nonces \in 0..MaxNonces
    BY <1>4, AuthorityAssumption DEF CreateWSAuthorityV3
  <2> DEFINE h == [nonce |-> nonces + 1, address |-> copied.address, signer |-> copied.signer]
  <2>3. /\ h \in Authorities /\ h \notin {Nil, Own}
        /\ h.address = copied.address /\ h.signer = copied.signer
    BY <2>1, <2>2, AuthorityAssumption DEF Authorities
  <2>4. CASE header' = h /\ at' = "dial"
    <3> HIDE DEF h
    <3> QED
      BY <1>4, <2>2, <2>3, <2>4 DEF CreateWSAuthorityV3, Headers
  <2>5. CASE UNCHANGED header /\ at' = "retry"
    BY <1>4, <2>2, <2>5 DEF CreateWSAuthorityV3
  <2> QED
    BY <1>4, <2>4, <2>5 DEF CreateWSAuthorityV3, FreshNonce, SignerUsed, AfterFailedSigning
<1>5. CASE Dial
  BY <1>5 DEF Dial, Headers
<1>6. CASE Retry
  BY <1>6 DEF Retry, Headers, Configs
<1>7. CASE UNCHANGED vars
  BY <1>7
<1> QED
  BY <1>1, <1>2, <1>3, <1>4, <1>5, <1>6, <1>7 DEF Next

\* A nonce is drawn for one header and the header goes into one handshake.
LEMMA NonceStep == IndInv /\ [Next]_vars => NonceInv'
<1> SUFFICES ASSUME IndInv, [Next]_vars PROVE NonceInv'
  OBVIOUS
<1> USE DEF IndInv, LoopInv, NonceInv, Generated, vars, loopVars
<1>1. CASE WithWSAuthority \/ EditWSHeader \/ UNCHANGED vars
  BY <1>1 DEF WithWSAuthority, EditWSHeader
<1>2. CASE Configure \/ Retry
  BY <1>2 DEF Configure, Retry
<1>3. CASE CreateWSAuthorityV3
  <2>0. \A i \in DOMAIN handshakes : Generated(handshakes[i]) => handshakes[i].nonce \in Int
    BY DEF Headers, Authorities
  <2>1. /\ UNCHANGED handshakes /\ nonces' \in {nonces, nonces + 1} /\ nonces \in Int
        /\ Generated(header') => header'.nonce = nonces + 1
    BY <1>3 DEF CreateWSAuthorityV3, FreshNonce, AfterFailedSigning
  <2>2. Generated(header') => nonces' = nonces + 1
    BY <1>3 DEF CreateWSAuthorityV3, FreshNonce, AfterFailedSigning
  <2>3. \A i \in DOMAIN handshakes : Generated(handshakes[i]) => handshakes[i].nonce <= nonces
    OBVIOUS
  <2>4. \A i, j \in DOMAIN handshakes :
          Generated(handshakes[i]) /\ Generated(handshakes[j]) /\ i < j
              => handshakes[i].nonce < handshakes[j].nonce
    OBVIOUS
  <2> HIDE DEF IndInv, LoopInv, Generated
  <2> QED
    BY <2>0, <2>1, <2>2, <2>3, <2>4
<1>4. CASE Dial
  <2>1. /\ handshakes' = Append(handshakes, header) /\ header' = Nil /\ UNCHANGED nonces
        /\ DOMAIN handshakes = 1..Len(handshakes) /\ Len(handshakes) \in Nat
        /\ DOMAIN handshakes' = 1..(Len(handshakes) + 1)
        /\ \A i \in DOMAIN handshakes : handshakes'[i] = handshakes[i]
        /\ handshakes'[Len(handshakes) + 1] = header
    BY <1>4 DEF Dial
  <2>2. Generated(header) => header.nonce <= nonces
    BY <1>4 DEF Dial
  <2>3. ~Generated(header')
    BY <2>1
  <2> DEFINE n == Len(handshakes)
  <2>n. /\ n \in Nat /\ DOMAIN handshakes = 1..n
        /\ \A i \in DOMAIN handshakes' : i \in 1..n \/ i = n + 1
    <3> HIDE DEF IndInv, LoopInv, NonceInv, Generated
    <3>1. n \in Nat /\ DOMAIN handshakes = 1..n /\ DOMAIN handshakes' = 1..(n + 1)
      BY <2>1
    <3> HIDE DEF n
    <3>2. \A i \in 1..(n + 1) : i \in 1..n \/ i = n + 1
      BY <3>1
    <3> QED
      BY <3>1, <3>2
  <2> HIDE DEF n
  <2>4. ASSUME NEW i \in DOMAIN handshakes', Generated(handshakes'[i])
        PROVE  handshakes'[i].nonce <= nonces'
    <3>1. CASE i \in 1..n
      BY <2>1, <2>n, <2>4, <3>1
    <3>2. CASE i = n + 1
      BY <2>1, <2>2, <2>4, <3>2 DEF n
    <3> QED
      BY <2>n, <3>1, <3>2
  <2>5. ASSUME NEW i \in DOMAIN handshakes', NEW j \in DOMAIN handshakes',
               Generated(handshakes'[i]), Generated(handshakes'[j]), i < j
        PROVE  handshakes'[i].nonce < handshakes'[j].nonce
    <3>1. i \in 1..n
      <4> HIDE DEF IndInv, LoopInv, NonceInv, Generated
      <4> QED
        BY <2>n, <2>5
    <3>2. CASE j \in 1..n
      BY <2>1, <2>n, <2>5, <3>1, <3>2
    <3>3. CASE j = n + 1
      BY <2>1, <2>n, <2>5, <3>1, <3>3 DEF n
    <3> QED
      BY <2>n, <3>2, <3>3
  <2> HIDE DEF IndInv, LoopInv, Generated
  <2> QED
    BY <2>3, <2>4, <2>5
<1> QED
  BY <1>1, <1>2, <1>3, <1>4 DEF Next

\* The inductive invariant holds in every reachable state of the loop and its
\* configuration.
THEOREM AuthorityInvariance == Spec => []IndInv
<1>1. IndInv /\ [Next]_vars => IndInv'
  BY LoopStep, NonceStep DEF IndInv
<1> QED
  BY <1>1, InitInv, PTL DEF Spec

\* No authority is used in two handshakes.
THEOREM OneHandshake == Spec => []OneHandshakeEach
<1>1. IndInv => OneHandshakeEach
  <2> SUFFICES ASSUME IndInv, NEW i \in DOMAIN handshakes, NEW j \in DOMAIN handshakes,
                      Generated(handshakes[i]), handshakes[j] = handshakes[i]
               PROVE  i = j
    BY DEF OneHandshakeEach
  <2>1. handshakes[i].nonce \in Int /\ i \in Int /\ j \in Int
    BY DEF IndInv, LoopInv, Headers, Authorities, Generated
  <2>2. ~(i < j) /\ ~(j < i)
    BY <2>1 DEF IndInv, NonceInv
  <2> QED
    BY <2>1, <2>2
<1> QED
  BY <1>1, AuthorityInvariance, PTL

\* An authority belongs to one configuration that was in force.
THEOREM InForce == Spec => []AuthorityInForce
<1>1. IndInv => AuthorityInForce
  BY ConfigsShape DEF IndInv, LoopInv, AuthorityInForce
<1> QED
  BY <1>1, AuthorityInvariance, PTL

\* An attempt that found a signer never dials without its authority.
THEOREM SignedDial == Spec => []NoUnsignedDial
  BY AuthorityInvariance, PTL DEF IndInv
=============================================================================
