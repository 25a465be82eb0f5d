---------------------------- MODULE PinningProofs ---------------------------
(***************************************************************************)
(* Certificate pinning for any certificates, signatures, chains and any    *)
(* number of changes of the default list.                                  *)
(***************************************************************************)
EXTENDS Pinning, FiniteSetTheorems, SequenceTheorems, TLAPS

-----------------------------------------------------------------------------
(* Chains.                                                                 *)

\* A non-empty set of natural numbers has a least element.
LEMMA LeastElement ==
  ASSUME NEW T \in SUBSET Nat, T # {}
  PROVE  \E m \in T : \A n \in T : m <= n
<1> DEFINE R == OpToRel(<, Nat)
<1>1. IsWellFoundedOn(R, Nat)
  BY NatLessThanWellFounded
<1> HIDE DEF R
<1>2. PICK m \in T : \A n \in T : <<n, m>> \notin R
  BY <1>1, WFMin
<1>3. \A n \in T : ~(n < m)
  BY <1>2 DEF R, OpToRel
<1> QED
  BY <1>2, <1>3

\* A presented chain is a sequence of certificates.
LEMMA ChainIsSeq ==
  ASSUME NEW certs \in Chains
  PROVE  certs \in Seq(Certs)
<1>1. PICK n \in 0..MaxChain : certs \in [1..n -> Certs]
  BY DEF Chains
<1>2. n \in Nat
  BY PinningAssumption
<1> QED
  BY <1>1, <1>2, SeqDef

\* signedChain returns a prefix of the chain in which every certificate after
\* the first has signed the one before it.
LEMMA SignedPrefix ==
  ASSUME NEW certs \in Seq(Certs)
  PROVE  \E n \in 0..Len(certs) :
            /\ DOMAIN signedChain(certs) = 1..n
            /\ \A i \in 1..n : signedChain(certs)[i] = certs[i]
            /\ \A i \in 2..n : CheckSignatureFrom(certs[i - 1], certs[i])
<1> DEFINE broken == {i \in 2..Len(certs) : ~CheckSignatureFrom(certs[i - 1], certs[i])}
<1>1. Len(certs) \in Nat /\ DOMAIN certs = 1..Len(certs)
  OBVIOUS
<1>2. CASE broken = {}
  <2>1. signedChain(certs) = certs
    BY <1>2 DEF signedChain
  <2>2. \A i \in 2..Len(certs) : CheckSignatureFrom(certs[i - 1], certs[i])
    BY <1>2
  <2>3. Len(certs) \in 0..Len(certs)
    BY <1>1
  <2> QED
    BY <1>1, <2>1, <2>2, <2>3
<1>3. CASE broken # {}
  <2> DEFINE first == CHOOSE i \in broken : \A j \in broken : i <= j
  <2>1. broken \in SUBSET Nat
    BY <1>1
  <2>2. first \in broken /\ \A j \in broken : first <= j
    BY <1>3, <2>1, LeastElement
  <2>3. signedChain(certs) = SubSeq(certs, 1, first - 1)
    BY <1>3 DEF signedChain
  <2> HIDE DEF first
  <2>4. first \in 2..Len(certs)
    BY <2>2
  <2>5. /\ DOMAIN SubSeq(certs, 1, first - 1) = 1..(first - 1)
        /\ \A i \in 1..(first - 1) : SubSeq(certs, 1, first - 1)[i] = certs[i]
    BY <1>1, <2>4
  <2>6. ASSUME NEW i \in 2..(first - 1) PROVE CheckSignatureFrom(certs[i - 1], certs[i])
    <3>1. i \in 2..Len(certs) /\ ~(first <= i)
      BY <1>1, <2>4
    <3> QED
      BY <2>2, <3>1
  <2>7. first - 1 \in 0..Len(certs)
    BY <1>1, <2>4
  <2> QED
    BY <2>3, <2>5, <2>6, <2>7
<1> QED
  BY <1>2, <1>3

\* Every certificate of the signed prefix vouches for the leaf.
LEMMA PrefixVouches ==
  ASSUME chain \in Chains, NEW k \in DOMAIN signedChain(chain)
  PROVE  /\ k \in DOMAIN chain /\ signedChain(chain)[k] = chain[k]
         /\ chain[k] \in Certs /\ Vouches(chain[k])
<1> DEFINE presented == {chain[i] : i \in DOMAIN chain}
<1>1. chain \in Seq(Certs) /\ Len(chain) \in Nat /\ DOMAIN chain = 1..Len(chain)
  BY ChainIsSeq
<1>2. PICK n \in 0..Len(chain) :
            /\ DOMAIN signedChain(chain) = 1..n
            /\ \A i \in 1..n : signedChain(chain)[i] = chain[i]
            /\ \A i \in 2..n : CheckSignatureFrom(chain[i - 1], chain[i])
  BY <1>1, SignedPrefix
<1>3. k \in 1..n /\ k \in DOMAIN chain /\ chain[k] \in Certs /\ chain[k] \in presented
  BY <1>1, <1>2
<1>4. ASSUME NEW T \in SUBSET presented, chain[k] \in T,
             \A p \in T, c \in presented : CheckSignatureFrom(c, p) => c \in T
      PROVE  chain[1] \in T
  <2> DEFINE I == {i \in 1..k : chain[i] \in T}
  <2>1. k \in I /\ I \in SUBSET Nat
    BY <1>3, <1>4
  <2>2. PICK m \in I : \A i \in I : m <= i
    BY <2>1, LeastElement
  <2>3. CASE m = 1
    BY <2>2, <2>3
  <2>4. CASE m # 1
    <3>1. m \in 2..n /\ m - 1 \in 1..k /\ m - 1 \in DOMAIN chain
      BY <1>1, <1>3, <2>2, <2>4
    <3>2. chain[m - 1] \in T
      BY <1>2, <1>4, <2>2, <3>1
    <3>3. m <= m - 1
      BY <2>2, <3>1, <3>2
    <3> QED
      BY <3>1, <3>3
  <2> QED
    BY <2>3, <2>4
<1>5. Vouches(chain[k])
  BY <1>3, <1>4 DEF Vouches
<1> QED
  BY <1>2, <1>3, <1>5

-----------------------------------------------------------------------------
(* The invariant.                                                          *)

\* A client that exists was not refused, and its pin is what its arguments say.
InputInv ==
    /\ args \in [custom : {NilPin, EmptyPin} \cup PinText,
                 cert : Certs \cup {NoCert, BadCert}, insecure : BOOLEAN]
    /\ hs # "idle" => made = "yes"
    /\ made = "yes" => /\ ~Refuses(args.custom, args.cert)
                       /\ customFingerprint = Resolve(args.custom, args.cert)

\* The list as it is lies between what was listed all the time and at some time.
ListInv ==
    /\ listed \in [some : SUBSET PinText, all : SUBSET PinText]
    /\ hs # "idle" => listed.all \subseteq defaultFingerprints
                     /\ defaultFingerprints \subseteq listed.some

\* The copy verifyPeer works with lies there too, whatever the list is by now.
CopyInv ==
    hs = "match" => /\ customFingerprint # EmptyPin
                    /\ MustUse \subseteq pins /\ pins \subseteq MayUse

Matches(p) == \E i \in DOMAIN signedChain(chain) : decodePin(p) = signedChain(chain)[i]

\* A verdict is about the signed part of the chain, and no later edit undoes it.
VerdictInv ==
    /\ hs = "accepted" /\ customFingerprint # EmptyPin => \E p \in MayUse : Matches(p)
    /\ hs = "rejected" => customFingerprint # EmptyPin /\ \A p \in MustUse : ~Matches(p)

PinInv == TypeOK /\ InputInv /\ ListInv /\ CopyInv /\ VerdictInv

\* The three kinds of pin differ.
LEMMA PinKinds ==
  /\ NilPin # EmptyPin
  /\ \A p \in PinText : p # NilPin /\ p # EmptyPin
  /\ \A x \in Certs : Hex(x) \in PinText /\ decodePin(Hex(x)) = x
<1>1. NilPin.kind = "nil" /\ EmptyPin.kind = "empty"
  BY DEF NilPin, EmptyPin
<1>2. \A p \in PinText : p.kind \in {"malformed", "hex"}
  BY DEF PinText
<1>3. ASSUME NEW x \in Certs PROVE Hex(x) \in PinText /\ decodePin(Hex(x)) = x
  <2>1. Hex(x) \in [kind : {"hex"}, of : Certs, upper : BOOLEAN]
    BY DEF Hex
  <2>2. decodePin(Hex(x)) = x
    BY DEF Hex, decodePin
  <2> QED
    BY <2>1, <2>2 DEF PinText
<1>4. NilPin # EmptyPin
  BY <1>1
<1>5. \A p \in PinText : p # NilPin /\ p # EmptyPin
  BY <1>1, <1>2
<1> QED
  BY <1>3, <1>4, <1>5

\* An empty chain has no signed part.
LEMMA EmptyChainSigned == chain = <<>> => \A p : ~Matches(p)
<1> SUFFICES ASSUME chain = <<>>, NEW p, Matches(p) PROVE FALSE
  OBVIOUS
<1>1. chain \in Seq(Certs) /\ Len(chain) = 0
  OBVIOUS
<1>2. PICK n \in 0..0 : DOMAIN signedChain(chain) = 1..n
  BY <1>1, SignedPrefix
<1> QED
  BY <1>2 DEF Matches

\* A change of the default list: the range of the pins only widens.
LEMMA EditStep ==
  ASSUME PinInv, NEW list \in SUBSET PinText, Edit(list)
  PROVE  PinInv'
<1> USE DEF PinInv, TypeOK, ListInv
<1>1. UNCHANGED <<args, made, customFingerprint, hs, chain, pins>>
  BY DEF Edit
<1>2. /\ defaultFingerprints' = list
      /\ listed'.some = listed.some \cup list /\ listed'.all = listed.all \cap list
      /\ listed' \in [some : SUBSET PinText, all : SUBSET PinText]
  BY DEF Edit
<1>3. MayUse \subseteq MayUse' /\ MustUse' \subseteq MustUse
  BY <1>1, <1>2 DEF MayUse, MustUse
<1>4. TypeOK'
  BY <1>1, <1>2, PinningAssumption DEF Edit
<1>5. InputInv'
  BY <1>1 DEF InputInv
<1>6. ListInv'
  BY <1>1, <1>2
<1>7. CopyInv'
  BY <1>1, <1>3 DEF CopyInv
<1>8. VerdictInv'
  BY <1>1, <1>3 DEF VerdictInv, Matches
<1> QED
  BY <1>4, <1>5, <1>6, <1>7, <1>8

\* A client is made or refused.
LEMMA NewClientStep == PinInv /\ newClient => PinInv'
<1> SUFFICES ASSUME PinInv, newClient PROVE PinInv'
  OBVIOUS
<1> USE DEF PinInv, TypeOK, InputInv
<1>1. PICK custom \in {NilPin, EmptyPin} \cup PinText, cert \in Certs \cup {NoCert, BadCert},
           insecure \in BOOLEAN :
         /\ args' = [custom |-> custom, cert |-> cert, insecure |-> insecure]
         /\ made' = IF Refuses(custom, cert) THEN "refused" ELSE "yes"
         /\ customFingerprint' = IF Refuses(custom, cert) THEN NilPin
                                                          ELSE Resolve(custom, cert)
  BY DEF newClient
<1>2. hs = "idle" /\ UNCHANGED <<defaultFingerprints, edits, hs, chain, pins, listed>>
  BY DEF newClient
<1>3. ~Refuses(custom, cert) => Resolve(custom, cert) \in {NilPin, EmptyPin} \cup PinText
  BY PinKinds DEF Refuses, Resolve
<1>4. TypeOK'
  BY <1>1, <1>2, <1>3
<1>5. InputInv'
  BY <1>1, <1>2
<1>6. ListInv' /\ CopyInv' /\ VerdictInv'
  BY <1>2 DEF ListInv, CopyInv, VerdictInv
<1> QED
  BY <1>4, <1>5, <1>6

\* A handshake begins; the history of the list begins with it.
LEMMA HandshakeStep == PinInv /\ Handshake => PinInv'
<1> SUFFICES ASSUME PinInv, Handshake PROVE PinInv'
  OBVIOUS
<1> USE DEF PinInv, TypeOK
<1>1. /\ made = "yes" /\ hs' \in {"verify", "untrusted"} /\ chain' \in Chains
      /\ listed' = [some |-> defaultFingerprints, all |-> defaultFingerprints]
      /\ UNCHANGED <<defaultFingerprints, edits, args, made, customFingerprint, pins>>
  BY DEF Handshake
<1>2. TypeOK'
  BY <1>1
<1>3. InputInv'
  BY <1>1 DEF InputInv
<1>4. ListInv'
  BY <1>1 DEF ListInv
<1>5. CopyInv' /\ VerdictInv'
  BY <1>1 DEF CopyInv, VerdictInv
<1> QED
  BY <1>2, <1>3, <1>4, <1>5

\* verifyPeer copies the pins.
LEMMA VerifyStep == PinInv /\ verifyPeer => PinInv'
<1> SUFFICES ASSUME PinInv, verifyPeer PROVE PinInv'
  OBVIOUS
<1> USE DEF PinInv, TypeOK
<1>1. /\ hs = "verify"
      /\ UNCHANGED <<defaultFingerprints, edits, args, made, customFingerprint, chain, listed>>
  BY DEF verifyPeer
<1>2. pins' = IF customFingerprint = EmptyPin THEN {}
              ELSE IF customFingerprint = NilPin THEN defaultFingerprints
              ELSE {customFingerprint}
  BY DEF verifyPeer
<1>3. hs' = IF customFingerprint = EmptyPin THEN "accepted"
            ELSE IF chain = <<>> THEN "rejected" ELSE "match"
  BY DEF verifyPeer, EmptyChain
<1>4. TypeOK'
  BY <1>1, <1>2, <1>3, PinKinds
<1>5. InputInv' /\ ListInv'
  BY <1>1, <1>3 DEF InputInv, ListInv
<1>6. CopyInv'
  BY <1>1, <1>2, <1>3 DEF CopyInv, ListInv, MayUse, MustUse
<1>7. VerdictInv'
  <2>1. \A p : Matches(p)' <=> Matches(p)
    BY <1>1 DEF Matches
  <2>2. hs' = "rejected" => \A p : ~Matches(p)
    BY <1>3, EmptyChainSigned
  <2> QED
    BY <1>1, <1>3, <2>1, <2>2 DEF VerdictInv
<1> QED
  BY <1>4, <1>5, <1>6, <1>7

\* The loops decide by the copy.
LEMMA MatchStep == PinInv /\ Match => PinInv'
<1> SUFFICES ASSUME PinInv, Match PROVE PinInv'
  OBVIOUS
<1> USE DEF PinInv, TypeOK
<1>1. /\ hs = "match"
      /\ UNCHANGED <<defaultFingerprints, edits, args, made, customFingerprint, chain, pins, listed>>
  BY DEF Match
<1>2. hs' = IF \E p \in pins : Matches(p) THEN "accepted" ELSE "rejected"
  BY DEF Match, Matches
<1>3. TypeOK' /\ InputInv' /\ ListInv' /\ CopyInv'
  BY <1>1, <1>2 DEF InputInv, ListInv, CopyInv
<1>4. VerdictInv'
  <2>1. \A p : Matches(p)' <=> Matches(p)
    BY <1>1 DEF Matches
  <2>2. MayUse' = MayUse /\ MustUse' = MustUse
    BY <1>1 DEF MayUse, MustUse
  <2> QED
    BY <1>1, <1>2, <2>1, <2>2 DEF VerdictInv, CopyInv
<1> QED
  BY <1>3, <1>4

-----------------------------------------------------------------------------
(* The theorems.                                                           *)

\* What a handshake has found out stays true whatever edits race it: the
\* invariant of newClient, verifyPeer and the default list.
THEOREM PinInvariance == Spec => []PinInv
<1>1. Init => PinInv
  <2> SUFFICES ASSUME Init PROVE PinInv
    OBVIOUS
  <2>1. 0 \in 0..MaxEdits /\ 0 \in 0..MaxChain /\ <<>> \in [1..0 -> Certs]
    BY PinningAssumption
  <2>2. <<>> \in Chains
    BY <2>1 DEF Chains
  <2>3. TypeOK
    BY <2>1, <2>2, PinKinds DEF Init, TypeOK
  <2>4. InputInv /\ ListInv /\ CopyInv /\ VerdictInv
    BY DEF Init, InputInv, ListInv, CopyInv, VerdictInv
  <2> QED
    BY <2>3, <2>4 DEF PinInv
<1>2. PinInv /\ [Next]_vars => PinInv'
  <2> SUFFICES ASSUME PinInv, [Next]_vars PROVE PinInv'
    OBVIOUS
  <2>1. ASSUME NEW fingerprints \in SUBSET PinText, SetCustomFingerprint(fingerprints)
        PROVE  PinInv'
    BY <2>1, EditStep DEF SetCustomFingerprint
  <2>2. ASSUME NEW fingerprint \in PinText, AddFingerprints(fingerprint) PROVE PinInv'
    BY <2>2, EditStep DEF AddFingerprints, PinInv, TypeOK
  <2>3. CASE UNCHANGED vars
    BY <2>3 DEF vars, PinInv, TypeOK, InputInv, ListInv, CopyInv, VerdictInv, Matches, MayUse,
       MustUse
  <2> QED
    BY <2>1, <2>2, <2>3, NewClientStep, HandshakeStep, VerifyStep, MatchStep DEF Next
<1> QED
  BY <1>1, <1>2, PTL DEF Spec

\* Types, and that pins are only looked up in a chain that is not empty
\* (verifyPeer).
THEOREM PinTypes == Spec => []TypeOK
<1>1. PinInv => TypeOK
  BY DEF PinInv
<1> QED
  BY <1>1, PinInvariance, PTL

\* With pinning enabled, an accepted chain holds a certificate whose pin was in
\* force during the handshake and that vouches for the leaf (verifyPeer).
THEOREM AcceptedVouched == Spec => []PinVouches
<1>1. PinInv => PinVouches
  <2> SUFFICES ASSUME PinInv, hs = "accepted", customFingerprint # EmptyPin
               PROVE  \E p \in MayUse : decodePin(p) # NoCert /\ Vouches(decodePin(p))
    BY DEF PinVouches
  <2>1. PICK p \in MayUse : Matches(p)
    BY DEF PinInv, VerdictInv
  <2>2. PICK i \in DOMAIN signedChain(chain) : decodePin(p) = signedChain(chain)[i]
    BY <2>1 DEF Matches
  <2>3. decodePin(p) \in Certs /\ Vouches(decodePin(p))
    BY <2>2, PrefixVouches DEF PinInv, TypeOK
  <2> QED
    BY <2>1, <2>3, PinningAssumption
<1> QED
  BY <1>1, PinInvariance, PTL

\* A chain in order with a certificate that was pinned all the time is never
\* rejected, in whatever case the pin was written (verifyPeer, decodePin).
THEOREM PinnedAccepted == Spec => []NoFalseReject
<1>1. PinInv => NoFalseReject
  BY DEF PinInv, VerdictInv, Matches, NoFalseReject, decodePin
<1> QED
  BY <1>1, PinInvariance, PTL

\* A certificate given to newClient is in every chain the client accepts, unless
\* pinning was disabled explicitly (newClient, verifyPeer).
THEOREM CertificatesBind == Spec => []CertificateBinds
<1>1. PinInv => CertificateBinds
  <2> SUFFICES ASSUME PinInv, hs = "accepted", args.cert # NoCert, args.custom # EmptyPin
               PROVE  \E i \in DOMAIN chain : chain[i] = args.cert
    BY DEF CertificateBinds
  <2>1. /\ ~Refuses(args.custom, args.cert)
        /\ customFingerprint = Resolve(args.custom, args.cert)
        /\ args.custom \in {NilPin} \cup PinText /\ args.cert \in Certs \cup {BadCert}
    BY DEF PinInv, InputInv
  <2>2. args.cert \in Certs
    BY <2>1 DEF Refuses
  <2>3. customFingerprint \in PinText /\ decodePin(customFingerprint) = args.cert
    <3>1. CASE args.custom = NilPin
      BY <2>1, <2>2, <3>1, PinKinds DEF Resolve
    <3>2. CASE args.custom \in PinText
      BY <2>1, <2>2, <3>2, PinKinds DEF Resolve, Refuses, EqualFold, decodePin, PinText
    <3> QED
      BY <2>1, <3>1, <3>2
  <2>4. MayUse = {customFingerprint} /\ customFingerprint # EmptyPin
    BY <2>3, PinKinds DEF MayUse
  <2>5. PICK i \in DOMAIN signedChain(chain) : args.cert = signedChain(chain)[i]
    BY <2>3, <2>4 DEF PinInv, VerdictInv, Matches
  <2> QED
    BY <2>5, PrefixVouches DEF PinInv, TypeOK
<1> QED
  BY <1>1, PinInvariance, PTL

\* An explicit empty fingerprint keeps pinning disabled, whatever certificate is
\* given with it (newClient, verifyPeer).
THEOREM OptOut == Spec => []OptOutHolds
<1>1. PinInv => OptOutHolds
  BY PinKinds DEF PinInv, InputInv, VerdictInv, OptOutHolds, Resolve
<1> QED
  BY <1>1, PinInvariance, PTL
=============================================================================
