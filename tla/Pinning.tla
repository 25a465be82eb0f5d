------------------------------ MODULE Pinning -------------------------------
(***************************************************************************)
(* Certificate pinning (certificate.go, newClient in client.go): the       *)
(* process-wide default pin list, the pin a client is created with, and    *)
(* the check a TLS handshake makes while the list may change under it.     *)
(*                                                                         *)
(* SHA-256 is taken to be injective, so the digest of a certificate is the *)
(* certificate.  The text of a pin is its digest in upper or lower case,   *)
(* or something that is not the hex form of a digest.                      *)
(***************************************************************************)
EXTENDS Integers, FiniteSets, Sequences

CONSTANTS
    Certs,      \* certificates
    CAs,        \* those that may sign others
    Signs,      \* <<p, c>>: the key of p made the signature of c
    Roots,      \* the system pool
    NoCert,     \* no certificate; a pin text that decodes to none
    BadCert,    \* a reader whose contents newClient cannot use
    MaxChain,   \* bound: length of a presented chain
    MaxEdits,   \* bound: changes of the default list
    MaxPins     \* bound: length of a list given to SetCustomFingerprint

ASSUME PinningAssumption ==
    /\ CAs \subseteq Certs /\ Roots \subseteq CAs
    /\ Signs \subseteq Certs \X Certs
    /\ NoCert \notin Certs /\ BadCert \notin Certs /\ NoCert # BadCert
    /\ MaxChain \in Nat /\ MaxEdits \in Nat /\ MaxPins \in Nat

\* A *string argument or a list entry: nil, "", or the text of a pin.
NilPin   == [kind |-> "nil", of |-> NoCert, upper |-> FALSE]
EmptyPin == [kind |-> "empty", of |-> NoCert, upper |-> FALSE]
Hex(x)   == [kind |-> "hex", of |-> x, upper |-> FALSE]
PinText  == [kind : {"malformed"}, of : {NoCert}, upper : {FALSE}]
            \cup [kind : {"hex"}, of : Certs, upper : BOOLEAN]

Chains == UNION {[1..n -> Certs] : n \in 0..MaxChain}

VARIABLES
    defaultFingerprints,  \* the default list, as a set
    edits,                \* changes of the list so far
    args,                 \* arguments of newClient
    made,                 \* "no", "yes" or "refused"
    customFingerprint,    \* the pointer captured by VerifyConnection
    hs,                   \* where the handshake is
    chain,                \* state.PeerCertificates
    pins,                 \* local pins of verifyPeer
    listed                \* the default list over the handshake so far:
                          \* pins in it at some time, pins in it all the time

vars == <<defaultFingerprints, edits, args, made, customFingerprint, hs, chain,
          pins, listed>>

-----------------------------------------------------------------------------
(* The default list.                                                       *)

Edit(list) ==
    /\ edits < MaxEdits /\ edits' = edits + 1
    /\ defaultFingerprints' = list
    /\ listed' = [some |-> listed.some \cup list, all |-> listed.all \cap list]
    /\ UNCHANGED <<args, made, customFingerprint, hs, chain, pins>>

SetCustomFingerprint(fingerprints) == Edit(fingerprints)

AddFingerprints(fingerprint) == Edit(defaultFingerprints \cup {fingerprint})

-----------------------------------------------------------------------------
(* newClient.                                                              *)

\* strings.EqualFold on a pin text and the lower-case digest of x.
EqualFold(p, x) == p.kind = "hex" /\ p.of = x

\* Inputs newClient turns down.
RefusesMalformed(custom, cert) == custom.kind = "malformed" \/ cert = BadCert
Refuses(custom, cert) ==
    \/ custom.kind = "malformed"
    \/ cert = BadCert
    \/ cert # NoCert /\ custom.kind = "hex" /\ ~EqualFold(custom, cert)

\* A certificate supplies the pin only where no fingerprint was given.
ResolveUnlessHex(custom, cert) ==
    IF custom.kind # "hex" /\ cert # NoCert THEN Hex(cert) ELSE custom
Resolve(custom, cert) ==
    IF custom = NilPin /\ cert # NoCert THEN Hex(cert) ELSE custom

newClient ==
    /\ made = "no"
    /\ \E custom \in {NilPin, EmptyPin} \cup PinText, cert \in Certs \cup {NoCert, BadCert},
          insecure \in BOOLEAN :
         /\ args' = [custom |-> custom, cert |-> cert, insecure |-> insecure]
         /\ made' = IF Refuses(custom, cert) THEN "refused" ELSE "yes"
         /\ customFingerprint' = IF Refuses(custom, cert) THEN NilPin
                                                          ELSE Resolve(custom, cert)
    /\ UNCHANGED <<defaultFingerprints, edits, hs, chain, pins, listed>>

-----------------------------------------------------------------------------
(* A handshake.                                                            *)

\* x509: the parent is a CA and made the signature of the child (external).
CheckSignatureFrom(child, parent) == parent \in CAs /\ <<parent, child>> \in Signs

\* The certificates before the first broken link.
WholeChain(certs) == certs
signedChain(certs) ==
    LET broken == {i \in 2..Len(certs) : ~CheckSignatureFrom(certs[i - 1], certs[i])}
    IN  IF broken = {} THEN certs
        ELSE SubSeq(certs, 1, (CHOOSE i \in broken : \A j \in broken : i <= j) - 1)

DecodeLowerCase(pin) == IF pin.kind = "hex" /\ ~pin.upper THEN pin.of ELSE NoCert
decodePin(pin) == IF pin.kind = "hex" THEN pin.of ELSE NoCert

\* Go's own verification: a path of signatures from a root (external).
PkiAccepts(certs) ==
    certs # <<>> /\ \E r \in Roots, i \in DOMAIN signedChain(certs) :
                       r = certs[i] \/ CheckSignatureFrom(certs[i], r)

\* The server presents a chain; InsecureSkipVerify skips only Go's check.
Handshake ==
    /\ made = "yes" /\ hs = "idle"
    /\ \E certs \in Chains :
         /\ chain' = certs
         /\ hs' = IF args.insecure \/ PkiAccepts(certs) THEN "verify" ELSE "untrusted"
    /\ listed' = [some |-> defaultFingerprints, all |-> defaultFingerprints]
    /\ UNCHANGED <<defaultFingerprints, edits, args, made, customFingerprint, pins>>

\* len(peerCerts) == 0 is rejected before the loops.
EmptyChainGoesOn == FALSE
EmptyChain == chain = <<>>

\* verifyPeer up to the copy of the pins; the default list is read here, under
\* its lock, and used afterwards without it.
verifyPeer ==
    /\ hs = "verify"
    /\ hs' = IF customFingerprint = EmptyPin THEN "accepted"
             ELSE IF EmptyChain THEN "rejected" ELSE "match"
    /\ pins' = IF customFingerprint = EmptyPin THEN {}
               ELSE IF customFingerprint = NilPin THEN defaultFingerprints
               ELSE {customFingerprint}
    /\ UNCHANGED <<defaultFingerprints, edits, args, made, customFingerprint, chain, listed>>

\* The two loops of verifyPeer.
Match ==
    /\ hs = "match"
    /\ hs' = IF \E i \in DOMAIN signedChain(chain), p \in pins :
                   decodePin(p) = signedChain(chain)[i]
               THEN "accepted" ELSE "rejected"
    /\ UNCHANGED <<defaultFingerprints, edits, args, made, customFingerprint, chain, pins,
                   listed>>

Init ==
    /\ defaultFingerprints \in {{Hex(x)} : x \in Certs}
    /\ edits = 0
    /\ args = [custom |-> NilPin, cert |-> NoCert, insecure |-> FALSE]
    /\ made = "no"
    /\ customFingerprint = NilPin
    /\ hs = "idle"
    /\ chain = <<>>
    /\ pins = {}
    /\ listed = [some |-> {}, all |-> {}]

Next ==
    \/ newClient \/ Handshake \/ verifyPeer \/ Match
    \/ \E fingerprints \in SUBSET PinText :
          Cardinality(fingerprints) <= MaxPins /\ SetCustomFingerprint(fingerprints)
    \/ \E fingerprint \in PinText : AddFingerprints(fingerprint)

Spec == Init /\ [][Next]_vars

-----------------------------------------------------------------------------
(* Properties.                                                             *)

\* The state is well typed, and pins are only looked up in a non-empty chain
\* (verifyPeer rejects an empty one before the loops).
TypeOK ==
    /\ defaultFingerprints \subseteq PinText /\ pins \subseteq PinText
    /\ edits \in 0..MaxEdits
    /\ made \in {"no", "yes", "refused"}
    /\ customFingerprint \in {NilPin, EmptyPin} \cup PinText
    /\ hs \in {"idle", "untrusted", "verify", "match", "accepted", "rejected"}
    /\ chain \in Chains
    /\ hs = "match" => chain # <<>>

\* Signatures of certificates that were presented lead from x to the leaf: what
\* x signs, what that signs, and so on, includes the leaf.
Vouches(x) ==
    LET presented == {chain[i] : i \in DOMAIN chain}
        Closed(T) == \A p \in T, c \in presented : CheckSignatureFrom(c, p) => c \in T
    IN  /\ x \in presented
        /\ \A T \in SUBSET presented : x \in T /\ Closed(T) => chain[1] \in T

\* Pins the client may rely on during this handshake.
MayUse == IF customFingerprint = NilPin THEN listed.some ELSE {customFingerprint}
MustUse == IF customFingerprint = NilPin THEN listed.all ELSE {customFingerprint}

\* With pinning enabled an accepted chain has a pinned certificate that vouches
\* for the leaf, and the pin was in the list during the handshake: a pin put
\* next to an unrelated chain or removed earlier does not count (verifyPeer).
PinVouches ==
    hs = "accepted" /\ customFingerprint # EmptyPin =>
        \E p \in MayUse : decodePin(p) # NoCert /\ Vouches(decodePin(p))

\* A chain in order that holds a pinned certificate is accepted whatever the
\* case of the pin and whatever list changes race the handshake (verifyPeer).
NoFalseReject ==
    hs = "rejected" /\ signedChain(chain) = chain =>
        \A p \in MustUse, i \in DOMAIN chain : p.kind = "hex" => p.of # chain[i]

\* A certificate given to newClient binds: without an explicit opt-out, every
\* accepted chain contains it, fingerprint argument or not (newClient).
CertificateBinds ==
    hs = "accepted" /\ args.cert # NoCert /\ args.custom # EmptyPin =>
        \E i \in DOMAIN chain : chain[i] = args.cert

\* An explicit empty fingerprint disables pinning even when a certificate is
\* supplied ("Explicit empty fingerprint always keeps pinning disabled").
OptOutHolds == args.custom = EmptyPin => hs # "rejected"

\* README: "With insecure=true and an enabled pin, the leaf must still match
\* that pin".  verifyPeer also accepts the pin of a CA that signs the leaf.
LeafMatchesPin ==
    hs = "accepted" /\ args.insecure /\ customFingerprint # EmptyPin =>
        \E p \in MayUse : decodePin(p) = chain[1]
=============================================================================
