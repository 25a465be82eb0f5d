----------------------------- MODULE Authority ------------------------------
(***************************************************************************)
(* The authority header of the websocket handshake (authority.go and the   *)
(* head of the loop of runSession): the application changes the signer and *)
(* its own websocket headers while the loop copies its configuration, has  *)
(* an authority signed, dials, fails and tries again.                      *)
(*                                                                         *)
(* An authority is the nonce it was made from with the address and the     *)
(* signer it was made for; nonces are drawn in order and never repeat.     *)
(***************************************************************************)
EXTENDS Integers, Sequences

CONSTANTS
    Addresses,   \* addresses of signers
    Signers,     \* signing functions
    Nil,         \* no address, no signer, no header
    Own,         \* an X-Authority the application sets by itself
    MaxDials,    \* bound: handshakes begun
    MaxNonces,   \* bound: nonces drawn
    MaxChanges   \* bound: configuration changes

ASSUME AuthorityAssumption ==
    /\ Nil \notin Addresses \cup Signers /\ Nil # Own
    /\ {MaxDials, MaxNonces, MaxChanges} \subseteq Nat
    /\ \A h \in [nonce : 1..MaxNonces, address : Addresses, signer : Signers] : h \notin {Nil, Own}

VARIABLES
    config,      \* c.authorityAddress and c.authoritySigner
    wsHeader,    \* the application's own X-Authority in c.wsHeaders, or Nil
    at,          \* where the loop is
    copied,      \* the loop's copy of config
    header,      \* X-Authority in the local headers, or Nil
    nonces,      \* nonces drawn so far
    inForce,     \* configurations in force since the loop copied its own
    handshakes,  \* X-Authority of every handshake, oldest first
    changes

vars == <<config, wsHeader, at, copied, header, nonces, inForce, handshakes, changes>>
loopVars == <<at, copied, header, nonces, handshakes>>

NoAuthority == [address |-> Nil, signer |-> Nil]
Configs == [address : Addresses, signer : Signers] \cup {NoAuthority}
Generated(h) == h \notin {Nil, Own}

\* WithWSAuthority; a nil signer clears the address too.
WithWSAuthority ==
    /\ changes > 0 /\ changes' = changes - 1
    /\ config' \in Configs
    /\ inForce' = inForce \cup {config'}
    /\ UNCHANGED <<wsHeader, loopVars>>

\* AddWSHeader and RemoveWSHeader of X-Authority.
EditWSHeader ==
    /\ changes > 0 /\ changes' = changes - 1
    /\ wsHeader' \in {Nil, Own}
    /\ UNCHANGED <<config, inForce, loopVars>>

\* The loop copies headers, address and signer under one RLock.
Configure ==
    /\ at = "top" /\ Len(handshakes) < MaxDials /\ nonces < MaxNonces
    /\ header' = wsHeader
    /\ copied' = config
    /\ inForce' = {config}
    /\ at' = IF config.signer = Nil THEN "dial" ELSE "sign"
    /\ UNCHANGED <<config, wsHeader, nonces, handshakes, changes>>

\* The signer CreateWSAuthorityV3 calls with the address it is given.
CurrentSigner == IF config.signer = Nil THEN copied.signer ELSE config.signer
SignerUsed == copied.signer

\* The nonce of an authority.
ReusedNonce == 1
FreshNonce == nonces + 1

\* An error of the context, the randomness, the signer or the length of its
\* signature leaves the attempt without a handshake.
DialAnyway == "dial"
AfterFailedSigning == "retry"

CreateWSAuthorityV3 ==
    /\ at = "sign"
    /\ \/ /\ nonces' = nonces + 1
          /\ header' = [nonce |-> FreshNonce, address |-> copied.address, signer |-> SignerUsed]
          /\ at' = "dial"
       \/ /\ nonces' \in {nonces, nonces + 1}
          /\ UNCHANGED header
          /\ at' = AfterFailedSigning
    /\ UNCHANGED <<config, wsHeader, copied, inForce, handshakes, changes>>

\* dialConnection sends the header, whatever comes of it, and the header goes.
Dial ==
    /\ at = "dial"
    /\ handshakes' = Append(handshakes, header)
    /\ at' = "retry" /\ header' = Nil
    /\ UNCHANGED <<config, wsHeader, copied, nonces, inForce, changes>>

\* The connection ends or was refused; back-off, then the next turn.
Retry ==
    /\ at = "retry"
    /\ at' = "top" /\ header' = Nil /\ copied' = NoAuthority
    /\ UNCHANGED <<config, wsHeader, nonces, inForce, handshakes, changes>>

Init ==
    /\ config = NoAuthority /\ wsHeader = Nil
    /\ at = "top" /\ copied = NoAuthority /\ header = Nil
    /\ nonces = 0 /\ inForce = {NoAuthority} /\ handshakes = <<>>
    /\ changes = MaxChanges

Next == WithWSAuthority \/ EditWSHeader \/ Configure \/ CreateWSAuthorityV3 \/ Dial \/ Retry

Spec == Init /\ [][Next]_vars

-----------------------------------------------------------------------------
(* Properties.                                                             *)

\* "Generates a fresh v3 header for every dial/reconnect": no authority is in two
\* handshakes, over any number of failures and changes of the signer.
OneHandshakeEach ==
    \A i, j \in DOMAIN handshakes :
        Generated(handshakes[i]) /\ handshakes[j] = handshakes[i] => i = j

\* An authority is signed for its own address: address and signer come from one
\* WithWSAuthority, and one that was in force during the attempt; an authority
\* that has been disabled or replaced is gone with the attempt under way.
AuthorityInForce ==
    Generated(header) =>
        [address |-> header.address, signer |-> header.signer] \in inForce

\* An attempt that found a signer never dials without an authority of that
\* signer: neither a failed signature nor the application's own header stands in
\* for it (runSession).
NoUnsignedDial == at = "dial" /\ copied # NoAuthority => Generated(header)
=============================================================================
