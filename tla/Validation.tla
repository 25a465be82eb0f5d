----------------------------- MODULE Validation -----------------------------
(***************************************************************************)
(* Parameters of TxSearch and TxSummary and when they are accepted         *)
(* (search.go, summary.go, transaction.go).  A list or map is its length,  *)
(* a name that is looked up in a list is "none" (the empty string),        *)
(* "known" or "unknown".                                                   *)
(***************************************************************************)
EXTENDS Naturals

CONSTANTS
    MaxAddresses,   \* 251
    MaxHashes,      \* 100
    MaxLimit,       \* 100
    MaxLen,         \* bound: longest list and largest limit considered
    Clients,        \* clients of the application; each stands for its chain
    Absent          \* a nil pointer

ASSUME ValidationAssumption ==
    /\ {MaxAddresses, MaxHashes, MaxLimit, MaxLen} \subseteq Nat
    /\ Absent \notin Clients

Names == {"none", "known", "unknown"}
Chains == Clients \cup {"caller", Absent}

\* The fields of Search; the first six are those of Summary.
SearchQuery == [recipients : 0..MaxLen, senders : 0..MaxLen, signed : 0..MaxLen, typ : Names,
                name : Chains, version : Chains,
                types : SUBSET (Names \ {"none"}), operator : Names, orderBy : Names,
                hashes : 0..MaxLen, limit : 0..MaxLen]

IsValidType(t) == t = "known"

\* A non-empty list of addresses needs as many signatures.
SignedIfLonger(len, signed) == len > 0 => signed >= len
Signed(len, signed) == len > 0 => signed = len

\* Summary.IsValid
SummaryBelowLimit(q) ==
    /\ q.recipients < MaxAddresses /\ q.senders < MaxAddresses
    /\ Signed(q.recipients, q.signed) /\ Signed(q.senders, q.signed)
    /\ q.typ = "none" \/ IsValidType(q.typ)

IsValidSummary(q) ==
    /\ q.recipients <= MaxAddresses /\ q.senders <= MaxAddresses
    /\ Signed(q.recipients, q.signed) /\ Signed(q.senders, q.signed)
    /\ q.typ = "none" \/ IsValidType(q.typ)

\* Search.IsValid
IsValidSearch(q) ==
    /\ q.operator = "known"
    /\ q.signed # 0
    /\ q.recipients <= MaxAddresses /\ q.senders <= MaxAddresses
    /\ Signed(q.recipients, q.signed) /\ Signed(q.senders, q.signed)
    /\ q.hashes <= MaxHashes
    /\ q.typ = "none" \/ IsValidType(q.typ)
    /\ \A t \in q.types : IsValidType(t)
    /\ q.limit <= MaxLimit
    /\ q.orderBy = "none" \/ q.orderBy = "known"

\* The chain a request names: what the caller left out is the client's own.
Filled(c, q) == [q EXCEPT !.name = IF @ = Absent THEN c ELSE @,
                          !.version = IF @ = Absent THEN c ELSE @]

\* The caller's value after the call: the defaults went into a copy.
FilledInPlace(c, q) == Filled(c, q)
AfterCall(c, q) == q
=============================================================================
