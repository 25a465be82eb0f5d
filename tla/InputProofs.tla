---------------------------- MODULE InputProofs -----------------------------
(***************************************************************************)
(* Verdicts on single inputs, for every limit and every length of a list.  *)
(***************************************************************************)
EXTENDS MCInputs, TLAPS

\* A verdict is that of parseIncoming on a message or of IsValid on a search.
VerdictInv ==
    /\ input \in Envelope \cup Unchained
    /\ \/ verdict = "none"
       \/ input \in Envelope /\ verdict = parseIncoming(input)
       \/ input \in SearchQuery /\ verdict = IF IsValidSearch(input) THEN "valid" ELSE "invalid"

\* The verdicts on messages and on searches have nothing in common.
LEMMA MessageVerdict == parseIncoming(input) \in {"event", "listenFail", "quiet", "bad"}
  BY DEF parseIncoming

\* The invariant holds of every reachable state.
THEOREM InputInvariance == Spec => []VerdictInv
<1>1. Init => VerdictInv
  BY DEF Init, VerdictInv
<1>2. ASSUME VerdictInv, [Parse \/ Check]_<<input, verdict>> PROVE VerdictInv'
  <2>1. CASE Parse
    BY <1>2, <2>1 DEF VerdictInv, Parse, IsMessage
  <2>2. CASE Check
    <3>1. input \in SearchQuery
      BY <1>2, <2>2 DEF VerdictInv, Check, IsMessage, Unchained
    <3> QED
      BY <1>2, <2>2, <3>1 DEF VerdictInv, Check
  <2>3. CASE UNCHANGED <<input, verdict>>
    BY <1>2, <2>3 DEF VerdictInv
  <2> QED
    BY <1>2, <2>1, <2>2, <2>3
<1> QED
  BY <1>1, <1>2, PTL DEF Spec

\* Only a listen answered by OK and a subscribe not answered by Fail pass in
\* silence, and a listen that is not answered by OK ends the session
\* (parseIncoming).
THEOREM OnlyAcksSilent == Spec => []NothingSwallowed
<1>1. VerdictInv => NothingSwallowed
  <2> SUFFICES ASSUME VerdictInv PROVE NothingSwallowed
    OBVIOUS
  <2>1. ASSUME verdict \in {"quiet", "bad", "event"}
        PROVE  input \in Envelope /\ verdict = parseIncoming(input)
    BY <2>1 DEF VerdictInv
  <2>2. ASSUME verdict = "quiet"
        PROVE  /\ input.json = "object" /\ input.type \in {"listen", "subscribe"}
               /\ input.state # "Fail"
    <3>1. parseIncoming(input) = "quiet"
      BY <2>1, <2>2
    <3>2. input.json = "object" /\ Acknowledges(input)
      BY <3>1 DEF parseIncoming
    <3> QED
      BY <3>2 DEF Acknowledges, RejectsListen
  <2>3. ASSUME verdict \in {"quiet", "bad", "event"}, input.json = "object",
               input.id \in {"absent", "null"}, input.type = "listen", input.state # "OK"
        PROVE  FALSE
    <3>1. RejectsListen(input) /\ ~IsEvent(input) /\ ~Acknowledges(input)
      BY <2>3 DEF HasId, RejectsListen, IsEvent, Acknowledges
    <3>2. parseIncoming(input) = "listenFail"
      BY <2>3, <3>1 DEF parseIncoming
    <3> QED
      BY <2>1, <2>3, <3>2
  <2> QED
    BY <2>2, <2>3 DEF NothingSwallowed
<1> QED
  BY <1>1, InputInvariance, PTL

\* A valid verdict is one of Search.IsValid on a search.
LEMMA ValidSearch ==
  ASSUME VerdictInv, verdict = "valid"
  PROVE  input \in SearchQuery /\ IsValidSearch(input)
<1>1. input \in SearchQuery /\ verdict = IF IsValidSearch(input) THEN "valid" ELSE "invalid"
  BY MessageVerdict DEF VerdictInv
<1> QED
  BY <1>1

\* TxSummary takes every set of addresses TxSearch takes (Search.IsValid,
\* Summary.IsValid).
THEOREM SummaryOfSearch == Spec => []SearchHasSummary
<1>1. VerdictInv => SearchHasSummary
  BY ValidSearch DEF SearchHasSummary, IsValidSearch, IsValidSummary
<1> QED
  BY <1>1, InputInvariance, PTL

\* The address lists and signatures of an accepted search stay within the limit on
\* addresses, whatever it is (Search.IsValid).
THEOREM SearchBounded == Spec => []AcceptedBounded
<1>1. VerdictInv => AcceptedBounded
  <2> SUFFICES ASSUME VerdictInv, verdict = "valid" PROVE AcceptedBounded
    BY DEF AcceptedBounded
  <2>1. /\ input.recipients \in Nat /\ input.senders \in Nat /\ input.signed \in Nat
        /\ MaxAddresses \in Nat
    BY ValidSearch, ValidationAssumption DEF SearchQuery
  <2>2. /\ input.recipients <= MaxAddresses /\ input.senders <= MaxAddresses
        /\ input.recipients > 0 => input.signed = input.recipients
        /\ input.senders > 0 => input.signed = input.senders
    BY ValidSearch DEF IsValidSearch, Signed
  <2> QED
    BY <2>1, <2>2 DEF AcceptedBounded
<1> QED
  BY <1>1, InputInvariance, PTL
=============================================================================
