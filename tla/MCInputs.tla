------------------------------ MODULE MCInputs ------------------------------
(***************************************************************************)
(* What crosses the boundary of the client, one input after the other:     *)
(* every message of the read node as the reader hands it to parseIncoming, *)
(* and every Search with lists around the limits as TxSearch gets it.      *)
(***************************************************************************)
EXTENDS Envelopes, Validation

VARIABLES input, verdict

IsMessage == input \in Envelope
Unchained == {q \in SearchQuery : q.name = Absent /\ q.version = Absent}

Init == input \in Envelope \cup Unchained /\ verdict = "none"

Parse == /\ verdict = "none" /\ IsMessage
         /\ verdict' = parseIncoming(input)
         /\ UNCHANGED input

Check == /\ verdict = "none" /\ ~IsMessage
         /\ verdict' = IF IsValidSearch(input) THEN "valid" ELSE "invalid"
         /\ UNCHANGED input

Spec == Init /\ [][Parse \/ Check]_<<input, verdict>>

\* Only the answer to a listen that says OK, and the answer to a subscribe that
\* does not say Fail (one with an unknown state or none counts as accepted), pass
\* in silence.  Broken, unknown and refusing messages all reach the error
\* callbacks, and an answer to a listen that does not say OK ends the session
\* (parseIncoming).
NothingSwallowed ==
    /\ verdict = "quiet" => /\ input.json = "object"
                            /\ input.type \in {"listen", "subscribe"}
                            /\ input.state # "Fail"
    /\ verdict \in {"quiet", "bad", "event"} =>
          ~(/\ input.json = "object" /\ input.id \in {"absent", "null"}
            /\ input.type = "listen" /\ input.state # "OK")

\* TxSummary takes every set of addresses TxSearch takes: a summary of the results
\* of an accepted search is never refused (Search.IsValid, Summary.IsValid are
\* written independently).
SearchHasSummary == verdict = "valid" => IsValidSummary(input)

\* The address lists and the signatures of an accepted search stay within the
\* limit on addresses, and its two lists, each compared with the signatures only,
\* are equally long if both are given (Search.IsValid).
AcceptedBounded ==
    verdict = "valid" =>
        /\ {input.recipients, input.senders} \subseteq 0..MaxAddresses
        /\ input.recipients # 0 /\ input.senders # 0 => input.recipients = input.senders
        /\ input.recipients + input.senders > 0 => input.signed <= MaxAddresses
=============================================================================
