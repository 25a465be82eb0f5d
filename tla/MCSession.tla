----------------------------- MODULE MCSession ------------------------------
(***************************************************************************)
(* Instances of the websocket client for TLC.  Each .cfg asks one question *)
(* and lets the application make only the calls that matter to it.         *)
(***************************************************************************)
EXTENDS SessionProperties, TLC

\* One callback of each kind, or none at all.
OneCallback == [k \in Kinds |-> 1]
NoCallback  == [k \in Kinds |-> 0]

\* Messages of the node: an answer of type t without data, an event, one of an
\* unknown type, and a rejected listen.
Answer(t, st) ==
    [json |-> "object", id |-> "absent", tx |-> TRUE, type |-> t, state |-> st,
     data |-> [is |-> "absent", block |-> FALSE, tx |-> FALSE, id |-> "absent"]]
Rejection == Answer("listen", "Fail")
NewTransaction == [Answer("absent", "absent") EXCEPT !.id = "text"]
AllKinds == {NewTransaction, Answer("unknown", "absent"), Rejection, Answer("listen", "OK")}
EventOrRejection == {NewTransaction, Rejection}

\* The goroutines of the application are interchangeable, and so are the
\* addresses and the signatures.
Symmetry == Permutations(Callers) \cup Permutations(Addrs) \cup Permutations(Sigs)
=============================================================================
