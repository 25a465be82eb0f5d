----------------------------- MODULE MCHttpApi ------------------------------
(***************************************************************************)
(* Two goroutines on two clients that share one Search value.              *)
(***************************************************************************)
EXTENDS HttpApi, TLC

Plain == [recipients |-> 1, senders |-> 0, signed |-> 1, typ |-> "known",
          name |-> Absent, version |-> Absent, types |-> {"known"}, operator |-> "known",
          orderBy |-> "none", hashes |-> 0, limit |-> 1]

\* Half a chain in a search, and all of it in a summary that is no search.
MCQueries == {[Plain EXCEPT !.name = "caller"],
              [Plain EXCEPT !.name = "caller", !.version = "caller", !.operator = "none"]}

Symmetry == Permutations(Users) \cup Permutations(Requests) \cup Permutations(Responses)
=============================================================================
