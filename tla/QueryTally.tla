----------------------------- MODULE QueryTally -----------------------------
(***************************************************************************)
(* What an FQDNEgressObservation promises a reader of its status           *)
(* (api/v1alpha1/fqdnegressobservation_types.go): a tally of DNS queries   *)
(* per hostname.  It starts at nothing, it may lag behind the queries made,*)
(* but it never counts a query that was not made and never goes back.      *)
(* Caches, stores, restarts and failing updates do not exist here.         *)
(***************************************************************************)
EXTENDS Naturals

CONSTANTS Names, NoTally

VARIABLES
    seen,   \* queries made for each name
    tally   \* what the object reports for each name, or NoTally

Zero == [n \in Names |-> 0]

Init == seen = Zero /\ tally \in {NoTally, Zero}

Query(n) == seen' = [seen EXCEPT ![n] = @ + 1] /\ UNCHANGED tally

Report ==
    /\ tally # NoTally
    /\ tally' \in [Names -> Nat]
    /\ \A n \in Names : tally[n] <= tally'[n] /\ tally'[n] <= seen[n]
    /\ UNCHANGED seen

Create == tally = NoTally /\ tally' = Zero /\ UNCHANGED seen

Remove == tally # NoTally /\ tally' = NoTally /\ UNCHANGED seen

Next == (\E n \in Names : Query(n)) \/ Report \/ Create \/ Remove

Spec == Init /\ [][Next]_<<seen, tally>>
=============================================================================
