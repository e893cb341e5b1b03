------------------------ MODULE MCEgressObservation ------------------------
(***************************************************************************)
(* Instances of EgressObservation for TLC.                                 *)
(***************************************************************************)
EXTENDS EgressObservation

CONSTANTS a, b

\* b is queried once, which may prune a; a is queried before and after.
TwiceAndOnce == [h \in Hostnames |-> IF h = a THEN 2 ELSE 1]
=============================================================================
