------------------------ MODULE MCClusterReconciler ------------------------
(***************************************************************************)
(* Instances of ClusterReconciler for TLC: one host, two namespaces, two   *)
(* labellings.                                                             *)
(***************************************************************************)
EXTENDS ClusterReconciler

CONSTANTS h, i1, i2, u1, u2, sel, l1, l2

\* One namespace of each kind: the selectors below differ on the second.
OneEach == {[n \in Namespaces |-> IF n = 1 THEN l1 ELSE l2]}

MCClassOf == [ip \in IPs |-> "public"]

Freeze ==
    [block |-> [c \in BlockableClasses |-> Nil], blockOnDivergence |-> TRUE,
     minResolverAgreement |-> Nil, maxCNAMEDepth |-> Nil]

MCSpec(selects, mode, sec) ==
    [policy |-> [rules |-> {h}, ports |-> [m \in Matches |-> {}], selector |-> sel,
                 mode |-> mode, security |-> sec],
     selects |-> selects]

FanOutSpecs == {MCSpec({l1}, "Enforce", Freeze), MCSpec({l1, l2}, "Enforce", Freeze),
                MCSpec({l1}, "Audit", Freeze)}

FanOutAnswers ==
    {[ips |-> {i1}, results |-> [u \in {} |-> {}], depth |-> 0],
     [ips |-> {i1, i2}, results |-> [u \in {u1, u2} |-> IF u = u1 THEN {i1} ELSE {i2}],
      depth |-> 0]}

\* Deny-all NetworkPolicies of the fan-out's name, with and without its label.
DenyAll(labelled) ==
    [spec |-> [allow |-> FALSE, peers |-> [ip \in IPs |-> 0], ports |-> {}, selector |-> sel],
     labelled |-> labelled]
DenyAlls == {DenyAll(TRUE), DenyAll(FALSE)}

\* One where only one of the selectors reaches, or none.
SomeNPs == {<<Nil, DenyAll(TRUE)>>}
NoNPs == {<<Nil, Nil>>}
=============================================================================
