---------------------------- MODULE MCReconciler ----------------------------
(***************************************************************************)
(* Instances of Reconciler for TLC: a host and a wildcard, a               *)
(* public and a private address, two upstreams.                            *)
(***************************************************************************)
EXTENDS PluginPreview

CONSTANTS h1, w, pub, prv, u1, u2, p1, p2, sel

MCClassOf == [ip \in IPs |-> IF ip = prv THEN "private" ELSE "public"]

Security(private, freeze, min) ==
    [block |-> [c \in BlockableClasses |-> IF c = "private" THEN private ELSE Nil],
     blockOnDivergence |-> freeze, minResolverAgreement |-> min,
     maxCNAMEDepth |-> Nil]

MCSpec(rules, ports, mode, sec) ==
    [rules |-> rules, ports |-> [m \in Matches |-> IF m \in rules THEN ports ELSE {}],
     selector |-> sel, mode |-> mode, security |-> sec]

Answer(ips, results) == [ips |-> ips, results |-> results, depth |-> 0]

\* Upstreams that agree, a single-resolver answer, and upstreams that do not.
Agree(ips)    == Answer(ips, [u \in {u1, u2} |-> ips])
Single(ips)   == Answer(ips, [u \in {} |-> {}])
Divide(i1, i2) == Answer(i1 \cup i2, [u \in {u1, u2} |-> IF u = u1 THEN i1 ELSE i2])

DenyAll == [allow |-> FALSE, peers |-> [ip \in IPs |-> 0], ports |-> {}, selector |-> sel]

ForeignDeny == {DenyAll}

\* Every Enforce spec freezes on divergence and none uses consensus; an edit may
\* tighten the filter.  The clean answer is one the default filter blocks as a
\* whole, the divided one keeps an address.
SafetySpecs ==
    {MCSpec({h1}, {p1}, "Enforce", Security(Nil, TRUE, Nil)),
     MCSpec({h1, w}, {p1}, "Enforce", Security(FALSE, TRUE, 1)),
     MCSpec({h1}, {}, "Audit", Nil)}
SafetyAnswers == {Agree({prv}), Divide({pub}, {pub, prv})}

\* A spec with consensus mode, and one that only restricts the ports.
DividedAnswers == {Single({pub}), Divide({pub}, {prv})}
ConsensusSpecs == {MCSpec({h1}, {p1}, "Enforce", Security(Nil, Nil, 2))}
PortSpecs ==
    {MCSpec({h1}, {}, "Enforce", Nil), MCSpec({h1}, {p1}, "Enforce", Nil)}
OneSpec == {MCSpec({h1}, {p1}, "Enforce", Nil)}
OneAnswer == {Single({pub})}
=============================================================================
