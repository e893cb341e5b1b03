-------------------------- MODULE MCCycleTrackers --------------------------
EXTENDS CycleTrackers

CONSTANTS h1, h2, h3, x, y, as1, as2, none

Policy(policy, cluster) == [r \in Reconcilers |-> IF r = "policy" THEN policy ELSE cluster]

\* Three hostnames, one of them in two rules, and TTLs on both sides of
\* PollInterval; every address is blocked.
Queueing ==
    [rules |-> Policy(<<h1, h2, h3, h2>>, Nil), ttls |-> {1, 3, 4, 5}, answers |-> {Nil},
     override |-> Nil, enricher |-> FALSE, maxElapsed |-> 1, maxDisruptions |-> 2]

\* Lookups fail with and without a previous entry.
Retaining(policy, cluster) ==
    [rules |-> Policy(policy, cluster), ttls |-> {0, 5}, answers |-> {{x}},
     override |-> Nil, enricher |-> FALSE, maxElapsed |-> 1, maxDisruptions |-> 2]

\* Both reconcilers record one hostname.
Churning ==
    [rules |-> Policy(<<h1>>, <<h1>>), ttls |-> {3}, answers |-> {{x}, {y}, {}},
     override |-> 4, enricher |-> FALSE, maxElapsed |-> 0, maxDisruptions |-> 1]

\* Two addresses compete for one place in the queue.
Enrichment ==
    [rules |-> Policy(<<h1>>, Nil), ttls |-> {3}, answers |-> {{x, y}},
     override |-> Nil, enricher |-> TRUE, maxElapsed |-> 0, maxDisruptions |-> 1]

MCSetups == {Queueing, Retaining(<<h1, h2>>, Nil), Retaining(Nil, <<h1, h2>>), Churning, Enrichment}

\* TTLs below PollInterval.
ShortTTLs == {[Queueing EXCEPT !.ttls = {1}, !.answers = {{x}}]}

MCInitTruth == [ip \in {x, y} |-> IF ip = x THEN as1 ELSE as2]
=============================================================================
