-------------------------- MODULE MCResolverChain --------------------------
(***************************************************************************)
(* Instances of ResolverChain for TLC: two upstreams, an IPv4 and an IPv6  *)
(* address.  A tick stands for five seconds at the floor; the ceiling and  *)
(* the default are scaled down and keep their order.                       *)
(***************************************************************************)
EXTENDS ResolverChain

CONSTANTS v4, v6, w1, w2, u1, u2

MCClassOf == [ip \in IPs |-> "public"]

R(ips, ttl, depth) == [ips |-> ips, ttl |-> ttl, depth |-> depth]

\* u2 counts its TTLs down; the IPv6 address comes with TTL 0, and only from u2.
MCResponses ==
    [c \in Queries |-> IF c[2] = "A" THEN {R({v4}, ttl, 1) : ttl \in IF c[1] = u2 THEN 1..2 ELSE {2}}
                       ELSE IF c[1] = u2 THEN {R({v6}, 0, 0)} ELSE {}]

\* Every upstream answers, with its longest TTL, or none does.
AllOrNone ==
    {[c \in Queries |-> IF Responses[c] = {} THEN Nil
                       ELSE CHOOSE r \in Responses[c] : \A t \in Responses[c] : t.ttl <= r.ttl],
     [c \in Queries |-> Nil]}

NoSecurity == Nil

\* Consensus of two upstreams.
TwoAgree ==
    [block |-> [c \in BlockableClasses |-> Nil], blockOnDivergence |-> Nil,
     minResolverAgreement |-> 2, maxCNAMEDepth |-> Nil]
=============================================================================
