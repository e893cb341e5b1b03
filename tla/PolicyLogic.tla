---------------------------- MODULE PolicyLogic ----------------------------
(***************************************************************************)
(* The pure part of fqdn-network-policy: how one resolution cycle turns    *)
(* DNS answers into status entries and status entries into the egress of a *)
(* plain NetworkPolicy (internal/controller/ip_filter.go,                  *)
(* resolver_divergence.go, the rule loop of the reconcilers, and           *)
(* internal/netpol).                                                       *)
(*                                                                         *)
(* Abstractions of data, none of control:                                  *)
(*  - an address is an element of IPs; what the code asks of it is only    *)
(*    the range it falls in (ClassOf).  hostCIDR is one-to-one, so the     *)
(*    address also stands for the /32 or /128 peer made from it;           *)
(*  - rule matches are distinct (the webhook rejects a duplicate match),   *)
(*    so Spec.Egress is a set of matches with the ports of each;           *)
(*  - the DNS rule (port 53 to anywhere) that Build always adds is the     *)
(*    same in every NetworkPolicy and is not represented.                  *)
(***************************************************************************)
EXTENDS Naturals, FiniteSets

CONSTANTS
    Matches,     \* values of FQDNRule.Match
    Wildcards,   \* the matches that contain "*"
    IPs,         \* addresses DNS may return
    ClassOf,     \* the range each address falls in
    Upstreams,   \* the servers a MultiResolver queries
    Ports,       \* destination ports (with their protocol)
    Selectors,   \* pod selectors
    Nil          \* an absent object, pointer or status entry

BlockableClasses == {"private", "loopback", "linkLocal"}

\* "uniqueLocal" is IPv6 fc00::/7, in none of the filter's lists.
Classes == BlockableClasses \cup {"uniqueLocal", "public"}

OptBool == BOOLEAN \cup {Nil}

\* SecuritySpec: block[c] is BlockPrivateIPs, BlockLoopback or BlockLinkLocal.
SecuritySpecs ==
    [block: [BlockableClasses -> OptBool],
     blockOnDivergence: OptBool,
     minResolverAgreement: (Nat \ {0}) \cup {Nil},
     maxCNAMEDepth: Nat \cup {Nil}]

PolicySpecs ==
    [rules: (SUBSET Matches) \ {{}},
     ports: [Matches -> SUBSET Ports],
     selector: Selectors,
     mode: {"Enforce", "Audit"},
     security: SecuritySpecs \cup {Nil}]

\* A ResolvedHost of the status: its addresses and whether
\* Security.ResolverDivergence is positive.
Entries == [ips: SUBSET IPs, div: BOOLEAN]

\* Status.ResolvedHosts, by match.
ResolvedHosts == [Matches -> Entries \cup {Nil}]

NoHosts == [m \in Matches |-> Nil]

\* The egress and selector of a generated NetworkPolicy.  allow: the rule
\* {To: peers, Ports: ports} is present; peers: how often each address is
\* listed in To; ports empty: all ports.
NetworkPolicySpecs ==
    [allow: BOOLEAN, peers: [IPs -> Nat], ports: SUBSET Ports,
     selector: Selectors]

ASSUME PolicyConstants ==
    /\ IsFiniteSet(Matches)
    /\ Wildcards \subseteq Matches
    /\ ClassOf \in [IPs -> Classes]
    /\ Nil \notin Entries
    /\ Nil \notin SecuritySpecs
    /\ Nil \notin Nat
----------------------------------------------------------------------------
(* Resolver answers.                                                       *)

\* A Resolution without error.  results: what each upstream that answered
\* returned, empty for a single-resolver answer or a cache hit; depth: the
\* length of the CNAME chain.  A resolver that finds no address returns an
\* error, so ips is never empty.
Resolutions ==
    [ips: (SUBSET IPs) \ {{}},
     results: UNION {[U -> (SUBSET IPs) \ {{}}] : U \in SUBSET Upstreams},
     depth: Nat]

\* ResolverDivergence > 0: some address is missing from some upstream that
\* answered.
Divergent(res) ==
    \E u, v \in DOMAIN res.results : res.results[u] # res.results[v]
----------------------------------------------------------------------------
(* Security filters.                                                       *)

\* Mutant of doBlock: blocking is opt-in.
doBlockOptIn(sec, c) == sec # Nil /\ sec.block[c] = TRUE

\* An absent SecuritySpec or an unset field blocks; only FALSE opts out.
doBlock(sec, c) == sec = Nil \/ sec.block[c] # FALSE

filterBlockedIPs(ips, sec) ==
    {ip \in ips : ClassOf[ip] \in BlockableClasses => ~doBlock(sec, ClassOf[ip])}

Agreement(ip, results) == Cardinality({u \in DOMAIN results : ip \in results[u]})

filterByConsensus(ips, results, minAgreement) ==
    IF DOMAIN results = {} \/ minAgreement <= 1
    THEN ips
    ELSE {ip \in ips : Agreement(ip, results) >= minAgreement}

MinAgreement(sec) ==
    IF sec = Nil \/ sec.minResolverAgreement = Nil
    THEN 1
    ELSE sec.minResolverAgreement

\* MinResolverAgreement unset means the consensus filter is not called.
ConsensusIPs(res, sec) ==
    filterByConsensus(res.ips, res.results, MinAgreement(sec))

AllowedIPs(res, sec) == filterBlockedIPs(ConsensusIPs(res, sec), sec)

TooDeep(res, sec) ==
    /\ sec # Nil
    /\ sec.maxCNAMEDepth # Nil
    /\ sec.maxCNAMEDepth > 0
    /\ res.depth > sec.maxCNAMEDepth

blockOnDivergence(sec) == sec # Nil /\ sec.blockOnDivergence = TRUE

anyDivergence(resolved) == \E m \in Matches : resolved[m] # Nil /\ resolved[m].div
----------------------------------------------------------------------------
(* One cycle of the rule loop; res = Nil is a failed lookup.               *)

\* Mutant of findPrevious: the retained host loses its security metadata.
findPreviousBare(hosts, m) ==
    IF hosts[m] = Nil THEN Nil ELSE [hosts[m] EXCEPT !.div = FALSE]

findPrevious(hosts, m) == hosts[m]

\* The status entry of a rule whose lookup succeeded.  A host all of whose
\* addresses the class filter dropped is skipped.
FreshEntry(res, sec) ==
    IF AllowedIPs(res, sec) = {} /\ ConsensusIPs(res, sec) # {}
    THEN Nil
    ELSE [ips |-> AllowedIPs(res, sec), div |-> Divergent(res)]

\* Mutant of ResolveRule: a failed lookup drops its host.
ResolveRuleForgets(hosts, sec, m, res) ==
    IF m \in Wildcards \/ res = Nil THEN Nil ELSE FreshEntry(res, sec)

ResolveRule(hosts, sec, m, res) ==
    IF m \in Wildcards THEN Nil
    ELSE IF res = Nil THEN findPrevious(hosts, m)
    ELSE FreshEntry(res, sec)

ResolveRules(hosts, spec, answers) ==
    [m \in Matches |-> IF m \in spec.rules
                       THEN ResolveRule(hosts, spec.security, m, answers[m])
                       ELSE Nil]

\* Whether the rule adds to resolutionErrors.
RuleError(sec, m, res) ==
    \/ m \in Wildcards
    \/ res = Nil
    \/ AllowedIPs(res, sec) # res.ips
    \/ TooDeep(res, sec)

ResolutionErrors(spec, answers) ==
    {m \in spec.rules : RuleError(spec.security, m, answers[m])}
----------------------------------------------------------------------------
(* The NetworkPolicy builder.                                              *)

collectPorts(spec) == UNION {spec.ports[m] : m \in spec.rules}

PeerCount(resolved, ip) ==
    Cardinality({m \in Matches : resolved[m] # Nil /\ ip \in resolved[m].ips})

denyAllEgress(spec) ==
    [allow |-> FALSE, peers |-> [ip \in IPs |-> 0], ports |-> {},
     selector |-> spec.selector]

\* Mutant of Build: no deny-all while nothing is resolved.
BuildWithoutDeny(spec, resolved) ==
    [allow |-> TRUE,
     peers |-> [ip \in IPs |-> PeerCount(resolved, ip)],
     ports |-> collectPorts(spec),
     selector |-> spec.selector]

Build(spec, resolved) ==
    IF resolved = NoHosts
    THEN denyAllEgress(spec)
    ELSE [allow |-> TRUE,
          peers |-> [ip \in IPs |-> PeerCount(resolved, ip)],
          ports |-> collectPorts(spec),
          selector |-> spec.selector]

\* Only the CIDR lists are compared, as multisets.
ipSetsEqual(a, b) == a.peers = b.peers

(* What a NetworkPolicy means to the CNI (external: the Kubernetes API).   *)

Peers(n) == {ip \in IPs : n.peers[ip] > 0}

\* An egress rule with an empty To matches every destination.
AllowsAnyDestination(n) == n.allow /\ Peers(n) = {}
=============================================================================
