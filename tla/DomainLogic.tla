---------------------------- MODULE DomainLogic ----------------------------
(***************************************************************************)
(* What the system does with hostnames: drift matching                     *)
(* (internal/controller/drift.go), the profiler and the simulator          *)
(* (internal/profiler), and the admission webhook's rule check             *)
(* (internal/webhook/validate.go).                                         *)
(*                                                                         *)
(* A hostname is the sequence of its labels, the top-level label first:    *)
(* <<"com", "stripe", "api">> is api.stripe.com, so that "ends with        *)
(* .suffix" is IsPrefix, and <<"com", "stripe", "*">> is the wildcard      *)
(* *.stripe.com.  Names are as the DNS proxy records them, without white   *)
(* space and without the final dot, so TrimSpace and TrimSuffix do         *)
(* nothing.  Lower maps a label to its lower case.  Ports are pairs of a   *)
(* number and a protocol.                                                  *)
(***************************************************************************)
EXTENDS Integers, SequencesExt

CONSTANTS
    Labels,       \* the labels hostnames are made of
    Lower,        \* strings.ToLower of a label
    ValidLabels,  \* the labels fqdnRE accepts below the top level
    TopLabels     \* the labels fqdnRE accepts at the top level

ASSUME LabelConstants ==
    /\ Lower \in [Labels -> Labels]
    /\ \A l \in Labels : Lower[Lower[l]] = Lower[l]
    /\ ValidLabels \subseteq Labels /\ TopLabels \subseteq Labels
    /\ "*" \in Labels \ (ValidLabels \cup TopLabels)
    /\ \A l \in Labels : Lower[l] = "*" => l = "*"
    /\ Lower["*"] = "*"
    /\ \A l \in ValidLabels : Lower[l] \in ValidLabels
    /\ \A l \in TopLabels : Lower[l] \in TopLabels

ToLower(n) == [i \in DOMAIN n |-> Lower[n[i]]]

\* The schema's enumeration, and the protocol left out.
Protocols == {"TCP", "UDP", "SCTP", ""}

\* Egress rules.
Rules == [match: Seq(Labels), ports: SUBSET (Int \X Protocols)]

\* "*." can be cut from the match, which leaves Front(m).
IsWildcard(m) == Len(m) >= 2 /\ Last(m) = "*"
----------------------------------------------------------------------------
(* Drift.                                                                  *)

\* Mutant of matchesEgressRule: the suffix itself does not match.
matchesWithoutApex(h, m) == h = m \/ (IsWildcard(m) /\ IsStrictPrefix(Front(m), h))

\* The comparison is of the names as they are.
matchesEgressRule(h, m) == h = m \/ (IsWildcard(m) /\ IsPrefix(Front(m), h))

isCovered(h, matches) == \E m \in matches : matchesEgressRule(h, m)

\* Mutant of diffNewDomains: what is gone instead of what is new.
diffGoneDomains(previous, current) == previous \ current

diffNewDomains(previous, current) == current \ previous
----------------------------------------------------------------------------
(* Profiler.                                                               *)

internalSuffixes ==
    {<<"local", "cluster">>, <<"svc">>, <<"local">>, <<"internal">>,
     <<"arpa", "in-addr">>, <<"arpa", "ip6">>}

\* The exact names that are neither a single label nor below a suffix.
exactInternalNames ==
    {<<"default", "kubernetes">>, <<"localdomain", "localhost">>,
     <<"254", "169", "254", "169">>}

IsInternalDomain(n) ==
    \/ ToLower(n) \in exactInternalNames
    \/ \E s \in internalSuffixes : IsStrictPrefix(s, ToLower(n))
    \/ Len(n) <= 1

\* Mutant of FilterDomains: nothing is ignored.
FilterNothing(domains) == domains

FilterDomains(domains) == {n \in domains : ~IsInternalDomain(n)}

commonMultiPartTLDs ==
    {<<"uk", s>> : s \in {"co", "org", "gov", "ac"}} \cup {<<"jp", s>> : s \in {"co", "ne"}}
        \cup {<<"au", s>> : s \in {"com", "net", "org"}} \cup {<<"nz", "co">>}
        \cup {<<"in", s>> : s \in {"co", "net", "org", "gen", "ind"}}

\* Mutant of BaseDomain: two-part public suffixes are not known.
BaseDomainTwoLabels(n) == IF Len(n) <= 2 THEN ToLower(n) ELSE SubSeq(ToLower(n), 1, 2)

BaseDomain(n) ==
    IF Len(n) <= 2 THEN ToLower(n)
    ELSE IF SubSeq(ToLower(n), 1, 2) \in commonMultiPartTLDs THEN SubSeq(ToLower(n), 1, 3)
    ELSE SubSeq(ToLower(n), 1, 2)

\* The names below one base domain become a wildcard when they are many.
ClusterBase(names, base, threshold) ==
    LET subs == {n \in names : BaseDomain(n) = base}
    IN  IF Cardinality(subs) >= threshold \/ \E n \in subs : IsWildcard(n)
        THEN {Append(base, "*")}
        ELSE subs

ClusterWildcards(domains, threshold) ==
    LET names == {ToLower(n) : n \in domains}
    IN  IF threshold <= 1 THEN names
        ELSE UNION {ClusterBase(names, b, threshold) : b \in {BaseDomain(n) : n \in names}}

\* Whether blockPrivateIPs and blockOnDivergence are true, and
\* minResolverAgreement (0: unset).
buildSecurityConfig(preset) ==
    [private |-> preset # "relaxed", freeze |-> preset = "strict",
     agreement |-> IF preset = "strict" THEN 3 ELSE 0]

SynthesizePolicy(domains, threshold, preset, mode) ==
    LET matches == ClusterWildcards(FilterDomains(domains),
                                    IF threshold <= 0 THEN 3 ELSE threshold)
    IN  [egress |-> SetToSeq({[match |-> m, ports |-> {<<443, "TCP">>}] : m \in matches}),
         mode |-> mode, security |-> buildSecurityConfig(preset)]
----------------------------------------------------------------------------
(* Simulator.                                                              *)

\* The first rule that matches, both sides in lower case; <<>> for none.
findMatchingRule(h, rules) ==
    LET hits == {i \in DOMAIN rules : matchesEgressRule(ToLower(h), ToLower(rules[i].match))}
    IN  IF hits = {} THEN <<>> ELSE rules[Min(hits)].match

Blocked(policy, observed) ==
    {n \in observed : ~IsInternalDomain(n) /\ findMatchingRule(n, policy.egress) = <<>>}

\* Which findings the report lists; privateAllowed: blockPrivateIPs is not set to
\* true in the manifest.
runSecurityAudits(policy, blocked) ==
    LET matches == {policy.egress[i].match : i \in DOMAIN policy.egress}
    IN  [noRules        |-> matches = {},
         everything     |-> matches \cap {<<"*">>, <<"*", "*">>} # {},
         wholeTopLevel  |-> \E m \in matches : IsWildcard(m) /\ Len(m) = 2,
         privateAllowed |-> ~policy.security.private,
         blockedNow     |-> policy.mode # "Audit" /\ blocked # {}]

Simulate(policy, observed) ==
    [blocked |-> Blocked(policy, observed),
     internal |-> {n \in observed : IsInternalDomain(n)},
     audits |-> runSecurityAudits(policy, Blocked(policy, observed))]
----------------------------------------------------------------------------
(* Admission webhook.                                                      *)

fqdnRE(m) ==
    LET n == IF IsWildcard(m) THEN Front(m) ELSE m
    IN  Len(n) >= 2 /\ n[1] \in TopLabels /\ \A i \in 2..Len(n) : n[i] \in ValidLabels

ValidPort(p) == p[1] \in 1..65535 /\ p[2] \in Protocols

\* Whether some rule gets an error.
validateEgressRules(rules, snoopEnabled) ==
    \E i \in DOMAIN rules :
        \/ IsWildcard(rules[i].match) /\ ~snoopEnabled
        \/ ~fqdnRE(rules[i].match)
        \/ \E j \in 1..(i - 1) : rules[j].match = rules[i].match
        \/ \E p \in rules[i].ports : ~ValidPort(p)

\* The CRD schema asks for one rule at least (MinItems).
Admitted(rules, snoopEnabled) == rules # <<>> /\ ~validateEgressRules(rules, snoopEnabled)
=============================================================================
