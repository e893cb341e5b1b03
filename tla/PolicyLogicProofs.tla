------------------------- MODULE PolicyLogicProofs -------------------------
(***************************************************************************)
(* Lemmas about the operators of PolicyLogic, and one about numbers, that  *)
(* the proofs of the controllers and of the resolvers cite.                *)
(***************************************************************************)
EXTENDS PolicyLogic, FiniteSetsExt, FiniteSetTheorems, WellFoundedInduction, TLAPS

\* The filters only take addresses away.
LEMMA AllowedSubset ==
    ASSUME NEW res, NEW sec
    PROVE  /\ ConsensusIPs(res, sec) \subseteq res.ips
           /\ AllowedIPs(res, sec) \subseteq ConsensusIPs(res, sec)
BY DEF AllowedIPs, ConsensusIPs, filterBlockedIPs, filterByConsensus

\* A successful lookup gives a status entry or skips the host.
LEMMA FreshEntryType ==
    ASSUME NEW res \in Resolutions, NEW sec
    PROVE  FreshEntry(res, sec) \in Entries \cup {Nil}
<1>1. res.ips \subseteq IPs
  BY DEF Resolutions
<1>2. AllowedIPs(res, sec) \subseteq IPs
  BY <1>1, AllowedSubset
<1>3. Divergent(res) \in BOOLEAN
  BY DEF Divergent
<1> QED
  BY <1>2, <1>3 DEF FreshEntry, Entries

\* The hosts that list an address can be counted.
LEMMA ListedByFinite ==
    ASSUME NEW resolved \in ResolvedHosts, NEW ip \in IPs
    PROVE  /\ IsFiniteSet({m \in Matches : resolved[m] # Nil /\ ip \in resolved[m].ips})
           /\ PeerCount(resolved, ip) \in Nat
<1> DEFINE listed == {m \in Matches : resolved[m] # Nil /\ ip \in resolved[m].ips}
<1>1. IsFiniteSet(listed)
  BY PolicyConstants, FS_Subset
<1>2. Cardinality(listed) \in Nat
  BY <1>1, FS_CardinalityType
<1> QED
  BY <1>1, <1>2 DEF PeerCount

\* Build makes a well-formed NetworkPolicy.
LEMMA BuildType ==
    ASSUME NEW spec \in PolicySpecs, NEW resolved \in ResolvedHosts
    PROVE  Build(spec, resolved) \in NetworkPolicySpecs
<1>1. spec.selector \in Selectors /\ spec.rules \subseteq Matches
      /\ spec.ports \in [Matches -> SUBSET Ports]
  BY DEF PolicySpecs
<1>2. collectPorts(spec) \subseteq Ports
  BY <1>1 DEF collectPorts
<1>3. [ip \in IPs |-> PeerCount(resolved, ip)] \in [IPs -> Nat]
  BY ListedByFinite
<1>4. [ip \in IPs |-> 0] \in [IPs -> Nat]
  OBVIOUS
<1> QED
  BY <1>1, <1>2, <1>3, <1>4 DEF Build, denyAllEgress, NetworkPolicySpecs

\* A peer of a built NetworkPolicy is an address of some status entry.
LEMMA PeersListed ==
    ASSUME NEW spec, NEW resolved \in ResolvedHosts, NEW ip \in Peers(Build(spec, resolved))
    PROVE  ip \in IPs /\ \E m \in Matches : resolved[m] # Nil /\ ip \in resolved[m].ips
<1>1. ip \in IPs /\ Build(spec, resolved).peers[ip] > 0
  BY DEF Peers
<1>2. PeerCount(resolved, ip) > 0
  BY <1>1 DEF Build, denyAllEgress
<1> DEFINE listed == {m \in Matches : resolved[m] # Nil /\ ip \in resolved[m].ips}
<1>3. CASE listed = {}
  <2>1. Cardinality(listed) = 0
    BY <1>3, FS_EmptySet
  <2> QED
    BY <1>2, <2>1 DEF PeerCount
<1> QED
  BY <1>1, <1>3

\* A set of numbers that is not empty has a least element: the next namespace
\* of a fan-out, the shortest TTL of several answers.
LEMMA MinExists ==
    ASSUME NEW T, T \subseteq Nat, T # {}
    PROVE  Min(T) \in T
<1>1. PICK x \in T : \A y \in T : ~(<<y, x>> \in OpToRel(<, Nat))
  BY NatLessThanWellFounded, WFMin
<1>2. \A y \in T : x <= y
  <2> SUFFICES ASSUME NEW y \in T PROVE x <= y
    OBVIOUS
  <2>1. x \in Nat /\ y \in Nat
    OBVIOUS
  <2>2. ~(y < x)
    BY <1>1, <2>1 DEF OpToRel
  <2> QED
    BY <2>1, <2>2
<1> QED
  BY <1>2 DEF Min
=============================================================================
