------------------------ MODULE DriftWorkflowProofs ------------------------
(***************************************************************************)
(* What DriftWorkflow promises, for every set of hostnames and of          *)
(* policies: drift is counted before a status reports it, and a profile    *)
(* lets through what was observed, is admitted, and reaches no further     *)
(* than the base domains of what was observed.                             *)
(***************************************************************************)
EXTENDS DriftWorkflow, FiniteSetTheorems, SequenceTheorems, TLAPS
----------------------------------------------------------------------------
(* Sets, sequences and prefixes.                                           *)

\* A set of numbers that is not empty has a least element.
LEMMA LeastExists ==
    ASSUME NEW T, T \subseteq Nat, T # {}
    PROVE  Min(T) \in T
<1>1. PICK x \in T : \A y \in T : ~(<<y, x>> \in OpToRel(<, Nat))
  BY NatLessThanWellFounded, WFMin
<1>2. \A y \in T : x <= y
  <2> SUFFICES ASSUME NEW y \in T PROVE x <= y
    OBVIOUS
  <2>1. x \in Nat /\ y \in Nat
    OBVIOUS
  <2>2. ~(y < x)
    BY <1>1, <2>1 DEF OpToRel
  <2> QED
    BY <2>1, <2>2
<1> QED
  BY <1>2 DEF Min

\* SetToSeq lists every element of a finite set exactly once.
LEMMA SetToSeqLists ==
    ASSUME NEW S, IsFiniteSet(S)
    PROVE  /\ SetToSeq(S) \in Seq(S)
           /\ {SetToSeq(S)[i] : i \in DOMAIN SetToSeq(S)} = S
           /\ IsInjective(SetToSeq(S))
           /\ DOMAIN SetToSeq(S) = 1..Cardinality(S)
           /\ Cardinality(S) \in Nat
<1> DEFINE n == Cardinality(S)
           f == SetToSeq(S)
<1>1. n \in Nat /\ Bijection(1..n, S) # {}
  BY FS_CardinalityType DEF ExistsBijection
<1>2. \E g \in [1..n -> S] : IsInjective(g)
  BY <1>1 DEF Bijection, Injection
<1>3. f \in [1..n -> S] /\ IsInjective(f)
  BY <1>2 DEF SetToSeq
<1>4. f \in Injection(1..n, S)
  BY <1>3 DEF Injection
<1>5. Cardinality(1..n) = n
  BY <1>1, FS_Interval
<1>6. f \in Surjection(1..n, S)
  BY <1>4, <1>5, FS_Injection
<1>7. \A x \in S : \E i \in 1..n : f[i] = x
  BY <1>6 DEF Surjection
<1>8. {f[i] : i \in DOMAIN f} = S
  BY <1>3, <1>7
<1>9. f \in Seq(S)
  BY <1>1, <1>3, SeqDef
<1>10. DOMAIN f = 1..n
  BY <1>3
<1> QED
  BY <1>1, <1>3, <1>8, <1>9, <1>10

\* A prefix is an initial part.
LEMMA PrefixElements ==
    ASSUME NEW s \in Seq(Labels), NEW t \in Seq(Labels)
    PROVE  IsPrefix(s, t) <=> Len(s) <= Len(t) /\ \A i \in 1..Len(s) : s[i] = t[i]
<1>1. Len(s) \in Nat /\ Len(t) \in Nat
      /\ (\A i \in 1..Len(s) : s[i] \in Labels) /\ (\A i \in 1..Len(t) : t[i] \in Labels)
  BY LenProperties
<1>2. SubSeq(s, 1, Len(s)) = s
  BY SubSeqFull
<1>3. CASE Len(s) <= Len(t)
  <2>1. \A i \in 1..Len(s) : t[i] \in Labels
    BY <1>1, <1>3
  <2> DEFINE u == SubSeq(t, 1, Len(s))
  <2>2. u \in Seq(Labels) /\ Len(u) = Len(s) /\ \A i \in 1..Len(s) : u[i] = t[i]
    BY <1>1, <2>1, SubSeqProperties
  <2> HIDE DEF u
  <2>3. s = u <=> \A i \in 1..Len(s) : s[i] = t[i]
    BY <2>2, SeqEqual
  <2> QED
    BY <1>2, <1>3, <2>3 DEF IsPrefix, u
<1> QED
  BY <1>3 DEF IsPrefix
----------------------------------------------------------------------------
(* Hostnames.                                                              *)

\* strings.ToLower keeps the labels' number and place, and does nothing the
\* second time.
LEMMA ToLowerType ==
    ASSUME NEW n \in Seq(Labels)
    PROVE  /\ ToLower(n) \in Seq(Labels) /\ Len(ToLower(n)) = Len(n)
           /\ \A i \in 1..Len(n) : ToLower(n)[i] = Lower[n[i]]
           /\ ToLower(ToLower(n)) = ToLower(n)
<1>1. Len(n) \in Nat /\ DOMAIN n = 1..Len(n) /\ \A i \in 1..Len(n) : n[i] \in Labels
  BY LenProperties
<1>2. ToLower(n) \in [1..Len(n) -> Labels]
      /\ \A i \in 1..Len(n) : ToLower(n)[i] = Lower[n[i]]
  BY <1>1, LabelConstants DEF ToLower
<1>3. ToLower(n) \in Seq(Labels)
  BY <1>1, <1>2, SeqDef
<1>4. Len(ToLower(n)) = Len(n)
  BY <1>1, <1>2, <1>3, LenProperties
<1>5. ToLower(ToLower(n)) = ToLower(n)
  <2>1. \A i \in 1..Len(n) : Lower[ToLower(n)[i]] = ToLower(n)[i]
    BY <1>1, <1>2, LabelConstants
  <2> QED
    BY <1>2, <2>1 DEF ToLower
<1> QED
  BY <1>2, <1>3, <1>4, <1>5

\* The base domain of a name of at least two labels is an initial part of it, in
\* lower case, of at least two labels.
LEMMA BaseDomainPrefix ==
    ASSUME NEW n \in Seq(Labels), Len(n) >= 2
    PROVE  /\ BaseDomain(n) \in Seq(Labels) /\ Len(BaseDomain(n)) >= 2
           /\ IsPrefix(BaseDomain(n), ToLower(n))
           /\ ToLower(BaseDomain(n)) = BaseDomain(n)
<1> DEFINE l == ToLower(n)
           b == BaseDomain(n)
<1>1. l \in Seq(Labels) /\ Len(l) = Len(n) /\ ToLower(l) = l /\ Len(n) \in Nat
      /\ \A i \in 1..Len(l) : l[i] \in Labels
  BY ToLowerType, LenProperties
<1>2. \E k \in 2..Len(l) : b = SubSeq(l, 1, k)
  <2>1. CASE Len(n) <= 2
    <3>1. b = SubSeq(l, 1, Len(l))
      BY <2>1, <1>1, SubSeqFull DEF BaseDomain
    <3> QED
      BY <3>1, <1>1
  <2>2. CASE Len(n) > 2
    <3>1. b = SubSeq(l, 1, 3) \/ b = SubSeq(l, 1, 2)
      BY <2>2, <1>1 DEF BaseDomain
    <3>2. 3 \in 2..Len(l) /\ 2 \in 2..Len(l)
      BY <2>2, <1>1
    <3> HIDE DEF l, b
    <3> QED
      BY <3>1, <3>2
  <2> QED
    BY <2>1, <2>2, <1>1
<1> HIDE DEF l, b
<1>3. PICK k \in 2..Len(l) : b = SubSeq(l, 1, k)
  BY <1>2
<1>4. k \in Int /\ k >= 2 /\ k <= Len(l) /\ \A i \in 1..k : l[i] \in Labels
  BY <1>1
<1>5. b \in Seq(Labels) /\ Len(b) = k /\ \A i \in 1..k : b[i] = l[i]
  BY <1>3, <1>4, SubSeqProperties
<1>6. IsPrefix(b, l)
  BY <1>1, <1>4, <1>5, PrefixElements
<1>7. ToLower(b) = b
  <2>1. \A i \in 1..k : Lower[l[i]] = l[i]
    BY <1>1, <1>4, ToLowerType DEF l
  <2>2. ToLower(b) \in Seq(Labels) /\ Len(ToLower(b)) = k /\ \A i \in 1..k : ToLower(b)[i] = b[i]
    <3>1. /\ ToLower(b) \in Seq(Labels) /\ Len(ToLower(b)) = Len(b)
          /\ \A i \in 1..Len(b) : ToLower(b)[i] = Lower[b[i]]
      BY <1>5, ToLowerType
    <3> QED
      BY <1>5, <2>1, <3>1
  <2> QED
    BY <1>5, <2>2, SeqEqual
<1> QED
  BY <1>4, <1>5, <1>6, <1>7 DEF l, b

\* "*." before a domain can be cut again, and is the same in lower case.
LEMMA WildcardOf ==
    ASSUME NEW b \in Seq(Labels), Len(b) >= 1
    PROVE  /\ Append(b, "*") \in Seq(Labels) /\ Len(Append(b, "*")) = Len(b) + 1
           /\ IsWildcard(Append(b, "*")) /\ Front(Append(b, "*")) = b
           /\ ToLower(b) = b => ToLower(Append(b, "*")) = Append(b, "*")
<1> DEFINE w == Append(b, "*")
<1>1. Len(b) \in Nat /\ "*" \in Labels /\ Lower["*"] = "*" /\ \A i \in 1..Len(b) : b[i] \in Labels
  BY LabelConstants, LenProperties
<1>2. w \in Seq(Labels) /\ Len(w) = Len(b) + 1 /\ (\A i \in 1..Len(b) : w[i] = b[i])
      /\ w[Len(b) + 1] = "*"
  BY <1>1, AppendProperties
<1> HIDE DEF w
<1>3. IsWildcard(w)
  BY <1>1, <1>2 DEF IsWildcard, Last
<1>4. Front(w) = b
  <2>1. Front(w) = SubSeq(w, 1, Len(b))
    BY <1>1, <1>2 DEF Front
  <2>2. Front(w) \in Seq(Labels) /\ Len(Front(w)) = Len(b) /\ \A i \in 1..Len(b) : Front(w)[i] = b[i]
    BY <1>1, <1>2, <2>1, SubSeqProperties
  <2> QED
    BY <2>2, SeqEqual
<1>5. ASSUME ToLower(b) = b PROVE ToLower(w) = w
  <2>1. ToLower(w) \in Seq(Labels) /\ Len(ToLower(w)) = Len(w)
        /\ \A i \in 1..Len(w) : ToLower(w)[i] = Lower[w[i]]
    BY <1>2, ToLowerType
  <2>2. \A i \in 1..Len(b) : Lower[b[i]] = b[i]
    BY <1>5, ToLowerType
  <2>3. \A i \in 1..Len(w) : ToLower(w)[i] = w[i]
    BY <1>1, <1>2, <2>1, <2>2
  <2> QED
    BY <1>2, <2>1, <2>3, SeqEqual
<1> QED
  BY <1>2, <1>3, <1>4, <1>5 DEF w

\* A domain is an initial part of the wildcard over it.
LEMMA WildcardPrefix ==
    ASSUME NEW b \in Seq(Labels)
    PROVE  IsPrefix(b, Append(b, "*"))
<1> DEFINE w == Append(b, "*")
<1>1. w \in Seq(Labels) /\ Len(w) = Len(b) + 1 /\ Len(b) \in Nat
      /\ \A i \in 1..Len(b) : w[i] = b[i]
  BY LabelConstants, AppendProperties, LenProperties
<1> HIDE DEF w
<1>2. IsPrefix(b, w)
  BY <1>1, PrefixElements
<1> QED
  BY <1>2 DEF w

\* The image of a finite set is finite.
LEMMA ImageFinite ==
    ASSUME NEW f, IsFiniteSet(DOMAIN f)
    PROVE  IsFiniteSet({f[x] : x \in DOMAIN f})
<1> DEFINE I == {f[x] : x \in DOMAIN f}
           g == [x \in DOMAIN f |-> f[x]]
<1>1. g \in Surjection(DOMAIN f, I)
  BY DEF Surjection
<1> QED
  BY <1>1, FS_Surjection
----------------------------------------------------------------------------
(* The profiler.                                                           *)

\* Observed names that FilterDomains keeps: more than one label.
External(D) == D \subseteq Seq(Labels) /\ \A n \in D : Len(n) >= 2

\* ClusterWildcards makes finitely many matches of finitely many names.
LEMMA ClusterFinite ==
    ASSUME NEW D, IsFiniteSet(D), NEW t
    PROVE  IsFiniteSet(ClusterWildcards(D, t))
<1> DEFINE names == {ToLower(n) : n \in D}
           bases == {BaseDomain(n) : n \in names}
           clusters == {ClusterBase(names, b, t) : b \in bases}
           low == [n \in D |-> ToLower(n)]
<1>1. IsFiniteSet(names)
  <2>1. names = {low[n] : n \in DOMAIN low} /\ DOMAIN low = D
    OBVIOUS
  <2> HIDE DEF names, low
  <2> QED
    BY <2>1, ImageFinite
<1> HIDE DEF names
<1> DEFINE base == [n \in names |-> BaseDomain(n)]
<1>2. IsFiniteSet(bases)
  <2>1. bases = {base[n] : n \in DOMAIN base} /\ DOMAIN base = names
    OBVIOUS
  <2> HIDE DEF bases, base
  <2> QED
    BY <1>1, <2>1, ImageFinite
<1> HIDE DEF bases
<1> DEFINE cluster == [b \in bases |-> ClusterBase(names, b, t)]
<1>3. IsFiniteSet(clusters)
  <2>1. clusters = {cluster[b] : b \in DOMAIN cluster} /\ DOMAIN cluster = bases
    OBVIOUS
  <2> HIDE DEF clusters, cluster
  <2> QED
    BY <1>2, <2>1, ImageFinite
<1>4. \A c \in clusters : IsFiniteSet(c)
  <2> SUFFICES ASSUME NEW b \in bases PROVE IsFiniteSet(ClusterBase(names, b, t))
    OBVIOUS
  <2> DEFINE subs == {n \in names : BaseDomain(n) = b}
  <2>1. IsFiniteSet(subs)
    BY <1>1, FS_Subset
  <2>2. IsFiniteSet({Append(b, "*")})
    BY FS_Singleton
  <2> QED
    BY <2>1, <2>2 DEF ClusterBase
<1> HIDE DEF clusters
<1>5. IsFiniteSet(UNION clusters)
  BY <1>3, <1>4, FS_UNION
<1>6. ClusterWildcards(D, t) = IF t <= 1 THEN names ELSE UNION clusters
  BY DEF ClusterWildcards, names, bases, clusters
<1> QED
  BY <1>1, <1>5, <1>6

\* A match is an observed name in lower case or the wildcard over its base
\* domain, and every observed name is matched.
LEMMA ClusterMatches ==
    ASSUME NEW D, External(D), NEW t
    PROVE  /\ \A m \in ClusterWildcards(D, t) : \E n \in D :
                  m = ToLower(n) \/ m = Append(BaseDomain(n), "*")
           /\ \A n \in D : \E m \in ClusterWildcards(D, t) : matchesEgressRule(ToLower(n), m)
<1> DEFINE names == {ToLower(n) : n \in D}
           bases == {BaseDomain(n) : n \in names}
           M == ClusterWildcards(D, t)
<1>1. \A n \in D : n \in Seq(Labels) /\ Len(n) >= 2
  BY DEF External
<1>2. \A n \in D : ToLower(ToLower(n)) = ToLower(n) /\ BaseDomain(ToLower(n)) = BaseDomain(n)
  BY <1>1, ToLowerType DEF BaseDomain
<1>3. CASE t <= 1
  <2>1. M = names
    BY <1>3 DEF ClusterWildcards
  <2> QED
    BY <2>1 DEF matchesEgressRule
<1>4. CASE ~(t <= 1)
  <2>1. M = UNION {ClusterBase(names, b, t) : b \in bases}
    BY <1>4 DEF ClusterWildcards
  <2>2. \A b \in bases : \E n \in D : b = BaseDomain(n)
    BY <1>2
  <2>3. \A b \in bases : \A m \in ClusterBase(names, b, t) : m \in names \/ m = Append(b, "*")
    BY DEF ClusterBase
  <2>4. \A m \in M : \E n \in D : m = ToLower(n) \/ m = Append(BaseDomain(n), "*")
    <3> SUFFICES ASSUME NEW m \in M
                 PROVE  \E n \in D : m = ToLower(n) \/ m = Append(BaseDomain(n), "*")
      OBVIOUS
    <3>1. PICK b \in bases : m \in ClusterBase(names, b, t)
      BY <2>1
    <3>2. PICK n \in D : b = BaseDomain(n)
      BY <2>2
    <3>3. m \in names \/ m = Append(b, "*")
      BY <2>3, <3>1
    <3> QED
      BY <3>2, <3>3
  <2>5. \A n \in D : \E m \in M : matchesEgressRule(ToLower(n), m)
    <3> SUFFICES ASSUME NEW n \in D PROVE \E m \in M : matchesEgressRule(ToLower(n), m)
      OBVIOUS
    <3> DEFINE b == BaseDomain(n)
    <3>1. b \in bases /\ ToLower(n) \in names /\ BaseDomain(ToLower(n)) = b
      BY <1>2
    <3>2. ToLower(n) \in ClusterBase(names, b, t) \/ Append(b, "*") \in ClusterBase(names, b, t)
      BY <3>1 DEF ClusterBase
    <3>3. ToLower(n) \in M \/ Append(b, "*") \in M
      BY <2>1, <3>1, <3>2
    <3>4. b \in Seq(Labels) /\ Len(b) >= 2 /\ IsPrefix(b, ToLower(n))
      BY <1>1, BaseDomainPrefix
    <3>5. IsWildcard(Append(b, "*")) /\ Front(Append(b, "*")) = b
      BY <3>4, WildcardOf, LenProperties
    <3>6. matchesEgressRule(ToLower(n), ToLower(n))
      BY DEF matchesEgressRule
    <3>7. matchesEgressRule(ToLower(n), Append(b, "*"))
      BY <3>4, <3>5 DEF matchesEgressRule
    <3> QED
      BY <3>3, <3>6, <3>7
  <2> QED
    BY <2>4, <2>5
<1> QED
  BY <1>3, <1>4

\* Every match is a name of at least two labels in lower case; a wildcard over a
\* base domain has three.
LEMMA MatchTypes ==
    ASSUME NEW D, External(D), NEW t, NEW m \in ClusterWildcards(D, t)
    PROVE  m \in Seq(Labels) /\ Len(m) >= 2 /\ ToLower(m) = m
<1>1. PICK n \in D : m = ToLower(n) \/ m = Append(BaseDomain(n), "*")
  BY ClusterMatches
<1>2. n \in Seq(Labels) /\ Len(n) >= 2 /\ Len(n) \in Nat
  BY LenProperties DEF External
<1>3. CASE m = ToLower(n)
  BY <1>2, <1>3, ToLowerType
<1>4. CASE m = Append(BaseDomain(n), "*")
  <2>1. BaseDomain(n) \in Seq(Labels) /\ Len(BaseDomain(n)) >= 2
        /\ ToLower(BaseDomain(n)) = BaseDomain(n) /\ Len(BaseDomain(n)) \in Nat
    BY <1>2, BaseDomainPrefix, LenProperties
  <2> QED
    BY <1>4, <2>1, WildcardOf
<1> QED
  BY <1>1, <1>3, <1>4

\* The base domain of a name is a suffix of the code's table only if it is the
\* whole name.
LEMMA BaseBelowSuffix ==
    ASSUME NEW n \in Seq(Labels), Len(n) >= 2, BaseDomain(n) \in commonMultiPartTLDs
    PROVE  ToLower(n) = BaseDomain(n)
<1> DEFINE l == ToLower(n)
<1>1. \A s \in commonMultiPartTLDs : Len(s) = 2
  BY DEF commonMultiPartTLDs
<1>2. l \in Seq(Labels) /\ Len(l) = Len(n) /\ Len(n) \in Nat
      /\ \A i \in 1..Len(l) : l[i] \in Labels
  BY ToLowerType, LenProperties
<1>3. CASE Len(n) <= 2
  BY <1>3 DEF BaseDomain
<1>4. CASE Len(n) > 2
  <2>1. \/ BaseDomain(n) = SubSeq(l, 1, 3)
        \/ BaseDomain(n) = SubSeq(l, 1, 2) /\ SubSeq(l, 1, 2) \notin commonMultiPartTLDs
    BY <1>2, <1>4 DEF BaseDomain
  <2> HIDE DEF l
  <2>2. \A i \in 1..3 : l[i] \in Labels
    BY <1>2, <1>4
  <2>3. Len(SubSeq(l, 1, 3)) = 3
    BY <1>2, <2>2, SubSeqProperties
  <2>4. BaseDomain(n) # SubSeq(l, 1, 3)
    BY <1>1, <2>3
  <2> QED
    BY <2>1, <2>4
<1> QED
  BY <1>2, <1>3, <1>4

\* So the names below a listed suffix are never clustered at that suffix.
LEMMA SuffixUnclustered ==
    ASSUME NEW D, External(D), \A n \in D : \A i \in DOMAIN n : n[i] # "*",
           NEW t \in Int, NEW b \in commonMultiPartTLDs, b \in Seq(Labels)
    PROVE  Append(b, "*") \notin ClusterWildcards(D, t)
<1> DEFINE names == {ToLower(n) : n \in D}
           bases == {BaseDomain(n) : n \in names}
           subs == {n \in names : BaseDomain(n) = b}
           w == Append(b, "*")
<1>1. ASSUME NEW x \in names
      PROVE  x \in Seq(Labels) /\ Len(x) >= 2 /\ ToLower(x) = x /\ ~IsWildcard(x)
  <2>1. PICK n \in D : x = ToLower(n)
    OBVIOUS
  <2>2. n \in Seq(Labels) /\ Len(n) >= 2 /\ Len(n) \in Nat /\ DOMAIN n = 1..Len(n)
    BY LenProperties DEF External
  <2>3. /\ x \in Seq(Labels) /\ Len(x) = Len(n) /\ ToLower(x) = x
        /\ \A i \in 1..Len(n) : x[i] = Lower[n[i]]
    BY <2>1, <2>2, ToLowerType
  <2>4. n[Len(n)] # "*" /\ n[Len(n)] \in Labels
    BY <2>2, ElementOfSeq
  <2>5. x[Len(n)] # "*"
    BY <2>2, <2>3, <2>4, LabelConstants
  <2> QED
    BY <2>2, <2>3, <2>5 DEF IsWildcard, Last
<1>2. Len(b) = 2
  BY DEF commonMultiPartTLDs
<1>3. IsWildcard(w) /\ Front(w) = b
  BY <1>2, WildcardOf
<1>4. w \notin names
  BY <1>1, <1>3
<1>5. subs \subseteq {b}
  BY <1>1, BaseBelowSuffix
<1>6. Cardinality(subs) \in {0, 1}
  <2>1. subs = {} \/ subs = {b}
    BY <1>5
  <2> HIDE DEF subs
  <2> QED
    BY <2>1, FS_EmptySet, FS_Singleton
<1>7. CASE t <= 1
  BY <1>4, <1>7 DEF ClusterWildcards
<1>8. CASE t > 1
  <2> SUFFICES ASSUME w \in ClusterWildcards(D, t) PROVE FALSE
    OBVIOUS
  <2>1. PICK c \in bases : w \in ClusterBase(names, c, t)
    <3>1. ~(t <= 1)
      BY <1>8
    <3>2. ClusterWildcards(D, t) = UNION {ClusterBase(names, c, t) : c \in bases}
      BY <3>1 DEF ClusterWildcards
    <3> HIDE DEF bases, names, w
    <3> QED
      BY <3>2
  <2>2. w = Append(c, "*")
    BY <1>4, <2>1 DEF ClusterBase
  <2>3. c \in Seq(Labels) /\ Len(c) >= 1
    BY <1>1, BaseDomainPrefix, LenProperties
  <2>4. c = b
    BY <1>3, <2>2, <2>3, WildcardOf
  <2>5. subs = {} \/ Cardinality(subs) >= t \/ \E x \in subs : IsWildcard(x)
    BY <1>4, <2>1, <2>4 DEF ClusterBase
  <2>6. PICK x \in names : BaseDomain(x) = b
    BY <2>4
  <2>7. Cardinality(subs) >= t
    BY <1>1, <2>5, <2>6
  <2> QED
    BY <1>6, <1>8, <2>7
<1> QED
  BY <1>7, <1>8 DEF w

\* The matches of the profile of a set of observed names.
ProfileMatches(observed, t) ==
    ClusterWildcards(FilterDomains(observed), IF t <= 0 THEN 3 ELSE t)

\* FilterDomains leaves names of more than one label.
LEMMA FilterExternal ==
    ASSUME NEW observed \in SUBSET Names
    PROVE  External(FilterDomains(observed))
<1> SUFFICES ASSUME NEW n \in FilterDomains(observed) PROVE n \in Seq(Labels) /\ Len(n) >= 2
  BY DEF External
<1>1. n \in Seq(Labels) /\ ~(Len(n) <= 1)
  BY WorkflowConstants DEF FilterDomains, IsInternalDomain
<1> QED
  BY <1>1, LenProperties

\* SynthesizePolicy makes one rule for each match, for port 443.
LEMMA ProfileRules ==
    ASSUME NEW observed \in SUBSET Names, IsFiniteSet(observed),
           NEW t, NEW preset, NEW mode
    PROVE  LET p == SynthesizePolicy(observed, t, preset, mode)
               M == ProfileMatches(observed, t)
           IN  /\ p.egress \in Seq(Rules) /\ p.mode = mode
               /\ {p.egress[i].match : i \in DOMAIN p.egress} = M
               /\ \A i \in DOMAIN p.egress :
                      i \in Nat /\ p.egress[i].match \in M /\ p.egress[i].ports = {<<443, "TCP">>}
               /\ \A i, j \in DOMAIN p.egress :
                      p.egress[i].match = p.egress[j].match => i = j
<1> DEFINE p == SynthesizePolicy(observed, t, preset, mode)
           M == ProfileMatches(observed, t)
           rule == [m \in M |-> [match |-> m, ports |-> {<<443, "TCP">>}]]
           R == {[match |-> m, ports |-> {<<443, "TCP">>}] : m \in M}
<1>1. External(FilterDomains(observed))
  BY FilterExternal
<1>2. IsFiniteSet(FilterDomains(observed))
  BY FS_Subset DEF FilterDomains
<1>3. IsFiniteSet(M)
  BY <1>2, ClusterFinite DEF ProfileMatches
<1>4. \A m \in M : m \in Seq(Labels)
  BY <1>1, MatchTypes DEF ProfileMatches
<1>5. p.egress = SetToSeq(R) /\ p.mode = mode
  BY DEF SynthesizePolicy, ProfileMatches
<1> HIDE DEF p, M
<1>6. IsFiniteSet(R)
  <2>1. R = {rule[m] : m \in DOMAIN rule} /\ DOMAIN rule = M
    OBVIOUS
  <2> HIDE DEF R, rule
  <2> QED
    BY <1>3, <2>1, ImageFinite
<1>7. R \subseteq Rules
  <2> SUFFICES ASSUME NEW m \in M PROVE [match |-> m, ports |-> {<<443, "TCP">>}] \in Rules
    OBVIOUS
  <2>1. <<443, "TCP">> \in Int \X Protocols
    <3>1. 443 \in Int
      OBVIOUS
    <3>2. "TCP" \in Protocols
      BY DEF Protocols
    <3> QED
      BY <3>1, <3>2
  <2>2. {<<443, "TCP">>} \in SUBSET (Int \X Protocols)
    BY <2>1
  <2> QED
    BY <1>4, <2>2 DEF Rules
<1>8. \A r \in R : r.match \in M /\ r.ports = {<<443, "TCP">>}
                   /\ r = [match |-> r.match, ports |-> {<<443, "TCP">>}]
  OBVIOUS
<1>9. \A m \in M : \E r \in R : r.match = m
  <2> SUFFICES ASSUME NEW m \in M PROVE \E r \in R : r.match = m
    OBVIOUS
  <2>1. [match |-> m, ports |-> {<<443, "TCP">>}] \in R
    OBVIOUS
  <2>2. [match |-> m, ports |-> {<<443, "TCP">>}].match = m
    OBVIOUS
  <2> HIDE DEF R
  <2> QED
    BY <2>1, <2>2
<1> HIDE DEF R
<1> DEFINE e == SetToSeq(R)
<1>10. e \in Seq(R) /\ {e[i] : i \in DOMAIN e} = R /\ IsInjective(e)
       /\ DOMAIN e = 1..Cardinality(R) /\ Cardinality(R) \in Nat
  BY <1>6, SetToSeqLists
<1> HIDE DEF e
<1>11. e \in Seq(Rules)
  BY <1>7, <1>10, SeqMonotonic
<1>12. \A i \in DOMAIN e : i \in Nat /\ e[i] \in R
  BY <1>10
<1>13. \A m \in M : \E i \in DOMAIN e : e[i].match = m
  BY <1>9, <1>10
<1>14. {e[i].match : i \in DOMAIN e} = M
  BY <1>8, <1>12, <1>13
<1>15. ASSUME NEW i \in DOMAIN e, NEW j \in DOMAIN e, e[i].match = e[j].match
       PROVE  i = j
  <2>1. e[i] = e[j]
    BY <1>8, <1>12, <1>15
  <2> QED
    BY <2>1, <1>10 DEF IsInjective
<1>16. p.egress = e
  BY <1>5 DEF e
<1> QED
  BY <1>5, <1>8, <1>11, <1>12, <1>14, <1>15, <1>16 DEF p, M
----------------------------------------------------------------------------
(* The simulator and the webhook on a profile.                             *)

\* findMatchingRule finds a rule exactly for the names the rules cover, and what
\* it finds is one of their matches.
LEMMA FirstMatch ==
    ASSUME NEW e \in Seq(Rules), NEW h,
           \A i \in DOMAIN e : e[i].match # <<>> /\ ToLower(e[i].match) = e[i].match
    PROVE  findMatchingRule(h, e) # <<>> <=>
               isCovered(ToLower(h), {e[i].match : i \in DOMAIN e})
<1> DEFINE hits == {i \in DOMAIN e : matchesEgressRule(ToLower(h), ToLower(e[i].match))}
<1>1. hits \subseteq Nat
  BY LenProperties
<1>2. isCovered(ToLower(h), {e[i].match : i \in DOMAIN e}) <=> hits # {}
  BY DEF isCovered
<1>3. hits # {} => Min(hits) \in hits
  BY <1>1, LeastExists
<1>4. findMatchingRule(h, e) = IF hits = {} THEN <<>> ELSE e[Min(hits)].match
  BY DEF findMatchingRule
<1>5. hits # {} => e[Min(hits)].match # <<>>
  BY <1>3
<1> QED
  BY <1>2, <1>4, <1>5

\* The profile's rules are what FirstMatch asks for.
LEMMA ProfileMatched ==
    ASSUME NEW observed \in SUBSET Names, IsFiniteSet(observed),
           NEW t, NEW preset, NEW mode, NEW h
    PROVE  findMatchingRule(h, SynthesizePolicy(observed, t, preset, mode).egress) # <<>> <=>
               isCovered(ToLower(h), ProfileMatches(observed, t))
<1> DEFINE e == SynthesizePolicy(observed, t, preset, mode).egress
           M == ProfileMatches(observed, t)
<1>1. /\ e \in Seq(Rules) /\ {e[i].match : i \in DOMAIN e} = M
      /\ \A i \in DOMAIN e : e[i].match \in M
  BY ProfileRules
<1>2. \A m \in M : m \in Seq(Labels) /\ Len(m) >= 2 /\ ToLower(m) = m
  BY FilterExternal, MatchTypes DEF ProfileMatches
<1>3. \A m \in M : m # <<>>
  BY <1>2
<1> HIDE DEF e, M
<1>4. \A i \in DOMAIN e : e[i].match # <<>> /\ ToLower(e[i].match) = e[i].match
  BY <1>1, <1>2, <1>3
<1>5. findMatchingRule(h, e) # <<>> <=> isCovered(ToLower(h), {e[i].match : i \in DOMAIN e})
  BY <1>1, <1>4, FirstMatch
<1> QED
  BY <1>1, <1>5 DEF e, M

\* The matches of a profile.
LEMMA ProfileMatchesOf ==
    ASSUME reported \in SUBSET Names, IsFiniteSet(reported), NEW o
    PROVE  MatchesOf(ProfileOf(o)) = ProfileMatches(reported, o.threshold)
<1> DEFINE p == SynthesizePolicy(reported, o.threshold, o.preset, o.mode)
<1>1. {p.egress[i].match : i \in DOMAIN p.egress} = ProfileMatches(reported, o.threshold)
  <2> HIDE DEF p
  <2>1. p = SynthesizePolicy(reported, o.threshold, o.preset, o.mode)
    BY DEF p
  <2> QED
    BY <2>1, ProfileRules
<1> QED
  BY <1>1 DEF MatchesOf, ProfileOf

\* What was observed and is not internal is let through.
LEMMA ProfileRoundTrip ==
    ASSUME reported \in SUBSET Names, IsFiniteSet(reported)
    PROVE  RoundTrip
<1> SUFFICES ASSUME NEW o \in Profiles
             PROVE  /\ Simulate(ProfileOf(o), reported).blocked = {}
                    /\ \A h \in FilterDomains(reported) :
                           isCovered(ToLower(h), MatchesOf(ProfileOf(o)))
  BY DEF RoundTrip
<1> DEFINE p == ProfileOf(o)
           M == ProfileMatches(reported, o.threshold)
<1>1. MatchesOf(p) = M
  BY ProfileMatchesOf
<1>2. \A h \in FilterDomains(reported) : isCovered(ToLower(h), M)
  BY FilterExternal, ClusterMatches DEF ProfileMatches, isCovered
<1>3. \A h : findMatchingRule(h, p.egress) # <<>> <=> isCovered(ToLower(h), M)
  BY ProfileMatched DEF ProfileOf
<1>4. Simulate(p, reported).blocked = Blocked(p, reported)
  BY DEF Simulate
<1> HIDE DEF p, M
<1>5. Blocked(p, reported) = {}
  BY <1>2, <1>3 DEF Blocked, FilterDomains
<1> QED
  BY <1>1, <1>2, <1>4, <1>5 DEF p

\* No pod queries a name with a label "*".
PlainNames == \A n \in Names : \A i \in DOMAIN n : n[i] # "*"

\* Each rule of a profile reaches exactly below the base domain of an observed
\* external name, or that name only; none is a wildcard over a top-level label or
\* over a suffix of the code's table.
LEMMA ProfileReach ==
    ASSUME PlainNames, NEW observed \in SUBSET Names, NEW t \in Int,
           NEW m \in ProfileMatches(observed, t)
    PROVE  \E n \in FilterDomains(observed) :
               \/ m = ToLower(n) /\ ~IsWildcard(m) /\ m[1] # "*"
               \/ m = Append(BaseDomain(n), "*") /\ IsWildcard(m)
                  /\ Front(m) = BaseDomain(n) /\ Len(m) >= 3
                  /\ BaseDomain(n) \notin commonMultiPartTLDs
<1>1. External(FilterDomains(observed))
  BY FilterExternal
<1>2. PICK n \in FilterDomains(observed) : m = ToLower(n) \/ m = Append(BaseDomain(n), "*")
  BY <1>1, ClusterMatches DEF ProfileMatches
<1>3. n \in Names /\ n \in Seq(Labels) /\ Len(n) >= 2 /\ Len(n) \in Nat /\ DOMAIN n = 1..Len(n)
  BY <1>1, LenProperties DEF External, FilterDomains
<1>4. CASE m = ToLower(n)
  <2>1. Len(m) = Len(n) /\ \A i \in 1..Len(n) : m[i] = Lower[n[i]] /\ n[i] # "*" /\ n[i] \in Labels
    BY <1>3, <1>4, ToLowerType, ElementOfSeq DEF PlainNames
  <2>2. \A i \in 1..Len(n) : m[i] # "*"
    BY <2>1, LabelConstants
  <2>3. m[1] # "*" /\ m[Len(n)] # "*"
    BY <1>3, <2>2
  <2> QED
    BY <1>4, <2>1, <2>3 DEF IsWildcard, Last
<1>5. CASE m = Append(BaseDomain(n), "*")
  <2>1. BaseDomain(n) \in Seq(Labels) /\ Len(BaseDomain(n)) >= 2 /\ Len(BaseDomain(n)) \in Nat
    BY <1>3, BaseDomainPrefix, LenProperties
  <2>2. \A x \in FilterDomains(observed) : \A i \in DOMAIN x : x[i] # "*"
    BY DEF PlainNames, FilterDomains
  <2>3. (IF t <= 0 THEN 3 ELSE t) \in Int
    OBVIOUS
  <2>4. BaseDomain(n) \notin commonMultiPartTLDs
    BY <1>1, <1>5, <2>1, <2>2, <2>3, SuffixUnclustered DEF ProfileMatches
  <2> QED
    BY <1>5, <2>1, <2>4, WildcardOf
<1> QED
  BY <1>2, <1>4, <1>5

\* What lies below the base domain of a name has that name's owner, if the base
\* domain is no suffix of the code's table and the table has the name's suffixes.
LEMMA BaseDomainOwned ==
    ASSUME NEW n \in Seq(Labels), Len(n) >= 2, ~Unlisted(n),
           BaseDomain(n) \notin commonMultiPartTLDs,
           NEW h \in Seq(Labels), IsPrefix(BaseDomain(n), ToLower(h))
    PROVE  SameOwner(n, h)
<1> DEFINE l == ToLower(n)
           b == BaseDomain(n)
<1>1. l \in Seq(Labels) /\ Len(l) = Len(n) /\ Len(n) \in Nat /\ \A i \in 1..Len(l) : l[i] \in Labels
  BY ToLowerType, LenProperties
<1>2. b \in Seq(Labels) /\ Len(b) >= 2 /\ Len(b) \in Nat /\ IsPrefix(b, l)
  BY BaseDomainPrefix, LenProperties
<1> HIDE DEF l, b
<1>3. Len(b) <= Len(l) /\ \A i \in 1..Len(b) : b[i] = l[i]
  BY <1>1, <1>2, PrefixElements
<1>4. SubSeq(l, 1, Len(b)) = b
  <2> DEFINE u == SubSeq(l, 1, Len(b))
  <2>1. \A i \in 1..Len(b) : l[i] \in Labels
    BY <1>1, <1>2, <1>3
  <2>2. u \in Seq(Labels) /\ Len(u) = Len(b) /\ \A i \in 1..Len(b) : u[i] = l[i]
    BY <1>2, <2>1, SubSeqProperties
  <2> HIDE DEF u
  <2>3. u = b
    BY <1>2, <1>3, <2>2, SeqEqual
  <2> QED
    BY <2>3 DEF u
<1>5. ASSUME NEW s \in PublicSuffixes, IsPrefix(s, l) PROVE ~IsPrefix(b, s)
  <2> SUFFICES ASSUME IsPrefix(b, s) PROVE FALSE
    OBVIOUS
  <2>1. s \in commonMultiPartTLDs
    BY <1>5 DEF Unlisted, l
  <2>2. s \in Seq(Labels) /\ Len(s) = 2
    BY <2>1, WorkflowConstants DEF commonMultiPartTLDs
  <2>3. Len(b) <= Len(s) /\ \A i \in 1..Len(b) : b[i] = s[i]
    BY <1>2, <2>2, PrefixElements
  <2>4. b = s
    BY <1>2, <2>2, <2>3, SeqEqual
  <2> QED
    BY <2>1, <2>4 DEF b
<1>6. Len(b) \in 2..Len(n)
  BY <1>1, <1>2, <1>3
<1>7. IsPrefix(b, ToLower(h))
  BY DEF b
<1> QED
  BY <1>4, <1>5, <1>6, <1>7 DEF SameOwner, l

\* What a profile lets through was observed, has the owner of an observed name, or
\* lies below a suffix that the code's table lacks.
LEMMA ProfileForeign ==
    ASSUME PlainNames, reported \in SUBSET Names, IsFiniteSet(reported)
    PROVE  NoForeignDomain
<1> DEFINE Home(h) ==
        \E n \in reported :
            \/ ToLower(h) = ToLower(n)
            \/ SameOwner(n, h)
            \/ Unlisted(n) /\ IsPrefix(BaseDomain(n), ToLower(h))
<1> SUFFICES ASSUME NEW o \in Profiles
             PROVE  /\ \A h \in Hostnames :
                           findMatchingRule(h, ProfileOf(o).egress) # <<>> => Home(h)
                    /\ ~Simulate(ProfileOf(o), reported).audits.everything
                    /\ ~Simulate(ProfileOf(o), reported).audits.wholeTopLevel
  BY Zenon DEF NoForeignDomain
<1> DEFINE p == ProfileOf(o)
           M == ProfileMatches(reported, o.threshold)
<1>1. MatchesOf(p) = M
  BY ProfileMatchesOf
<1>2. \A h : findMatchingRule(h, p.egress) # <<>> <=> isCovered(ToLower(h), M)
  BY ProfileMatched DEF ProfileOf
<1>3. ASSUME NEW m \in M
      PROVE  \E n \in FilterDomains(reported) :
               \/ m = ToLower(n) /\ ~IsWildcard(m) /\ m[1] # "*"
               \/ m = Append(BaseDomain(n), "*") /\ IsWildcard(m)
                  /\ Front(m) = BaseDomain(n) /\ Len(m) >= 3
                  /\ BaseDomain(n) \notin commonMultiPartTLDs
  BY WorkflowConstants, ProfileReach
<1>4. \A n \in FilterDomains(reported) : n \in reported /\ n \in Names /\ n \in Seq(Labels) /\ Len(n) >= 2
  BY FilterExternal DEF External, FilterDomains
<1> HIDE DEF p, M, Home
<1>5. ASSUME NEW h \in Hostnames, findMatchingRule(h, p.egress) # <<>>
      PROVE  Home(h)
  <2>1. PICK m \in M : matchesEgressRule(ToLower(h), m)
    BY <1>2, <1>5 DEF isCovered
  <2>2. PICK n \in FilterDomains(reported) :
            \/ m = ToLower(n) /\ ~IsWildcard(m)
            \/ IsWildcard(m) /\ Front(m) = BaseDomain(n)
               /\ m = Append(BaseDomain(n), "*") /\ BaseDomain(n) \notin commonMultiPartTLDs
    BY <1>3
  <2>3. CASE m = ToLower(n) /\ ~IsWildcard(m)
    <3>1. ToLower(h) = ToLower(n)
      BY <2>1, <2>3 DEF matchesEgressRule
    <3> QED
      BY <1>4, <3>1 DEF Home
  <2>4. CASE /\ IsWildcard(m) /\ Front(m) = BaseDomain(n)
             /\ m = Append(BaseDomain(n), "*") /\ BaseDomain(n) \notin commonMultiPartTLDs
    <3>1. BaseDomain(n) \in Seq(Labels)
      BY <1>4, BaseDomainPrefix
    <3>2. IsPrefix(BaseDomain(n), ToLower(h))
      <4>1. CASE ToLower(h) = m
        BY <2>4, <3>1, <4>1, WildcardPrefix
      <4> QED
        BY <2>1, <2>4, <4>1 DEF matchesEgressRule
    <3>3. Unlisted(n) \/ SameOwner(n, h)
      BY <1>4, <2>4, <3>2, WorkflowConstants, BaseDomainOwned
    <3> QED
      BY <1>4, <3>2, <3>3 DEF Home
  <2> QED
    BY <2>2, <2>3, <2>4
<1>6. M \cap {<<"*">>, <<"*", "*">>} = {}
  <2> SUFFICES ASSUME NEW m \in M, m = <<"*">> \/ m = <<"*", "*">> PROVE FALSE
    OBVIOUS
  <2>1. m = <<"*">> => m[1] = "*" /\ Len(m) = 1
    OBVIOUS
  <2>2. m = <<"*", "*">> => m[1] = "*" /\ Len(m) = 2
    OBVIOUS
  <2>3. m[1] = "*" /\ Len(m) \in 1..2
    BY <2>1, <2>2
  <2> QED
    BY <1>3, <2>3
<1>7. ~\E m \in M : IsWildcard(m) /\ Len(m) = 2
  BY <1>3
<1>8. Simulate(p, reported).audits = runSecurityAudits(p, Blocked(p, reported))
  BY DEF Simulate
<1>9. /\ runSecurityAudits(p, Blocked(p, reported)).everything <=> M \cap {<<"*">>, <<"*", "*">>} # {}
      /\ runSecurityAudits(p, Blocked(p, reported)).wholeTopLevel <=>
             \E m \in M : IsWildcard(m) /\ Len(m) = 2
  BY <1>1 DEF runSecurityAudits, MatchesOf
<1> QED
  BY <1>5, <1>6, <1>7, <1>8, <1>9 DEF p

\* The webhook accepts a profile of external names that fqdnRE knows.
LEMMA ProfileAccepted ==
    ASSUME PlainNames, reported \in SUBSET Names, IsFiniteSet(reported)
    PROVE  ProfileAdmissible
<1> DEFINE D == FilterDomains(reported)
<1> SUFFICES ASSUME D # {}, \A h \in D : fqdnRE(h), NEW o \in Profiles
             PROVE  Admitted(ProfileOf(o).egress, TRUE)
  BY DEF ProfileAdmissible, FilterDomains
<1> DEFINE e == ProfileOf(o).egress
           M == ProfileMatches(reported, o.threshold)
<1>1. /\ {e[i].match : i \in DOMAIN e} = M
      /\ \A i \in DOMAIN e : i \in Nat /\ e[i].match \in M /\ e[i].ports = {<<443, "TCP">>}
      /\ \A i, j \in DOMAIN e : e[i].match = e[j].match => i = j
      /\ e \in Seq(Rules)
  BY ProfileRules DEF ProfileOf
<1>2. M # {}
  <2>1. External(D)
    BY FilterExternal
  <2> QED
    BY <2>1, ClusterMatches DEF ProfileMatches
<1>3. \A m \in M : fqdnRE(m)
  <2> SUFFICES ASSUME NEW m \in M PROVE fqdnRE(m)
    OBVIOUS
  <2>1. PICK n \in D :
               \/ m = ToLower(n) /\ ~IsWildcard(m) /\ m[1] # "*"
               \/ m = Append(BaseDomain(n), "*") /\ IsWildcard(m)
                  /\ Front(m) = BaseDomain(n) /\ Len(m) >= 3
    BY WorkflowConstants, ProfileReach
  <2>2. n \in Names /\ n \in Seq(Labels) /\ Len(n) >= 2 /\ Len(n) \in Nat /\ DOMAIN n = 1..Len(n)
    BY FilterExternal, LenProperties DEF External, FilterDomains
  <2>3. ~IsWildcard(n)
    BY <2>2 DEF PlainNames, IsWildcard, Last
  <2>4. n[1] \in TopLabels /\ \A i \in 2..Len(n) : n[i] \in ValidLabels
    BY <2>3 DEF fqdnRE
  <2> DEFINE l == ToLower(n)
             b == BaseDomain(n)
  <2>5. l \in Seq(Labels) /\ Len(l) = Len(n) /\ \A i \in 1..Len(n) : l[i] = Lower[n[i]]
    BY <2>2, ToLowerType
  <2>6. l[1] \in TopLabels /\ \A i \in 2..Len(l) : l[i] \in ValidLabels
    BY <2>2, <2>4, <2>5, LabelConstants
  <2>7. b \in Seq(Labels) /\ Len(b) >= 2 /\ Len(b) \in Nat /\ IsPrefix(b, l)
    BY <2>2, BaseDomainPrefix, LenProperties
  <2> HIDE DEF l, b
  <2>8. Len(b) <= Len(l) /\ \A i \in 1..Len(b) : b[i] = l[i]
    BY <2>5, <2>7, PrefixElements
  <2>9. b[1] \in TopLabels /\ \A i \in 2..Len(b) : b[i] \in ValidLabels
    BY <2>2, <2>5, <2>6, <2>7, <2>8
  <2>10. CASE m = l /\ ~IsWildcard(m)
    BY <2>2, <2>5, <2>6, <2>10 DEF fqdnRE
  <2>11. CASE IsWildcard(m) /\ Front(m) = b
    BY <2>7, <2>9, <2>11 DEF fqdnRE
  <2> QED
    BY <2>1, <2>10, <2>11 DEF l, b
<1> HIDE DEF e, M
<1>4. e # <<>>
  BY <1>1, <1>2
<1>5. ASSUME NEW i \in DOMAIN e, NEW j \in 1..(i - 1), e[j].match = e[i].match PROVE FALSE
  <2>1. DOMAIN e = 1..Len(e) /\ Len(e) \in Nat
    BY <1>1, LenProperties
  <2>2. j \in DOMAIN e /\ j # i
    BY <2>1
  <2> QED
    BY <1>1, <1>5, <2>2
<1>6. ValidPort(<<443, "TCP">>)
  <2>1. "TCP" \in Protocols
    BY DEF Protocols
  <2> QED
    BY <2>1 DEF ValidPort
<1>7. ~validateEgressRules(e, TRUE)
  <2> SUFFICES ASSUME NEW i \in DOMAIN e
               PROVE  /\ fqdnRE(e[i].match)
                      /\ ~\E j \in 1..(i - 1) : e[j].match = e[i].match
                      /\ \A q \in e[i].ports : ValidPort(q)
    BY Zenon DEF validateEgressRules
  <2>1. fqdnRE(e[i].match)
    BY <1>1, <1>3
  <2>2. ~\E j \in 1..(i - 1) : e[j].match = e[i].match
    BY <1>5
  <2>3. \A q \in e[i].ports : ValidPort(q)
    <3>1. e[i].ports = {<<443, "TCP">>}
      BY <1>1, Zenon
    <3> QED
      BY <1>6, <3>1, Zenon
  <2> QED
    BY <2>1, <2>2, <2>3
<1> QED
  BY <1>4, <1>7 DEF Admitted, e
----------------------------------------------------------------------------
(* The state machine.                                                      *)

Manifests == [name: PolicyNames, mode: {"Enforce", "Audit"}, egress: Seq(Rules)]

\* Every copy of a policy: at the server, in the cache, in the running Reconcile.
Copies == Existing(policies) \cup Existing(cache) \cup (IF run = Nil THEN {} ELSE {run.obj})

\* The copies are policies.
CopiesOK ==
    /\ policies \in [PolicyNames -> Policies \cup {Nil}]
    /\ cache \in [PolicyNames -> Policies \cup {Nil}]
    /\ run = Nil \/ run \in Runs

\* Every copy of a policy's status lists only counted hostnames: what one copy
\* lists is new to another, stale one, which may be written over it.
CopiesCounted == \A p \in Copies : p.drift \subseteq counted

\* The hostnames are finitely many, so a manifest can list them.
NamesOK ==
    /\ store \in SUBSET Names /\ IsFiniteSet(store)
    /\ reported \in SUBSET Names /\ IsFiniteSet(reported)
    /\ counted \in SUBSET Names /\ IsFiniteSet(counted)

\* The rest of the state.
RestOK ==
    /\ flag \in BOOLEAN /\ snoop \in BOOLEAN /\ (snoop => flag)
    /\ cur \in [PolicyNames -> BOOLEAN]
    /\ manifest = Nil \/ manifest \in Manifests
    /\ queries \in 0..MaxQueries /\ left \in 0..MaxDisruptions

\* The inductive invariant.
DriftInv == CopiesOK /\ CopiesCounted /\ NamesOK /\ RestOK

\* The inductive invariant gives the invariants.
LEMMA DriftInvImplies ==
    ASSUME DriftInv
    PROVE  TypeOK /\ DriftCounted
<1>1. TypeOK
  BY DEF DriftInv, CopiesOK, NamesOK, RestOK, TypeOK
<1>2. DriftCounted
  BY DEF DriftInv, CopiesCounted, Copies, Existing, DriftCounted
<1> QED
  BY <1>1, <1>2

\* The drift of a copy is a finite set.
LEMMA DriftFinite ==
    ASSUME DriftInv, NEW p \in Copies
    PROVE  p.drift \in SUBSET Names /\ IsFiniteSet(p.drift)
<1>1. p.drift \in SUBSET counted
  BY DEF DriftInv, CopiesCounted
<1> QED
  BY <1>1, FS_Subset DEF DriftInv, NamesOK

\* Initially.
LEMMA DriftInit ==
    ASSUME Init
    PROVE  DriftInv
<1>1. PICK n \in DOMAIN Suggested, r \in RuleLists :
          policies = [m \in PolicyNames |-> IF m = n THEN NewPolicy(r, "Enforce") ELSE Nil]
  BY DEF Init
<1>2. NewPolicy(r, "Enforce") \in Policies /\ NewPolicy(r, "Enforce").drift = {}
  BY WorkflowConstants DEF NewPolicy, Policies
<1>3. policies \in [PolicyNames -> Policies \cup {Nil}] /\ cache = policies /\ run = Nil
  BY <1>1, <1>2 DEF Init
<1>4. CopiesOK
  BY <1>3 DEF CopiesOK
<1>5. CopiesCounted
  BY <1>1, <1>2, <1>3 DEF CopiesCounted, Copies, Existing
<1>6. NamesOK
  BY FS_EmptySet DEF NamesOK, Init
<1>7. RestOK
  BY WorkflowConstants DEF RestOK, Init
<1> QED
  BY <1>4, <1>5, <1>6, <1>7 DEF DriftInv

\* A user's write keeps the drift of the policy it changes, or starts with none.
LEMMA WriteStep ==
    ASSUME DriftInv, NEW n \in PolicyNames, NEW new \in Policies \cup {Nil}, WritePolicy(n, new),
           new # Nil => new.drift = {} \/ (policies[n] # Nil /\ new.drift = policies[n].drift),
           UNCHANGED <<cache, counted>>
    PROVE  CopiesOK' /\ CopiesCounted' /\ cur' \in [PolicyNames -> BOOLEAN]
<1>1. policies' \in [PolicyNames -> Policies \cup {Nil}]
      /\ policies' = [policies EXCEPT ![n] = new]
  BY DEF DriftInv, CopiesOK, WritePolicy
<1>2. run = Nil => run' = Nil
  BY DEF WritePolicy
<1>3. run # Nil => run' \in Runs /\ run'.obj = run.obj
  <2>1. run # Nil => run \in Runs
    BY DEF DriftInv, CopiesOK
  <2>2. run' = run \/ run' = [run EXCEPT !.cur = FALSE]
    BY DEF WritePolicy
  <2> QED
    BY <2>1, <2>2 DEF Runs
<1>4. CopiesOK'
  BY <1>1, <1>2, <1>3 DEF CopiesOK, DriftInv
<1>5. ASSUME NEW p \in Copies'
      PROVE  p.drift \subseteq counted'
  <2>1. p \in Copies \/ (p = new /\ new # Nil)
    BY <1>1, <1>2, <1>3, <1>5 DEF Copies, Existing
  <2>2. p \in Copies => p.drift \subseteq counted
    BY <1>5 DEF DriftInv, CopiesCounted
  <2>3. policies[n] # Nil => policies[n].drift \subseteq counted
    BY DEF DriftInv, CopiesCounted, Copies, Existing
  <2> QED
    BY <1>5, <2>1, <2>2, <2>3
<1>6. CopiesCounted'
  BY <1>5 DEF CopiesCounted
<1>7. cur' \in [PolicyNames -> BOOLEAN]
  BY DEF WritePolicy, DriftInv, RestOK
<1> QED
  BY <1>4, <1>6, <1>7

\* Status().Update writes the running copy's drift.
LEMMA StatusWriteStep ==
    ASSUME DriftInv, run # Nil, StatusAccepted, WriteStatus, run' = Nil, UNCHANGED <<cache, counted>>
    PROVE  CopiesOK' /\ CopiesCounted' /\ cur' \in [PolicyNames -> BOOLEAN]
<1>1. run \in Runs /\ policies[run.name] \in Policies /\ run.obj \in Policies
      /\ run.name \in PolicyNames
  BY DEF DriftInv, CopiesOK, Runs, StatusAccepted
<1> DEFINE new == [policies[run.name] EXCEPT !.drift = run.obj.drift]
<1>2. new \in Policies /\ new.drift = run.obj.drift
  BY <1>1 DEF Policies
<1>3. policies' = [policies EXCEPT ![run.name] = new]
  BY DEF WriteStatus
<1> HIDE DEF new
<1>4. CopiesOK'
  BY <1>1, <1>2, <1>3 DEF CopiesOK, DriftInv
<1>5. run.obj.drift \subseteq counted
  BY DEF DriftInv, CopiesCounted, Copies
<1>6. ASSUME NEW p \in Copies'
      PROVE  p.drift \subseteq counted'
  <2>1. p \in Copies \/ p = new
    BY <1>1, <1>3 DEF Copies, Existing, DriftInv, CopiesOK
  <2>2. p \in Copies => p.drift \subseteq counted
    BY <1>6 DEF DriftInv, CopiesCounted
  <2> QED
    BY <1>2, <1>5, <2>1, <2>2
<1>7. CopiesCounted'
  BY <1>6 DEF CopiesCounted
<1>8. cur' \in [PolicyNames -> BOOLEAN]
  BY DEF WriteStatus, DriftInv, RestOK
<1> QED
  BY <1>4, <1>7, <1>8

\* The steps of the proxy, of the observation and of Reconcile.
LEMMA ControllerStep ==
    ASSUME DriftInv,
           \/ \E h \in Names : Record(h)
           \/ MergeObserved
           \/ \E n \in PolicyNames : Reconcile(n) \/ Deliver(n)
           \/ ReconcileDriftFails \/ ReconcileFails \/ Restart
    PROVE  DriftInv'
<1> USE DEF DriftInv
<1>1. ASSUME NEW h \in Names, Record(h) PROVE DriftInv'
  <2>1. PICK old \in SUBSET (store \ {h}) : store' = (store \ old) \cup {h}
    BY <1>1 DEF Record
  <2>2. IsFiniteSet(store \ old)
    BY FS_Subset DEF NamesOK
  <2>3. IsFiniteSet(store')
    BY <2>1, <2>2, FS_AddElement
  <2>4. NamesOK'
    BY <1>1, <2>1, <2>3 DEF NamesOK, Record
  <2>5. CopiesOK' /\ CopiesCounted'
    BY <1>1 DEF CopiesOK, CopiesCounted, Copies, Existing, Record
  <2>6. RestOK'
    BY <1>1, WorkflowConstants DEF RestOK, Record
  <2> QED
    BY <2>4, <2>5, <2>6
<1>2. ASSUME MergeObserved PROVE DriftInv'
  <2>1. NamesOK'
    BY <1>2, FS_Union DEF NamesOK, MergeObserved
  <2>2. CopiesOK' /\ CopiesCounted'
    BY <1>2 DEF CopiesOK, CopiesCounted, Copies, Existing, MergeObserved
  <2>3. RestOK'
    BY <1>2 DEF RestOK, MergeObserved
  <2> QED
    BY <2>1, <2>2, <2>3
<1>3. ASSUME NEW n \in PolicyNames, ReconcileStart(n) PROVE DriftInv'
  <2>1. cache[n] \in Policies /\ cur[n] \in BOOLEAN /\ cache[n] \in Existing(cache)
    BY <1>3 DEF ReconcileStart, CopiesOK, RestOK, Existing
  <2>2. run' \in Runs /\ run'.obj = cache[n]
    BY <1>3, <2>1 DEF ReconcileStart, Runs
  <2>3. CopiesOK'
    BY <1>3, <2>2 DEF CopiesOK, ReconcileStart
  <2>4. CopiesCounted'
    BY <1>3, <2>1, <2>2 DEF CopiesCounted, Copies, Existing, ReconcileStart
  <2>5. NamesOK' /\ RestOK'
    BY <1>3 DEF NamesOK, RestOK, ReconcileStart
  <2> QED
    BY <2>3, <2>4, <2>5
<1>4. ASSUME ReconcileDrift PROVE DriftInv'
  <2> DEFINE new == computeUnpoliciedDomains
  <2>1. new \in SUBSET store
    BY DEF computeUnpoliciedDomains
  <2> HIDE DEF new
  <2>2. new \in SUBSET Names /\ IsFiniteSet(new)
    BY <2>1, FS_Subset DEF NamesOK
  <2>3. run \in Runs /\ run.obj \in Policies /\ run.obj.drift \subseteq counted /\ run # Nil
    BY <1>4 DEF ReconcileDrift, CopiesOK, CopiesCounted, Copies, Runs
  <2>4. CASE snoop
    <3>1. run' = [run EXCEPT !.recorded = TRUE, !.obj.drift = new]
          /\ counted' = counted \cup (new \ run.obj.drift)
      BY <1>4, <2>4 DEF ReconcileDrift, recordDrift, diffNewDomains, new
    <3>2. run' \in Runs /\ run'.obj.drift = new
      BY <2>2, <2>3, <3>1 DEF Runs, Policies
    <3>3. counted \subseteq counted' /\ new \subseteq counted'
      BY <2>3, <3>1
    <3>4. CopiesOK'
      BY <1>4, <3>2 DEF CopiesOK, ReconcileDrift
    <3>5. CopiesCounted'
      BY <1>4, <3>2, <3>3 DEF CopiesCounted, Copies, Existing, ReconcileDrift
    <3>6. IsFiniteSet(new \ run.obj.drift)
      BY <2>2, FS_Subset
    <3>7. NamesOK'
      BY <1>4, <2>2, <3>1, <3>6, FS_Union DEF NamesOK, ReconcileDrift
    <3>8. RestOK'
      BY <1>4 DEF RestOK, ReconcileDrift
    <3> QED
      BY <3>4, <3>5, <3>7, <3>8
  <2>5. CASE ~snoop
    <3>1. run' = [run EXCEPT !.recorded = TRUE] /\ counted' = counted
      BY <1>4, <2>5 DEF ReconcileDrift, recordDrift
    <3>2. run' \in Runs /\ run'.obj = run.obj
      BY <2>3, <3>1 DEF Runs
    <3>3. CopiesOK'
      BY <1>4, <3>2 DEF CopiesOK, ReconcileDrift
    <3>4. CopiesCounted'
      BY <1>4, <2>3, <3>1, <3>2 DEF CopiesCounted, Copies, Existing, ReconcileDrift
    <3>5. NamesOK' /\ RestOK'
      BY <1>4, <3>1 DEF NamesOK, RestOK, ReconcileDrift
    <3> QED
      BY <3>3, <3>4, <3>5
  <2> QED
    BY <2>4, <2>5
<1>5. ASSUME ReconcileDriftFails PROVE DriftInv'
  <2>1. run # Nil /\ run' = [run EXCEPT !.recorded = TRUE]
    BY <1>5 DEF ReconcileDriftFails
  <2>2. run' \in Runs /\ run'.obj = run.obj
    BY <2>1 DEF CopiesOK, Runs
  <2>3. CopiesOK'
    BY <1>5, <2>2 DEF CopiesOK, ReconcileDriftFails
  <2>4. CopiesCounted'
    BY <1>5, <2>1, <2>2 DEF CopiesCounted, Copies, Existing, ReconcileDriftFails
  <2>5. NamesOK' /\ RestOK'
    BY <1>5, WorkflowConstants DEF NamesOK, RestOK, ReconcileDriftFails, Disrupt
  <2> QED
    BY <2>3, <2>4, <2>5
<1>6. ASSUME UNCHANGED <<policies, cur, cache, counted>>, run' = Nil
      PROVE  CopiesOK' /\ CopiesCounted' /\ cur' \in [PolicyNames -> BOOLEAN]
  BY <1>6 DEF CopiesOK, CopiesCounted, Copies, Existing, RestOK
<1>7. ASSUME ReconcileStatus PROVE DriftInv'
  <2>1. CopiesOK' /\ CopiesCounted' /\ cur' \in [PolicyNames -> BOOLEAN]
    <3>1. CASE StatusAccepted
      BY <1>7, <3>1, StatusWriteStep DEF ReconcileStatus
    <3>2. CASE ~StatusAccepted
      BY <1>6, <1>7, <3>2 DEF ReconcileStatus
    <3> QED
      BY <3>1, <3>2
  <2>2. NamesOK' /\ RestOK'
    BY <1>7, <2>1 DEF NamesOK, RestOK, ReconcileStatus
  <2> QED
    BY <2>1, <2>2
<1>8. ASSUME ReconcileFails PROVE DriftInv'
  <2>1. CopiesOK' /\ CopiesCounted' /\ cur' \in [PolicyNames -> BOOLEAN]
    <3>1. CASE UNCHANGED <<policies, cur>>
      BY <1>6, <1>8, <3>1 DEF ReconcileFails
    <3>2. CASE StatusAccepted /\ WriteStatus
      BY <1>8, <3>2, StatusWriteStep DEF ReconcileFails
    <3> QED
      BY <1>8, <3>1, <3>2 DEF ReconcileFails
  <2>2. NamesOK' /\ RestOK'
    BY <1>8, <2>1, WorkflowConstants DEF NamesOK, RestOK, ReconcileFails, Disrupt
  <2> QED
    BY <2>1, <2>2
<1>9. ASSUME NEW n \in PolicyNames, Deliver(n) PROVE DriftInv'
  <2>1. CopiesOK' /\ cache' = [cache EXCEPT ![n] = policies[n]]
    BY <1>9 DEF CopiesOK, Deliver
  <2>2. Copies' \subseteq Copies
    BY <1>9, <2>1 DEF Copies, Existing, Deliver, CopiesOK
  <2>3. CopiesCounted'
    BY <1>9, <2>2 DEF CopiesCounted, Deliver
  <2>4. NamesOK' /\ RestOK'
    BY <1>9 DEF NamesOK, RestOK, Deliver
  <2> QED
    BY <2>1, <2>3, <2>4
<1>10. ASSUME Restart PROVE DriftInv'
  <2>1. CopiesOK'
    BY <1>10 DEF CopiesOK, Restart
  <2>2. Copies' \subseteq Copies
    BY <1>10 DEF Copies, Existing, Restart
  <2>3. CopiesCounted'
    BY <1>10, <2>2 DEF CopiesCounted, Restart
  <2>4. NamesOK'
    BY <1>10, FS_EmptySet DEF NamesOK, Restart
  <2>5. flag' \in BOOLEAN /\ snoop' \in BOOLEAN /\ (snoop' => flag')
    BY <1>10 DEF Restart, Started
  <2>6. RestOK'
    BY <1>10, <2>5, WorkflowConstants DEF RestOK, Restart, Disrupt
  <2> QED
    BY <2>1, <2>3, <2>4, <2>6
<1> QED
  BY <1>1, <1>2, <1>3, <1>4, <1>5, <1>7, <1>8, <1>9, <1>10 DEF Reconcile

\* A manifest that suggest or profile prints is well formed.
LEMMA ManifestStep ==
    ASSUME DriftInv,
           (\E n \in PolicyNames : runSuggest(n)) \/ (\E o \in Profiles : runProfile(o))
    PROVE  DriftInv'
<1> USE DEF DriftInv
<1>1. ASSUME manifest' \in Manifests, Disrupt,
             UNCHANGED <<flag, snoop, store, reported, policies, cache, cur, run, counted, queries>>
      PROVE  DriftInv'
  <2>1. CopiesOK' /\ CopiesCounted'
    BY <1>1 DEF CopiesOK, CopiesCounted, Copies, Existing
  <2>2. NamesOK' /\ RestOK'
    BY <1>1, WorkflowConstants DEF NamesOK, RestOK, Disrupt
  <2> QED
    BY <2>1, <2>2
<1>2. ASSUME NEW n \in PolicyNames, runSuggest(n) PROVE DriftInv'
  <2> DEFINE D == policies[n].drift
             rule == [h \in D |-> [match |-> h, ports |-> {}]]
             R == {[match |-> h, ports |-> {}] : h \in D}
  <2>1. policies[n] \in Copies
    BY <1>2 DEF runSuggest, Copies, Existing
  <2>2. D \in SUBSET Names /\ IsFiniteSet(D)
    BY <2>1, DriftFinite
  <2>3. manifest' = [name |-> Suggested[n], mode |-> "Audit", egress |-> SetToSeq(R)]
        /\ n \in DOMAIN Suggested
    BY <1>2 DEF runSuggest
  <2> HIDE DEF D
  <2>4. IsFiniteSet(R)
    <3>1. R = {rule[h] : h \in DOMAIN rule} /\ DOMAIN rule = D
      OBVIOUS
    <3> HIDE DEF R, rule
    <3> QED
      BY <2>2, <3>1, ImageFinite
  <2>5. R \subseteq Rules
    BY <2>2, WorkflowConstants DEF Rules
  <2> HIDE DEF R
  <2>6. SetToSeq(R) \in Seq(Rules)
    BY <2>4, <2>5, SetToSeqLists, SeqMonotonic
  <2>7. manifest' \in Manifests
    BY <2>3, <2>6, WorkflowConstants DEF Manifests
  <2> QED
    BY <1>1, <1>2, <2>7 DEF runSuggest
<1>3. ASSUME NEW o \in Profiles, runProfile(o) PROVE DriftInv'
  <2> DEFINE p == SynthesizePolicy(reported, o.threshold, o.preset, o.mode)
  <2>1. p.egress \in Seq(Rules) /\ p.mode = o.mode
    BY ProfileRules DEF NamesOK
  <2>2. manifest' = [name |-> Profiled, mode |-> p.mode, egress |-> p.egress]
    BY <1>3 DEF runProfile
  <2> HIDE DEF p
  <2>3. manifest' \in Manifests
    BY <2>1, <2>2, WorkflowConstants DEF Manifests
  <2> QED
    BY <1>1, <1>3, <2>3 DEF runProfile
<1> QED
  BY <1>2, <1>3

\* The operator's writes.
LEMMA OperatorStep ==
    ASSUME DriftInv,
           \/ Apply
           \/ \E n \in PolicyNames, r \in RuleLists : EditPolicy(n, r, "Enforce")
           \/ \E n \in PolicyNames : DeletePolicy(n)
    PROVE  DriftInv'
<1> USE DEF DriftInv
<1>1. ASSUME Disrupt, CopiesOK' /\ CopiesCounted' /\ cur' \in [PolicyNames -> BOOLEAN],
             UNCHANGED <<flag, snoop, store, reported, cache, manifest, counted, queries>>
      PROVE  DriftInv'
  BY <1>1, WorkflowConstants DEF NamesOK, RestOK, Disrupt
<1>2. ASSUME Apply PROVE DriftInv'
  <2> DEFINE n == manifest.name
             new == IF policies[n] = Nil THEN NewPolicy(manifest.egress, manifest.mode)
                    ELSE [policies[n] EXCEPT !.egress = manifest.egress, !.mode = manifest.mode]
  <2>1. manifest \in Manifests
    BY <1>2 DEF Apply, RestOK
  <2>2. n \in PolicyNames /\ manifest.mode \in {"Enforce", "Audit"} /\ manifest.egress \in Seq(Rules)
    BY <2>1 DEF Manifests
  <2>3. new \in Policies
        /\ (new.drift = {} \/ (policies[n] # Nil /\ new.drift = policies[n].drift))
    <3>1. CASE policies[n] = Nil
      BY <2>2, <3>1 DEF NewPolicy, Policies
    <3>2. CASE policies[n] # Nil
      <4>1. policies[n] \in Policies
        BY <2>2, <3>2 DEF CopiesOK
      <4> QED
        BY <2>2, <3>2, <4>1 DEF Policies
    <3> QED
      BY <3>1, <3>2
  <2>4. WritePolicy(n, new) /\ UNCHANGED <<cache, counted>>
    BY <1>2 DEF Apply
  <2> HIDE DEF n, new
  <2>5. CopiesOK' /\ CopiesCounted' /\ cur' \in [PolicyNames -> BOOLEAN]
    BY <2>2, <2>3, <2>4, WriteStep DEF n
  <2> QED
    BY <1>1, <1>2, <2>5 DEF Apply
<1>3. ASSUME NEW n \in PolicyNames, NEW r \in RuleLists, EditPolicy(n, r, "Enforce")
      PROVE  DriftInv'
  <2> DEFINE new == [policies[n] EXCEPT !.egress = r, !.mode = "Enforce"]
  <2>1. policies[n] \in Policies /\ policies[n] # Nil
    BY <1>3 DEF EditPolicy, CopiesOK
  <2>2. new \in Policies /\ new.drift = policies[n].drift
    BY <2>1, WorkflowConstants DEF Policies
  <2>3. WritePolicy(n, new) /\ UNCHANGED <<cache, counted>>
    BY <1>3 DEF EditPolicy
  <2> HIDE DEF new
  <2>4. CopiesOK' /\ CopiesCounted' /\ cur' \in [PolicyNames -> BOOLEAN]
    BY <2>1, <2>2, <2>3, WriteStep
  <2> QED
    BY <1>1, <1>3, <2>4 DEF EditPolicy
<1>4. ASSUME NEW n \in PolicyNames, DeletePolicy(n) PROVE DriftInv'
  <2>1. CopiesOK' /\ CopiesCounted' /\ cur' \in [PolicyNames -> BOOLEAN]
    BY <1>4, WriteStep DEF DeletePolicy
  <2> QED
    BY <1>1, <1>4, <2>1 DEF DeletePolicy
<1> QED
  BY <1>2, <1>3, <1>4

\* The invariant is inductive.
LEMMA DriftStep ==
    ASSUME DriftInv, [Next]_vars
    PROVE  DriftInv'
<1>1. CASE Next
  BY <1>1, ControllerStep, ManifestStep, OperatorStep DEF Next
<1>2. CASE UNCHANGED vars
  BY <1>2 DEF vars, DriftInv, CopiesOK, CopiesCounted, Copies, Existing, NamesOK, RestOK
<1> QED
  BY <1>1, <1>2

\* In every reachable state.
LEMMA DriftInvariant == Spec => []DriftInv
<1>1. Init => DriftInv
  BY DriftInit
<1>2. DriftInv /\ [Next]_vars => DriftInv'
  BY DriftStep
<1> QED
  BY <1>1, <1>2, PTL DEF Spec
----------------------------------------------------------------------------
(* Theorems.                                                               *)

\* The state is well formed, the manifests that suggest and profile print and an
\* operator applies later included.
THEOREM DriftTypeCorrect == Spec => []TypeOK
<1>1. DriftInv => TypeOK
  BY DriftInvImplies
<1> QED
  BY <1>1, DriftInvariant, PTL

\* recordDrift counts every hostname before a status reports it, whatever copies
\* the reconciles worked on and whichever updates were lost.
THEOREM CountedBeforeReported == Spec => []DriftCounted
<1>1. DriftInv => DriftCounted
  BY DriftInvImplies
<1> QED
  BY <1>1, DriftInvariant, PTL

\* The profile of what was observed blocks nothing of it, for every set of names,
\* spelling and threshold.
THEOREM ProfileLetsThrough == Spec => []RoundTrip
<1>1. DriftInv => RoundTrip
  BY ProfileRoundTrip DEF DriftInv, NamesOK
<1> QED
  BY <1>1, DriftInvariant, PTL

\* Where no pod queries a name with a label "*": whatever the public suffixes are,
\* a profile lets through, besides what was observed, only names with the owner of
\* an observed name, except below a suffix missing from the code's table.
THEOREM ProfileStaysHome ==
    ASSUME PlainNames
    PROVE  Spec => []NoForeignDomain
<1>1. DriftInv => NoForeignDomain
  BY ProfileForeign DEF DriftInv, NamesOK
<1> QED
  BY <1>1, DriftInvariant, PTL

\* Where no pod queries a name with a label "*", the profile of names the webhook
\* knows is one the webhook and the schema accept.
THEOREM ProfileReadyToApply ==
    ASSUME PlainNames
    PROVE  Spec => []ProfileAdmissible
<1>1. DriftInv => ProfileAdmissible
  BY ProfileAccepted DEF DriftInv, NamesOK
<1> QED
  BY <1>1, DriftInvariant, PTL
=============================================================================
