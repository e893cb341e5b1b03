------------------------ MODULE ResolverChainProofs ------------------------
(***************************************************************************)
(* Proofs about ResolverChain, for every set of workers, upstreams, record *)
(* types and responses, and every choice of the TTL constants.             *)
(***************************************************************************)
EXTENDS ResolverChain, PolicyLogicProofs

\* What the goroutines of one call may have sent so far.
Gathered == UNION {[D -> Response] : D \in SUBSET Queries}

Calls == [seen: SUBSET IPs, got: Gathered, elapsed: 0..QueryTimeout]

\* TypeOK is not inductive: what Resolve returns is put together from the call
\* in progress.
ChainInv ==
    /\ answers \in [Queries -> Response \cup {Nil}]
    /\ cache \in [IPs -> 0..MaxLife] /\ observed \in [IPs -> 0..MaxLife]
    /\ pc \in [Workers -> {"idle", "query", "fallback", "done"}]
    /\ call \in [Workers -> Calls]
    /\ result \in [Workers -> Resolutions \cup {Nil}]
    /\ recent \in [IPs -> Nat] /\ relayed \in [IPs -> Nat]
    /\ left \in 0..MaxDisruptions

----------------------------------------------------------------------------
(* Operators.                                                              *)

\* The longest life of a cached address.
LEMMA MaxLifeType ==
    /\ ttlFloor \in Nat /\ ttlCeiling \in Nat /\ defaultTTL \in Nat /\ MaxLife \in Nat
    /\ 0 < ttlFloor /\ 0 < defaultTTL
    /\ ttlFloor <= ttlCeiling /\ ttlCeiling <= MaxLife /\ defaultTTL <= MaxLife
BY ChainConstants DEF MaxLife

\* The fields of a response.
LEMMA ResponseType ==
    ASSUME NEW r \in Response
    PROVE  /\ r.ips \subseteq IPs /\ r.ips # {} /\ r.ttl \in 0..ttlCeiling /\ r.ttl \in Nat
           /\ r.depth \in Nat
<1>1. r \in [ips: (SUBSET IPs) \ {{}}, ttl: 0..ttlCeiling, depth: Nat]
  BY ChainConstants
<1>2. ttlCeiling \in Nat
  BY ChainConstants
<1> QED
  BY <1>1, <1>2

\* Record keeps every lifetime within its bound.
LEMMA RecordType ==
    ASSUME NEW c \in [IPs -> 0..MaxLife], NEW ips, NEW ttl \in 0..ttlCeiling
    PROVE  Record(c, ips, ttl) \in [IPs -> 0..MaxLife]
<1>1. (IF ttl = 0 THEN defaultTTL ELSE ttl) \in 0..MaxLife
  BY MaxLifeType
<1> QED
  BY <1>1 DEF Record

\* Time keeps every lifetime within its bound.
LEMMA DownType ==
    ASSUME NEW f \in [IPs -> Nat], NEW ip \in IPs
    PROVE  /\ Down(f)[ip] \in Nat /\ Down(f)[ip] <= f[ip]
           /\ Down(f)[ip] = IF f[ip] > 0 THEN f[ip] - 1 ELSE 0
BY DEF Down

\* A clamped TTL lies between floor and ceiling.
LEMMA ClampType ==
    ASSUME NEW d \in Nat
    PROVE  clampTTL(d) \in ttlFloor..ttlCeiling
BY MaxLifeType DEF clampTTL

\* The smallest TTL of the answers of a call.
LEMMA MinTTLType ==
    ASSUME NEW got \in Gathered
    PROVE  MinTTL(got) \in Nat
<1> DEFINE ttls == ({got[c].ttl : c \in DOMAIN got} \ {0}) \cup {ttlCeiling}
<1>1. \A c \in DOMAIN got : got[c] \in Response
  BY DEF Gathered
<1>2. ttls \subseteq Nat
  BY <1>1, ResponseType, MaxLifeType
<1>3. ttls # {}
  OBVIOUS
<1>4. Min(ttls) \in ttls
  BY <1>2, <1>3, MinExists
<1> QED
  BY <1>2, <1>4 DEF MinTTL

\* The per-upstream results of an answer that has none.
LEMMA NoAnswerType ==
    /\ NoAnswer \in UNION {[U -> (SUBSET IPs) \ {{}}] : U \in SUBSET Upstreams}
    /\ NoAnswer \in Gathered
    /\ NoCall \in Calls
<1>1. NoAnswer \in [{} -> (SUBSET IPs) \ {{}}] /\ NoAnswer \in [{} -> Response]
  BY DEF NoAnswer
<1>2. {} \in SUBSET Upstreams /\ {} \in SUBSET Queries
  OBVIOUS
<1>3. NoAnswer \in Gathered
  BY <1>1, <1>2 DEF Gathered
<1>4. NoCall \in Calls
  BY <1>3, ChainConstants DEF NoCall, Calls
<1> QED
  BY <1>1, <1>2, <1>3, <1>4

\* A resolution without per-upstream results.
LEMMA BareResolution ==
    ASSUME NEW ips, ips \subseteq IPs, ips # {}, NEW d \in Nat
    PROVE  [ips |-> ips, results |-> NoAnswer, depth |-> d] \in Resolutions
BY NoAnswerType DEF Resolutions

\* What the snoop resolver makes of an answer is an answer or an error.
LEMMA CombineType ==
    ASSUME NEW seen, seen \subseteq IPs, NEW res \in Resolutions \cup {Nil}
    PROVE  Combine(seen, res) \in Resolutions \cup {Nil}
<1>1. CASE ~Snoop
  BY <1>1 DEF Combine
<1>2. CASE Snoop /\ res # Nil
  <2>1. res \in Resolutions /\ Combine(seen, res) = [res EXCEPT !.ips = seen \cup @, !.depth = 0]
    BY <1>2 DEF Combine
  <2> DEFINE both == seen \cup res.ips
  <2>2. both \in (SUBSET IPs) \ {{}}
    BY <2>1 DEF Resolutions
  <2>3. Combine(seen, res) = [res EXCEPT !.ips = both, !.depth = 0]
    BY <2>1 DEF Resolutions
  <2> HIDE DEF both
  <2>4. [res EXCEPT !.ips = both, !.depth = 0] \in Resolutions
    BY <2>1, <2>2 DEF Resolutions
  <2> QED
    BY <2>3, <2>4
<1>3. CASE Snoop /\ res = Nil
  BY <1>3, BareResolution DEF Combine
<1> QED
  BY <1>1, <1>2, <1>3

\* MultiResolver's answer is a resolution: the results name only upstreams
\* that answered, each with at least one address.
LEMMA AggregateType ==
    ASSUME NEW got \in Gathered, AnsweredIPs(got) # {},
           NEW d \in FirstChain({got[c].depth : c \in DOMAIN got})
    PROVE  /\ AnsweredIPs(got) \subseteq IPs
           /\ [ips |-> AnsweredIPs(got), results |-> ResolverResults(got), depth |-> d]
                  \in Resolutions
<1>1. DOMAIN got \subseteq Queries /\ \A c \in DOMAIN got : got[c] \in Response
  BY DEF Gathered
<1>2. \A c \in DOMAIN got : got[c].ips \subseteq IPs /\ got[c].ips # {} /\ got[c].depth \in Nat
  BY <1>1, ResponseType
<1>3. AnsweredIPs(got) \subseteq IPs
  BY <1>2 DEF AnsweredIPs
<1>4. d \in Nat
  BY <1>2 DEF FirstChain
<1> DEFINE U == {c[1] : c \in DOMAIN got}
           of(u) == UNION {got[c].ips : c \in {e \in DOMAIN got : e[1] = u}}
<1>5. U \subseteq Upstreams
  BY <1>1 DEF Queries
<1>6. \A u \in U : of(u) \in (SUBSET IPs) \ {{}}
  BY <1>2
<1>7. ResolverResults(got) \in [U -> (SUBSET IPs) \ {{}}]
  BY <1>6 DEF ResolverResults
<1>8. ResolverResults(got) \in UNION {[V -> (SUBSET IPs) \ {{}}] : V \in SUBSET Upstreams}
  <2> HIDE DEF U
  <2> QED
    BY <1>5, <1>7
<1> QED
  BY <1>3, <1>4, <1>8 DEF Resolutions

\* ActiveResolver's answer.
LEMMA ActiveType ==
    ASSUME NEW given, given \subseteq Response, NEW res \in ActiveResolutions(given)
    PROVE  res \in Resolutions \cup {Nil}
<1>1. CASE given = {}
  BY <1>1 DEF ActiveResolutions
<1>2. CASE given # {}
  <2>1. \A r \in given : r.ips \subseteq IPs /\ r.ips # {} /\ r.depth \in Nat
    BY ResponseType
  <2> DEFINE ips == UNION {r.ips : r \in given}
  <2>2. ips \subseteq IPs /\ ips # {}
    BY <1>2, <2>1
  <2>3. PICK d \in FirstChain({r.depth : r \in given}) \cup {0} :
            res = [ips |-> ips, results |-> NoAnswer, depth |-> d]
    BY <1>2 DEF ActiveResolutions
  <2>4. d \in Nat
    BY <2>1 DEF FirstChain
  <2> QED
    BY <2>2, <2>3, <2>4, BareResolution
<1> QED
  BY <1>1, <1>2

\* Queries can be counted.
LEMMA QueriesFinite ==
    ASSUME NEW S, S \subseteq Queries
    PROVE  Cardinality(S) \in Nat
<1>1. IsFiniteSet(Queries)
  BY ChainConstants, FS_Product DEF Queries
<1> QED
  BY <1>1, FS_Subset, FS_CardinalityType
----------------------------------------------------------------------------
(* Type correctness.                                                       *)

\* The end of a Resolve.
LEMMA FinishType ==
    ASSUME ChainInv, NEW w \in Workers, NEW seen, seen \subseteq IPs,
           NEW res \in Resolutions \cup {Nil}, Finish(w, seen, res)
    PROVE  /\ pc' \in [Workers -> {"idle", "query", "fallback", "done"}]
           /\ result' \in [Workers -> Resolutions \cup {Nil}]
           /\ call' \in [Workers -> Calls]
<1>1. Combine(seen, res) \in Resolutions \cup {Nil}
  BY CombineType
<1>2. NoCall \in Calls
  BY NoAnswerType
<1> QED
  BY <1>1, <1>2 DEF ChainInv, Finish

\* Typed calls and results are what TypeOK asks of them.
LEMMA CallType ==
    ASSUME NEW w \in Workers, call \in [Workers -> Calls]
    PROVE  /\ call[w] \in Calls /\ call[w].seen \subseteq IPs /\ call[w].got \in Gathered
           /\ DOMAIN call[w].got \subseteq Queries /\ call[w].elapsed \in 0..QueryTimeout
<1>1. call[w] \in Calls /\ call[w].seen \subseteq IPs /\ call[w].got \in Gathered
      /\ call[w].elapsed \in 0..QueryTimeout
  BY DEF Calls
<1>2. DOMAIN call[w].got \subseteq Queries
  BY <1>1 DEF Gathered
<1> QED
  BY <1>1, <1>2

\* A call that ends loses at most as many queries as disruptions are left.
LEMMA AllEndedType ==
    ASSUME ChainInv, NEW w \in Workers, AllEnded(w)
    PROVE  left' \in 0..MaxDisruptions
<1> DEFINE lost == {c \in Queries \ DOMAIN call[w].got : answers[c] # Nil}
<1>1. Cardinality(lost) \in Nat
  BY QueriesFinite
<1>2. Cardinality(lost) <= left /\ left' = left - Cardinality(lost)
  BY DEF AllEnded
<1> HIDE DEF lost
<1> QED
  BY <1>1, <1>2, ChainConstants DEF ChainInv

\* Every step keeps the invariant.
LEMMA ChainStep == ChainInv /\ [Next]_vars => ChainInv'
<1> SUFFICES ASSUME ChainInv, [Next]_vars PROVE ChainInv'
  OBVIOUS
<1> USE DEF ChainInv
<1>0. \A w \in Workers : /\ call[w] \in Calls /\ call[w].seen \subseteq IPs
                         /\ call[w].got \in Gathered /\ DOMAIN call[w].got \subseteq Queries
                         /\ call[w].elapsed \in 0..QueryTimeout
  BY CallType
<1>1. ASSUME NEW w \in Workers, ResolveHit(w) PROVE ChainInv'
  <2>1. /\ Get(observed) \subseteq IPs
        /\ Unexplained(Get(cache)) \in Resolutions
    BY <1>1, BareResolution DEF ResolveHit, Get, Unexplained
  <2>2. /\ pc' \in [Workers -> {"idle", "query", "fallback", "done"}]
        /\ result' \in [Workers -> Resolutions \cup {Nil}] /\ call' \in [Workers -> Calls]
    BY <1>1, <2>1, FinishType DEF ResolveHit
  <2> QED
    BY <1>1, <2>2 DEF ResolveHit
<1>2. ASSUME NEW w \in Workers, ResolveMiss(w) PROVE ChainInv'
  <2>1. Get(observed) \subseteq IPs
    BY DEF Get
  <2>2. call' = [call EXCEPT ![w] = [call[w] EXCEPT !.seen = Get(observed)]]
    BY <1>2 DEF ResolveMiss
  <2>3. [call[w] EXCEPT !.seen = Get(observed)] \in Calls
    BY <1>0, <2>1 DEF Calls
  <2>4. call' \in [Workers -> Calls]
    BY <2>2, <2>3
  <2> QED
    BY <1>2, <2>4 DEF ResolveMiss
<1>3. ASSUME NEW w \in Workers, NEW c \in Queries, QueryReturns(w, c) PROVE ChainInv'
  <2> DEFINE got == call[w].got
             more == [d \in DOMAIN got \cup {c} |-> IF d = c THEN answers[c] ELSE got[d]]
  <2>1. more \in Gathered
    <3>1. DOMAIN got \cup {c} \in SUBSET Queries
      BY <1>0
    <3>2. answers[c] \in Response /\ \A d \in DOMAIN got : got[d] \in Response
      BY <1>0, <1>3 DEF QueryReturns, Gathered
    <3>3. more \in [DOMAIN got \cup {c} -> Response]
      BY <3>2
    <3> QED
      BY <3>1, <3>3 DEF Gathered
  <2>2. call' = [call EXCEPT ![w] = [call[w] EXCEPT !.got = more]]
    BY <1>0, <1>3 DEF QueryReturns, Calls
  <2> HIDE DEF more
  <2>3. [call[w] EXCEPT !.got = more] \in Calls
    BY <1>0, <2>1 DEF Calls
  <2>4. call' \in [Workers -> Calls]
    BY <2>2, <2>3
  <2> QED
    BY <1>3, <2>4 DEF QueryReturns
<1>4. ASSUME NEW w \in Workers, ResolveAggregate(w) PROVE ChainInv'
  <2> DEFINE got == call[w].got
             ttl == clampTTL(MinTTL(got))
  <2>1. got \in Gathered /\ AnsweredIPs(got) # {} /\ AllEnded(w)
    BY <1>0, <1>4 DEF ResolveAggregate
  <2>2. ttl \in 0..ttlCeiling
    BY <2>1, MinTTLType, ClampType, MaxLifeType
  <2>3. cache' = Record(cache, AnsweredIPs(got), ttl)
    BY <1>4 DEF ResolveAggregate
  <2>4. cache' \in [IPs -> 0..MaxLife]
    BY <2>2, <2>3, RecordType
  <2>5. PICK d \in FirstChain({got[c].depth : c \in DOMAIN got}) :
            Finish(w, call[w].seen, [ips |-> AnsweredIPs(got), results |-> ResolverResults(got),
                                     depth |-> d])
    BY <1>4 DEF ResolveAggregate
  <2>6. /\ pc' \in [Workers -> {"idle", "query", "fallback", "done"}]
        /\ result' \in [Workers -> Resolutions \cup {Nil}] /\ call' \in [Workers -> Calls]
    BY <1>0, <2>1, <2>5, AggregateType, FinishType
  <2>7. recent' \in [IPs -> Nat]
    BY <1>4, MaxLifeType DEF ResolveAggregate
  <2>8. left' \in 0..MaxDisruptions
    BY <2>1, AllEndedType
  <2> QED
    BY <1>4, <2>4, <2>6, <2>7, <2>8 DEF ResolveAggregate
<1>5. ASSUME NEW w \in Workers, ResolveNoAnswer(w) PROVE ChainInv'
  <2>1. left' \in 0..MaxDisruptions
    BY <1>5, AllEndedType DEF ResolveNoAnswer
  <2> QED
    BY <1>5, <2>1 DEF ResolveNoAnswer
<1>6. ASSUME NEW w \in Workers, ResolveFallback(w) PROVE ChainInv'
  <2>1. PICK failed \in SUBSET {q \in QTypes : answers[<<System, q>>] # Nil} :
            /\ Cardinality(failed) <= left
            /\ left' = left - Cardinality(failed)
            /\ \E res \in ActiveResolutions(
                              {answers[<<System, q>>] : q \in QTypes \ failed} \ {Nil}) :
                   Finish(w, call[w].seen, res)
    BY <1>6 DEF ResolveFallback
  <2>2. {answers[<<System, q>>] : q \in QTypes \ failed} \ {Nil} \subseteq Response
    <3>1. System \in Upstreams
      BY ChainConstants
    <3>2. \A q \in QTypes : answers[<<System, q>>] \in Response \cup {Nil}
      BY <3>1 DEF Queries
    <3> QED
      BY <3>2
  <2>3. /\ pc' \in [Workers -> {"idle", "query", "fallback", "done"}]
        /\ result' \in [Workers -> Resolutions \cup {Nil}] /\ call' \in [Workers -> Calls]
    BY <1>0, <2>1, <2>2, ActiveType, FinishType
  <2>4. IsFiniteSet(failed)
    BY ChainConstants, FS_Subset
  <2>5. Cardinality(failed) \in Nat
    BY <2>4, FS_CardinalityType
  <2>6. left' \in 0..MaxDisruptions
    BY <2>1, <2>5, ChainConstants
  <2> QED
    BY <1>6, <2>3, <2>6 DEF ResolveFallback
<1>7. ASSUME NEW w \in Workers, Requeue(w) PROVE ChainInv'
  BY <1>7 DEF Requeue
<1>8. ASSUME NEW q \in QTypes, HandleQuery(q) PROVE ChainInv'
  <2> DEFINE r == answers[<<SnoopUpstream, q>>]
  <2>1. r \in Response
    BY <1>8, ChainConstants DEF HandleQuery, Queries
  <2>2. r.ttl \in 0..ttlCeiling /\ r.ttl \in Nat
    BY <2>1, ResponseType
  <2>3. observed' = Record(observed, r.ips, r.ttl)
    BY <1>8 DEF HandleQuery
  <2>4. observed' \in [IPs -> 0..MaxLife]
    BY <2>2, <2>3, RecordType
  <2>5. relayed' \in [IPs -> Nat]
    BY <1>8, <2>2 DEF HandleQuery
  <2> QED
    BY <1>8, <2>4, <2>5 DEF HandleQuery
<1>9. CASE Tick
  <2>1. cache' \in [IPs -> 0..MaxLife] /\ observed' \in [IPs -> 0..MaxLife]
    BY <1>9, MaxLifeType DEF Tick, Down
  <2>2. recent' \in [IPs -> Nat] /\ relayed' \in [IPs -> Nat]
    BY <1>9 DEF Tick, Down
  <2>3. call' \in [Workers -> Calls]
    <3> SUFFICES ASSUME NEW w \in Workers, pc[w] \in {"query", "fallback"}
                 PROVE  [call[w] EXCEPT !.elapsed = @ + 1] \in Calls
      BY <1>0, <1>9 DEF Tick
    <3>1. call[w].elapsed < QueryTimeout /\ QueryTimeout \in Nat
      BY <1>9, ChainConstants DEF Tick
    <3>2. call[w].elapsed + 1 \in 0..QueryTimeout
      BY <1>0, <3>1
    <3>3. [call[w] EXCEPT !.elapsed = @ + 1] = [call[w] EXCEPT !.elapsed = call[w].elapsed + 1]
      BY <1>0 DEF Calls
    <3> QED
      BY <1>0, <3>2, <3>3 DEF Calls
  <2> QED
    BY <1>9, <2>1, <2>2, <2>3 DEF Tick
<1>10. ASSUME NEW c \in Queries, NEW r \in Responses[c] \cup {Nil}, DNSChange(c, r) PROVE ChainInv'
  <2>1. r \in Response \cup {Nil}
    BY DEF Response
  <2>2. left' \in 0..MaxDisruptions
    BY <1>10, ChainConstants DEF DNSChange, Disrupt
  <2>3. answers' \in [Queries -> Response \cup {Nil}]
    BY <1>10, <2>1 DEF DNSChange
  <2> QED
    BY <1>10, <2>2, <2>3 DEF DNSChange
<1>11. CASE UNCHANGED vars
  BY <1>11 DEF vars
<1> QED
  BY <1>1, <1>2, <1>3, <1>4, <1>5, <1>6, <1>7, <1>8, <1>9, <1>10, <1>11 DEF Next, Resolve

\* The invariant holds initially and throughout.
LEMMA ChainInvariant == Spec => []ChainInv
<1>1. Init => ChainInv
  <2> SUFFICES ASSUME Init PROVE ChainInv
    OBVIOUS
  <2>1. NoCall \in Calls
    BY NoAnswerType
  <2>2. left \in 0..MaxDisruptions
    BY ChainConstants DEF Init
  <2>3. cache \in [IPs -> 0..MaxLife] /\ observed \in [IPs -> 0..MaxLife]
    BY MaxLifeType DEF Init
  <2>4. call \in [Workers -> Calls] /\ recent \in [IPs -> Nat] /\ relayed \in [IPs -> Nat]
    BY <2>1 DEF Init
  <2>5. answers \in [Queries -> Response \cup {Nil}]
    BY ChainConstants DEF Init
  <2> QED
    BY <2>2, <2>3, <2>4, <2>5 DEF Init, ChainInv
<1> QED
  BY <1>1, ChainStep, PTL DEF Spec

\* What Resolve returns without error is a Resolution as the reconcilers assume
\* it, at least one address and per-upstream results only of upstreams that
\* answered, whatever answers, losses and other workers' calls it met.
THEOREM ChainTypeCorrect == Spec => []TypeOK
<1>1. ChainInv => TypeOK
  BY CallType DEF ChainInv, TypeOK
<1> QED
  BY <1>1, ChainInvariant, PTL
----------------------------------------------------------------------------
(* Nothing is forgotten early.                                             *)

\* The cache outlives what the policies rely on.
LEMMA RecentStep ==
    ASSUME ChainInv, [Next]_vars, \A ip \in IPs : recent[ip] <= cache[ip]
    PROVE  \A ip \in IPs : recent'[ip] <= cache'[ip]
<1> USE DEF ChainInv
<1>1. CASE UNCHANGED <<cache, recent>>
  BY <1>1
<1>2. ASSUME NEW w \in Workers, ResolveAggregate(w)
      PROVE  \A ip \in IPs : recent'[ip] <= cache'[ip]
  <2> DEFINE ips == AnsweredIPs(call[w].got)
             ttl == clampTTL(MinTTL(call[w].got))
  <2>1. /\ cache' = Record(cache, ips, ttl)
        /\ recent' = [ip \in IPs |-> IF ip \in ips THEN ttlFloor ELSE recent[ip]]
    BY <1>2 DEF ResolveAggregate
  <2>2. ttl \in ttlFloor..ttlCeiling
    BY CallType, MinTTLType, ClampType
  <2>3. ttl # 0 /\ ttlFloor <= ttl
    BY <2>2, MaxLifeType
  <2> HIDE DEF ips, ttl
  <2> QED
    BY <2>1, <2>3 DEF Record
<1>3. CASE Tick
  <2> SUFFICES ASSUME NEW ip \in IPs PROVE Down(recent)[ip] <= Down(cache)[ip]
    BY <1>3 DEF Tick
  <2>1. recent[ip] \in Nat /\ cache[ip] \in Nat /\ recent[ip] <= cache[ip]
    BY MaxLifeType
  <2> QED
    BY <2>1 DEF Down
<1>4. ASSUME NEW w \in Workers, NEW c \in Queries, QueryReturns(w, c)
      PROVE  \A ip \in IPs : recent'[ip] <= cache'[ip]
  BY <1>1, <1>4 DEF QueryReturns
<1>5. ASSUME NEW w \in Workers, \/ ResolveHit(w) \/ ResolveMiss(w) \/ ResolveNoAnswer(w)
                                \/ ResolveFallback(w) \/ Requeue(w)
      PROVE  \A ip \in IPs : recent'[ip] <= cache'[ip]
  BY <1>1, <1>5 DEF ResolveHit, ResolveMiss, ResolveNoAnswer, ResolveFallback, Requeue
<1>6. ASSUME NEW q \in QTypes, HandleQuery(q) PROVE \A ip \in IPs : recent'[ip] <= cache'[ip]
  BY <1>1, <1>6 DEF HandleQuery
<1>7. ASSUME NEW c \in Queries, NEW r \in Responses[c] \cup {Nil}, DNSChange(c, r)
      PROVE  \A ip \in IPs : recent'[ip] <= cache'[ip]
  BY <1>1, <1>7 DEF DNSChange
<1>8. CASE UNCHANGED vars
  BY <1>1, <1>8 DEF vars
<1> QED
  BY <1>2, <1>3, <1>4, <1>5, <1>6, <1>7, <1>8 DEF Next, Resolve

\* The snoop cache outlives what the proxy told pods.
LEMMA RelayedStep ==
    ASSUME ChainInv, [Next]_vars, \A ip \in IPs : relayed[ip] <= observed[ip]
    PROVE  \A ip \in IPs : relayed'[ip] <= observed'[ip]
<1> USE DEF ChainInv
<1>1. CASE UNCHANGED <<observed, relayed>>
  BY <1>1
<1>2. ASSUME NEW q \in QTypes, HandleQuery(q)
      PROVE  \A ip \in IPs : relayed'[ip] <= observed'[ip]
  <2> DEFINE r == answers[<<SnoopUpstream, q>>]
  <2>1. /\ observed' = Record(observed, r.ips, r.ttl)
        /\ relayed' = [ip \in IPs |-> IF ip \in r.ips THEN r.ttl ELSE relayed[ip]]
    BY <1>2 DEF HandleQuery
  <2>2. r \in Response
    BY <1>2, ChainConstants DEF HandleQuery, Queries
  <2>3. r.ttl \in Nat
    BY <2>2, ResponseType
  <2> HIDE DEF r
  <2> SUFFICES ASSUME NEW ip \in IPs PROVE relayed'[ip] <= observed'[ip]
    OBVIOUS
  <2>4. CASE ip \in r.ips
    <3>1. relayed'[ip] = r.ttl
      BY <2>1, <2>4
    <3>2. observed'[ip] = IF r.ttl = 0 THEN defaultTTL ELSE r.ttl
      BY <2>1, <2>4 DEF Record
    <3> QED
      BY <2>3, <3>1, <3>2, MaxLifeType
  <2>5. CASE ip \notin r.ips
    BY <2>1, <2>5 DEF Record
  <2> QED
    BY <2>4, <2>5
<1>3. CASE Tick
  <2> SUFFICES ASSUME NEW ip \in IPs PROVE Down(relayed)[ip] <= Down(observed)[ip]
    BY <1>3 DEF Tick
  <2>1. relayed[ip] \in Nat /\ observed[ip] \in Nat /\ relayed[ip] <= observed[ip]
    BY MaxLifeType
  <2> QED
    BY <2>1 DEF Down
<1>4. ASSUME NEW w \in Workers, NEW c \in Queries, QueryReturns(w, c)
      PROVE  \A ip \in IPs : relayed'[ip] <= observed'[ip]
  BY <1>1, <1>4 DEF QueryReturns
<1>5. ASSUME NEW w \in Workers, \/ ResolveHit(w) \/ ResolveMiss(w) \/ ResolveAggregate(w)
                                \/ ResolveNoAnswer(w) \/ ResolveFallback(w) \/ Requeue(w)
      PROVE  \A ip \in IPs : relayed'[ip] <= observed'[ip]
  BY <1>1, <1>5 DEF ResolveHit, ResolveMiss, ResolveAggregate, ResolveNoAnswer, ResolveFallback,
                    Requeue
<1>6. ASSUME NEW c \in Queries, NEW r \in Responses[c] \cup {Nil}, DNSChange(c, r)
      PROVE  \A ip \in IPs : relayed'[ip] <= observed'[ip]
  BY <1>1, <1>6 DEF DNSChange
<1>7. CASE UNCHANGED vars
  BY <1>1, <1>7 DEF vars
<1> QED
  BY <1>2, <1>3, <1>4, <1>5, <1>6, <1>7 DEF Next, Resolve

\* No address leaves an IPCache early, whatever TTLs the upstreams give: the cache
\* of MultiResolver keeps it for the floor after every answer, the cache of the
\* proxy for the TTL it was last relayed with.  Record merges, it never replaces,
\* whatever calls of other workers and other record types come between.
THEOREM Remembered == Spec => []NothingForgotten
<1>1. Init => NothingForgotten
  BY DEF Init, NothingForgotten
<1>2. ChainInv /\ NothingForgotten /\ [Next]_vars => NothingForgotten'
  BY RecentStep, RelayedStep DEF NothingForgotten
<1> QED
  BY <1>1, <1>2, ChainInvariant, PTL DEF Spec
=============================================================================
