--------------------------- MODULE ResolverChain ---------------------------
(***************************************************************************)
(* The resolvers behind dns.Resolver for one hostname: SnoopResolver on    *)
(* top of MultiResolver, their two IPCaches, the ActiveResolver they fall  *)
(* back to (internal/dns), and the reconcile workers that call Resolve and *)
(* pass the answer through the filters of PolicyLogic.                     *)
(*                                                                         *)
(* MultiResolver starts one goroutine per upstream and record type; each   *)
(* answer is a step of its own, between the steps of other workers, of the *)
(* DNS proxy and of the clock.  Lifetimes count down instead of comparing  *)
(* with an absolute clock.  A response is the set of its addresses, the    *)
(* minimum TTL of its records and the length of its CNAME chain; Nil is an *)
(* error, NXDOMAIN or an answer without addresses, which the code treats   *)
(* alike.                                                                  *)
(***************************************************************************)
EXTENDS PolicyLogic, FiniteSetsExt

CONSTANTS
    Workers,       \* the reconcile workers sharing the resolver
    QTypes,        \* record types: A and AAAA
    Responses,     \* responses, by upstream and record type
    FirstAnswers,  \* what the upstreams may answer at first
    System,        \* the upstream in /etc/resolv.conf
    SnoopUpstream, \* the upstream of the DNS proxy
    Snoop,         \* the snoop resolver is enabled
    Security,      \* the SecuritySpec of the policy being resolved
    ttlFloor, ttlCeiling, defaultTTL,
    QueryTimeout,  \* how long a query may take
    MaxDisruptions \* bound on changes of DNS and on lost queries

VARIABLES
    answers,   \* what each upstream answers now
    cache,     \* MultiResolver's IPCache: remaining lifetimes
    observed,  \* SnoopResolver's IPCache
    pc,        \* per worker: "idle", "query", "fallback", "done"
    call,      \* per worker: the Resolve in progress
    result,    \* per worker: what Resolve returned; Nil: an error
    recent,    \* history: how long the policies still rely on an address
    relayed,   \* history: the rest of the TTL an address was last relayed with
    left

vars == <<answers, cache, observed, pc, call, result, recent, relayed, left>>

Queries == Upstreams \X QTypes
Response == UNION {Responses[c] : c \in Queries}

MaxLife == IF defaultTTL > ttlCeiling THEN defaultTTL ELSE ttlCeiling

ASSUME ChainConstants ==
    /\ IsFiniteSet(Upstreams) /\ IsFiniteSet(QTypes)
    /\ System \in Upstreams /\ SnoopUpstream \in Upstreams
    /\ Snoop \in BOOLEAN
    /\ Security \in SecuritySpecs \cup {Nil}
    /\ \A r \in Response : r \in [ips: (SUBSET IPs) \ {{}}, ttl: 0..ttlCeiling, depth: Nat]
    /\ FirstAnswers \subseteq [Queries -> Response \cup {Nil}]
    /\ \A f \in FirstAnswers, c \in Queries : f[c] \in Responses[c] \cup {Nil}
    /\ Nil \notin Response
    /\ ttlFloor \in Nat \ {0} /\ ttlCeiling \in Nat /\ ttlFloor <= ttlCeiling
    /\ defaultTTL \in Nat \ {0} /\ QueryTimeout \in Nat /\ MaxDisruptions \in Nat

NoAnswer == [u \in {} |-> {}]
NoCall == [seen |-> {}, got |-> NoAnswer, elapsed |-> 0]

Init ==
    /\ answers \in FirstAnswers
    /\ cache = [ip \in IPs |-> 0] /\ observed = [ip \in IPs |-> 0]
    /\ pc = [w \in Workers |-> "idle"]
    /\ call = [w \in Workers |-> NoCall]
    /\ result = [w \in Workers |-> Nil]
    /\ recent = [ip \in IPs |-> 0] /\ relayed = [ip \in IPs |-> 0]
    /\ left = MaxDisruptions

Disrupt == left > 0 /\ left' = left - 1
----------------------------------------------------------------------------
(* IPCache.                                                                *)

Get(c) == {ip \in IPs : c[ip] > 0}

\* Mutant of Record: the new answer replaces the live addresses.
RecordReplacing(c, ips, ttl) == [ip \in IPs |-> IF ip \in ips THEN ttl ELSE 0]

\* Live addresses are kept, those of the new answer get its TTL; a TTL of 0
\* counts as the default.
Record(c, ips, ttl) ==
    [ip \in IPs |-> IF ip \in ips
                    THEN IF ttl = 0 THEN defaultTTL ELSE ttl
                    ELSE c[ip]]

clampTTL(d) == IF d < ttlFloor THEN ttlFloor ELSE IF d > ttlCeiling THEN ttlCeiling ELSE d
----------------------------------------------------------------------------
(* Resolve.                                                                *)

\* Mutant of Combine: the error of MultiResolver is swallowed.
CombineAnyway(seen, res) ==
    IF ~Snoop THEN res
    ELSE IF res # Nil THEN [res EXCEPT !.ips = seen \cup @, !.depth = 0]
    ELSE [ips |-> seen, results |-> NoAnswer, depth |-> 0]

\* What Resolve returns from an answer of MultiResolver: the snoop resolver
\* adds the addresses its proxy saw and drops the CNAME chain.
Combine(seen, res) ==
    IF ~Snoop THEN res
    ELSE IF res # Nil THEN [res EXCEPT !.ips = seen \cup @, !.depth = 0]
    ELSE IF seen # {} THEN [ips |-> seen, results |-> NoAnswer, depth |-> 0]
    ELSE Nil

Finish(w, seen, res) ==
    /\ pc' = [pc EXCEPT ![w] = "done"]
    /\ result' = [result EXCEPT ![w] = Combine(seen, res)]
    /\ call' = [call EXCEPT ![w] = NoCall]

Unexplained(ips) == [ips |-> ips, results |-> NoAnswer, depth |-> 0]

\* Mutant of ResolveHit: a hit renews the lifetime of what it found.
ResolveHitRenewing(w) ==
    /\ pc[w] = "idle" /\ Get(cache) # {}
    /\ cache' = Record(cache, Get(cache), defaultTTL)
    /\ Finish(w, Get(observed), Unexplained(Get(cache)))
    /\ UNCHANGED <<answers, observed, recent, relayed, left>>

\* A cache hit: no query, no per-upstream results, no CNAME chain.
ResolveHit(w) ==
    /\ pc[w] = "idle" /\ Get(cache) # {}
    /\ Finish(w, Get(observed), Unexplained(Get(cache)))
    /\ UNCHANGED <<answers, cache, observed, recent, relayed, left>>

ResolveMiss(w) ==
    /\ pc[w] = "idle" /\ Get(cache) = {}
    /\ pc' = [pc EXCEPT ![w] = "query"]
    /\ call' = [call EXCEPT ![w].seen = Get(observed)]
    /\ UNCHANGED <<answers, cache, observed, result, recent, relayed, left>>

\* A goroutine sends its result; one without addresses sends nothing.
QueryReturns(w, c) ==
    /\ pc[w] = "query" /\ c \notin DOMAIN call[w].got /\ answers[c] # Nil
    /\ call' = [call EXCEPT ![w].got =
                    [d \in DOMAIN @ \cup {c} |-> IF d = c THEN answers[c] ELSE @[d]]]
    /\ UNCHANGED <<answers, cache, observed, pc, result, recent, relayed, left>>

AnsweredIPs(got) == UNION {got[c].ips : c \in DOMAIN got}

\* All goroutines have ended: the queries that sent nothing had no answer to
\* send, or timed out or lost a packet.
AllEnded(w) ==
    LET lost == {c \in Queries \ DOMAIN call[w].got : answers[c] # Nil}
    IN /\ pc[w] = "query"
       /\ Cardinality(lost) <= left
       /\ left' = left - Cardinality(lost)

\* Each upstream that answered, with what its A and AAAA queries returned.
ResolverResults(got) ==
    [u \in {c[1] : c \in DOMAIN got} |->
        UNION {got[c].ips : c \in {d \in DOMAIN got : d[1] = u}}]

\* The smallest positive TTL, ttlCeiling if there is none.
MinTTL(got) == Min(({got[c].ttl : c \in DOMAIN got} \ {0}) \cup {ttlCeiling})

\* The first answer with a CNAME chain decides; answers come in any order.
FirstChain(depths) == IF depths \subseteq {0} THEN {0} ELSE depths \ {0}

\* The union of the answers is recorded and returned.
ResolveAggregate(w) ==
    LET got == call[w].got
        ips == AnsweredIPs(got)
        ttl == clampTTL(MinTTL(got))
    IN /\ AllEnded(w)
       /\ ips # {}
       /\ cache' = Record(cache, ips, ttl)
       /\ \E d \in FirstChain({got[c].depth : c \in DOMAIN got}) :
              Finish(w, call[w].seen, [ips |-> ips, results |-> ResolverResults(got), depth |-> d])
       /\ recent' = [ip \in IPs |-> IF ip \in ips THEN ttlFloor ELSE recent[ip]]
       /\ UNCHANGED <<answers, observed, relayed>>

\* No upstream answered.
ResolveNoAnswer(w) ==
    /\ AllEnded(w)
    /\ call[w].got = NoAnswer
    /\ pc' = [pc EXCEPT ![w] = "fallback"]
    /\ UNCHANGED <<answers, cache, observed, call, result, recent, relayed>>

\* ActiveResolver.Resolve: both record types of the system nameserver.  One
\* that fails is ignored if the other has addresses; the library lookup made
\* after a failed exchange returns no CNAME chain.  Nothing is cached.
ActiveResolutions(given) ==
    IF given = {} THEN {Nil}
    ELSE {[ips |-> UNION {r.ips : r \in given}, results |-> NoAnswer, depth |-> d] :
             d \in FirstChain({r.depth : r \in given}) \cup {0}}

ResolveFallback(w) ==
    /\ pc[w] = "fallback"
    /\ \E failed \in SUBSET {q \in QTypes : answers[<<System, q>>] # Nil} :
        /\ Cardinality(failed) <= left
        /\ left' = left - Cardinality(failed)
        /\ \E res \in ActiveResolutions({answers[<<System, q>>] : q \in QTypes \ failed} \ {Nil}) :
               Finish(w, call[w].seen, res)
    /\ UNCHANGED <<answers, cache, observed, recent, relayed>>

\* What the caller's filters leave of the answer.
Admitted(w) == IF result[w] = Nil THEN {} ELSE AllowedIPs(result[w], Security)

\* The caller is done with the answer; its RequeueAfter brings it back.
Requeue(w) ==
    /\ pc[w] = "done"
    /\ pc' = [pc EXCEPT ![w] = "idle"]
    /\ result' = [result EXCEPT ![w] = Nil]
    /\ UNCHANGED <<answers, cache, observed, call, recent, relayed, left>>

\* handleQuery: the proxy answers a pod and records what it relays.
HandleQuery(q) ==
    LET r == answers[<<SnoopUpstream, q>>]
    IN /\ Snoop /\ r # Nil
       /\ observed' = Record(observed, r.ips, r.ttl)
       /\ relayed' = [ip \in IPs |-> IF ip \in r.ips THEN r.ttl ELSE relayed[ip]]
       /\ UNCHANGED <<answers, cache, pc, call, result, recent, left>>
----------------------------------------------------------------------------
(* Time and DNS.                                                           *)

Down(f) == [ip \in IPs |-> IF f[ip] > 0 THEN f[ip] - 1 ELSE 0]

\* Time passes; a query takes no longer than its timeout.
Tick ==
    /\ \A w \in Workers : pc[w] \in {"query", "fallback"} => call[w].elapsed < QueryTimeout
    /\ cache' = Down(cache) /\ observed' = Down(observed)
    /\ recent' = Down(recent) /\ relayed' = Down(relayed)
    /\ call' = [w \in Workers |-> IF pc[w] \in {"query", "fallback"}
                                  THEN [call[w] EXCEPT !.elapsed = @ + 1] ELSE call[w]]
    /\ UNCHANGED <<answers, pc, result, left>>

DNSChange(c, r) ==
    /\ Disrupt
    /\ r # answers[c]
    /\ answers' = [answers EXCEPT ![c] = r]
    /\ UNCHANGED <<cache, observed, pc, call, result, recent, relayed>>

Resolve(w) ==
    \/ ResolveHit(w) \/ ResolveMiss(w) \/ \E c \in Queries : QueryReturns(w, c)
    \/ ResolveAggregate(w) \/ ResolveNoAnswer(w) \/ ResolveFallback(w)
    \/ Requeue(w)

Next ==
    \/ \E w \in Workers : Resolve(w)
    \/ \E q \in QTypes : HandleQuery(q)
    \/ Tick
    \/ \E c \in Queries : \E r \in Responses[c] \cup {Nil} : DNSChange(c, r)

Spec == Init /\ [][Next]_vars

\* Every reconcile requeues itself, so workers keep calling; queries end by
\* answer or timeout; time passes between the calls.
FairSpec == Spec /\ SF_vars(Tick) /\ \A w \in Workers : WF_vars(Resolve(w))
----------------------------------------------------------------------------
(* Properties.                                                             *)

\* Type invariant.  What Resolve returns without error is a Resolution as the
\* reconcilers assume it: at least one address, per-upstream results only of
\* upstreams that answered.
TypeOK ==
    /\ answers \in [Queries -> Response \cup {Nil}]
    /\ cache \in [IPs -> 0..MaxLife] /\ observed \in [IPs -> 0..MaxLife]
    /\ pc \in [Workers -> {"idle", "query", "fallback", "done"}]
    /\ \A w \in Workers : /\ DOMAIN call[w].got \subseteq Queries
                          /\ call[w].elapsed \in 0..QueryTimeout
                          /\ result[w] \in Resolutions \cup {Nil}
    /\ left \in 0..MaxDisruptions

\* ip_cache.go "keeping them alive for ttl duration", across racing callers: an
\* address one worker's answer brought in stays in the cache for the floor, and
\* an address the proxy gave a pod stays observed for the TTL of the last answer
\* that contained it, whatever other answers are recorded meanwhile.
NothingForgotten ==
    \A ip \in IPs : recent[ip] <= cache[ip] /\ relayed[ip] <= observed[ip]

CurrentIPs == UNION {answers[c].ips : c \in {d \in Queries : answers[d] # Nil}}

\* Once DNS stops changing, what Resolve returns becomes and stays exactly what
\* the upstreams answer, although hits and pods keep using the caches: no stale
\* address keeps itself alive, no current one stays missing.
EventuallyCurrent ==
    <>[](\A w \in Workers : pc[w] = "done" =>
            IF CurrentIPs = {} THEN result[w] = Nil
            ELSE result[w] # Nil /\ result[w].ips = CurrentIPs)

AgreeingUpstreams(ip) ==
    {u \in Upstreams : \E q \in QTypes : answers[<<u, q>>] # Nil /\ ip \in answers[<<u, q>>].ips}

\* README "An IP only makes it into the allow-list once at least this many
\* upstream resolvers agree on it" (security.minResolverAgreement; stated for
\* DNS that does not change).
ConsensusHonoured ==
    \A w \in Workers : \A ip \in Admitted(w) :
        Cardinality(AgreeingUpstreams(ip)) >= MinAgreement(Security)
=============================================================================
