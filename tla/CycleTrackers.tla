--------------------------- MODULE CycleTrackers ---------------------------
(***************************************************************************)
(* What a reconcile cycle tracks besides addresses: the TTL queue that     *)
(* gives its RequeueAfter, the churn tracker and the ASN enrichment.       *)
(*                                                                         *)
(* The two policy reconcilers run concurrently and share one ChurnTracker  *)
(* and one enrichment Manager (cmd/main.go).  The Manager has a bounded    *)
(* queue that reconcilers never wait on, workers that look addresses up    *)
(* and a cache with an age limit.  Reconciler and ClusterReconciler have   *)
(* the rest of a cycle.                                                    *)
(*                                                                         *)
(* Within a cycle time is counted from its start; the ages of cached       *)
(* enrichments, thousands of times longer, are counted by Tick.            *)
(***************************************************************************)
EXTENDS TTLQueue, SequencesExt

CONSTANTS
    Nil,
    Ips,
    Results,           \* what the lookup service may say of an address
    NoData,            \* its answer without ASN, organisation and country
    Workers,           \* enrichWorkers
    EnrichQueueLen,
    CacheTTL,          \* in ticks
    ChurnRingSize,
    TTLFloor, PollInterval, TTLCeiling,
    Setups,            \* policies and DNS answers, see Init
    InitTruth          \* what the service says at first

Reconcilers == {"policy", "cluster"}

Hosts == UNION {UNION {Range(s.rules[r]) : r \in {x \in Reconcilers : s.rules[x] # Nil}} :
                s \in Setups}

ASSUME TrackerConstants ==
    /\ NoData \in Results /\ InitTruth \in [Ips -> Results] /\ IsFiniteSet(Ips)
    /\ {CacheTTL, ChurnRingSize, TTLFloor, PollInterval, EnrichQueueLen} \subseteq Nat \ {0}
    /\ TTLCeiling \in Nat /\ TTLFloor <= PollInterval /\ PollInterval <= TTLCeiling
    /\ \A s \in Setups :
           /\ \A r \in Reconcilers : s.rules[r] = Nil \/ s.rules[r] \in Seq(Hosts)
           /\ {s.maxElapsed, s.maxDisruptions} \cup s.ttls \subseteq Nat
           /\ s.enricher \in BOOLEAN
           /\ s.override = Nil \/ s.override \in TTLFloor..TTLCeiling
           /\ \A a \in s.answers : a = Nil \/ a \subseteq Ips

VARIABLES
    setup,    \* rules: the hostnames of each policy, or Nil without a policy;
              \* ttls: res.TTL; answers: the allowed addresses, Nil when all are
              \* blocked; override: resolutionTTLOverride; enricher: configured;
              \* maxElapsed: bound on the duration of a cycle; maxDisruptions:
              \* bound on failures, restarts and reassigned addresses
    run,      \* the running cycle of each reconciler, or Nil
    status,   \* status.resolvedHosts: hostname, addresses and enrichments
    requeue,  \* RequeueAfter of the last cycle, Nil while it runs or if it failed
    rings,    \* ChurnTracker.history
    recent,   \* history: the last ChurnRingSize sets recorded for a hostname
    entries,  \* the enrichment cache: result and age, or Nil
    queue,    \* the channel of requests
    jobs,     \* what each worker processes, or Nil
    truth,    \* what the service says of an address now
    cycled,   \* reconcilers that had a whole cycle since the last Tick
    left      \* disruptions left

vars == <<setup, run, status, requeue, rings, recent, entries, queue, jobs, truth, cycled, left>>

NewRing == [slots |-> [i \in 1..ChurnRingSize |-> {}], head |-> 1]

Init ==
    /\ setup \in Setups
    /\ run = [r \in Reconcilers |-> Nil]
    /\ status = [r \in Reconcilers |-> <<>>]
    /\ requeue = [r \in Reconcilers |-> Nil]
    /\ rings = [h \in Hosts |-> NewRing] /\ recent = [h \in Hosts |-> <<>>]
    /\ entries = [ip \in Ips |-> Nil]
    /\ queue = <<>> /\ jobs = [w \in Workers |-> Nil]
    /\ truth = InitTruth
    /\ cycled = {} /\ left = setup.maxDisruptions

Disrupt == left > 0 /\ left' = left - 1
----------------------------------------------------------------------------
(* The churn tracker.                                                      *)

\* Mutant of RecordRing: the head stays when it should wrap around.
RecordRingNoWrap(ring, ips) ==
    [slots |-> [ring.slots EXCEPT ![ring.head] = ips],
     head  |-> IF ring.head = ChurnRingSize THEN ChurnRingSize ELSE ring.head + 1]

\* A slot not yet written counts as the empty set.
RecordRing(ring, ips) ==
    [slots |-> [ring.slots EXCEPT ![ring.head] = ips],
     head  |-> (ring.head % ChurnRingSize) + 1]

ChurnRate(ring) == Cardinality(UNION Range(ring.slots))

Record(h, ips) ==
    /\ rings' = [rings EXCEPT ![h] = RecordRing(@, ips)]
    /\ recent' = [recent EXCEPT ![h] =
                     LET all == Append(@, ips)
                     IN  IF Len(all) > ChurnRingSize THEN Tail(all) ELSE all]
----------------------------------------------------------------------------
(* A cycle.  run[r].at is its point: "rules" between rules, "request",     *)
(* "send" and "get" while buildIPEnrichments handles run[r].todo[1].       *)

Start(r) ==
    /\ run[r] = Nil /\ setup.rules[r] # Nil
    /\ run' = [run EXCEPT ![r] = [rules |-> setup.rules[r], now |-> 0, ttlQueue |-> NewTTLQueue,
                                  at |-> "rules", todo |-> <<>>, resolved |-> <<>>, whole |-> TRUE]]
    /\ requeue' = [requeue EXCEPT ![r] = Nil]
    /\ UNCHANGED <<setup, status, rings, recent, entries, queue, jobs, truth, cycled, left>>

AtRule(r) == run[r] # Nil /\ run[r].at = "rules" /\ run[r].rules # <<>>

\* The first entry of the host is kept, if there is one.
findPrevious(r, h) == {i \in DOMAIN status[r] : status[r][i].host = h}

\* The previous entry is kept, and refreshed after PollInterval; the cluster
\* reconciler keeps it without asking for a refresh.
ResolveFails(r) ==
    /\ Disrupt
    /\ AtRule(r)
    /\ LET c    == run[r]
           h    == Head(c.rules)
           prev == findPrevious(r, h)
       IN \E now \in c.now..setup.maxElapsed :
              run' = [run EXCEPT ![r] =
                  [c EXCEPT !.rules = Tail(c.rules), !.now = now,
                            !.resolved = IF prev = {} THEN c.resolved
                                         ELSE Append(c.resolved, status[r][Min(prev)]),
                            !.ttlQueue = IF prev = {} \/ r = "cluster" THEN c.ttlQueue
                                         ELSE Upsert(c.ttlQueue, h, now + PollInterval)]]
    /\ UNCHANGED <<setup, status, requeue, rings, recent, entries, queue, jobs, truth, cycled>>

\* An answer: its TTL is queued even when no address is allowed.
ResolveSucceeds(r) ==
    /\ AtRule(r)
    /\ \E now \in run[r].now..setup.maxElapsed, ttl \in setup.ttls, ips \in setup.answers :
           LET c    == run[r]
               h    == Head(c.rules)
               next == now + (IF ttl = 0 THEN PollInterval ELSE ttl)
               kept == [host |-> h, ips |-> ips, enrichments |-> <<>>]
           IN /\ run' = [run EXCEPT ![r] =
                     [c EXCEPT !.rules = Tail(c.rules), !.now = now,
                               !.ttlQueue = Upsert(c.ttlQueue, h, next),
                               !.resolved = IF ips = Nil THEN c.resolved ELSE Append(c.resolved, kept),
                               !.todo = IF ips = Nil \/ ~setup.enricher THEN <<>> ELSE SetToSeq(ips),
                               !.at = IF ips \in {Nil, {}} \/ ~setup.enricher THEN "rules"
                                      ELSE "request"]]
              /\ IF ips = Nil THEN UNCHANGED <<rings, recent>> ELSE Record(h, ips)
    /\ UNCHANGED <<setup, status, requeue, entries, queue, jobs, truth, cycled, left>>

Enriching(r, at) == run[r] # Nil /\ run[r].at = at

Fresh(ip) == entries[ip] # Nil /\ entries[ip].age < CacheTTL

\* Mutant of CheckFresh: an address once looked up is never asked for again.
CheckCached(r) ==
    /\ Enriching(r, "request")
    /\ run' = [run EXCEPT ![r].at = IF entries[run[r].todo[1]] # Nil THEN "get" ELSE "send"]
    /\ UNCHANGED <<setup, status, requeue, rings, recent, entries, queue, jobs, truth, cycled, left>>

\* RequestAsync, first half: nothing to do for a fresh entry.
CheckFresh(r) ==
    /\ Enriching(r, "request")
    /\ run' = [run EXCEPT ![r].at = IF Fresh(run[r].todo[1]) THEN "get" ELSE "send"]
    /\ UNCHANGED <<setup, status, requeue, rings, recent, entries, queue, jobs, truth, cycled, left>>

\* Mutant of Send: the length is compared with <=.
SendOneTooMany(r) ==
    /\ Enriching(r, "send")
    /\ queue' = IF Len(queue) <= EnrichQueueLen THEN Append(queue, run[r].todo[1]) ELSE queue
    /\ run' = [run EXCEPT ![r].at = "get"]
    /\ UNCHANGED <<setup, status, requeue, rings, recent, entries, jobs, truth, cycled, left>>

\* RequestAsync, second half: the request is dropped when the channel is full.
Send(r) ==
    /\ Enriching(r, "send")
    /\ queue' = IF Len(queue) < EnrichQueueLen
                THEN Append(queue, run[r].todo[1]) ELSE queue
    /\ run' = [run EXCEPT ![r].at = "get"]
    /\ UNCHANGED <<setup, status, requeue, rings, recent, entries, jobs, truth, cycled, left>>

\* Manager.Get: whatever is cached, however old, unless it says nothing.
Get(r) ==
    /\ Enriching(r, "get")
    /\ LET c     == run[r]
           ip    == c.todo[1]
           rest  == Tail(c.todo)
           last  == Len(c.resolved)
           shown == c.resolved[last].enrichments
           known == entries[ip] # Nil /\ entries[ip].result # NoData
       IN run' = [run EXCEPT ![r] =
              [c EXCEPT !.todo = rest, !.at = IF rest = <<>> THEN "rules" ELSE "request",
                        !.resolved[last].enrichments =
                            IF known THEN Append(shown, <<ip, entries[ip].result>>) ELSE shown]]
    /\ UNCHANGED <<setup, status, requeue, rings, recent, entries, queue, jobs, truth, cycled, left>>

clamp(d) == IF d < TTLFloor THEN TTLFloor ELSE IF d > TTLCeiling THEN TTLCeiling ELSE d

nextRequeue(q, now) ==
    IF setup.override # Nil THEN clamp(setup.override) ELSE MinDelay(q, now, PollInterval)

\* The status is written, then RequeueAfter is computed.
Finish(r) ==
    /\ run[r] # Nil /\ run[r].at = "rules" /\ run[r].rules = <<>>
    /\ status' = [status EXCEPT ![r] = run[r].resolved]
    /\ \E now \in run[r].now..setup.maxElapsed :
           requeue' = [requeue EXCEPT ![r] = nextRequeue(run[r].ttlQueue, now)]
    /\ run' = [run EXCEPT ![r] = Nil]
    /\ cycled' = IF run[r].whole THEN cycled \cup {r} ELSE cycled
    /\ UNCHANGED <<setup, rings, recent, entries, queue, jobs, truth, left>>

\* An API call fails and the request comes back with the work queue's backoff.
Fail(r) ==
    /\ Disrupt
    /\ run[r] # Nil /\ run[r].at = "rules"
    /\ run' = [run EXCEPT ![r] = Nil]
    /\ UNCHANGED <<setup, status, requeue, rings, recent, entries, queue, jobs, truth, cycled>>
----------------------------------------------------------------------------
(* The enrichment workers.                                                 *)

Take(w) ==
    /\ jobs[w] = Nil /\ queue # <<>>
    /\ jobs' = [jobs EXCEPT ![w] = [ip |-> queue[1], result |-> Nil]]
    /\ queue' = Tail(queue)
    /\ UNCHANGED <<setup, run, status, requeue, rings, recent, entries, truth, cycled, left>>

\* The service answers with what it knows now.
Lookup(w) ==
    /\ jobs[w] # Nil /\ jobs[w].result = Nil
    /\ jobs' = [jobs EXCEPT ![w].result = truth[jobs[w].ip]]
    /\ UNCHANGED <<setup, run, status, requeue, rings, recent, entries, queue, truth, cycled, left>>

\* An error or the lookup timeout: nothing is cached.
LookupFails(w) ==
    /\ Disrupt
    /\ jobs[w] # Nil /\ jobs[w].result = Nil
    /\ jobs' = [jobs EXCEPT ![w] = Nil]
    /\ UNCHANGED <<setup, run, status, requeue, rings, recent, entries, queue, truth, cycled>>

\* The last write wins, also over one that was looked up later.
Set(w) ==
    /\ jobs[w] # Nil /\ jobs[w].result # Nil
    /\ entries' = [entries EXCEPT ![jobs[w].ip] = [result |-> jobs[w].result, age |-> 0]]
    /\ jobs' = [jobs EXCEPT ![w] = Nil]
    /\ UNCHANGED <<setup, run, status, requeue, rings, recent, queue, truth, cycled, left>>
----------------------------------------------------------------------------
(* Environment.                                                            *)

\* Hours pass.  Policies are requeued within minutes and a lookup ends within
\* lookupTimeout, so each policy has had a whole cycle and the workers are done.
Tick ==
    /\ \A r \in Reconcilers : setup.rules[r] # Nil => r \in cycled
    /\ queue = <<>> /\ \A w \in Workers : jobs[w] = Nil
    /\ entries' = [ip \in Ips |-> IF entries[ip] = Nil \/ entries[ip].age = CacheTTL
                                  THEN entries[ip] ELSE [entries[ip] EXCEPT !.age = @ + 1]]
    /\ run' = [r \in Reconcilers |-> IF run[r] = Nil THEN Nil ELSE [run[r] EXCEPT !.whole = FALSE]]
    /\ cycled' = {}
    /\ UNCHANGED <<setup, status, requeue, rings, recent, queue, jobs, truth, left>>

\* The address moves to another network.
Reassign(ip, result) ==
    /\ Disrupt
    /\ setup.enricher /\ truth[ip] \notin {NoData, result}
    /\ truth' = [truth EXCEPT ![ip] = result]
    /\ UNCHANGED <<setup, run, status, requeue, rings, recent, entries, queue, jobs, cycled>>

\* A new process: only the status survives.
Restart ==
    /\ Disrupt
    /\ run' = [r \in Reconcilers |-> Nil] /\ requeue' = [r \in Reconcilers |-> Nil]
    /\ rings' = [h \in Hosts |-> NewRing] /\ recent' = [h \in Hosts |-> <<>>]
    /\ entries' = [ip \in Ips |-> Nil]
    /\ queue' = <<>> /\ jobs' = [w \in Workers |-> Nil]
    /\ UNCHANGED <<setup, status, truth, cycled>>

Cycle(r) ==
    Start(r) \/ ResolveSucceeds(r) \/ CheckFresh(r) \/ Send(r) \/ Get(r) \/ Finish(r)

Work(w) == Take(w) \/ Lookup(w) \/ Set(w)

Next ==
    \/ \E r \in Reconcilers : Cycle(r) \/ ResolveFails(r) \/ Fail(r)
    \/ \E w \in Workers : Work(w) \/ LookupFails(w)
    \/ \E ip \in Ips, result \in Results : Reassign(ip, result)
    \/ Tick \/ Restart

\* Policies are requeued after every cycle, goroutines are scheduled, time passes.
Fairness ==
    /\ \A r \in Reconcilers : WF_vars(Cycle(r))
    /\ \A w \in Workers : WF_vars(Work(w))
    /\ WF_vars(Tick)

Spec == Init /\ [][Next]_vars /\ Fairness
----------------------------------------------------------------------------
(* Properties.                                                             *)

Entries == [host: Hosts, ips: SUBSET Ips, enrichments: Seq(Ips \X Results)]

\* Type invariant.  A full queue stays within its capacity.
TypeOK ==
    /\ setup \in Setups
    /\ \A r \in Reconcilers :
           /\ status[r] \in Seq(Entries)
           /\ requeue[r] = Nil \/ requeue[r] \in Nat
           /\ run[r] # Nil =>
                  /\ run[r].rules \in Seq(Hosts) /\ run[r].resolved \in Seq(Entries)
                  /\ run[r].now \in 0..setup.maxElapsed
                  /\ run[r].at \in {"rules", "request", "send", "get"}
                  /\ (run[r].todo = <<>>) = (run[r].at = "rules")
    /\ \A h \in Hosts : rings[h].head \in 1..ChurnRingSize
    /\ \A ip \in Ips : entries[ip] # Nil => entries[ip] \in [result: Results, age: 0..CacheTTL]
    /\ Len(queue) <= EnrichQueueLen
    /\ \A w \in Workers : jobs[w] # Nil => jobs[w].result \in Results \cup {Nil}
    /\ left \in 0..setup.maxDisruptions

\* ttl_queue.go "a min-heap of TTLEntry ordered by NextRefresh": while a cycle runs,
\* whatever answers and failures it met, in whatever order and for whatever repeated
\* hostname, its queue holds each hostname that asked for a refresh, and PeekNext
\* gives the earliest of these refreshes.
PeekEarliest ==
    \A r \in Reconcilers : run[r] # Nil =>
        LET q == run[r].ttlQueue
        IN  /\ Range(q.items) = DOMAIN q.next
            /\ q.items # <<>> => PeekNext(q) = Min(Range(q.next))

\* ttl_queue.go "schedule re-resolution at the exact moment DNS TTLs expire rather
\* than polling on a fixed timer": a cycle without override that queued refreshes
\* is requeued no later than the first of them is due, or after TTLFloor.
\* Violated: nextRequeue makes PollInterval the floor.
RefreshedAtExpiry ==
    [][\A r \in Reconcilers :
           LET asked == Range(run[r].ttlQueue.next)
           IN  run[r] # Nil /\ requeue'[r] # Nil /\ setup.override = Nil /\ asked # {} =>
                   \E now \in run[r].now..setup.maxElapsed :
                       requeue'[r] <= Max({TTLFloor, Min(asked) - now})]_vars

\* churn_tracker.go "the count of distinct IPs seen in the last churnRingSize
\* cycles": the ring gives that count exactly, before it is full and after it has
\* wrapped around, also when both reconcilers record the same hostname.
ChurnExact == \A h \in Hosts : ChurnRate(rings[h]) = Cardinality(UNION Range(recent[h]))

\* An entry's enrichments are what the service says of its addresses.
Enriched(e) ==
    Range(e.enrichments) = {<<ip, truth[ip]>> : ip \in {x \in e.ips : truth[x] # NoData}}

\* README "each resolved IP is looked up ... asynchronously" and manager.go "drop
\* and let the next reconcile cycle retry": although requests are dropped when the
\* queue is full, several lookups of one address may be in flight and the oldest
\* answer may be written last, in the end the status of every policy shows what
\* the service says of each of its addresses.
EventuallyEnriched ==
    <>[](setup.enricher =>
            \A r \in Reconcilers : setup.rules[r] # Nil =>
                status[r] # <<>> /\ \A i \in DOMAIN status[r] : Enriched(status[r][i]))
=============================================================================
