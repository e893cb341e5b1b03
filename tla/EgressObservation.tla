------------------------- MODULE EgressObservation -------------------------
(***************************************************************************)
(* FQDNEgressObservation: the DNS proxy records every query in the         *)
(* ObservationStore (internal/dns/observation_store.go), and the           *)
(* controller (internal/controller/fqdnegressobservation_controller.go)    *)
(* adds the store's counts to the status of one observation object,        *)
(* remembering in syncedCounts what it has already added.                  *)
(*                                                                         *)
(* The store and syncedCounts are memory of the controller process; the    *)
(* status survives it.  The object is read from the informer cache.  Times *)
(* are whole units of a bounded clock.                                     *)
(***************************************************************************)
EXTENDS Integers

CONSTANTS
    Nil,
    Hostnames,
    Windows,         \* values of spec.observationWindow
    Retention,       \* observationRetention
    PruneInterval,   \* pruneRetentionCheckInterval
    MaxTime,         \* bound on the clock
    MaxQueries,      \* bound on the queries for each hostname
    MaxDisruptions   \* bound on steps of users, failing calls and restarts

VARIABLES
    obs,        \* the FQDNEgressObservation at the server, or Nil
    obsCache,   \* the informer cache's copy
    obsCacheCur,\* the copy has the server's resourceVersion
    snoop,      \* the snoop resolver is enabled
    store,      \* ObservationStore.domains
    lastPrune,  \* ObservationStore.lastPrune
    synced,     \* syncedCounts of this object
    queued,     \* a request for the object is due, now or after RequeueAfter
    pc, run,    \* the running Reconcile: next step, working copy
    clock,
    left,       \* disruptions left
    total       \* history: queries the proxy ever saw

memory == <<store, lastPrune, synced>>
vars == <<obs, obsCache, obsCacheCur, snoop, store, lastPrune, synced, queued,
          pc, run, clock, left, total>>

Times == 0..MaxTime

\* dns.FirstLastSeen and ObservedDomain.
Domains == [first: Times, last: Times, count: Nat]
DomainMaps == [Hostnames -> Domains \cup {Nil}]
NoDomains == [h \in Hostnames |-> Nil]

\* Degraded is set together with Ready, to the opposite status.
Observations ==
    [generation: Nat \ {0}, window: Windows, created: Times, domains: DomainMaps,
     complete: BOOLEAN, observed: Nat,
     ready: {"none", "Observing", "SnoopResolverInactive"}]

Runs == [obj: Observations, cur: BOOLEAN]

ASSUME ObservationConstants ==
    /\ Windows \subseteq Nat
    /\ Retention \in Nat \ {0} /\ PruneInterval \in Nat \ {0}
    /\ MaxTime \in Nat /\ MaxQueries \in [Hostnames -> Nat] /\ MaxDisruptions \in Nat
    /\ Nil \notin Domains /\ Nil \notin Observations /\ Nil \notin Runs
    /\ Nil \notin [Hostnames -> Nat]

NewObservation(w) ==
    [generation |-> 1, window |-> w, created |-> clock, domains |-> NoDomains,
     complete |-> FALSE, observed |-> 0, ready |-> "none"]

\* lastPrune is the zero time: the first Record prunes.
FreshMemory ==
    /\ store = NoDomains /\ lastPrune = -PruneInterval
    /\ synced = [h \in Hostnames |-> 0]

\* The object may have been created before the controller started.
Init ==
    /\ clock = 0
    /\ \/ obs = Nil
       \/ \E w \in Windows : obs = NewObservation(w)
    /\ obsCache = obs /\ obsCacheCur = TRUE
    /\ snoop \in BOOLEAN
    /\ FreshMemory
    /\ queued = (obs # Nil)
    /\ pc = "idle" /\ run = Nil
    /\ left = MaxDisruptions
    /\ total = [h \in Hostnames |-> 0]

Disrupt == left > 0 /\ left' = left - 1

\* A write makes every copy taken before stale.
WriteObs(new) ==
    /\ obs' = new
    /\ obsCacheCur' = FALSE
    /\ run' = IF run = Nil THEN Nil ELSE [run EXCEPT !.cur = FALSE]
----------------------------------------------------------------------------
(* ObservationStore.                                                       *)

Recorded(h) ==
    [store EXCEPT ![h] = IF @ = Nil THEN [first |-> clock, last |-> clock, count |-> 1]
                         ELSE [first |-> @.first, last |-> clock, count |-> @.count + 1]]

pruneLocked(s) ==
    [h \in Hostnames |-> IF s[h] # Nil /\ s[h].last < clock - Retention THEN Nil ELSE s[h]]

\* The proxy handles an A or AAAA query for h.
Record(h) ==
    LET due == clock - lastPrune >= PruneInterval
    IN /\ snoop /\ total[h] < MaxQueries[h]
       /\ store' = IF due THEN pruneLocked(Recorded(h)) ELSE Recorded(h)
       /\ lastPrune' = IF due THEN clock ELSE lastPrune
       /\ total' = [total EXCEPT ![h] = @ + 1]
       /\ UNCHANGED <<obs, obsCache, obsCacheCur, snoop, synced, queued, pc, run, clock, left>>
----------------------------------------------------------------------------
(* Reconcile.                                                              *)

\* Mutant of Return: the working copy survives the cycle.
ReturnKeepingRun == pc' = "idle" /\ UNCHANGED run

Return == pc' = "idle" /\ run' = Nil

\* Mutant of RequeueLater: only events bring the object back.
RequeueNever == UNCHANGED queued

RequeueLater == queued' = TRUE

ReconcileNotFound ==
    /\ pc = "idle" /\ queued /\ obsCache = Nil
    /\ queued' = FALSE
    /\ UNCHANGED <<obs, obsCache, obsCacheCur, snoop, memory, pc, run, clock, left, total>>

ReconcileStart ==
    /\ pc = "idle" /\ queued /\ obsCache # Nil
    /\ queued' = FALSE
    /\ pc' = IF snoop THEN "merge" ELSE "inactive"
    /\ run' = [obj |-> obsCache, cur |-> obsCacheCur]
    /\ UNCHANGED <<obs, obsCache, obsCacheCur, snoop, memory, clock, left, total>>

\* Mutant of Delta: a store without news is taken for one that counts anew.
DeltaOffByOne(h) ==
    IF store[h].count <= synced[h] THEN store[h].count ELSE store[h].count - synced[h]

\* The queries not yet added; a store that counts anew is added whole.
Delta(h) == IF store[h].count < synced[h] THEN store[h].count ELSE store[h].count - synced[h]

Earlier(a, b) == IF a < b THEN a ELSE b
Later(a, b) == IF a > b THEN a ELSE b

\* Mutant of mergeObservedDomains: only what the store holds is reported.
mergeOnlyLive(existing) ==
    [h \in Hostnames |-> IF store[h] = Nil THEN Nil ELSE [store[h] EXCEPT !.count = Delta(h)]]

mergeObservedDomains(existing) ==
    [h \in Hostnames |->
        IF store[h] = Nil THEN existing[h]
        ELSE IF existing[h] = Nil THEN [store[h] EXCEPT !.count = Delta(h)]
        ELSE [first |-> Earlier(store[h].first, existing[h].first),
              last  |-> Later(store[h].last, existing[h].last),
              count |-> existing[h].count + Delta(h)]]

\* Mutant of Synced: the counts are not remembered.
SyncedNever == synced

\* lastSynced after the merge.
Synced == [h \in Hostnames |-> IF store[h] = Nil THEN synced[h] ELSE store[h].count]

\* Ready gets the reason (and Degraded the opposite status).
setObservationCondition(o, reason) == [o EXCEPT !.ready = reason]

ReconcileMerge ==
    /\ pc = "merge"
    /\ pc' = "status"
    /\ run' = [run EXCEPT !.obj = setObservationCondition(
                  [@ EXCEPT !.domains = mergeObservedDomains(run.obj.domains),
                            !.complete = (clock - run.obj.created >= run.obj.window),
                            !.observed = run.obj.generation],
                  "Observing")]
    /\ synced' = Synced
    /\ UNCHANGED <<obs, obsCache, obsCacheCur, snoop, store, lastPrune, queued, clock, left, total>>

\* Without the snoop resolver only the conditions are set.
ReconcileInactive ==
    /\ pc = "inactive"
    /\ pc' = "status"
    /\ run' = [run EXCEPT !.obj = setObservationCondition(
                  [@ EXCEPT !.observed = run.obj.generation], "SnoopResolverInactive")]
    /\ UNCHANGED <<obs, obsCache, obsCacheCur, snoop, memory, queued, clock, left, total>>

\* Status().Update of the working copy, if it is current.  An update that
\* changes nothing may leave the resourceVersion.
WriteStatus ==
    /\ obs' = run.obj
    /\ obsCacheCur' \in IF obs = run.obj THEN {FALSE, obsCacheCur} ELSE {FALSE}

\* A conflict is returned as an error, which requeues as well.
ReconcileStatus ==
    /\ pc = "status"
    /\ IF obs # Nil /\ run.cur THEN WriteStatus ELSE UNCHANGED <<obs, obsCacheCur>>
    /\ Return /\ RequeueLater
    /\ UNCHANGED <<obsCache, snoop, memory, clock, left, total>>

\* The call fails; the write may have reached the server.
ReconcileStatusFails ==
    /\ pc = "status" /\ obs # Nil /\ run.cur
    /\ Disrupt
    /\ WriteStatus \/ UNCHANGED <<obs, obsCacheCur>>
    /\ Return /\ RequeueLater
    /\ UNCHANGED <<obsCache, snoop, memory, clock, total>>

Reconcile ==
    \/ ReconcileNotFound \/ ReconcileStart \/ ReconcileMerge \/ ReconcileInactive
    \/ ReconcileStatus

Deliver ==
    /\ ~obsCacheCur
    /\ obsCache' = obs /\ obsCacheCur' = TRUE
    /\ queued' = TRUE
    /\ UNCHANGED <<obs, snoop, memory, pc, run, clock, left, total>>
----------------------------------------------------------------------------
(* Users, restarts and time.                                               *)

CreateObservation(w) ==
    /\ Disrupt
    /\ obs = Nil
    /\ WriteObs(NewObservation(w))
    /\ UNCHANGED <<obsCache, snoop, memory, queued, pc, clock, total>>

EditWindow(w) ==
    /\ Disrupt
    /\ obs # Nil /\ w # obs.window
    /\ WriteObs([obs EXCEPT !.window = w, !.generation = @ + 1])
    /\ UNCHANGED <<obsCache, snoop, memory, queued, pc, clock, total>>

DeleteObservation ==
    /\ Disrupt
    /\ obs # Nil
    /\ WriteObs(Nil)
    /\ UNCHANGED <<obsCache, snoop, memory, queued, pc, clock, total>>

\* A new process, perhaps with another --enable-snoop-resolver.
Restart ==
    /\ Disrupt
    /\ snoop' \in BOOLEAN
    /\ store' = NoDomains /\ lastPrune' = -PruneInterval
    /\ synced' = [h \in Hostnames |-> 0]
    /\ obsCache' = obs /\ obsCacheCur' = TRUE
    /\ queued' = (obs # Nil)
    /\ Return
    /\ UNCHANGED <<obs, clock, total>>

Tick ==
    /\ clock < MaxTime
    /\ clock' = clock + 1
    /\ UNCHANGED <<obs, obsCache, obsCacheCur, snoop, memory, queued, pc, run, left, total>>

Next ==
    \/ \E h \in Hostnames : Record(h)
    \/ Reconcile \/ ReconcileStatusFails
    \/ Deliver
    \/ \E w \in Windows : CreateObservation(w) \/ EditWindow(w)
    \/ DeleteObservation \/ Restart \/ Tick

Spec == Init /\ [][Next]_vars

\* The worker runs, watches are delivered.
FairSpec == Spec /\ WF_vars(Reconcile) /\ WF_vars(Deliver)
----------------------------------------------------------------------------
(* Properties.                                                             *)

\* Type invariant.
TypeOK ==
    /\ obs \in Observations \cup {Nil} /\ obsCache \in Observations \cup {Nil}
    /\ obsCacheCur \in BOOLEAN /\ snoop \in BOOLEAN
    /\ store \in DomainMaps /\ lastPrune \in Int /\ synced \in [Hostnames -> Nat]
    /\ queued \in BOOLEAN
    /\ pc \in {"idle", "merge", "inactive", "status"}
    /\ run \in Runs \cup {Nil} /\ ((pc = "idle") <=> (run = Nil))
    /\ clock \in Times /\ left \in 0..MaxDisruptions
    /\ total \in [Hostnames -> Nat]

\* fqdnegressobservation_controller.go "additively tracks QueryCount without
\* double counting": no status ever claims more queries than the proxy saw,
\* over retried and conflicting updates, stale copies, pruning, restarts and
\* recreated objects.
NoDoubleCount ==
    obs # Nil => \A h \in Hostnames : obs.domains[h] # Nil => obs.domains[h].count <= total[h]

\* fqdnegressobservation_types.go "Additive across reconciles so data survives
\* controller restarts": while the object exists, no step takes a hostname off
\* its status, moves FirstSeen later or LastSeen earlier, or lowers a count.
ObservationsKept ==
    [][obs # Nil /\ obs' # Nil => \A h \in Hostnames : obs.domains[h] # Nil =>
          /\ obs'.domains[h] # Nil
          /\ obs'.domains[h].first <= obs.domains[h].first
          /\ obs'.domains[h].last >= obs.domains[h].last
          /\ obs'.domains[h].count >= obs.domains[h].count]_obs

\* Once nobody disturbs the system and queries cease, the status reports every
\* hostname the proxy still remembers, with its last query, says whether the
\* window has elapsed, and says whether it can observe at all, although no event
\* announces a query and updates failed before.
Reported ==
    obs # Nil =>
        /\ obs.observed = obs.generation
        /\ obs.ready = IF snoop THEN "Observing" ELSE "SnoopResolverInactive"
        /\ snoop =>
            /\ obs.complete = (clock - obs.created >= obs.window)
            /\ \A h \in Hostnames : store[h] # Nil =>
                  obs.domains[h] # Nil /\ obs.domains[h].last >= store[h].last

EventuallyReported == <>[]Reported

\* The status as a tally: hostnames it does not list count nothing.
StatusTally ==
    IF obs = Nil THEN Nil
    ELSE [h \in Hostnames |-> IF obs.domains[h] = Nil THEN 0 ELSE obs.domains[h].count]

Tally == INSTANCE QueryTally WITH Names <- Hostnames, NoTally <- Nil,
                                  seen <- total, tally <- StatusTally

\* fqdnegressobservation_types.go "Additive across reconciles so data survives
\* controller restarts": seen from outside, the store, the merge, the informer
\* cache, lost updates and restarts together are a tally that only lags.
ImplementsTally == Tally!Spec
=============================================================================
