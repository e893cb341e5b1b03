------------------------- MODULE ClusterReconciler -------------------------
(***************************************************************************)
(* The ClusterFQDNNetworkPolicy controller                                 *)
(* (internal/controller/clusterfqdnnetworkpolicy_controller.go) for one    *)
(* cluster policy: it resolves once, writes one NetworkPolicy into every   *)
(* matched namespace, removes those of namespaces that no longer match and *)
(* writes the status.                                                      *)
(*                                                                         *)
(* All reads come from informer caches (policy, namespaces,                *)
(* NetworkPolicies), which lag behind the server independently.  Errors of *)
(* single namespaces are logged and skipped, as in the code.  Namespaces   *)
(* are numbered in the order of their names.                               *)
(*                                                                         *)
(* A NetworkPolicy is its spec and whether it carries this policy's        *)
(* cluster-policy label.  The OwnerReference the controller puts into a    *)
(* create comes from a synthetic policy and has no uid; the API server     *)
(* refuses such metadata, so a NetworkPolicy of the fan-out's name exists  *)
(* only where another actor (a restore, a GitOps tool, a user) made it.    *)
(***************************************************************************)
EXTENDS PolicyLogic, FiniteSetsExt

CONSTANTS
    Namespaces,     \* a finite set of numbers
    Labels,         \* what the labels of a namespace come to
    FirstLabels,    \* the labellings the system may start with
    ClusterSpecs,   \* [policy |-> PolicySpecs, selects |-> SUBSET Labels]
    Answers,        \* the resolutions DNS may give
    ForeignNPs,     \* the NetworkPolicies other actors may write
    FirstNPs,       \* those the system may start with, per namespace
    MaxDisruptions  \* bound on steps of users, other actors, DNS, and faults

VARIABLES
    cp,          \* the ClusterFQDNNetworkPolicy at the server, or Nil
    ns,          \* per namespace: its labels, "terminating" or "absent"
    np,          \* per namespace: the NetworkPolicy, or Nil
    cpCache, nsCache, npCache,   \* the informer caches
    cpCacheCur,  \* the cached copy has the server's resourceVersion
    npCacheCur,  \* the same, per namespace
    queued, timer,
    pc,          \* next step of the running Reconcile
    run,         \* its local state
    dns,         \* what a lookup of each match returns now; Nil: an error
    left,        \* disruptions left
    agreed       \* history: addresses some undivided answer contained

objects == <<cp, ns, np>>
caches  == <<cpCache, nsCache, npCache, cpCacheCur, npCacheCur>>
queue   == <<queued, timer>>
vars    == <<cp, ns, np, cpCache, nsCache, npCache, cpCacheCur, npCacheCur, queued,
             timer, pc, run, dns, left, agreed>>

ClusterStatuses ==
    [resolved: ResolvedHosts,
     affected: SUBSET Namespaces,
     observed: Nat,
     ready: {"none", "Reconciled", "ResolutionDegraded", "DivergenceBlocked"},
     degraded: {"none", "DivergenceBlocked"},
     divergence: {"none", "True", "False"}]

ClusterPolicies == [generation: Nat \ {0}, spec: ClusterSpecs, status: ClusterStatuses]

Runs == [obj: ClusterPolicies, cur: BOOLEAN, matched: SUBSET Namespaces,
         todo: SUBSET Namespaces]

NetworkPolicies == [spec: NetworkPolicySpecs, labelled: BOOLEAN]

NamespaceStates == Labels \cup {"terminating", "absent"}

ASSUME ClusterConstants ==
    /\ Namespaces \subseteq Nat /\ IsFiniteSet(Namespaces)
    /\ FirstLabels \subseteq [Namespaces -> Labels]
    /\ ClusterSpecs \subseteq [policy: PolicySpecs, selects: SUBSET Labels]
    /\ Answers \subseteq Resolutions
    /\ ForeignNPs \subseteq NetworkPolicies
    /\ FirstNPs \subseteq [Namespaces -> ForeignNPs \cup {Nil}]
    /\ Labels \cap {"terminating", "absent"} = {}
    /\ Nil \notin Answers /\ Nil \notin ClusterPolicies /\ Nil \notin Runs
    /\ Nil \notin NetworkPolicies
    /\ MaxDisruptions \in Nat

NewPolicy(spec) ==
    [generation |-> 1, spec |-> spec,
     status |-> [resolved |-> NoHosts, affected |-> {}, observed |-> 0,
                 ready |-> "none", degraded |-> "none", divergence |-> "none"]]

Init ==
    /\ \E s \in ClusterSpecs : cp = NewPolicy(s)
    /\ ns \in FirstLabels
    /\ np \in FirstNPs
    /\ cpCache = Nil /\ cpCacheCur = FALSE
    /\ nsCache = ns
    /\ npCache = np /\ npCacheCur = [n \in Namespaces |-> TRUE]
    /\ queued = FALSE /\ timer = FALSE
    /\ pc = "idle" /\ run = Nil
    /\ dns \in [Matches -> Answers \cup {Nil}]
    /\ left = MaxDisruptions
    /\ agreed = {}

\* A write makes every copy taken before stale.
WriteCP(new) ==
    /\ cp' = new
    /\ cpCacheCur' = FALSE
    /\ run' = IF run = Nil THEN Nil ELSE [run EXCEPT !.cur = FALSE]

WriteNP(n, new) ==
    /\ np' = [np EXCEPT ![n] = new]
    /\ npCacheCur' = [npCacheCur EXCEPT ![n] = FALSE]

Disrupt == left > 0 /\ left' = left - 1
----------------------------------------------------------------------------
(* Reconcile.                                                              *)

\* Mutant of Return: the locals of the cycle survive it.
ReturnKeepingRun == pc' = "idle" /\ UNCHANGED run

Return == pc' = "idle" /\ run' = Nil
RequeueLater == timer' = TRUE /\ UNCHANGED queued

ReconcileNotFound ==
    /\ pc = "idle" /\ queued /\ cpCache = Nil
    /\ queued' = FALSE
    /\ UNCHANGED <<objects, caches, timer, pc, run, dns, left, agreed>>

ReconcileStart ==
    /\ pc = "idle" /\ queued /\ cpCache # Nil
    /\ queued' = FALSE
    /\ pc' = "resolve"
    /\ run' = [obj |-> cpCache, cur |-> cpCacheCur, matched |-> {}, todo |-> {}]
    /\ UNCHANGED <<objects, caches, timer, dns, left, agreed>>

\* Mutant of findPreviousCluster: the retained host loses its metadata.
findPreviousClusterBare(hosts, m) ==
    IF hosts[m] = Nil THEN Nil ELSE [hosts[m] EXCEPT !.div = FALSE]

findPreviousCluster(hosts, m) == hosts[m]

\* The rule loop.  Unlike the namespaced controller's it looks wildcards up.
ResolveClusterRules(hosts, spec) ==
    [m \in Matches |-> IF m \notin spec.rules THEN Nil
                       ELSE IF dns[m] = Nil THEN findPreviousCluster(hosts, m)
                       ELSE FreshEntry(dns[m], spec.security)]

ClusterErrors(spec) ==
    {m \in spec.rules : \/ dns[m] = Nil
                        \/ AllowedIPs(dns[m], spec.security) # dns[m].ips
                        \/ TooDeep(dns[m], spec.security)}

\* Namespaces that are Active and whose labels the selector selects.
matchedNamespaces(selects) == {n \in Namespaces : nsCache[n] \in selects}

setClusterResolverDivergenceCondition(resolved) ==
    IF anyDivergence(resolved) THEN "True" ELSE "False"

\* The status updateClusterStatus writes; Degraded is only ever set.
updateClusterStatus(obj, resolved, matched, errors, frozen) ==
    [resolved |-> resolved, affected |-> matched, observed |-> obj.generation,
     ready |-> IF frozen THEN "DivergenceBlocked"
               ELSE IF errors # {} THEN "ResolutionDegraded" ELSE "Reconciled",
     degraded |-> IF frozen THEN "DivergenceBlocked" ELSE obj.status.degraded,
     divergence |-> setClusterResolverDivergenceCondition(resolved)]

\* Resolution, the list of namespaces, and the branch on mode and divergence.
\* The status is computed here and written by ReconcileStatus.
ReconcileResolve ==
    LET obj      == run.obj
        spec     == obj.spec.policy
        resolved == ResolveClusterRules(obj.status.resolved, spec)
        matched  == matchedNamespaces(obj.spec.selects)
        frozen   == /\ spec.mode # "Audit"
                    /\ blockOnDivergence(spec.security)
                    /\ anyDivergence(resolved)
        enforce  == spec.mode # "Audit" /\ ~frozen
    IN /\ pc = "resolve"
       /\ pc' = IF enforce THEN "apply" ELSE "status"
       /\ run' = [run EXCEPT
                    !.obj.status = updateClusterStatus(obj, resolved, matched,
                                                       ClusterErrors(spec), frozen),
                    !.matched = matched,
                    !.todo = IF enforce THEN matched ELSE {}]
       /\ agreed' = agreed \cup UNION {dns[m].ips : m \in
                        {k \in spec.rules : dns[k] # Nil /\ ~Divergent(dns[k])}}
       /\ UNCHANGED <<objects, caches, queue, dns, left>>

\* Listing the namespaces fails.
ReconcileResolveFails ==
    /\ pc = "resolve"
    /\ Disrupt
    /\ Return /\ RequeueLater
    /\ UNCHANGED <<objects, caches, dns, agreed>>

\* The uid syntheticPolicy leaves empty and netpol.Build copies into the
\* OwnerReference.
NoUID == 0
syntheticUID == NoUID

\* netpol.Build of syntheticPolicy, with the label for garbageCollect.
Desired == [spec |-> Build(run.obj.spec.policy, run.obj.status.resolved), labelled |-> TRUE]

Todo == Min(run.todo)

NextNamespace == run' = [run EXCEPT !.todo = @ \ {Todo}]

SkipsNP(n) == npCache[n] # Nil /\ ipSetsEqual(npCache[n].spec, Desired.spec)

\* The server accepts a create whose OwnerReference has a uid, in an active
\* namespace that has no such object, and an update of its current version,
\* which sends the OwnerReferences the object already has.
Accepted(n) ==
    IF npCache[n] = Nil THEN syntheticUID # NoUID /\ np[n] = Nil /\ ns[n] \in Labels
    ELSE np[n] # Nil /\ npCacheCur[n]

\* One turn of the fan-out loop; a rejected write is logged and skipped.
ReconcileApply ==
    /\ pc = "apply" /\ run.todo # {}
    /\ IF ~SkipsNP(Todo) /\ Accepted(Todo)
       THEN WriteNP(Todo, Desired) ELSE UNCHANGED <<np, npCacheCur>>
    /\ NextNamespace
    /\ UNCHANGED <<cp, ns, cpCache, nsCache, npCache, cpCacheCur, queue, pc, dns, left, agreed>>

\* The call fails; the write may have reached the server.
ReconcileApplyFails ==
    /\ pc = "apply" /\ run.todo # {}
    /\ ~SkipsNP(Todo) /\ Accepted(Todo)
    /\ Disrupt
    /\ WriteNP(Todo, Desired) \/ UNCHANGED <<np, npCacheCur>>
    /\ NextNamespace
    /\ UNCHANGED <<cp, ns, cpCache, nsCache, npCache, cpCacheCur, queue, pc, dns, agreed>>

\* Mutant of Stray: nothing is collected.
StrayNone(matched) == {}

\* What garbageCollect finds: NetworkPolicies with this policy's label, as
\* cached, in namespaces that were not matched.
Stray(matched) == {n \in Namespaces \ matched : npCache[n] # Nil /\ npCache[n].labelled}

GarbageCollectList ==
    /\ pc = "apply" /\ run.todo = {}
    /\ pc' = "gc"
    /\ run' = [run EXCEPT !.todo = Stray(run.matched)]
    /\ UNCHANGED <<objects, caches, queue, dns, left, agreed>>

\* Delete, which ignores that the object is already gone.
GarbageCollect(n) ==
    /\ pc = "gc" /\ n \in run.todo
    /\ IF np[n] # Nil THEN WriteNP(n, Nil) ELSE UNCHANGED <<np, npCacheCur>>
    /\ run' = [run EXCEPT !.todo = @ \ {n}]
    /\ UNCHANGED <<cp, ns, cpCache, nsCache, npCache, cpCacheCur, queue, pc, dns, left, agreed>>

\* A failing delete ends the collection; the error is only logged.
GarbageCollectFails ==
    /\ pc = "gc" /\ run.todo # {}
    /\ Disrupt
    /\ pc' = "status"
    /\ UNCHANGED <<objects, caches, queue, run, dns, agreed>>

AtStatus == pc = "status" \/ (pc = "gc" /\ run.todo = {})

WriteStatus ==
    /\ cp' = [cp EXCEPT !.status = run.obj.status]
    /\ cpCacheCur' \in IF cp.status = run.obj.status THEN {FALSE, cpCacheCur} ELSE {FALSE}

ReconcileStatus ==
    /\ AtStatus
    /\ IF cp # Nil /\ run.cur THEN WriteStatus ELSE UNCHANGED <<cp, cpCacheCur>>
    /\ Return /\ RequeueLater
    /\ UNCHANGED <<ns, np, cpCache, nsCache, npCache, npCacheCur, dns, left, agreed>>

ReconcileStatusFails ==
    /\ AtStatus
    /\ cp # Nil /\ run.cur
    /\ Disrupt
    /\ WriteStatus \/ UNCHANGED <<cp, cpCacheCur>>
    /\ Return /\ RequeueLater
    /\ UNCHANGED <<ns, np, cpCache, nsCache, npCache, npCacheCur, dns, agreed>>

Reconcile ==
    \/ ReconcileNotFound \/ ReconcileStart \/ ReconcileResolve \/ ReconcileApply
    \/ GarbageCollectList \/ (\E n \in Namespaces : GarbageCollect(n))
    \/ ReconcileStatus
----------------------------------------------------------------------------
(* Watches.  NetworkPolicies are cached but not watched for requests.      *)

DeliverCP ==
    /\ ~cpCacheCur
    /\ cpCache' = cp /\ cpCacheCur' = TRUE
    /\ queued' = TRUE
    /\ UNCHANGED <<objects, nsCache, npCache, npCacheCur, timer, pc, run, dns, left, agreed>>

\* nsMapper enqueues the policies in the cache.
DeliverNS(n) ==
    /\ nsCache[n] # ns[n]
    /\ nsCache' = [nsCache EXCEPT ![n] = ns[n]]
    /\ queued' = (queued \/ cpCache # Nil)
    /\ UNCHANGED <<objects, cpCache, npCache, cpCacheCur, npCacheCur, timer, pc, run, dns, left, agreed>>

DeliverNP(n) ==
    /\ ~npCacheCur[n]
    /\ npCache' = [npCache EXCEPT ![n] = np[n]]
    /\ npCacheCur' = [npCacheCur EXCEPT ![n] = TRUE]
    /\ UNCHANGED <<objects, cpCache, nsCache, cpCacheCur, queue, pc, run, dns, left, agreed>>

TimerFires ==
    /\ timer
    /\ timer' = FALSE /\ queued' = TRUE
    /\ UNCHANGED <<objects, caches, pc, run, dns, left, agreed>>

\* The namespace controller empties a terminating namespace and removes it.
NamespaceGone(n) ==
    /\ ns[n] = "terminating"
    /\ ns' = [ns EXCEPT ![n] = "absent"]
    /\ IF np[n] # Nil THEN WriteNP(n, Nil) ELSE UNCHANGED <<np, npCacheCur>>
    /\ UNCHANGED <<cp, cpCache, nsCache, npCache, cpCacheCur, queue, pc, run, dns, left, agreed>>
----------------------------------------------------------------------------
(* Users, other actors, DNS, faults.                                       *)

EditSpec(s) ==
    /\ Disrupt
    /\ cp # Nil /\ s # cp.spec
    /\ WriteCP([cp EXCEPT !.spec = s, !.generation = @ + 1])
    /\ UNCHANGED <<ns, np, cpCache, nsCache, npCache, npCacheCur, queue, pc, dns, agreed>>

DeletePolicy ==
    /\ Disrupt
    /\ cp # Nil
    /\ WriteCP(Nil)
    /\ UNCHANGED <<ns, np, cpCache, nsCache, npCache, npCacheCur, queue, pc, dns, agreed>>

CreatePolicy(s) ==
    /\ Disrupt
    /\ cp = Nil
    /\ WriteCP(NewPolicy(s))
    /\ UNCHANGED <<ns, np, cpCache, nsCache, npCache, npCacheCur, queue, pc, dns, agreed>>

\* A namespace is relabelled, starts terminating, or is created.
ChangeNamespace(n, s) ==
    /\ Disrupt
    /\ s # ns[n]
    /\ \/ ns[n] \in Labels /\ s # "absent"
       \/ ns[n] = "absent" /\ s \in Labels
    /\ ns' = [ns EXCEPT ![n] = s]
    /\ UNCHANGED <<cp, np, caches, queue, pc, run, dns, agreed>>

\* Another actor creates, changes or deletes a NetworkPolicy of this name.
ForeignWrite(n, s) ==
    /\ Disrupt
    /\ s # np[n] /\ (np[n] = Nil => ns[n] \in Labels)
    /\ WriteNP(n, s)
    /\ UNCHANGED <<cp, ns, cpCache, nsCache, npCache, cpCacheCur, queue, pc, run, dns, agreed>>

DNSChange(m, a) ==
    /\ Disrupt
    /\ a # dns[m]
    /\ dns' = [dns EXCEPT ![m] = a]
    /\ UNCHANGED <<objects, caches, queue, pc, run, agreed>>

\* The controller restarts; the caches are listed anew.
Restart ==
    /\ Disrupt
    /\ Return
    /\ cpCache' = cp /\ cpCacheCur' = TRUE
    /\ nsCache' = ns
    /\ npCache' = np /\ npCacheCur' = [n \in Namespaces |-> TRUE]
    /\ queued' = (cp # Nil)
    /\ timer' = FALSE
    /\ UNCHANGED <<objects, dns, agreed>>

Next ==
    \/ Reconcile
    \/ ReconcileResolveFails \/ ReconcileApplyFails \/ GarbageCollectFails
    \/ ReconcileStatusFails
    \/ DeliverCP \/ TimerFires
    \/ \E n \in Namespaces : DeliverNS(n) \/ DeliverNP(n) \/ NamespaceGone(n)
    \/ \E s \in ClusterSpecs : EditSpec(s) \/ CreatePolicy(s)
    \/ DeletePolicy
    \/ \E n \in Namespaces, s \in NamespaceStates : ChangeNamespace(n, s)
    \/ \E n \in Namespaces, s \in ForeignNPs \cup {Nil} : ForeignWrite(n, s)
    \/ \E m \in Matches, a \in Answers \cup {Nil} : DNSChange(m, a)
    \/ Restart

Spec == Init /\ [][Next]_vars

\* The worker runs, watches and timers are delivered, and terminating
\* namespaces go away; nobody else has to act.
Fairness ==
    /\ WF_vars(Reconcile)
    /\ WF_vars(DeliverCP) /\ WF_vars(TimerFires)
    /\ \A n \in Namespaces :
          WF_vars(DeliverNS(n)) /\ WF_vars(DeliverNP(n)) /\ WF_vars(NamespaceGone(n))

FairSpec == Spec /\ Fairness
----------------------------------------------------------------------------
(* Properties.                                                             *)

\* Type invariant.
TypeOK ==
    /\ cp \in ClusterPolicies \cup {Nil} /\ cpCache \in ClusterPolicies \cup {Nil}
    /\ ns \in [Namespaces -> NamespaceStates] /\ nsCache \in [Namespaces -> NamespaceStates]
    /\ np \in [Namespaces -> NetworkPolicies \cup {Nil}]
    /\ npCache \in [Namespaces -> NetworkPolicies \cup {Nil}]
    /\ cpCacheCur \in BOOLEAN /\ npCacheCur \in [Namespaces -> BOOLEAN]
    /\ queued \in BOOLEAN /\ timer \in BOOLEAN
    /\ pc \in {"idle", "resolve", "apply", "gc", "status"}
    /\ run \in Runs \cup {Nil} /\ ((pc = "idle") <=> (run = Nil))
    /\ dns \in [Matches -> Answers \cup {Nil}]
    /\ left \in 0..MaxDisruptions
    /\ agreed \subseteq IPs

ForeignPeers == UNION {Peers(f.spec) : f \in ForeignNPs}

\* README "no NetworkPolicy write happens until the next clean resolution", for
\* the fan-out: where every Enforce spec sets blockOnDivergence, no namespace
\* ever admits an address that only divided answers contained, also when a
\* divided entry is retained over failing lookups.
DivergentNeverAdmitted ==
    \A n \in Namespaces : np[n] # Nil => Peers(np[n].spec) \ ForeignPeers \subseteq agreed

Enforced ==
    cp # Nil /\ cp.spec.policy.mode = "Enforce" /\ cp.status.ready # "DivergenceBlocked"

\* README "garbage-collects it if the namespace no longer matches the selector",
\* and the update of what exists: once nobody disturbs the system, an Enforce
\* policy that is not frozen reports the addresses DNS gives now, lists no
\* namespace that its selector does not select, every NetworkPolicy of its name
\* in a selected namespace has its addresses, and none with its label is left
\* elsewhere, although single writes, deletes and whole cycles failed or ran on
\* stale caches before.
Synced ==
    Enforced =>
        /\ cp.status.observed = cp.generation
        /\ \A m \in cp.spec.policy.rules : dns[m] # Nil =>
              cp.status.resolved[m] = FreshEntry(dns[m], cp.spec.policy.security)
        /\ cp.status.affected \subseteq {n \in Namespaces : ns[n] \in cp.spec.selects}
        /\ \A n \in Namespaces : np[n] # Nil =>
              IF ns[n] \in cp.spec.selects
              THEN np[n].spec.peers = Build(cp.spec.policy, cp.status.resolved).peers
              ELSE ~np[n].labelled

EventuallySynced == <>[]Synced

\* README "The controller creates one `NetworkPolicy` per matched namespace": once
\* nobody disturbs the system, an Enforce policy that is not frozen has a
\* NetworkPolicy in every active namespace it selects.  Violated: the server
\* refuses every create, for want of the owner's uid.
EventuallyFannedOut ==
    <>[](Enforced => \A n \in Namespaces : ns[n] \in cp.spec.selects => np[n] # Nil)
=============================================================================
