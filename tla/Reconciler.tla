----------------------------- MODULE Reconciler -----------------------------
(***************************************************************************)
(* The FQDNNetworkPolicy controller                                        *)
(* (internal/controller/fqdnnetworkpolicy_controller.go) running against   *)
(* the Kubernetes API server, for one policy object.                       *)
(*                                                                         *)
(* The handler Reconcile is not atomic: it reads the policy from the       *)
(* informer cache, resolves every rule, writes the NetworkPolicy and then  *)
(* the status.  Each of these is a step of its own; between them users     *)
(* edit or delete the policy, other actors touch the NetworkPolicy, DNS    *)
(* changes, watch events arrive, API calls fail and the controller         *)
(* restarts.                                                               *)
(*                                                                         *)
(* resourceVersion is represented by what it decides: fpCacheCur,          *)
(* npCacheCur and run.cur say whether a copy is still the server's current *)
(* version, hence whether a write based on it succeeds or conflicts.       *)
(*                                                                         *)
(* Left out here: events, logs and metrics; recordDrift (DriftWorkflow);   *)
(* the churn tracker, buildIPEnrichments and the length of RequeueAfter    *)
(* (CycleTrackers), none of which changes what is enforced.                *)
(***************************************************************************)
EXTENDS PolicyLogic

CONSTANTS
    Specs,           \* the specs users may write
    Answers,         \* the resolutions DNS may give
    ForeignNPs,      \* what other actors may write into the NetworkPolicy
    MaxDisruptions,  \* bound on steps of users, other actors, DNS, and faults
    MaxUID           \* bound on the incarnations of the policy object

VARIABLES
    fp,          \* the FQDNNetworkPolicy stored by the API server, or Nil
    np,          \* the NetworkPolicy fqdnnp-<name>, or Nil
    fpCache,     \* the informer caches of both
    npCache,
    fpCacheCur,  \* the cached copy has the server's resourceVersion
    npCacheCur,
    queued,      \* the request is in the work queue
    timer,       \* the request is in the queue's delayed list
    pc,          \* the next step of the running Reconcile
    run,         \* its local state: the copy of the policy it works on
    dns,         \* what a lookup of each match returns now; Nil: an error
    left,        \* disruptions left
    permitted,   \* history: address classes some stored spec let through
    agreed       \* history: addresses some undivided answer contained

server     == <<fp, np>>
caches     == <<fpCache, npCache, fpCacheCur, npCacheCur>>
queue      == <<queued, timer>>
history    == <<permitted, agreed>>
vars       == <<fp, np, fpCache, npCache, fpCacheCur, npCacheCur, queued,
                timer, pc, run, dns, left, permitted, agreed>>

ReadyReasons    == {"none", "Reconciled", "ResolutionDegraded", "AuditMode",
                    "DivergenceBlocked"}
DegradedReasons == {"none", "OK", "ResolutionErrors", "DivergenceBlocked"}

Statuses ==
    [resolved: ResolvedHosts,
     generated: BOOLEAN,            \* GeneratedNetworkPolicy # ""
     observed: Nat,                 \* ObservedGeneration
     ready: ReadyReasons,           \* reason of the Ready condition
     degraded: DegradedReasons,     \* reason of the Degraded condition
     divergence: {"none", "True", "False"}]

Policies == [uid: 1..MaxUID, generation: Nat \ {0}, spec: Specs, status: Statuses]

\* owner: the uid in the controller OwnerReference, 0 for none.
NetworkPolicies == [spec: NetworkPolicySpecs, owner: 0..MaxUID]

Runs == [obj: Policies, cur: BOOLEAN, failed: SUBSET Matches,
         errors: SUBSET Matches]

ASSUME ReconcilerConstants ==
    /\ Specs \subseteq PolicySpecs
    /\ Answers \subseteq Resolutions
    /\ ForeignNPs \subseteq NetworkPolicySpecs
    /\ Nil \notin Answers /\ Nil \notin Policies /\ Nil \notin Runs
    /\ MaxDisruptions \in Nat
    /\ MaxUID \in Nat \ {0}

NoStatus == [resolved |-> NoHosts, generated |-> FALSE, observed |-> 0,
             ready |-> "none", degraded |-> "none", divergence |-> "none"]

\* The address classes a spec lets through: public, and those it opts out of.
PermittedBy(spec) ==
    {c \in Classes : c \in BlockableClasses =>
                         spec.security # Nil /\ spec.security.block[c] = FALSE}

NewPolicy(uid, spec) ==
    [uid |-> uid, generation |-> 1, spec |-> spec, status |-> NoStatus]
----------------------------------------------------------------------------
Init ==
    /\ \E s \in Specs : fp = NewPolicy(1, s) /\ permitted = PermittedBy(s)
    /\ np = Nil
    /\ fpCache = Nil /\ fpCacheCur = FALSE
    /\ npCache = Nil /\ npCacheCur = TRUE
    /\ queued = FALSE /\ timer = FALSE
    /\ pc = "idle" /\ run = Nil
    /\ dns \in [Matches \ Wildcards -> Answers \cup {Nil}]
    /\ left = MaxDisruptions
    /\ agreed = {}

\* A write of the policy or of the NetworkPolicy gives it a new
\* resourceVersion: every copy taken before is stale.
WriteFP(new) ==
    /\ fp' = new
    /\ fpCacheCur' = FALSE
    /\ run' = IF run = Nil THEN Nil ELSE [run EXCEPT !.cur = FALSE]

WriteNP(new) == np' = new /\ npCacheCur' = FALSE

Disrupt == left > 0 /\ left' = left - 1
----------------------------------------------------------------------------
(* Reconcile.                                                              *)

\* Mutants of Return and RequeueLater: local state survives the handler; the
\* request is dropped.
ReturnKeepingRun == pc' = "idle" /\ UNCHANGED run
RequeueNever == UNCHANGED <<timer, queued>>

\* Leaving the handler.  An error requeues the request with backoff; both
\* that and RequeueAfter put it in the delayed list.
Return == pc' = "idle" /\ run' = Nil
RequeueLater == timer' = TRUE /\ UNCHANGED queued

\* r.Get of a policy the cache does not have: the request is dropped.
ReconcileNotFound ==
    /\ pc = "idle" /\ queued /\ fpCache = Nil
    /\ queued' = FALSE
    /\ UNCHANGED <<server, caches, timer, pc, run, dns, left, history>>

\* r.Get of a cached policy.
ReconcileStart ==
    /\ pc = "idle" /\ queued /\ fpCache # Nil
    /\ queued' = FALSE
    /\ pc' = "resolve"
    /\ run' = [obj |-> fpCache, cur |-> fpCacheCur, failed |-> {}, errors |-> {}]
    /\ UNCHANGED <<server, caches, timer, dns, left, history>>

setReadyCondition(status, errors) ==
    IF errors # {}
    THEN [status EXCEPT !.ready = "ResolutionDegraded", !.degraded = "ResolutionErrors"]
    ELSE [status EXCEPT !.ready = "Reconciled", !.degraded = "OK"]

setResolverDivergenceCondition(status, resolved) ==
    [status EXCEPT !.divergence = IF anyDivergence(resolved) THEN "True" ELSE "False"]

WithResolved(status, resolved) ==
    setResolverDivergenceCondition([status EXCEPT !.resolved = resolved], resolved)

\* The addresses of this cycle's answers that all upstreams agreed on.
AgreedIPs(spec, answers) ==
    UNION {answers[m].ips :
             m \in {k \in spec.rules \ Wildcards : answers[k] # Nil /\ ~Divergent(answers[k])}}

\* The status an Audit policy gets: Degraded is left as it was.
AuditStatus(obj, status) ==
    [status EXCEPT !.generated = FALSE, !.observed = obj.generation,
                   !.ready = "AuditMode"]

\* The status of a cycle frozen by BlockOnDivergence.
FrozenStatus(obj, status) ==
    [status EXCEPT !.observed = obj.generation, !.ready = "DivergenceBlocked",
                   !.degraded = "DivergenceBlocked"]

\* Whether this cycle leaves the NetworkPolicy alone.
Freezes(spec, resolved) == blockOnDivergence(spec.security) /\ anyDivergence(resolved)

\* The rule loop, then the branch on Audit mode and on divergence.
ReconcileResolve ==
    LET obj      == run.obj
        resolved == ResolveRules(obj.status.resolved, obj.spec, dns)
        status   == WithResolved(obj.status, resolved)
        after    == IF obj.spec.mode = "Audit" THEN AuditStatus(obj, status)
                    ELSE IF Freezes(obj.spec, resolved) THEN FrozenStatus(obj, status)
                    ELSE status
    IN /\ pc = "resolve"
       /\ pc' = IF obj.spec.mode = "Audit" \/ Freezes(obj.spec, resolved)
                THEN "status" ELSE "apply"
       /\ run' = [run EXCEPT !.obj.status = after,
                             !.failed = {m \in obj.spec.rules \ Wildcards : dns[m] = Nil},
                             !.errors = ResolutionErrors(obj.spec, dns)]
       /\ agreed' = agreed \cup AgreedIPs(obj.spec, dns)
       /\ UNCHANGED <<server, caches, queue, dns, left, permitted>>

Desired == Build(run.obj.spec, run.obj.status.resolved)

\* The three writes applyNetworkPolicy may make, from the cached copy.
CreatesNP == npCache = Nil
SkipsNP   == npCache # Nil /\ ipSetsEqual(npCache.spec, Desired)
UpdatesNP == npCache # Nil /\ ~ipSetsEqual(npCache.spec, Desired)

\* Mutant of NewControllerRef: no OwnerReference.
NoControllerRef(obj) == 0

\* metav1.NewControllerRef(fp, ...) of the object Build returns.
NewControllerRef(obj) == obj.uid

\* The object sent: Create sends desired with its owner, Update the cached
\* object with the new spec.
SentNP == [spec |-> Desired,
           owner |-> IF CreatesNP THEN NewControllerRef(run.obj) ELSE npCache.owner]

\* The API server accepts: no such object yet, or the cached version is the
\* stored one.
Accepted == IF CreatesNP THEN np = Nil ELSE np # Nil /\ npCacheCur

AppliedStatus ==
    setReadyCondition([run.obj.status EXCEPT !.generated = TRUE,
                                             !.observed = run.obj.generation],
                      run.errors)

\* applyNetworkPolicy without error.
ReconcileApply ==
    /\ pc = "apply"
    /\ \/ SkipsNP /\ UNCHANGED <<np, npCacheCur>>
       \/ (CreatesNP \/ UpdatesNP) /\ Accepted /\ WriteNP(SentNP)
    /\ pc' = "status"
    /\ run' = [run EXCEPT !.obj.status = AppliedStatus]
    /\ UNCHANGED <<fp, fpCache, npCache, fpCacheCur, queue, dns, left, history>>

\* AlreadyExists, NotFound or Conflict: the cached copy was stale.
ReconcileApplyRejected ==
    /\ pc = "apply"
    /\ ~SkipsNP /\ ~Accepted
    /\ Return /\ RequeueLater
    /\ UNCHANGED <<server, caches, dns, left, history>>

\* A failing API call; the write may have reached the server.
ReconcileApplyFails ==
    /\ pc = "apply"
    /\ ~SkipsNP /\ Accepted
    /\ Disrupt
    /\ WriteNP(SentNP) \/ UNCHANGED <<np, npCacheCur>>
    /\ Return /\ RequeueLater
    /\ UNCHANGED <<fp, fpCache, npCache, fpCacheCur, dns, history>>

\* Mutant of StatusAccepted: the write ignores the resourceVersion.
StatusAcceptedBlindly == fp # Nil

\* Status().Update writes only the status.  A status equal to the stored one
\* need not make a new version (only LastSeen may differ).
StatusAccepted == fp # Nil /\ run.cur

WriteStatus ==
    /\ fp' = [fp EXCEPT !.status = run.obj.status]
    /\ fpCacheCur' \in IF fp.status = run.obj.status THEN {FALSE, fpCacheCur} ELSE {FALSE}

ReconcileStatus ==
    /\ pc = "status"
    /\ StatusAccepted
    /\ WriteStatus
    /\ Return /\ RequeueLater
    /\ UNCHANGED <<np, fpCache, npCache, npCacheCur, dns, left, history>>

ReconcileStatusRejected ==
    /\ pc = "status"
    /\ ~StatusAccepted
    /\ Return /\ RequeueLater
    /\ UNCHANGED <<server, caches, dns, left, history>>

ReconcileStatusFails ==
    /\ pc = "status"
    /\ StatusAccepted
    /\ Disrupt
    /\ WriteStatus \/ UNCHANGED <<fp, fpCacheCur>>
    /\ Return /\ RequeueLater
    /\ UNCHANGED <<np, fpCache, npCache, npCacheCur, dns, history>>

Reconcile ==
    \/ ReconcileNotFound \/ ReconcileStart \/ ReconcileResolve
    \/ ReconcileApply \/ ReconcileApplyRejected
    \/ ReconcileStatus \/ ReconcileStatusRejected
----------------------------------------------------------------------------
(* controller-runtime and Kubernetes (external).                           *)

\* A watch event of the policy (For) reaches the cache and the queue.
DeliverFP ==
    /\ ~fpCacheCur
    /\ fpCache' = fp /\ fpCacheCur' = TRUE
    /\ queued' = TRUE
    /\ UNCHANGED <<server, npCache, npCacheCur, timer, pc, run, dns, left, history>>

\* A watch event of the owned NetworkPolicy (Owns): the request is the name
\* in the OwnerReference.
DeliverNP ==
    /\ ~npCacheCur
    /\ npCache' = np /\ npCacheCur' = TRUE
    /\ queued' = TRUE
    /\ UNCHANGED <<server, fpCache, fpCacheCur, timer, pc, run, dns, left, history>>

TimerFires ==
    /\ timer
    /\ timer' = FALSE /\ queued' = TRUE
    /\ UNCHANGED <<server, caches, pc, run, dns, left, history>>

\* The garbage collector deletes a NetworkPolicy whose owner is gone.
CollectNP ==
    /\ np # Nil /\ np.owner # 0
    /\ fp # Nil => fp.uid # np.owner
    /\ WriteNP(Nil)
    /\ UNCHANGED <<fp, fpCache, npCache, fpCacheCur, queue, pc, run, dns, left, history>>

Platform == DeliverFP \/ DeliverNP \/ TimerFires \/ CollectNP
----------------------------------------------------------------------------
(* Users, other actors, DNS, faults.                                       *)

EditSpec(s) ==
    /\ Disrupt
    /\ fp # Nil /\ s # fp.spec
    /\ WriteFP([fp EXCEPT !.spec = s, !.generation = @ + 1])
    /\ permitted' = permitted \cup PermittedBy(s)
    /\ UNCHANGED <<np, fpCache, npCache, npCacheCur, queue, pc, dns, agreed>>

DeletePolicy ==
    /\ Disrupt
    /\ fp # Nil
    /\ WriteFP(Nil)
    /\ UNCHANGED <<np, fpCache, npCache, npCacheCur, queue, pc, dns, history>>

\* A new object gets a uid that no copy of an earlier one carries.
UIDsInUse ==
    {o.uid : o \in {fpCache} \ {Nil}}
        \cup {r.obj.uid : r \in {run} \ {Nil}}
        \cup {n.owner : n \in {np, npCache} \ {Nil}}

CreatePolicy(u, s) ==
    /\ Disrupt
    /\ fp = Nil /\ u \notin UIDsInUse
    /\ WriteFP(NewPolicy(u, s))
    /\ permitted' = permitted \cup PermittedBy(s)
    /\ UNCHANGED <<np, fpCache, npCache, npCacheCur, queue, pc, dns, agreed>>

\* Another actor edits or deletes the generated NetworkPolicy.
ForeignWrite(s) ==
    /\ Disrupt
    /\ np # Nil /\ s # np.spec
    /\ WriteNP([np EXCEPT !.spec = s])
    /\ UNCHANGED <<fp, fpCache, npCache, fpCacheCur, queue, pc, run, dns, history>>

ForeignDelete ==
    /\ Disrupt
    /\ np # Nil
    /\ WriteNP(Nil)
    /\ UNCHANGED <<fp, fpCache, npCache, fpCacheCur, queue, pc, run, dns, history>>

DNSChange(m, a) ==
    /\ Disrupt
    /\ a # dns[m]
    /\ dns' = [dns EXCEPT ![m] = a]
    /\ UNCHANGED <<server, caches, queue, pc, run, history>>

\* The controller stops and starts again: the caches are listed anew before
\* any worker runs, and every listed object is enqueued.
Restart ==
    /\ Disrupt
    /\ Return
    /\ fpCache' = fp /\ fpCacheCur' = TRUE
    /\ npCache' = np /\ npCacheCur' = TRUE
    /\ queued' = (fp # Nil \/ np # Nil)
    /\ timer' = FALSE
    /\ UNCHANGED <<server, dns, history>>

Environment ==
    \/ \E s \in Specs : EditSpec(s)
    \/ DeletePolicy
    \/ \E u \in 1..MaxUID, s \in Specs : CreatePolicy(u, s)
    \/ \E s \in ForeignNPs : ForeignWrite(s)
    \/ ForeignDelete
    \/ \E m \in Matches \ Wildcards, a \in Answers \cup {Nil} : DNSChange(m, a)
    \/ Restart
    \/ ReconcileApplyFails \/ ReconcileStatusFails

Next == Reconcile \/ Platform \/ Environment

Spec == Init /\ [][Next]_vars

\* A worker goroutine runs the handler to its end, watches and timers are
\* delivered and the garbage collector runs; nobody else has to act.
Fairness ==
    /\ WF_vars(Reconcile)
    /\ WF_vars(DeliverFP) /\ WF_vars(DeliverNP)
    /\ WF_vars(TimerFires) /\ WF_vars(CollectNP)

FairSpec == Spec /\ Fairness
----------------------------------------------------------------------------
(* Properties.                                                             *)

\* Type invariant.
TypeOK ==
    /\ fp \in Policies \cup {Nil}
    /\ np \in NetworkPolicies \cup {Nil}
    /\ fpCache \in Policies \cup {Nil}
    /\ npCache \in NetworkPolicies \cup {Nil}
    /\ fpCacheCur \in BOOLEAN /\ npCacheCur \in BOOLEAN
    /\ queued \in BOOLEAN /\ timer \in BOOLEAN
    /\ pc \in {"idle", "resolve", "apply", "status"}
    /\ run \in Runs \cup {Nil}
    /\ (pc = "idle") <=> (run = Nil)
    /\ dns \in [Matches \ Wildcards -> Answers \cup {Nil}]
    /\ left \in 0..MaxDisruptions
    /\ permitted \subseteq Classes
    /\ agreed \subseteq IPs

\* The addresses other actors put into the NetworkPolicy themselves.
ForeignPeers == UNION {Peers(n) : n \in ForeignNPs}

\* Until some user has stored a spec that opts out of blocking an address
\* class (security.blockPrivateIPs etc.), no address of that class reaches the
\* NetworkPolicy or the status: not through stale caches, retained entries,
\* retries of half-done cycles, restarts or a recreated policy.
NoUnpermittedClass ==
    /\ np # Nil => \A ip \in Peers(np.spec) \ ForeignPeers : ClassOf[ip] \in permitted
    /\ fp # Nil => \A m \in Matches : fp.status.resolved[m] # Nil =>
            \A ip \in fp.status.resolved[m].ips : ClassOf[ip] \in permitted

\* README "Fail-closed": the controller never leaves a NetworkPolicy whose
\* egress rule has an empty peer list, which would open every destination.
FailClosed ==
    np # Nil => ~AllowsAnyDestination(np.spec) \/ np.spec \in ForeignNPs

\* README "no NetworkPolicy write happens until the next clean resolution":
\* where every Enforce spec sets security.blockOnDivergence, an address that
\* only ever came in an answer its upstreams disagreed on is never admitted,
\* also when later lookups fail and the divided entry is retained.
DivergentNeverAdmitted ==
    np # Nil => Peers(np.spec) \ ForeignPeers \subseteq agreed

\* status.observedGeneration "lets us detect stale status vs spec": when it
\* equals the generation, the status was computed from this very spec, whatever
\* edits raced with the cycle that wrote it.
StatusMatchesGeneration ==
    fp # Nil /\ fp.status.observed = fp.generation =>
        /\ \A m \in Matches : fp.status.resolved[m] # Nil => m \in fp.spec.rules \ Wildcards
        /\ (fp.status.ready = "AuditMode") <=> (fp.spec.mode = "Audit")
        /\ fp.spec.mode = "Audit" => ~fp.status.generated

\* A failed lookup retains the stored entry of its host: no status write
\* replaces or drops the entry of a rule whose lookup failed in that cycle,
\* however stale the copy the cycle started from.
FailureKeepsEntry ==
    [][pc = "status" /\ fp # Nil /\ fp' # Nil /\ fp'.status # fp.status =>
        \A m \in run.failed : fp'.status.resolved[m] = fp.status.resolved[m]]_fp

\* Once nobody disturbs the system any more, a policy in Enforce mode that is
\* not frozen has a NetworkPolicy of its own whose peers are the addresses of
\* its status, and the status has the current answer of every resolvable host.
Converged ==
    fp # Nil =>
        /\ fp.status.observed = fp.generation
        /\ \A m \in fp.spec.rules \ Wildcards : dns[m] # Nil =>
               fp.status.resolved[m] = FreshEntry(dns[m], fp.spec.security)
        /\ fp.spec.mode = "Enforce" /\ fp.status.ready # "DivergenceBlocked" =>
               /\ np # Nil
               /\ np.owner = fp.uid
               /\ np.spec.peers = Build(fp.spec, fp.status.resolved).peers

EventuallyConverged == <>[]Converged

\* A NetworkPolicy does not outlive its deleted policy, not even one that a
\* cycle in flight creates after the deletion.
OrphanCollected == [](fp = Nil => <>(fp # Nil \/ np = Nil))

\* README "Ready True Reconciled: NetworkPolicy is up to date": once nobody
\* disturbs the system, a policy that reports Reconciled for its generation has
\* the NetworkPolicy Build makes from its spec, ports and selector included.
SpecTakesEffect ==
    <>[](fp # Nil /\ fp.status.ready = "Reconciled" /\ fp.status.observed = fp.generation =>
            np # Nil /\ np.spec = Build(fp.spec, fp.status.resolved))

\* README "a resolution failure retains the last known-good IPs for that host
\* rather than revoking access": with a spec nobody edits, a cycle in which
\* every lookup failed takes no address out of the NetworkPolicy.
FailureKeepsAccess ==
    [][pc = "apply" /\ run.failed = run.obj.spec.rules /\ np # Nil /\ np' # Nil =>
        Peers(np.spec) \subseteq Peers(np'.spec)]_np
=============================================================================
