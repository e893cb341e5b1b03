--------------------------- MODULE DriftWorkflow ---------------------------
(***************************************************************************)
(* Egress drift and the commands built on it, for one namespace.           *)
(*                                                                         *)
(* The DNS proxy records hostnames; every Reconcile of an                  *)
(* FQDNNetworkPolicy writes into its status the hostnames that no policy   *)
(* of the namespace covers (recordDrift in internal/controller/drift.go);  *)
(* the observation object collects all of them (EgressObservation has the  *)
(* detail).  An operator turns either into a manifest with kubectl         *)
(* fqdn-policy suggest or profile and applies it later through the         *)
(* admission webhook.                                                      *)
(*                                                                         *)
(* Policies are read from the informer cache by the controller and from    *)
(* the server by the plugin.  Of Reconcile only what concerns drift is     *)
(* modelled; Reconciler has the rest.                                      *)
(***************************************************************************)
EXTENDS DomainLogic

CONSTANTS
    Nil,
    Names,           \* hostnames that pods query
    PolicyNames,     \* policies of the namespace
    Suggested,       \* the name of "<policy>-suggested", for some policies
    Profiled,        \* the name of "<observation>-policy"
    RuleLists,       \* the spec.egress users write by hand
    Profiles,        \* the options profile is run with
    Hostnames,       \* these and others that exist
    PublicSuffixes,  \* the public suffixes of more than one label (co.uk)
    MaxQueries,      \* bound on the recorded queries
    MaxDisruptions   \* bound on steps of users, failing calls and restarts

VARIABLES
    flag,      \* --enable-snoop-resolver, which is what the webhook sees
    snoop,     \* the snoop resolver runs
    store,     \* ObservationStore: hostnames recorded and not pruned
    reported,  \* status.observedDomains of the observation object
    policies,  \* the FQDNNetworkPolicies at the server
    cache,     \* the informer cache's copies
    cur,       \* the copy has the server's resourceVersion
    run,       \* the running Reconcile, or Nil
    manifest,  \* the file the operator holds, or Nil
    counted,   \* history: hostnames ever counted in UnpoliciedDomainTotal
    queries,   \* queries left
    left       \* disruptions left

vars == <<flag, snoop, store, reported, policies, cache, cur, run, manifest, counted,
          queries, left>>

Policies == [egress: Seq(Rules), mode: {"Enforce", "Audit"}, drift: SUBSET Names]

ASSUME WorkflowConstants ==
    /\ Names \subseteq Seq(Labels) \ {<<>>}
    /\ DOMAIN Suggested \subseteq PolicyNames
    /\ \A p \in DOMAIN Suggested : Suggested[p] \in PolicyNames
    /\ Profiled \in PolicyNames
    /\ \A r \in RuleLists : r \in Seq(Rules)
    /\ Names \subseteq Hostnames /\ Hostnames \subseteq Seq(Labels)
    /\ PublicSuffixes \subseteq Seq(Labels) /\ \A s \in PublicSuffixes : Len(s) >= 2
    /\ \A o \in Profiles : o.threshold \in Int /\ o.mode \in {"Enforce", "Audit"}
    /\ MaxQueries \in Nat /\ MaxDisruptions \in Nat

NewPolicy(egress, mode) == [egress |-> egress, mode |-> mode, drift |-> {}]

MatchesOf(p) == {p.egress[i].match : i \in DOMAIN p.egress}

Existing(ps) == {ps[n] : n \in {m \in PolicyNames : ps[m] # Nil}}

\* Mutant of Started: the resolver is started whatever the flag says.
StartedAnyway == flag' \in BOOLEAN /\ snoop' = TRUE

\* A proxy that cannot listen is replaced by the multi-resolver; the webhook is
\* still told that snooping is enabled.
Started == flag' \in BOOLEAN /\ snoop' \in (IF flag' THEN BOOLEAN ELSE {FALSE})

Init ==
    /\ flag = TRUE /\ snoop = TRUE
    /\ store = {} /\ reported = {}
    /\ \E n \in DOMAIN Suggested, r \in RuleLists :
           /\ Admitted(r, flag)
           /\ policies = [m \in PolicyNames |-> IF m = n THEN NewPolicy(r, "Enforce") ELSE Nil]
    /\ cache = policies /\ cur = [n \in PolicyNames |-> TRUE]
    /\ run = Nil /\ manifest = Nil /\ counted = {}
    /\ queries = MaxQueries /\ left = MaxDisruptions

Disrupt == left > 0 /\ left' = left - 1

\* A write makes every copy taken before stale.
WritePolicy(n, new) ==
    /\ policies' = [policies EXCEPT ![n] = new]
    /\ cur' = [cur EXCEPT ![n] = FALSE]
    /\ run' = IF run # Nil /\ run.name = n THEN [run EXCEPT !.cur = FALSE] ELSE run
----------------------------------------------------------------------------
(* DNS proxy and observation object.                                       *)

\* Recording a query may prune names not seen for observationRetention.
Record(n) ==
    /\ snoop /\ queries > 0
    /\ queries' = queries - 1
    /\ \E old \in SUBSET (store \ {n}) : store' = (store \ old) \cup {n}
    /\ UNCHANGED <<flag, snoop, reported, policies, cache, cur, run, manifest, counted, left>>

\* FQDNEgressObservationReconciler merges what the store holds.
MergeObserved ==
    /\ snoop /\ ~(store \subseteq reported)
    /\ reported' = reported \cup store
    /\ UNCHANGED <<flag, snoop, store, policies, cache, cur, run, manifest, counted, queries, left>>
----------------------------------------------------------------------------
(* Reconcile of one policy; there is one worker.                           *)

ReconcileStart(n) ==
    /\ run = Nil /\ cache[n] # Nil
    /\ run' = [name |-> n, obj |-> cache[n], cur |-> cur[n], recorded |-> FALSE]
    /\ UNCHANGED <<flag, snoop, store, reported, policies, cache, cur, manifest, counted,
                   queries, left>>

\* The list is of the cache as it is now, which may not be the working copy.
computeUnpoliciedDomains ==
    {h \in store : ~isCovered(h, UNION {MatchesOf(p) : p \in Existing(cache)})}

\* Mutant of recordDrift: drift accumulates.
recordDriftForever ==
    /\ run' = [run EXCEPT !.recorded = TRUE,
                          !.obj.drift = IF snoop THEN @ \cup computeUnpoliciedDomains ELSE @]
    /\ counted' = IF snoop THEN counted \cup computeUnpoliciedDomains ELSE counted

recordDrift ==
    IF snoop
    THEN /\ run' = [run EXCEPT !.recorded = TRUE, !.obj.drift = computeUnpoliciedDomains]
         /\ counted' = counted \cup diffNewDomains(run.obj.drift, computeUnpoliciedDomains)
    ELSE run' = [run EXCEPT !.recorded = TRUE] /\ UNCHANGED counted

\* After the lookups.
ReconcileDrift ==
    /\ run # Nil /\ ~run.recorded
    /\ recordDrift
    /\ UNCHANGED <<flag, snoop, store, reported, policies, cache, cur, manifest, queries, left>>

\* The list fails: the cycle goes on with the drift it had.
ReconcileDriftFails ==
    /\ Disrupt
    /\ snoop /\ run # Nil /\ ~run.recorded
    /\ run' = [run EXCEPT !.recorded = TRUE]
    /\ UNCHANGED <<flag, snoop, store, reported, policies, cache, cur, manifest, counted, queries>>

StatusAccepted == policies[run.name] # Nil /\ run.cur

\* Status().Update keeps the spec.  One that changes nothing may leave the version.
WriteStatus ==
    /\ policies' = [policies EXCEPT ![run.name].drift = run.obj.drift]
    /\ \/ cur' = [cur EXCEPT ![run.name] = FALSE]
       \/ policies[run.name].drift = run.obj.drift /\ UNCHANGED cur

\* A conflict is returned as an error; either way the request comes back.
ReconcileStatus ==
    /\ run # Nil /\ run.recorded
    /\ IF StatusAccepted THEN WriteStatus ELSE UNCHANGED <<policies, cur>>
    /\ run' = Nil
    /\ UNCHANGED <<flag, snoop, store, reported, cache, manifest, counted, queries, left>>

\* An earlier step of Reconcile fails, or the update does, perhaps after it
\* reached the server.
ReconcileFails ==
    /\ Disrupt
    /\ run # Nil
    /\ \/ UNCHANGED <<policies, cur>>
       \/ run.recorded /\ StatusAccepted /\ WriteStatus
    /\ run' = Nil
    /\ UNCHANGED <<flag, snoop, store, reported, cache, manifest, counted, queries>>

Deliver(n) ==
    /\ ~cur[n]
    /\ cache' = [cache EXCEPT ![n] = policies[n]] /\ cur' = [cur EXCEPT ![n] = TRUE]
    /\ UNCHANGED <<flag, snoop, store, reported, policies, run, manifest, counted, queries, left>>
----------------------------------------------------------------------------
(* The operator.                                                           *)

\* suggest prints a manifest with one rule per drifting hostname.
runSuggest(n) ==
    /\ Disrupt
    /\ n \in DOMAIN Suggested /\ policies[n] # Nil /\ policies[n].drift # {}
    /\ manifest' = [name |-> Suggested[n], mode |-> "Audit",
                    egress |-> SetToSeq({[match |-> h, ports |-> {}] : h \in policies[n].drift})]
    /\ UNCHANGED <<flag, snoop, store, reported, policies, cache, cur, run, counted, queries>>

runProfile(o) ==
    LET p == SynthesizePolicy(reported, o.threshold, o.preset, o.mode)
    IN /\ Disrupt
       /\ reported # {}
       /\ manifest' = [name |-> Profiled, mode |-> p.mode, egress |-> p.egress]
       /\ UNCHANGED <<flag, snoop, store, reported, policies, cache, cur, run, counted, queries>>

\* kubectl apply of the manifest, if the webhook lets it through: the spec is
\* replaced as a whole.
Apply ==
    /\ Disrupt
    /\ manifest # Nil /\ Admitted(manifest.egress, flag)
    /\ WritePolicy(manifest.name,
           IF policies[manifest.name] = Nil THEN NewPolicy(manifest.egress, manifest.mode)
           ELSE [policies[manifest.name] EXCEPT !.egress = manifest.egress, !.mode = manifest.mode])
    /\ UNCHANGED <<flag, snoop, store, reported, cache, manifest, counted, queries>>

EditPolicy(n, r, mode) ==
    /\ Disrupt
    /\ policies[n] # Nil /\ Admitted(r, flag)
    /\ WritePolicy(n, [policies[n] EXCEPT !.egress = r, !.mode = mode])
    /\ UNCHANGED <<flag, snoop, store, reported, cache, manifest, counted, queries>>

DeletePolicy(n) ==
    /\ Disrupt
    /\ policies[n] # Nil
    /\ WritePolicy(n, Nil)
    /\ UNCHANGED <<flag, snoop, store, reported, cache, manifest, counted, queries>>

\* A new process: the store is gone, the status is not.
Restart ==
    /\ Disrupt
    /\ Started
    /\ store' = {} /\ run' = Nil
    /\ cache' = policies /\ cur' = [n \in PolicyNames |-> TRUE]
    /\ UNCHANGED <<reported, policies, manifest, counted, queries>>

Reconcile(n) ==
    ReconcileStart(n) \/ (run # Nil /\ run.name = n /\ (ReconcileDrift \/ ReconcileStatus))

Next ==
    \/ \E h \in Names : Record(h)
    \/ MergeObserved
    \/ \E n \in PolicyNames : Reconcile(n) \/ Deliver(n) \/ runSuggest(n) \/ DeletePolicy(n)
    \/ \E n \in PolicyNames, r \in RuleLists : EditPolicy(n, r, "Enforce")
    \/ \E o \in Profiles : runProfile(o)
    \/ ReconcileDriftFails \/ ReconcileFails \/ Apply \/ Restart

Spec == Init /\ [][Next]_vars

\* Every policy is requeued after each cycle and the queue is served in turn, so
\* no policy is passed over for ever; watches are delivered.
Fairness ==
    /\ \A n \in PolicyNames : SF_vars(ReconcileStart(n)) /\ WF_vars(Deliver(n))
    /\ WF_vars(ReconcileDrift) /\ WF_vars(ReconcileStatus)

FairSpec == Spec /\ Fairness
----------------------------------------------------------------------------
(* Properties.                                                             *)

Runs == [name: PolicyNames, obj: Policies, cur: BOOLEAN, recorded: BOOLEAN]

\* Type invariant.
TypeOK ==
    /\ flag \in BOOLEAN /\ snoop \in BOOLEAN /\ (snoop => flag)
    /\ store \subseteq Names /\ reported \subseteq Names /\ counted \subseteq Names
    /\ \A n \in PolicyNames : {policies[n], cache[n]} \subseteq Policies \cup {Nil}
    /\ cur \in [PolicyNames -> BOOLEAN]
    /\ run = Nil \/ run \in Runs
    /\ queries \in 0..MaxQueries /\ left \in 0..MaxDisruptions

\* README "A newly-observed drifted hostname is logged and counted": no hostname
\* is ever reported as drift by a status without having been counted, although
\* the count is made before the update, against a copy that may be stale, and
\* the update may be lost.
DriftCounted ==
    \A n \in PolicyNames : policies[n] # Nil => policies[n].drift \subseteq counted

\* README "recomputed fresh every reconcile rather than accumulated, so it clears
\* on its own once a policy in the namespace covers the hostname": once nobody
\* disturbs the system, while the snoop resolver runs, every policy's status
\* lists exactly the recorded hostnames that no policy of the namespace covers,
\* the ones a suggestion or a profile was applied for no longer.
DriftSettled ==
    snoop => \A n \in PolicyNames : policies[n] # Nil =>
        policies[n].drift =
            {h \in store : ~isCovered(h, UNION {MatchesOf(p) : p \in Existing(policies)})}

DriftClears == <>[]DriftSettled

ProfileOf(o) == SynthesizePolicy(reported, o.threshold, o.preset, o.mode)

\* README "Identifies exactly which domains will be permitted and which domains
\* will be BLOCKED" and "Synthesizes a production-ready FQDNNetworkPolicy from
\* observed DNS traffic": whatever was observed, in whatever spelling, the profile
\* of an observation simulated against that observation blocks nothing, and the
\* controller's own matcher counts the profiled names (in lower case) as covered.
RoundTrip ==
    \A o \in Profiles :
        LET p == ProfileOf(o)
        IN  /\ Simulate(p, reported).blocked = {}
            /\ \A h \in FilterDomains(reported) : isCovered(ToLower(h), MatchesOf(p))

\* n and h have a domain in common that lies below the public suffixes of n.
SameOwner(n, h) ==
    \E k \in 2..Len(n) :
        LET domain == SubSeq(ToLower(n), 1, k)
        IN  /\ IsPrefix(domain, ToLower(h))
            /\ \A s \in PublicSuffixes : IsPrefix(s, ToLower(n)) => ~IsPrefix(domain, s)

\* The suffix of n is not in the code's table (com.br).
Unlisted(n) == \E s \in PublicSuffixes \ commonMultiPartTLDs : IsPrefix(s, ToLower(n))

\* cluster.go "correctly accounting for common two-part public suffixes": whatever a
\* profile lets through was observed or has the owner of an observed name; below a
\* suffix that the code's table lacks it may be anything below the base domain of
\* an observed name.  The audit calls no rule of the profile too broad.
NoForeignDomain ==
    \A o \in Profiles :
        LET p == ProfileOf(o)
            audits == Simulate(p, reported).audits
        IN  /\ \A h \in Hostnames : findMatchingRule(h, p.egress) # <<>> =>
                   \E n \in reported :
                       \/ ToLower(h) = ToLower(n)
                       \/ SameOwner(n, h)
                       \/ Unlisted(n) /\ IsPrefix(BaseDomain(n), ToLower(h))
            /\ ~audits.everything /\ ~audits.wholeTopLevel

\* main.go "outputs a ready-to-apply FQDNNetworkPolicy": with snooping enabled the
\* webhook and the schema accept the profile of any observation that has an
\* external name, as long as the external names are hostnames fqdnRE knows.
ProfileAdmissible ==
    LET external == {h \in reported : ~IsInternalDomain(h)}
    IN  external # {} /\ (\A h \in external : fqdnRE(h)) =>
            \A o \in Profiles : Admitted(ProfileOf(o).egress, TRUE)
=============================================================================
