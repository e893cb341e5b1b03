---------------------- MODULE ClusterReconcilerProofs ----------------------
(***************************************************************************)
(* Proofs about ClusterReconciler, for every set of namespaces, labels,    *)
(* hosts, addresses, specs and answers, and every bound on disruptions.    *)
(***************************************************************************)
EXTENDS ClusterReconciler, PolicyLogicProofs
----------------------------------------------------------------------------
(* Type correctness.                                                       *)

\* The fresh status of a new policy object.
LEMMA NewPolicyType ==
    ASSUME NEW s \in ClusterSpecs
    PROVE  NewPolicy(s) \in ClusterPolicies
BY DEF NewPolicy, ClusterPolicies, ClusterStatuses, NoHosts, ResolvedHosts

\* The rule loop turns a status and the answers of DNS into a status.
LEMMA LoopType ==
    ASSUME TypeOK, NEW hosts \in ResolvedHosts, NEW spec \in PolicySpecs
    PROVE  ResolveClusterRules(hosts, spec) \in ResolvedHosts
<1> SUFFICES ASSUME NEW m \in Matches, m \in spec.rules
             PROVE  ResolveClusterRules(hosts, spec)[m] \in Entries \cup {Nil}
  BY DEF ResolveClusterRules, ResolvedHosts
<1>1. CASE dns[m] = Nil
  BY <1>1 DEF ResolveClusterRules, findPreviousCluster, ResolvedHosts
<1>2. CASE dns[m] # Nil
  <2>1. dns[m] \in Resolutions
    BY <1>2, ClusterConstants DEF TypeOK
  <2>2. FreshEntry(dns[m], spec.security) \in Entries \cup {Nil}
    BY <2>1, FreshEntryType
  <2> QED
    BY <1>2, <2>2 DEF ResolveClusterRules
<1> QED
  BY <1>1, <1>2

\* The copy a cycle works on.
LEMMA RunType ==
    ASSUME TypeOK, run # Nil
    PROVE  /\ run \in Runs /\ run.obj \in ClusterPolicies /\ run.obj.spec \in ClusterSpecs
           /\ run.obj.spec.policy \in PolicySpecs /\ run.obj.status \in ClusterStatuses
           /\ run.obj.status.resolved \in ResolvedHosts
           /\ run.matched \subseteq Namespaces /\ run.todo \subseteq Namespaces
<1>1. run \in Runs /\ run.obj \in ClusterPolicies
      /\ run.matched \subseteq Namespaces /\ run.todo \subseteq Namespaces
  BY DEF TypeOK, Runs
<1>2. run.obj.spec \in ClusterSpecs /\ run.obj.status \in ClusterStatuses
  BY <1>1 DEF ClusterPolicies
<1>3. run.obj.spec.policy \in PolicySpecs
  BY <1>2, ClusterConstants
<1>4. run.obj.status.resolved \in ResolvedHosts
  BY <1>2 DEF ClusterStatuses
<1> QED
  BY <1>1, <1>2, <1>3, <1>4

\* The run after the rule loop.
LEMMA ResolveRun ==
    ASSUME TypeOK, ReconcileResolve
    PROVE  /\ run # Nil /\ run' \in Runs /\ run' # Nil
           /\ run'.obj.spec = run.obj.spec
           /\ run'.obj.status.resolved
                  = ResolveClusterRules(run.obj.status.resolved, run.obj.spec.policy)
<1> DEFINE spec == run.obj.spec.policy
           hosts == ResolveClusterRules(run.obj.status.resolved, spec)
           matched == matchedNamespaces(run.obj.spec.selects)
           frozen == /\ spec.mode # "Audit"
                     /\ blockOnDivergence(spec.security)
                     /\ anyDivergence(hosts)
           enforce == spec.mode # "Audit" /\ ~frozen
           status == updateClusterStatus(run.obj, hosts, matched, ClusterErrors(spec), frozen)
           todo == IF enforce THEN matched ELSE {}
<1>1. run # Nil
  BY DEF TypeOK, ReconcileResolve
<1>2. /\ run \in Runs /\ run.obj \in ClusterPolicies /\ hosts \in ResolvedHosts
      /\ run.obj.status \in ClusterStatuses
  BY <1>1, RunType, LoopType
<1>3. run' = [run EXCEPT !.obj.status = status, !.matched = matched, !.todo = todo]
  BY DEF ReconcileResolve
<1>4. matched \subseteq Namespaces /\ todo \subseteq Namespaces
  BY DEF matchedNamespaces
<1> HIDE DEF hosts, matched, frozen
<1>5. status \in ClusterStatuses /\ status.resolved = hosts
  <2>1. run.obj.generation \in Nat /\ run.obj.status.degraded \in {"none", "DivergenceBlocked"}
    BY <1>2 DEF ClusterPolicies, ClusterStatuses
  <2> QED
    BY <1>2, <1>4, <2>1
    DEF updateClusterStatus, ClusterStatuses, setClusterResolverDivergenceCondition
<1> HIDE DEF status, todo
<1>6. run'.obj = [run.obj EXCEPT !.status = status]
  BY <1>2, <1>3 DEF Runs, ClusterPolicies
<1>7. run'.obj \in ClusterPolicies
  BY <1>2, <1>5, <1>6 DEF ClusterPolicies
<1>8. run' \in Runs
  BY <1>2, <1>3, <1>4, <1>6, <1>7 DEF Runs
<1>9. run'.obj.spec = run.obj.spec /\ run'.obj.status = status
  BY <1>2, <1>6 DEF ClusterPolicies
<1> QED
  BY <1>1, <1>5, <1>8, <1>9, ClusterConstants DEF hosts

\* A change of the list of namespaces to visit.
LEMMA TodoRun ==
    ASSUME TypeOK, run # Nil, NEW T, T \subseteq Namespaces, run' = [run EXCEPT !.todo = T]
    PROVE  run' \in Runs /\ run' # Nil /\ run'.obj = run.obj
<1>1. run \in Runs
  BY RunType
<1>2. run' \in Runs /\ run'.obj = run.obj
  BY <1>1 DEF Runs
<1> QED
  BY <1>2, ClusterConstants

\* One turn of the fan-out loop: its namespace and what it sends.
LEMMA TurnTypes ==
    ASSUME TypeOK, pc = "apply", run.todo # {}, NextNamespace
    PROVE  /\ run # Nil /\ Todo \in Namespaces /\ Desired \in NetworkPolicies
           /\ run' \in Runs /\ run' # Nil /\ run'.obj = run.obj
<1>1. run # Nil
  BY DEF TypeOK
<1>2. /\ run.todo \subseteq Namespaces /\ run.obj.spec.policy \in PolicySpecs
      /\ run.obj.status.resolved \in ResolvedHosts /\ run \in Runs
  BY <1>1, RunType
<1>3. Todo \in Namespaces
  BY <1>2, MinExists, ClusterConstants DEF Todo
<1>4. Desired \in NetworkPolicies
  BY <1>2, BuildType DEF Desired, NetworkPolicies
<1>5. run' = [run EXCEPT !.todo = run.todo \ {Todo}]
  BY <1>2 DEF NextNamespace, Runs
<1>6. run' \in Runs /\ run' # Nil /\ run'.obj = run.obj
  BY <1>1, <1>2, <1>5, TodoRun
<1> QED
  BY <1>1, <1>3, <1>4, <1>6

\* A write of a NetworkPolicy keeps the maps of namespaces.
LEMMA WriteNPType ==
    ASSUME TypeOK, NEW n \in Namespaces, NEW new \in NetworkPolicies \cup {Nil},
           WriteNP(n, new)
    PROVE  /\ np' \in [Namespaces -> NetworkPolicies \cup {Nil}]
           /\ npCacheCur' \in [Namespaces -> BOOLEAN]
BY DEF TypeOK, WriteNP

\* A policy write leaves the run as it was, except that its copy is stale.
LEMMA WriteCPRun ==
    ASSUME TypeOK, NEW STATE new, WriteCP(new)
    PROVE  /\ cp' = new /\ cpCacheCur' = FALSE
           /\ run' \in Runs \cup {Nil} /\ (run' = Nil <=> run = Nil)
           /\ run # Nil => run'.obj = run.obj
<1>1. CASE run = Nil
  BY <1>1 DEF WriteCP
<1>2. CASE run # Nil
  <2>1. run \in Runs /\ run' = [run EXCEPT !.cur = FALSE]
    BY <1>2 DEF WriteCP, TypeOK
  <2>2. run' \in Runs /\ run'.obj = run.obj
    BY <2>1 DEF Runs
  <2> QED
    BY <1>2, <2>2, ClusterConstants DEF WriteCP
<1> QED
  BY <1>1, <1>2

\* A status write stores the status of the run.
LEMMA WriteStatusType ==
    ASSUME TypeOK, run # Nil, cp # Nil, WriteStatus
    PROVE  /\ cp' \in ClusterPolicies /\ cp'.status = run.obj.status
           /\ cpCacheCur' \in BOOLEAN
<1>1. cp \in ClusterPolicies /\ run.obj.status \in ClusterStatuses
  BY RunType DEF TypeOK
<1>2. cp' = [cp EXCEPT !.status = run.obj.status]
  BY DEF WriteStatus
<1>3. cp' \in ClusterPolicies /\ cp'.status = run.obj.status
  BY <1>1, <1>2 DEF ClusterPolicies
<1>4. cpCacheCur' \in BOOLEAN
  BY DEF WriteStatus, TypeOK
<1> QED
  BY <1>3, <1>4

\* A disruption stays within its bound.
LEMMA DisruptType == TypeOK /\ Disrupt => left' \in 0..MaxDisruptions
BY ClusterConstants DEF TypeOK, Disrupt

\* Every step of the handler keeps the types.
LEMMA HandlerTypeStep ==
    ASSUME TypeOK,
           \/ Reconcile \/ ReconcileResolveFails \/ ReconcileApplyFails
           \/ GarbageCollectFails \/ ReconcileStatusFails
    PROVE  TypeOK'
<1> USE DEF TypeOK, objects, caches, queue
<1>1. CASE ReconcileNotFound
  BY <1>1 DEF ReconcileNotFound
<1>2. CASE ReconcileStart
  <2>1. run' \in Runs /\ run' # Nil
    BY <1>2, ClusterConstants DEF ReconcileStart, Runs
  <2> QED
    BY <1>2, <2>1 DEF ReconcileStart
<1>3. CASE ReconcileResolve
  <2>1. run' \in Runs /\ run' # Nil
    BY <1>3, ResolveRun
  <2>2. agreed' \subseteq IPs
    <3>1. run.obj.spec.policy.rules \subseteq Matches
      BY <1>3, ResolveRun, RunType DEF PolicySpecs
    <3>2. \A m \in Matches : dns[m] # Nil => dns[m].ips \subseteq IPs
      BY ClusterConstants DEF Resolutions
    <3> QED
      BY <1>3, <3>1, <3>2 DEF ReconcileResolve
  <2>3. pc' \in {"apply", "status"}
    BY <1>3 DEF ReconcileResolve
  <2> QED
    BY <1>3, <2>1, <2>2, <2>3 DEF ReconcileResolve
<1>4. CASE ReconcileApply
  <2>1. /\ Todo \in Namespaces /\ Desired \in NetworkPolicies
        /\ run' \in Runs /\ run' # Nil
    BY <1>4, TurnTypes DEF ReconcileApply
  <2>2. /\ np' \in [Namespaces -> NetworkPolicies \cup {Nil}]
        /\ npCacheCur' \in [Namespaces -> BOOLEAN]
    BY <1>4, <2>1, WriteNPType DEF ReconcileApply
  <2> QED
    BY <1>4, <2>1, <2>2 DEF ReconcileApply
<1>5. CASE ReconcileApplyFails
  <2>1. /\ Todo \in Namespaces /\ Desired \in NetworkPolicies
        /\ run' \in Runs /\ run' # Nil
    BY <1>5, TurnTypes DEF ReconcileApplyFails
  <2>2. /\ np' \in [Namespaces -> NetworkPolicies \cup {Nil}]
        /\ npCacheCur' \in [Namespaces -> BOOLEAN]
    BY <1>5, <2>1, WriteNPType DEF ReconcileApplyFails
  <2> QED
    BY <1>5, <2>1, <2>2, DisruptType DEF ReconcileApplyFails
<1>6. CASE ReconcileResolveFails
  BY <1>6, DisruptType DEF ReconcileResolveFails, Return, RequeueLater
<1>7. CASE GarbageCollectList
  <2>1. run # Nil /\ run' = [run EXCEPT !.todo = Stray(run.matched)]
    BY <1>7 DEF GarbageCollectList
  <2>2. Stray(run.matched) \subseteq Namespaces
    BY DEF Stray
  <2>3. run' \in Runs /\ run' # Nil
    BY <2>1, <2>2, TodoRun
  <2> QED
    BY <1>7, <2>3 DEF GarbageCollectList
<1>8. ASSUME NEW n \in Namespaces, GarbageCollect(n) PROVE TypeOK'
  <2>1. run # Nil /\ run' = [run EXCEPT !.todo = @ \ {n}]
    BY <1>8 DEF GarbageCollect
  <2>2. run \in Runs /\ run.todo \subseteq Namespaces
    BY <2>1, RunType
  <2>3. run' = [run EXCEPT !.todo = run.todo \ {n}] /\ run.todo \ {n} \subseteq Namespaces
    BY <2>1, <2>2 DEF Runs
  <2>4. run' \in Runs /\ run' # Nil
    BY <2>1, <2>3, TodoRun
  <2>5. /\ np' \in [Namespaces -> NetworkPolicies \cup {Nil}]
        /\ npCacheCur' \in [Namespaces -> BOOLEAN]
    BY <1>8, WriteNPType DEF GarbageCollect
  <2> QED
    BY <1>8, <2>4, <2>5 DEF GarbageCollect
<1>9. CASE GarbageCollectFails
  BY <1>9, DisruptType DEF GarbageCollectFails
<1>10. CASE ReconcileStatus
  <2>1. run # Nil
    BY <1>10 DEF ReconcileStatus, AtStatus
  <2>2. cp' \in ClusterPolicies \cup {Nil} /\ cpCacheCur' \in BOOLEAN
    BY <1>10, <2>1, WriteStatusType DEF ReconcileStatus
  <2> QED
    BY <1>10, <2>2 DEF ReconcileStatus, Return, RequeueLater
<1>11. CASE ReconcileStatusFails
  <2>1. run # Nil /\ cp # Nil
    BY <1>11 DEF ReconcileStatusFails, AtStatus
  <2>2. cp' \in ClusterPolicies \cup {Nil} /\ cpCacheCur' \in BOOLEAN
    BY <1>11, <2>1, WriteStatusType DEF ReconcileStatusFails
  <2> QED
    BY <1>11, <2>2, DisruptType DEF ReconcileStatusFails, Return, RequeueLater
<1> QED
  BY <1>1, <1>2, <1>3, <1>4, <1>5, <1>6, <1>7, <1>8, <1>9, <1>10, <1>11 DEF Reconcile

\* Every step of Kubernetes, users and DNS keeps the types.
LEMMA TypeStep == TypeOK /\ [Next]_vars => TypeOK'
<1> SUFFICES ASSUME TypeOK, [Next]_vars PROVE TypeOK'
  OBVIOUS
<1> USE DEF TypeOK, objects, caches, queue
<1>1. CASE DeliverCP
  BY <1>1 DEF DeliverCP
<1>2. CASE TimerFires
  BY <1>2 DEF TimerFires
<1>3. ASSUME NEW n \in Namespaces, DeliverNS(n) PROVE TypeOK'
  <2>1. nsCache' \in [Namespaces -> NamespaceStates]
    BY <1>3 DEF DeliverNS
  <2>2. queued' \in BOOLEAN
    BY <1>3, Zenon DEF DeliverNS
  <2>3. UNCHANGED <<cp, ns, np, cpCache, npCache, cpCacheCur, npCacheCur, timer, pc, run, dns,
                    left, agreed>>
    BY <1>3 DEF DeliverNS
  <2> QED
    BY <2>1, <2>2, <2>3
<1>4. ASSUME NEW n \in Namespaces, DeliverNP(n) PROVE TypeOK'
  BY <1>4 DEF DeliverNP
<1>5. ASSUME NEW n \in Namespaces, NamespaceGone(n) PROVE TypeOK'
  <2>1. /\ np' \in [Namespaces -> NetworkPolicies \cup {Nil}]
        /\ npCacheCur' \in [Namespaces -> BOOLEAN]
    BY <1>5, WriteNPType DEF NamespaceGone
  <2>2. ns' \in [Namespaces -> NamespaceStates]
    BY <1>5 DEF NamespaceGone, NamespaceStates
  <2> QED
    BY <1>5, <2>1, <2>2 DEF NamespaceGone
<1>6. ASSUME NEW s \in ClusterSpecs, EditSpec(s) PROVE TypeOK'
  <2> DEFINE new == [cp EXCEPT !.spec = s, !.generation = @ + 1]
  <2>1. WriteCP(new) /\ cp \in ClusterPolicies
    BY <1>6 DEF EditSpec
  <2>2. new \in ClusterPolicies
    <3>1. new = [cp EXCEPT !.spec = s, !.generation = cp.generation + 1]
      BY <2>1 DEF ClusterPolicies
    <3>2. cp.generation + 1 \in Nat \ {0}
      BY <2>1 DEF ClusterPolicies
    <3> QED
      BY <2>1, <3>1, <3>2 DEF ClusterPolicies
  <2> HIDE DEF new
  <2>3. cp' = new /\ cpCacheCur' = FALSE /\ run' \in Runs \cup {Nil} /\ (run' = Nil <=> run = Nil)
    BY <2>1, WriteCPRun
  <2> QED
    BY <1>6, <2>2, <2>3, DisruptType DEF EditSpec
<1>7. ASSUME NEW s \in ClusterSpecs, CreatePolicy(s) PROVE TypeOK'
  <2>1. /\ cp' = NewPolicy(s) /\ cpCacheCur' = FALSE /\ run' \in Runs \cup {Nil}
        /\ (run' = Nil <=> run = Nil)
    BY <1>7, WriteCPRun DEF CreatePolicy
  <2> QED
    BY <1>7, <2>1, NewPolicyType, DisruptType DEF CreatePolicy
<1>8. CASE DeletePolicy
  <2>1. cp' = Nil /\ cpCacheCur' = FALSE /\ run' \in Runs \cup {Nil} /\ (run' = Nil <=> run = Nil)
    BY <1>8, WriteCPRun DEF DeletePolicy
  <2> QED
    BY <1>8, <2>1, DisruptType DEF DeletePolicy
<1>9. ASSUME NEW n \in Namespaces, NEW s \in NamespaceStates, ChangeNamespace(n, s) PROVE TypeOK'
  BY <1>9, DisruptType DEF ChangeNamespace
<1>10. ASSUME NEW n \in Namespaces, NEW s \in ForeignNPs \cup {Nil}, ForeignWrite(n, s)
       PROVE  TypeOK'
  <2>1. s \in NetworkPolicies \cup {Nil}
    BY ClusterConstants
  <2>2. /\ np' \in [Namespaces -> NetworkPolicies \cup {Nil}]
        /\ npCacheCur' \in [Namespaces -> BOOLEAN]
    BY <1>10, <2>1, WriteNPType DEF ForeignWrite
  <2> QED
    BY <1>10, <2>2, DisruptType DEF ForeignWrite
<1>11. ASSUME NEW m \in Matches, NEW a \in Answers \cup {Nil}, DNSChange(m, a) PROVE TypeOK'
  BY <1>11, DisruptType DEF DNSChange
<1>12. CASE Restart
  <2>1. queued' \in BOOLEAN /\ timer' \in BOOLEAN /\ cpCacheCur' \in BOOLEAN
    BY <1>12, Zenon DEF Restart
  <2>2. /\ UNCHANGED <<cp, ns, np, dns, agreed>> /\ cpCache' = cp /\ nsCache' = ns /\ npCache' = np
        /\ npCacheCur' = [n \in Namespaces |-> TRUE] /\ pc' = "idle" /\ run' = Nil
    BY <1>12 DEF Restart, Return
  <2>3. left' \in 0..MaxDisruptions
    BY <1>12, DisruptType DEF Restart
  <2> QED
    BY <2>1, <2>2, <2>3
<1>13. CASE UNCHANGED vars
  BY <1>13 DEF vars
<1> QED
  BY <1>1, <1>2, <1>3, <1>4, <1>5, <1>6, <1>7, <1>8, <1>9, <1>10, <1>11, <1>12, <1>13,
     HandlerTypeStep
  DEF Next

\* Type correctness of the cluster controller: in particular every write of
\* the fan-out and of the garbage collection is to an existing map entry.
THEOREM ClusterTypeCorrect == Spec => []TypeOK
<1>1. Init => TypeOK
  <2> SUFFICES ASSUME Init PROVE TypeOK
    OBVIOUS
  <2>1. cp \in ClusterPolicies
    BY NewPolicyType DEF Init
  <2>2. ns \in [Namespaces -> NamespaceStates] /\ nsCache \in [Namespaces -> NamespaceStates]
    BY ClusterConstants DEF Init, NamespaceStates
  <2>3. left \in 0..MaxDisruptions
    BY ClusterConstants DEF Init
  <2>4. cpCacheCur \in BOOLEAN /\ queued \in BOOLEAN /\ timer \in BOOLEAN
    BY Zenon DEF Init
  <2>5. /\ np \in FirstNPs /\ npCache = np /\ cpCache = Nil
        /\ npCacheCur = [n \in Namespaces |-> TRUE]
        /\ pc = "idle" /\ run = Nil /\ agreed = {} /\ dns \in [Matches -> Answers \cup {Nil}]
    BY DEF Init
  <2>6. np \in [Namespaces -> NetworkPolicies \cup {Nil}]
    BY <2>5, ClusterConstants
  <2> QED
    BY <2>1, <2>2, <2>3, <2>4, <2>5, <2>6 DEF TypeOK
<1> QED
  BY <1>1, TypeStep, PTL DEF Spec
----------------------------------------------------------------------------
(* Freezing on divergence, over the fan-out.                               *)

FreezeEverywhere ==
    \A s \in ClusterSpecs : s.policy.mode = "Audit" \/ blockOnDivergence(s.policy.security)

HostsAgreed(hosts) ==
    \A m \in Matches : hosts[m] # Nil /\ ~hosts[m].div => hosts[m].ips \subseteq agreed

\* The fan-out only starts in Enforce mode and unfrozen, and its copy of the
\* status does not change while it lasts.
ApplyGate ==
    pc = "apply" => /\ run.obj.spec.policy.mode # "Audit"
                    /\ ~(/\ blockOnDivergence(run.obj.spec.policy.security)
                         /\ anyDivergence(run.obj.status.resolved))

\* The copies of the policy, and the gate before the fan-out.
CopiesAgreed ==
    /\ cp # Nil => HostsAgreed(cp.status.resolved)
    /\ cpCache # Nil => HostsAgreed(cpCache.status.resolved)
    /\ run # Nil => HostsAgreed(run.obj.status.resolved)
    /\ ApplyGate

\* DivergentNeverAdmitted is not inductive: a namespace may be written from an
\* entry that was agreed on many cycles ago, or retained in any of the copies.
AgreedInv == CopiesAgreed /\ DivergentNeverAdmitted

\* After the rule loop an entry that is not divided was agreed on, before or
\* now.
LEMMA LoopAgreed ==
    ASSUME TypeOK, AgreedInv, ReconcileResolve
    PROVE  agreed \subseteq agreed' /\ HostsAgreed(run.obj.status.resolved)'
<1> DEFINE spec == run.obj.spec.policy
           now == UNION {dns[m].ips : m \in {k \in spec.rules : dns[k] # Nil /\ ~Divergent(dns[k])}}
<1>1. agreed' = agreed \cup now
  BY DEF ReconcileResolve
<1>2. /\ run # Nil
      /\ run'.obj.status.resolved = ResolveClusterRules(run.obj.status.resolved, spec)
  BY ResolveRun
<1> SUFFICES ASSUME NEW m \in Matches, run'.obj.status.resolved[m] # Nil,
                    ~run'.obj.status.resolved[m].div
             PROVE  run'.obj.status.resolved[m].ips \subseteq agreed'
  BY <1>1 DEF HostsAgreed
<1>3. m \in spec.rules
  BY <1>2 DEF ResolveClusterRules
<1>4. CASE dns[m] = Nil
  <2>1. run'.obj.status.resolved[m] = run.obj.status.resolved[m]
    BY <1>2, <1>3, <1>4 DEF ResolveClusterRules, findPreviousCluster
  <2> QED
    BY <1>1, <1>2, <2>1 DEF AgreedInv, CopiesAgreed, HostsAgreed
<1>5. CASE dns[m] # Nil
  <2>1. run'.obj.status.resolved[m] = FreshEntry(dns[m], spec.security)
    BY <1>2, <1>3, <1>5 DEF ResolveClusterRules
  <2>2. run'.obj.status.resolved[m].ips \subseteq dns[m].ips /\ ~Divergent(dns[m])
    BY <2>1, AllowedSubset DEF FreshEntry
  <2>3. dns[m].ips \subseteq now
    BY <1>3, <1>5, <2>2
  <2> QED
    BY <1>1, <2>2, <2>3
<1> QED
  BY <1>4, <1>5

\* A NetworkPolicy the fan-out writes has agreed addresses only.
LEMMA DesiredAgreed ==
    ASSUME FreezeEverywhere, TypeOK, AgreedInv, pc = "apply", run # Nil
    PROVE  Peers(Desired.spec) \subseteq agreed
<1> SUFFICES ASSUME NEW ip \in Peers(Desired.spec) PROVE ip \in agreed
  OBVIOUS
<1>1. run.obj.spec \in ClusterSpecs /\ run.obj.status.resolved \in ResolvedHosts
  BY RunType
<1>2. PICK m \in Matches : /\ run.obj.status.resolved[m] # Nil
                           /\ ip \in run.obj.status.resolved[m].ips
  BY <1>1, PeersListed DEF Desired
<1>3. ~run.obj.status.resolved[m].div
  BY <1>1, <1>2 DEF AgreedInv, CopiesAgreed, ApplyGate, FreezeEverywhere, anyDivergence
<1> QED
  BY <1>2, <1>3 DEF AgreedInv, CopiesAgreed, HostsAgreed

\* A write of one namespace by the fan-out, a delete, or another actor.
LEMMA WriteNPAgreed ==
    ASSUME TypeOK, AgreedInv, NEW n \in Namespaces, NEW new, WriteNP(n, new), agreed' = agreed,
           new # Nil => Peers(new.spec) \ ForeignPeers \subseteq agreed
    PROVE  DivergentNeverAdmitted'
<1>1. \A k \in Namespaces : np'[k] = IF k = n THEN new ELSE np[k]
  BY DEF WriteNP, TypeOK
<1> QED
  BY <1>1 DEF AgreedInv, CopiesAgreed, DivergentNeverAdmitted

\* The NetworkPolicies after any step.
LEMMA AdmittedStep ==
    ASSUME FreezeEverywhere, TypeOK, AgreedInv, [Next]_vars, agreed \subseteq agreed'
    PROVE  DivergentNeverAdmitted'
<1> USE DEF objects, caches, queue
<1>1. CASE UNCHANGED np
  BY <1>1 DEF AgreedInv, CopiesAgreed, DivergentNeverAdmitted
<1>2. ASSUME pc = "apply", run.todo # {}, NextNamespace, agreed' = agreed, WriteNP(Todo, Desired)
      PROVE  DivergentNeverAdmitted'
  <2>1. run # Nil /\ Todo \in Namespaces
    BY <1>2, TurnTypes
  <2>2. Peers(Desired.spec) \ ForeignPeers \subseteq agreed
    BY <1>2, <2>1, DesiredAgreed
  <2> QED
    BY <1>2, <2>1, <2>2, WriteNPAgreed
<1>3. CASE ReconcileApply
  BY <1>1, <1>2, <1>3 DEF ReconcileApply
<1>4. CASE ReconcileApplyFails
  BY <1>1, <1>2, <1>4 DEF ReconcileApplyFails
<1>5. ASSUME NEW n \in Namespaces, GarbageCollect(n) \/ NamespaceGone(n)
      PROVE  DivergentNeverAdmitted'
  <2>1. agreed' = agreed /\ (WriteNP(n, Nil) \/ UNCHANGED np)
    BY <1>5 DEF GarbageCollect, NamespaceGone
  <2> QED
    BY <1>1, <2>1, WriteNPAgreed
<1>6. ASSUME NEW n \in Namespaces, NEW s \in ForeignNPs \cup {Nil}, ForeignWrite(n, s)
      PROVE  DivergentNeverAdmitted'
  <2>1. agreed' = agreed /\ WriteNP(n, s)
    BY <1>6 DEF ForeignWrite
  <2>2. s # Nil => Peers(s.spec) \ ForeignPeers \subseteq agreed
    BY DEF ForeignPeers
  <2> QED
    BY <2>1, <2>2, WriteNPAgreed
<1>7. CASE \/ ReconcileNotFound \/ ReconcileStart \/ ReconcileResolve \/ GarbageCollectList
           \/ ReconcileStatus \/ ReconcileResolveFails \/ GarbageCollectFails
           \/ ReconcileStatusFails \/ DeliverCP \/ TimerFires \/ DeletePolicy \/ Restart
           \/ UNCHANGED vars
  <2>1. UNCHANGED np
    BY <1>7 DEF ReconcileNotFound, ReconcileStart, ReconcileResolve, GarbageCollectList,
                ReconcileStatus, ReconcileResolveFails, GarbageCollectFails,
                ReconcileStatusFails, DeliverCP, TimerFires, DeletePolicy, Restart, vars
  <2> QED
    BY <1>1, <2>1
<1>8. ASSUME NEW n \in Namespaces, DeliverNS(n) \/ DeliverNP(n) PROVE DivergentNeverAdmitted'
  BY <1>1, <1>8 DEF DeliverNS, DeliverNP
<1>9. ASSUME NEW s \in ClusterSpecs, EditSpec(s) \/ CreatePolicy(s) PROVE DivergentNeverAdmitted'
  BY <1>1, <1>9 DEF EditSpec, CreatePolicy
<1>10. ASSUME NEW n \in Namespaces, NEW s \in NamespaceStates, ChangeNamespace(n, s)
       PROVE  DivergentNeverAdmitted'
  BY <1>1, <1>10 DEF ChangeNamespace
<1>11. ASSUME NEW m \in Matches, NEW a \in Answers \cup {Nil}, DNSChange(m, a)
       PROVE  DivergentNeverAdmitted'
  BY <1>1, <1>11 DEF DNSChange
<1> QED
  BY <1>3, <1>4, <1>5, <1>6, <1>7, <1>8, <1>9, <1>10, <1>11 DEF Next, Reconcile

\* A policy write by a user, who does not write its status.
LEMMA UserWriteAgreed ==
    ASSUME TypeOK, AgreedInv, NEW STATE new, WriteCP(new), UNCHANGED <<cpCache, pc, agreed>>,
           new # Nil => HostsAgreed(new.status.resolved)
    PROVE  CopiesAgreed'
<1>1. cp' = new /\ (run' = Nil <=> run = Nil) /\ (run # Nil => run'.obj = run.obj)
  BY WriteCPRun
<1>2. pc = "apply" => run # Nil
  BY DEF TypeOK
<1> QED
  BY <1>1, <1>2 DEF AgreedInv, CopiesAgreed, HostsAgreed, ApplyGate

\* Every step keeps the copies agreed.
LEMMA CopiesStep ==
    ASSUME TypeOK, AgreedInv, [Next]_vars
    PROVE  agreed \subseteq agreed' /\ CopiesAgreed'
<1> USE DEF objects, caches, queue
<1>1. CASE UNCHANGED <<cp, cpCache, run, pc, agreed>>
  BY <1>1 DEF AgreedInv, CopiesAgreed, HostsAgreed, ApplyGate
<1>2. ASSUME run' = Nil, pc' = "idle", agreed' = agreed,
             cp' # Nil => \/ cp # Nil /\ cp'.status = cp.status
                          \/ run # Nil /\ cp'.status = run.obj.status,
             cpCache' = cpCache \/ cpCache' = cp
      PROVE  agreed \subseteq agreed' /\ CopiesAgreed'
  BY <1>2 DEF AgreedInv, CopiesAgreed, HostsAgreed, ApplyGate
<1>3. ASSUME run # Nil, run' # Nil, run'.obj = run.obj, UNCHANGED <<cp, cpCache, agreed>>,
             pc' = pc \/ pc' = "gc"
      PROVE  agreed \subseteq agreed' /\ CopiesAgreed'
  BY <1>3 DEF AgreedInv, CopiesAgreed, HostsAgreed, ApplyGate
<1>4. CASE ReconcileNotFound \/ TimerFires \/ UNCHANGED vars
  BY <1>1, <1>4 DEF ReconcileNotFound, TimerFires, vars
<1>5. CASE ReconcileStart
  <2>1. /\ run'.obj = cpCache /\ cpCache # Nil /\ pc' = "resolve"
        /\ UNCHANGED <<cp, cpCache, agreed>>
    BY <1>5 DEF ReconcileStart
  <2> QED
    BY <2>1 DEF AgreedInv, CopiesAgreed, HostsAgreed, ApplyGate
<1>6. CASE ReconcileResolve
  <2>1. agreed \subseteq agreed' /\ HostsAgreed(run.obj.status.resolved)' /\ UNCHANGED <<cp, cpCache>>
    BY <1>6, LoopAgreed DEF ReconcileResolve
  <2>2. ApplyGate'
    <3> DEFINE hosts == ResolveClusterRules(run.obj.status.resolved, run.obj.spec.policy)
    <3>1. run'.obj.spec = run.obj.spec /\ run'.obj.status.resolved = hosts
      BY <1>6, ResolveRun
    <3>2. pc' = "apply" => /\ run.obj.spec.policy.mode # "Audit"
                           /\ ~(/\ blockOnDivergence(run.obj.spec.policy.security)
                                /\ anyDivergence(hosts))
      BY <1>6 DEF ReconcileResolve
    <3> QED
      BY <3>1, <3>2 DEF ApplyGate
  <2>3. /\ cp' # Nil => HostsAgreed(cp.status.resolved)'
        /\ cpCache' # Nil => HostsAgreed(cpCache.status.resolved)'
    BY <2>1 DEF AgreedInv, CopiesAgreed, HostsAgreed
  <2> QED
    BY <2>1, <2>2, <2>3 DEF CopiesAgreed
<1>7. CASE ReconcileApply
  BY <1>3, <1>7, TurnTypes DEF ReconcileApply
<1>8. CASE ReconcileApplyFails
  BY <1>3, <1>8, TurnTypes DEF ReconcileApplyFails
<1>9. CASE ReconcileResolveFails
  BY <1>2, <1>9 DEF ReconcileResolveFails, Return
<1>10. CASE GarbageCollectList
  <2>1. run # Nil /\ run' = [run EXCEPT !.todo = Stray(run.matched)] /\ pc' = "gc"
        /\ UNCHANGED <<cp, cpCache, agreed>>
    BY <1>10 DEF GarbageCollectList, TypeOK
  <2>2. Stray(run.matched) \subseteq Namespaces
    BY DEF Stray
  <2>3. run' # Nil /\ run'.obj = run.obj
    BY <2>1, <2>2, TodoRun
  <2> QED
    BY <1>3, <2>1, <2>3
<1>11. ASSUME NEW n \in Namespaces, GarbageCollect(n)
       PROVE  agreed \subseteq agreed' /\ CopiesAgreed'
  <2>1. run # Nil /\ run' = [run EXCEPT !.todo = @ \ {n}] /\ UNCHANGED <<cp, cpCache, pc, agreed>>
    BY <1>11 DEF GarbageCollect, TypeOK
  <2>2. run \in Runs /\ run.todo \subseteq Namespaces
    BY <2>1, RunType
  <2>3. run' = [run EXCEPT !.todo = run.todo \ {n}] /\ run.todo \ {n} \subseteq Namespaces
    BY <2>1, <2>2 DEF Runs
  <2>4. run' # Nil /\ run'.obj = run.obj
    BY <2>1, <2>3, TodoRun
  <2> QED
    BY <1>3, <2>1, <2>4
<1>12. CASE GarbageCollectFails
  <2>1. UNCHANGED <<cp, cpCache, run, agreed>> /\ pc' = "status"
    BY <1>12 DEF GarbageCollectFails
  <2> QED
    BY <2>1 DEF AgreedInv, CopiesAgreed, HostsAgreed, ApplyGate
<1>13. CASE ReconcileStatus
  <2>1. /\ run # Nil /\ run' = Nil /\ pc' = "idle" /\ UNCHANGED <<cpCache, agreed>>
        /\ cp' = cp \/ (cp # Nil /\ WriteStatus)
    BY <1>13 DEF ReconcileStatus, AtStatus, Return, TypeOK
  <2>2. cp' = cp \/ cp'.status = run.obj.status
    BY <2>1, WriteStatusType
  <2> QED
    BY <1>2, <2>1, <2>2
<1>14. CASE ReconcileStatusFails
  <2>1. /\ run # Nil /\ run' = Nil /\ pc' = "idle" /\ UNCHANGED <<cpCache, agreed>>
        /\ cp' = cp \/ (cp # Nil /\ WriteStatus)
    BY <1>14 DEF ReconcileStatusFails, AtStatus, Return, TypeOK
  <2>2. cp' = cp \/ cp'.status = run.obj.status
    BY <2>1, WriteStatusType
  <2> QED
    BY <1>2, <2>1, <2>2
<1>15. CASE DeliverCP
  <2>1. cpCache' = cp /\ UNCHANGED <<cp, run, pc, agreed>>
    BY <1>15 DEF DeliverCP
  <2> QED
    BY <2>1 DEF AgreedInv, CopiesAgreed, HostsAgreed, ApplyGate
<1>16. CASE Restart
  BY <1>2, <1>16 DEF Restart, Return
<1>17. ASSUME NEW n \in Namespaces, DeliverNS(n) \/ DeliverNP(n) \/ NamespaceGone(n)
       PROVE  agreed \subseteq agreed' /\ CopiesAgreed'
  BY <1>1, <1>17 DEF DeliverNS, DeliverNP, NamespaceGone
<1>18. ASSUME NEW s \in ClusterSpecs, EditSpec(s)
       PROVE  agreed \subseteq agreed' /\ CopiesAgreed'
  <2> DEFINE new == [cp EXCEPT !.spec = s, !.generation = @ + 1]
  <2>1. WriteCP(new) /\ cp \in ClusterPolicies /\ cp # Nil /\ UNCHANGED <<cpCache, pc, agreed>>
    BY <1>18 DEF EditSpec, TypeOK
  <2>2. new.status = cp.status
    BY <2>1 DEF ClusterPolicies
  <2>3. HostsAgreed(new.status.resolved)
    BY <2>1, <2>2 DEF AgreedInv, CopiesAgreed
  <2> HIDE DEF new
  <2> QED
    BY <2>1, <2>3, UserWriteAgreed
<1>19. ASSUME NEW s \in ClusterSpecs, CreatePolicy(s)
       PROVE  agreed \subseteq agreed' /\ CopiesAgreed'
  <2>1. HostsAgreed(NewPolicy(s).status.resolved)
    BY DEF NewPolicy, NoHosts, HostsAgreed
  <2> QED
    BY <1>19, <2>1, UserWriteAgreed DEF CreatePolicy
<1>20. CASE DeletePolicy
  BY <1>20, UserWriteAgreed DEF DeletePolicy
<1>21. ASSUME NEW n \in Namespaces, NEW s \in NamespaceStates, ChangeNamespace(n, s)
       PROVE  agreed \subseteq agreed' /\ CopiesAgreed'
  BY <1>1, <1>21 DEF ChangeNamespace
<1>22. ASSUME NEW n \in Namespaces, NEW s \in ForeignNPs \cup {Nil}, ForeignWrite(n, s)
       PROVE  agreed \subseteq agreed' /\ CopiesAgreed'
  BY <1>1, <1>22 DEF ForeignWrite
<1>23. ASSUME NEW m \in Matches, NEW a \in Answers \cup {Nil}, DNSChange(m, a)
       PROVE  agreed \subseteq agreed' /\ CopiesAgreed'
  BY <1>1, <1>23 DEF DNSChange
<1> QED
  BY <1>4, <1>5, <1>6, <1>7, <1>8, <1>9, <1>10, <1>11, <1>12, <1>13, <1>14, <1>15, <1>16, <1>17,
     <1>18, <1>19, <1>20, <1>21, <1>22, <1>23
  DEF Next, Reconcile

\* Where every Enforce spec sets security.blockOnDivergence, no namespace ever
\* admits an address that only came in divided answers, for every number of
\* namespaces and any interleaving of cycles, edits, failures and restarts.
THEOREM ClusterFreezeSafety ==
    ASSUME FreezeEverywhere
    PROVE  Spec => []DivergentNeverAdmitted
<1>1. Init => AgreedInv
  <2> SUFFICES ASSUME Init PROVE AgreedInv
    OBVIOUS
  <2>1. HostsAgreed(cp.status.resolved)
    BY DEF Init, NewPolicy, NoHosts, HostsAgreed
  <2>2. DivergentNeverAdmitted
    <3>1. \A n \in Namespaces : np[n] # Nil => np[n] \in ForeignNPs
      BY ClusterConstants DEF Init
    <3> QED
      BY <3>1 DEF DivergentNeverAdmitted, ForeignPeers
  <2> QED
    BY <2>1, <2>2 DEF Init, AgreedInv, CopiesAgreed, ApplyGate
<1>2. TypeOK /\ AgreedInv /\ [Next]_vars => AgreedInv'
  <2> SUFFICES ASSUME TypeOK, AgreedInv, [Next]_vars PROVE AgreedInv'
    OBVIOUS
  <2>1. agreed \subseteq agreed' /\ CopiesAgreed'
    BY CopiesStep
  <2>2. DivergentNeverAdmitted'
    BY <2>1, AdmittedStep
  <2> QED
    BY <2>1, <2>2 DEF AgreedInv, CopiesAgreed
<1>3. AgreedInv => DivergentNeverAdmitted
  BY DEF AgreedInv, CopiesAgreed
<1> QED
  BY <1>1, <1>2, <1>3, ClusterTypeCorrect, PTL DEF Spec
=============================================================================
