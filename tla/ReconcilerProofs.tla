-------------------------- MODULE ReconcilerProofs --------------------------
(***************************************************************************)
(* Proofs about Reconciler, for every set of hosts, addresses, specs,      *)
(* answers and foreign writes, and every bound on disruptions.             *)
(***************************************************************************)
EXTENDS Reconciler, PolicyLogicProofs

AnswerMaps == [Matches \ Wildcards -> Answers \cup {Nil}]
----------------------------------------------------------------------------
(* Type correctness.                                                       *)

\* The rule loop turns a status and the answers of DNS into a status.
LEMMA ResolveRulesType ==
    ASSUME NEW hosts \in ResolvedHosts, NEW spec \in Specs, NEW answers \in AnswerMaps
    PROVE  ResolveRules(hosts, spec, answers) \in ResolvedHosts
<1> SUFFICES ASSUME NEW m \in Matches, m \in spec.rules
             PROVE  ResolveRule(hosts, spec.security, m, answers[m]) \in Entries \cup {Nil}
  BY DEF ResolveRules, ResolvedHosts
<1>1. CASE m \in Wildcards
  BY <1>1 DEF ResolveRule
<1>2. CASE m \notin Wildcards /\ answers[m] = Nil
  BY <1>2 DEF ResolveRule, findPrevious, ResolvedHosts
<1>3. CASE m \notin Wildcards /\ answers[m] # Nil
  <2>1. answers[m] \in Answers
    BY <1>3 DEF AnswerMaps
  <2> QED
    BY <2>1, <1>3, FreshEntryType, ReconcilerConstants DEF ResolveRule
<1> QED
  BY <1>1, <1>2, <1>3

\* The status operations of the handler keep the type of the status.
LEMMA StatusTypes ==
    ASSUME NEW st \in Statuses, NEW hosts \in ResolvedHosts, NEW errors,
           NEW obj \in Policies
    PROVE  /\ WithResolved(st, hosts) \in Statuses
           /\ WithResolved(st, hosts).resolved = hosts
           /\ AuditStatus(obj, st) \in Statuses
           /\ AuditStatus(obj, st).resolved = st.resolved
           /\ FrozenStatus(obj, st) \in Statuses
           /\ FrozenStatus(obj, st).resolved = st.resolved
           /\ setReadyCondition([st EXCEPT !.generated = TRUE,
                                           !.observed = obj.generation], errors) \in Statuses
           /\ setReadyCondition([st EXCEPT !.generated = TRUE,
                                           !.observed = obj.generation], errors).resolved
                  = st.resolved
<1>1. obj.generation \in Nat
  BY DEF Policies
<1> QED
  BY <1>1 DEF WithResolved, setResolverDivergenceCondition, AuditStatus, FrozenStatus,
              setReadyCondition, Statuses, ReadyReasons, DegradedReasons

\* The status the rule loop leaves in the run.
LEMMA ResolveStatus ==
    ASSUME TypeOK, ReconcileResolve
    PROVE  /\ run \in Runs /\ run.obj \in Policies /\ run.obj.spec \in Specs
           /\ run' \in Runs
           /\ run'.obj.status.resolved = ResolveRules(run.obj.status.resolved, run.obj.spec, dns)
           /\ ResolveRules(run.obj.status.resolved, run.obj.spec, dns) \in ResolvedHosts
           /\ run'.obj.spec = run.obj.spec /\ run'.obj.uid = run.obj.uid
           /\ run'.obj.generation = run.obj.generation /\ run'.cur = run.cur
<1> DEFINE hosts == ResolveRules(run.obj.status.resolved, run.obj.spec, dns)
           st == WithResolved(run.obj.status, hosts)
           after == IF run.obj.spec.mode = "Audit" THEN AuditStatus(run.obj, st)
                    ELSE IF Freezes(run.obj.spec, hosts) THEN FrozenStatus(run.obj, st)
                    ELSE st
<1>1. run \in Runs /\ run.obj \in Policies /\ run.obj.spec \in Specs
      /\ run.obj.status \in Statuses /\ run.obj.status.resolved \in ResolvedHosts
  BY DEF TypeOK, ReconcileResolve, Runs, Policies, Statuses
<1>2. hosts \in ResolvedHosts
  BY <1>1, ResolveRulesType DEF TypeOK, AnswerMaps
<1>3. st \in Statuses /\ st.resolved = hosts
  BY <1>1, <1>2, StatusTypes
<1>4. after \in Statuses /\ after.resolved = hosts
  BY <1>1, <1>2, <1>3, StatusTypes
<1>5. run.obj.spec.rules \subseteq Matches
  BY <1>1, ReconcilerConstants DEF PolicySpecs
<1>6. run' = [run EXCEPT !.obj.status = after,
                  !.failed = {m \in run.obj.spec.rules \ Wildcards : dns[m] = Nil},
                  !.errors = ResolutionErrors(run.obj.spec, dns)]
  BY DEF ReconcileResolve
<1>7. ResolutionErrors(run.obj.spec, dns) \subseteq Matches
  BY <1>5 DEF ResolutionErrors
<1> HIDE DEF after, hosts, st
<1>8. run'.obj = [run.obj EXCEPT !.status = after]
  BY <1>1, <1>6 DEF Runs, Policies
<1>9. run'.obj \in Policies
  BY <1>1, <1>4, <1>8 DEF Policies
<1>10. run' \in Runs
  BY <1>1, <1>5, <1>6, <1>7, <1>8, <1>9 DEF Runs
<1>11. run'.cur = run.cur
  BY <1>1, <1>6 DEF Runs
<1>12. /\ run'.obj.status = after /\ run'.obj.spec = run.obj.spec
       /\ run'.obj.uid = run.obj.uid /\ run'.obj.generation = run.obj.generation
  BY <1>1, <1>8 DEF Policies
<1> QED
  BY <1>1, <1>2, <1>4, <1>10, <1>11, <1>12 DEF hosts

\* The NetworkPolicy sent to the API server and the status after it.
LEMMA ApplyTypes ==
    ASSUME TypeOK, pc = "apply"
    PROVE  /\ run \in Runs /\ run.obj \in Policies /\ run.obj.spec \in Specs
           /\ run.obj.status \in Statuses /\ run.obj.status.resolved \in ResolvedHosts
           /\ Desired \in NetworkPolicySpecs
           /\ (CreatesNP \/ UpdatesNP) => SentNP \in NetworkPolicies
           /\ AppliedStatus \in Statuses
           /\ AppliedStatus.resolved = run.obj.status.resolved
<1>1. /\ run \in Runs /\ run.obj \in Policies /\ run.obj.spec \in Specs
      /\ run.obj.status \in Statuses /\ run.obj.status.resolved \in ResolvedHosts
      /\ run.obj.uid \in 1..MaxUID
  BY DEF TypeOK, Runs, Policies, Statuses
<1>2. Desired \in NetworkPolicySpecs
  BY <1>1, BuildType, ReconcilerConstants DEF Desired
<1>3. (CreatesNP \/ UpdatesNP) => SentNP \in NetworkPolicies
  <2>1. MaxUID \in Nat
    BY ReconcilerConstants
  <2>2. CreatesNP => SentNP \in NetworkPolicies
    BY <1>1, <1>2, <2>1 DEF SentNP, NewControllerRef, NetworkPolicies
  <2>3. UpdatesNP => npCache \in NetworkPolicies /\ ~CreatesNP
    BY DEF UpdatesNP, CreatesNP, TypeOK
  <2>4. UpdatesNP => SentNP \in NetworkPolicies
    BY <1>2, <2>3 DEF SentNP, NetworkPolicies
  <2> QED
    BY <2>2, <2>4
<1>4. AppliedStatus \in Statuses /\ AppliedStatus.resolved = run.obj.status.resolved
  BY <1>1, StatusTypes DEF AppliedStatus
<1> QED
  BY <1>1, <1>2, <1>3, <1>4

\* The run after applyNetworkPolicy.
LEMMA ApplyRun ==
    ASSUME TypeOK, ReconcileApply
    PROVE  /\ run' \in Runs /\ run'.obj.status = AppliedStatus
           /\ run'.obj.spec = run.obj.spec /\ run'.obj.uid = run.obj.uid
           /\ run'.obj.generation = run.obj.generation /\ run'.cur = run.cur
           /\ run'.failed = run.failed
<1>1. pc = "apply" /\ run' = [run EXCEPT !.obj.status = AppliedStatus]
  BY DEF ReconcileApply
<1>2. run \in Runs /\ run.obj \in Policies /\ AppliedStatus \in Statuses
  BY <1>1, ApplyTypes
<1>3. run'.obj = [run.obj EXCEPT !.status = AppliedStatus]
  BY <1>1, <1>2 DEF Runs, Policies
<1>4. run'.obj \in Policies
  BY <1>2, <1>3 DEF Policies
<1>5. run' \in Runs /\ run'.cur = run.cur /\ run'.failed = run.failed
  BY <1>1, <1>2, <1>3, <1>4 DEF Runs
<1> QED
  BY <1>2, <1>3, <1>5 DEF Policies

\* A policy write leaves the run as it was, except that its copy is stale.
LEMMA WriteFPRun ==
    ASSUME TypeOK, NEW STATE new, WriteFP(new)
    PROVE  /\ fp' = new /\ fpCacheCur' = FALSE
           /\ run = Nil => run' = Nil
           /\ run # Nil => /\ run \in Runs /\ run' \in Runs /\ run' # Nil
                           /\ run'.obj = run.obj /\ run'.cur = FALSE
                           /\ run'.failed = run.failed /\ run'.errors = run.errors
<1>1. run # Nil => run \in Runs /\ run' = [run EXCEPT !.cur = FALSE]
  BY DEF WriteFP, TypeOK
<1>2. run # Nil => /\ run' \in Runs /\ run'.obj = run.obj /\ run'.cur = FALSE
                   /\ run'.failed = run.failed /\ run'.errors = run.errors
  BY <1>1 DEF Runs
<1>3. run' \in Runs => run' # Nil
  BY ReconcilerConstants
<1> QED
  BY <1>1, <1>2, <1>3 DEF WriteFP

\* A new policy object, and an edited one.
LEMMA NewPolicyType ==
    ASSUME NEW u \in 1..MaxUID, NEW s \in Specs
    PROVE  NewPolicy(u, s) \in Policies /\ PermittedBy(s) \subseteq Classes
<1>1. NoHosts \in ResolvedHosts
  BY DEF NoHosts, ResolvedHosts
<1>2. NoStatus \in Statuses
  BY <1>1 DEF NoStatus, Statuses, ReadyReasons, DegradedReasons
<1> QED
  BY <1>2 DEF NewPolicy, Policies, PermittedBy

\* A status write stores the status of the run.
LEMMA WriteStatusType ==
    ASSUME TypeOK, pc = "status", StatusAccepted, WriteStatus
    PROVE  /\ fp \in Policies /\ run \in Runs /\ run.obj \in Policies /\ run.cur = TRUE
           /\ fp' \in Policies /\ fp'.status = run.obj.status
           /\ fp'.spec = fp.spec /\ fp'.uid = fp.uid /\ fp'.generation = fp.generation
           /\ fpCacheCur' \in BOOLEAN
<1>1. run \in Runs /\ run.obj \in Policies /\ run.obj.status \in Statuses /\ fp \in Policies
      /\ run.cur = TRUE
  BY DEF TypeOK, Runs, Policies, StatusAccepted
<1>2. fp' = [fp EXCEPT !.status = run.obj.status]
  BY DEF WriteStatus
<1>3. /\ fp' \in Policies /\ fp'.status = run.obj.status
      /\ fp'.spec = fp.spec /\ fp'.uid = fp.uid /\ fp'.generation = fp.generation
  BY <1>1, <1>2 DEF Policies
<1>4. fpCacheCur' \in BOOLEAN
  BY DEF WriteStatus, TypeOK
<1> QED
  BY <1>1, <1>3, <1>4

\* A disruption stays within its bound.
LEMMA DisruptType == TypeOK /\ Disrupt => left' \in 0..MaxDisruptions
BY ReconcilerConstants DEF TypeOK, Disrupt

\* Every step keeps the types.
LEMMA TypeStep == TypeOK /\ [Next]_vars => TypeOK'
<1> SUFFICES ASSUME TypeOK, [Next]_vars PROVE TypeOK'
  OBVIOUS
<1> USE DEF TypeOK, server, caches, queue, history
<1>1. CASE ReconcileNotFound
  BY <1>1 DEF ReconcileNotFound
<1>2. CASE ReconcileStart
  <2>1. run' \in Runs /\ run' # Nil
    BY <1>2, ReconcilerConstants DEF ReconcileStart, Runs
  <2> QED
    BY <1>2, <2>1 DEF ReconcileStart
<1>3. CASE ReconcileResolve
  <2>1. run' \in Runs /\ run' # Nil
    BY <1>3, ResolveStatus, ReconcilerConstants
  <2>2. agreed' \subseteq IPs
    <3>1. dns \in AnswerMaps
      BY DEF AnswerMaps
    <3>2. run.obj.spec.rules \subseteq Matches
      BY <1>3, ResolveStatus, ReconcilerConstants DEF PolicySpecs
    <3>3. AgreedIPs(run.obj.spec, dns) \subseteq IPs
      BY <3>1, <3>2, ReconcilerConstants DEF AgreedIPs, AnswerMaps, Resolutions
    <3> QED
      BY <1>3, <3>3 DEF ReconcileResolve
  <2>3. pc' \in {"apply", "status"}
    BY <1>3 DEF ReconcileResolve
  <2> QED
    BY <1>3, <2>1, <2>2, <2>3 DEF ReconcileResolve
<1>4. CASE ReconcileApply
  <2>1. run' \in Runs /\ run' # Nil
    BY <1>4, ApplyRun, ReconcilerConstants
  <2>2. np' \in NetworkPolicies \cup {Nil} /\ npCacheCur' \in BOOLEAN
    BY <1>4, ApplyTypes DEF ReconcileApply, WriteNP
  <2> QED
    BY <1>4, <2>1, <2>2 DEF ReconcileApply
<1>5. CASE ReconcileApplyRejected
  BY <1>5 DEF ReconcileApplyRejected, Return, RequeueLater
<1>6. CASE ReconcileApplyFails
  <2>1. np' \in NetworkPolicies \cup {Nil} /\ npCacheCur' \in BOOLEAN
    <3>1. CreatesNP \/ UpdatesNP
      BY <1>6 DEF ReconcileApplyFails, SkipsNP, CreatesNP, UpdatesNP
    <3> QED
      BY <1>6, <3>1, ApplyTypes DEF ReconcileApplyFails, WriteNP
  <2> QED
    BY <1>6, <2>1, DisruptType DEF ReconcileApplyFails, Return, RequeueLater
<1>7. CASE ReconcileStatus
  <2>1. fp' \in Policies /\ fpCacheCur' \in BOOLEAN
    BY <1>7, WriteStatusType DEF ReconcileStatus
  <2> QED
    BY <1>7, <2>1 DEF ReconcileStatus, Return, RequeueLater
<1>8. CASE ReconcileStatusRejected
  BY <1>8 DEF ReconcileStatusRejected, Return, RequeueLater
<1>9. CASE ReconcileStatusFails
  <2>1. fp' \in Policies \cup {Nil} /\ fpCacheCur' \in BOOLEAN
    <3>1. CASE WriteStatus
      BY <1>9, <3>1, WriteStatusType DEF ReconcileStatusFails
    <3>2. CASE UNCHANGED <<fp, fpCacheCur>>
      BY <3>2
    <3> QED
      BY <1>9, <3>1, <3>2 DEF ReconcileStatusFails
  <2> QED
    BY <1>9, <2>1, DisruptType DEF ReconcileStatusFails, Return, RequeueLater
<1>10. CASE DeliverFP
  BY <1>10 DEF DeliverFP
<1>11. CASE DeliverNP
  BY <1>11 DEF DeliverNP
<1>12. CASE TimerFires
  BY <1>12 DEF TimerFires
<1>13. CASE CollectNP
  BY <1>13 DEF CollectNP, WriteNP
<1>14. ASSUME NEW s \in Specs, EditSpec(s) PROVE TypeOK'
  <2> DEFINE new == [fp EXCEPT !.spec = s, !.generation = @ + 1]
  <2>1. WriteFP(new) /\ fp \in Policies
    BY <1>14 DEF EditSpec
  <2>2. new \in Policies
    <3>1. new = [fp EXCEPT !.spec = s, !.generation = fp.generation + 1]
      BY <2>1 DEF Policies
    <3>2. fp.generation + 1 \in Nat \ {0}
      BY <2>1 DEF Policies
    <3> QED
      BY <2>1, <3>1, <3>2 DEF Policies
  <2>3. permitted' \subseteq Classes
    BY <1>14 DEF EditSpec, PermittedBy
  <2> HIDE DEF new
  <2>4. /\ fp' = new /\ fpCacheCur' = FALSE
        /\ run' \in Runs \cup {Nil} /\ (run' = Nil <=> run = Nil)
    <3>1. WriteFP(new)
      BY <2>1
    <3> QED
      BY <3>1, WriteFPRun
  <2> QED
    BY <1>14, <2>2, <2>3, <2>4, DisruptType DEF EditSpec
<1>15. CASE DeletePolicy
  BY <1>15, WriteFPRun, DisruptType DEF DeletePolicy
<1>16. ASSUME NEW u \in 1..MaxUID, NEW s \in Specs, CreatePolicy(u, s) PROVE TypeOK'
  <2>1. permitted' \subseteq Classes
    BY <1>16 DEF CreatePolicy, PermittedBy
  <2>2. WriteFP(NewPolicy(u, s)) /\ NewPolicy(u, s) \in Policies
    BY <1>16, NewPolicyType DEF CreatePolicy
  <2>3. fp' \in Policies /\ fpCacheCur' = FALSE /\ run' \in Runs \cup {Nil} /\ (run' = Nil <=> run = Nil)
    BY <2>2, WriteFPRun
  <2> QED
    BY <1>16, <2>1, <2>3, DisruptType DEF CreatePolicy
<1>17. ASSUME NEW s \in ForeignNPs, ForeignWrite(s) PROVE TypeOK'
  <2>1. np \in NetworkPolicies /\ [np EXCEPT !.spec = s] \in NetworkPolicies
    BY <1>17, ReconcilerConstants DEF ForeignWrite, NetworkPolicies
  <2> QED
    BY <1>17, <2>1, DisruptType DEF ForeignWrite, WriteNP
<1>18. CASE ForeignDelete
  BY <1>18, DisruptType DEF ForeignDelete, WriteNP
<1>19. ASSUME NEW m \in Matches \ Wildcards, NEW a \in Answers \cup {Nil}, DNSChange(m, a)
       PROVE  TypeOK'
  BY <1>19, DisruptType DEF DNSChange
<1>20. CASE Restart
  <2>1. /\ queued' \in BOOLEAN /\ timer' \in BOOLEAN
        /\ fpCacheCur' \in BOOLEAN /\ npCacheCur' \in BOOLEAN
    BY <1>20, Zenon DEF Restart
  <2>2. /\ fp' = fp /\ np' = np /\ fpCache' = fp /\ npCache' = np /\ pc' = "idle" /\ run' = Nil
        /\ dns' = dns /\ permitted' = permitted /\ agreed' = agreed
    BY <1>20 DEF Restart, Return
  <2>3. left' \in 0..MaxDisruptions
    BY <1>20, DisruptType DEF Restart
  <2> QED
    BY <2>1, <2>2, <2>3
<1>21. CASE UNCHANGED vars
  BY <1>21 DEF vars
<1> QED
  BY <1>1, <1>2, <1>3, <1>4, <1>5, <1>6, <1>7, <1>8, <1>9, <1>10, <1>11, <1>12, <1>13,
     <1>14, <1>15, <1>16, <1>17, <1>18, <1>19, <1>20, <1>21
  DEF Next, Reconcile, Platform, Environment

\* Type correctness of the controller and its surroundings.
THEOREM TypeCorrect == Spec => []TypeOK
<1>1. Init => TypeOK
  <2> SUFFICES ASSUME Init PROVE TypeOK
    OBVIOUS
  <2>1. PICK s \in Specs : fp = NewPolicy(1, s) /\ permitted = PermittedBy(s)
    BY DEF Init
  <2>2. fp \in Policies /\ permitted \subseteq Classes
    BY <2>1, NewPolicyType, ReconcilerConstants
  <2>3. left \in 0..MaxDisruptions
    BY ReconcilerConstants DEF Init
  <2>4. /\ fpCacheCur \in BOOLEAN /\ npCacheCur \in BOOLEAN
        /\ queued \in BOOLEAN /\ timer \in BOOLEAN
    BY Zenon DEF Init
  <2>5. /\ np = Nil /\ fpCache = Nil /\ npCache = Nil /\ pc = "idle" /\ run = Nil
        /\ agreed = {}
        /\ dns \in [Matches \ Wildcards -> Answers \cup {Nil}]
    BY DEF Init
  <2> QED
    BY <2>2, <2>3, <2>4, <2>5 DEF TypeOK
<1> QED
  BY <1>1, TypeStep, PTL DEF Spec
----------------------------------------------------------------------------
(* Where the copies of the objects come from.  The three invariants below  *)
(* constrain status entries, so they only need to know which status or     *)
(* NetworkPolicy a step may carry from where to where.                     *)

\* fp' is fp, an edited fp, a new object, or fp with the status of the run.
StoredFrom ==
    \/ fp # Nil /\ fp'.status = fp.status
         /\ (fp'.spec = fp.spec \/ PermittedBy(fp'.spec) \subseteq permitted')
    \/ fp # Nil /\ run # Nil /\ fp'.spec = fp.spec /\ fp'.status = run.obj.status
    \/ fp'.status = NoStatus /\ PermittedBy(fp'.spec) \subseteq permitted'

\* The run's copy is the cached one, unchanged, or has been through the rule
\* loop.
RunFrom ==
    \/ fpCache # Nil /\ run'.obj = fpCache
    \/ /\ run # Nil /\ run'.obj.spec = run.obj.spec
       /\ run'.obj.status.resolved = run.obj.status.resolved
    \/ /\ run # Nil /\ run'.obj.spec = run.obj.spec
       /\ run'.obj.status.resolved = ResolveRules(run.obj.status.resolved, run.obj.spec, dns)
       /\ agreed' = agreed \cup AgreedIPs(run.obj.spec, dns)

\* A stored NetworkPolicy is the old one, foreign, or the one the run wants.
AppliedFrom ==
    \/ np # Nil /\ np'.spec = np.spec
    \/ np'.spec \in ForeignNPs
    \/ pc = "apply" /\ run # Nil /\ np'.spec = Desired

Carried ==
    /\ fp' # Nil => StoredFrom
    /\ fpCache' # Nil => fpCache' = fpCache \/ fpCache' = fp
    /\ run' # Nil => RunFrom
    /\ np' # Nil => AppliedFrom
    /\ permitted \subseteq permitted' /\ agreed \subseteq agreed'

\* Every step carries the objects in one of these ways.
LEMMA CarriedStep ==
    ASSUME TypeOK, [Next]_vars
    PROVE  Carried
<1> USE DEF server, caches, queue, history
<1> DEFINE sameFP == fp' = fp /\ permitted' = permitted /\ fpCache' = fpCache
           sameRun == run' = run \/ run' = Nil
           sameNP == np' = np
           keepsAgreed == agreed' = agreed
<1>0. /\ sameFP => (fp' # Nil => StoredFrom) /\ (fpCache' # Nil => fpCache' = fpCache \/ fpCache' = fp)
                   /\ permitted \subseteq permitted'
      /\ sameRun => (run' # Nil => RunFrom)
      /\ sameNP => (np' # Nil => AppliedFrom)
  BY DEF StoredFrom, RunFrom, AppliedFrom
<1>1. CASE ReconcileNotFound
  BY <1>0, <1>1 DEF ReconcileNotFound, Carried
<1>2. CASE ReconcileStart
  <2>1. run'.obj = fpCache /\ fpCache # Nil
    BY <1>2 DEF ReconcileStart
  <2> QED
    BY <1>0, <1>2, <2>1 DEF ReconcileStart, Carried, RunFrom
<1>3. CASE ReconcileResolve
  <2>1. RunFrom
    <3>1. agreed' = agreed \cup AgreedIPs(run.obj.spec, dns) /\ run # Nil
      BY <1>3 DEF ReconcileResolve, TypeOK
    <3> QED
      BY <1>3, <3>1, ResolveStatus DEF RunFrom
  <2>2. agreed \subseteq agreed' /\ sameFP /\ sameNP
    BY <1>3 DEF ReconcileResolve
  <2> QED
    BY <1>0, <2>1, <2>2 DEF Carried
<1>4. CASE ReconcileApply
  <2>1. run # Nil /\ pc = "apply"
    BY <1>4 DEF ReconcileApply, TypeOK
  <2>2. RunFrom
    BY <1>4, <2>1, ApplyRun, ApplyTypes DEF RunFrom
  <2>3. AppliedFrom \/ np' = np
    BY <1>4, <2>1 DEF ReconcileApply, AppliedFrom, WriteNP, SentNP
  <2>4. sameFP /\ keepsAgreed
    BY <1>4 DEF ReconcileApply
  <2> QED
    BY <1>0, <2>2, <2>3, <2>4 DEF Carried
<1>5. CASE ReconcileApplyRejected
  BY <1>0, <1>5 DEF ReconcileApplyRejected, Return, Carried
<1>6. CASE ReconcileApplyFails
  <2>1. run # Nil /\ pc = "apply"
    BY <1>6 DEF ReconcileApplyFails, TypeOK
  <2>2. AppliedFrom \/ np' = np
    BY <1>6, <2>1 DEF ReconcileApplyFails, AppliedFrom, WriteNP, SentNP
  <2>3. sameFP /\ sameRun /\ keepsAgreed
    BY <1>6 DEF ReconcileApplyFails, Return
  <2> QED
    BY <1>0, <2>2, <2>3 DEF Carried
<1>7. ASSUME pc = "status", StatusAccepted, WriteStatus, run' = Nil, np' = np,
             fpCache' = fpCache, permitted' = permitted, agreed' = agreed
      PROVE  Carried
  <2>1. fp # Nil /\ run # Nil
    BY <1>7 DEF StatusAccepted, TypeOK
  <2>2. StoredFrom
    BY <1>7, <2>1, WriteStatusType DEF StoredFrom
  <2> QED
    BY <1>0, <1>7, <2>2 DEF Carried
<1>8. CASE ReconcileStatus
  BY <1>7, <1>8 DEF ReconcileStatus, Return
<1>9. CASE ReconcileStatusRejected
  BY <1>0, <1>9 DEF ReconcileStatusRejected, Return, Carried
<1>10. CASE ReconcileStatusFails
  <2>1. CASE WriteStatus
    BY <1>7, <1>10, <2>1 DEF ReconcileStatusFails, Return
  <2>2. CASE UNCHANGED <<fp, fpCacheCur>>
    BY <1>0, <1>10, <2>2 DEF ReconcileStatusFails, Return, Carried
  <2> QED
    BY <1>10, <2>1, <2>2 DEF ReconcileStatusFails
<1>11. CASE DeliverFP
  <2>1. fpCache' = fp /\ fp' = fp /\ permitted' = permitted /\ sameRun /\ sameNP /\ keepsAgreed
    BY <1>11 DEF DeliverFP
  <2> QED
    BY <1>0, <2>1 DEF Carried, StoredFrom
<1>12. CASE DeliverNP
  BY <1>0, <1>12 DEF DeliverNP, Carried
<1>13. CASE TimerFires
  BY <1>0, <1>13 DEF TimerFires, Carried
<1>14. CASE CollectNP
  BY <1>0, <1>14 DEF CollectNP, WriteNP, Carried
<1>15. ASSUME NEW STATE new, WriteFP(new), np' = np, fpCache' = fpCache,
              permitted \subseteq permitted', agreed' = agreed, new # Nil => StoredFrom
       PROVE  Carried
  <2>1. fp' = new /\ (run' # Nil => run # Nil /\ run'.obj = run.obj)
    BY <1>15, WriteFPRun
  <2>2. run' # Nil => RunFrom
    BY <2>1 DEF RunFrom
  <2> QED
    BY <1>0, <1>15, <2>1, <2>2 DEF Carried
<1>16. ASSUME NEW s \in Specs, EditSpec(s) PROVE Carried
  <2> DEFINE new == [fp EXCEPT !.spec = s, !.generation = @ + 1]
  <2>1. /\ WriteFP(new) /\ fp \in Policies /\ fp # Nil /\ np' = np /\ fpCache' = fpCache
        /\ permitted' = permitted \cup PermittedBy(s) /\ agreed' = agreed
    BY <1>16 DEF EditSpec, TypeOK
  <2>2. new.spec = s /\ new.status = fp.status
    BY <2>1 DEF Policies
  <2> HIDE DEF new
  <2>3. WriteFP(new) /\ fp' = new
    BY <2>1 DEF WriteFP
  <2>4. StoredFrom
    BY <2>1, <2>2, <2>3 DEF StoredFrom
  <2> QED
    BY <1>15, <2>1, <2>3, <2>4
<1>17. CASE DeletePolicy
  <2>1. WriteFP(Nil) /\ np' = np /\ fpCache' = fpCache /\ permitted' = permitted /\ agreed' = agreed
    BY <1>17 DEF DeletePolicy
  <2> QED
    BY <1>15, <2>1
<1>18. ASSUME NEW u \in 1..MaxUID, NEW s \in Specs, CreatePolicy(u, s) PROVE Carried
  <2>1. /\ WriteFP(NewPolicy(u, s)) /\ np' = np /\ fpCache' = fpCache
        /\ permitted' = permitted \cup PermittedBy(s) /\ agreed' = agreed
    BY <1>18 DEF CreatePolicy
  <2>2. fp' = NewPolicy(u, s)
    BY <2>1 DEF WriteFP
  <2>3. StoredFrom
    BY <2>1, <2>2 DEF StoredFrom, NewPolicy
  <2> QED
    BY <1>15, <2>1, <2>3
<1>19. ASSUME NEW s \in ForeignNPs, ForeignWrite(s) PROVE Carried
  <2>1. np \in NetworkPolicies /\ np' = [np EXCEPT !.spec = s] /\ sameFP /\ sameRun /\ keepsAgreed
    BY <1>19 DEF ForeignWrite, WriteNP, TypeOK
  <2>2. np'.spec = s
    BY <2>1 DEF NetworkPolicies
  <2> QED
    BY <1>0, <2>1, <2>2 DEF Carried, AppliedFrom
<1>20. CASE ForeignDelete
  BY <1>0, <1>20 DEF ForeignDelete, WriteNP, Carried
<1>21. ASSUME NEW m \in Matches \ Wildcards, NEW a \in Answers \cup {Nil}, DNSChange(m, a)
       PROVE  Carried
  BY <1>0, <1>21 DEF DNSChange, Carried
<1>22. CASE Restart
  <2>1. /\ fpCache' = fp /\ fp' = fp /\ permitted' = permitted /\ sameRun /\ sameNP
        /\ keepsAgreed
    BY <1>22 DEF Restart, Return
  <2> QED
    BY <1>0, <2>1 DEF Carried, StoredFrom
<1>23. CASE UNCHANGED vars
  BY <1>0, <1>23 DEF vars, Carried
<1> QED
  BY <1>1, <1>2, <1>3, <1>4, <1>5, <1>6, <1>8, <1>9, <1>10, <1>11, <1>12, <1>13, <1>14,
     <1>16, <1>17, <1>18, <1>19, <1>20, <1>21, <1>22, <1>23
  DEF Next, Reconcile, Platform, Environment
----------------------------------------------------------------------------
(* No address of a class that no stored spec let through.                  *)

HostsPermitted(hosts) ==
    \A m \in Matches : hosts[m] # Nil => \A ip \in hosts[m].ips : ClassOf[ip] \in permitted

ObjPermitted(o) == HostsPermitted(o.status.resolved) /\ PermittedBy(o.spec) \subseteq permitted

\* NoUnpermittedClass is not inductive: the next write may come from a cached
\* copy or from the copy of the cycle in flight.
ClassInv ==
    /\ fp # Nil => ObjPermitted(fp)
    /\ fpCache # Nil => ObjPermitted(fpCache)
    /\ run # Nil => ObjPermitted(run.obj)
    /\ np # Nil => \A ip \in Peers(np.spec) \ ForeignPeers : ClassOf[ip] \in permitted

\* What the class filter lets through, the spec permits.
LEMMA FilterPermits ==
    ASSUME NEW spec \in Specs, NEW res \in Answers, NEW ip \in AllowedIPs(res, spec.security)
    PROVE  ClassOf[ip] \in PermittedBy(spec)
<1>1. ip \in IPs
  BY AllowedSubset, ReconcilerConstants DEF Resolutions
<1>2. ClassOf[ip] \in Classes
  BY <1>1, PolicyConstants
<1>3. ClassOf[ip] \in BlockableClasses => ~doBlock(spec.security, ClassOf[ip])
  BY DEF AllowedIPs, filterBlockedIPs
<1> QED
  BY <1>2, <1>3 DEF PermittedBy, doBlock

\* The rule loop keeps a permitted status permitted.
LEMMA ResolvePermitted ==
    ASSUME NEW spec \in Specs, NEW hosts \in ResolvedHosts, NEW answers \in AnswerMaps,
           HostsPermitted(hosts), PermittedBy(spec) \subseteq permitted
    PROVE  HostsPermitted(ResolveRules(hosts, spec, answers))
<1> DEFINE entry(m) == ResolveRules(hosts, spec, answers)[m]
<1> SUFFICES ASSUME NEW m \in Matches, entry(m) # Nil, NEW ip \in entry(m).ips
             PROVE  ClassOf[ip] \in permitted
  BY DEF HostsPermitted
<1>1. m \in spec.rules /\ m \notin Wildcards
  BY DEF ResolveRules, ResolveRule
<1>2. CASE answers[m] = Nil
  <2>1. entry(m) = hosts[m]
    BY <1>1, <1>2 DEF ResolveRules, ResolveRule, findPrevious
  <2> QED
    BY <2>1 DEF HostsPermitted
<1>3. CASE answers[m] # Nil
  <2>1. answers[m] \in Answers /\ entry(m) = FreshEntry(answers[m], spec.security)
    BY <1>1, <1>3 DEF AnswerMaps, ResolveRules, ResolveRule
  <2>2. entry(m).ips = AllowedIPs(answers[m], spec.security)
    BY <2>1 DEF FreshEntry
  <2> QED
    BY <2>1, <2>2, FilterPermits
<1> QED
  BY <1>2, <1>3

\* Until some stored spec opts out of blocking an address class, no address of
\* that class is in the NetworkPolicy or the status: filterBlockedIPs holds
\* across retained entries, stale caches, retries, restarts and recreation.
THEOREM ClassSafety == Spec => []NoUnpermittedClass
<1>1. Init => ClassInv
  BY DEF Init, ClassInv, ObjPermitted, HostsPermitted, NewPolicy, NoStatus, NoHosts
<1>2. TypeOK /\ ClassInv /\ [Next]_vars => ClassInv'
  <2> SUFFICES ASSUME TypeOK, ClassInv, [Next]_vars PROVE ClassInv'
    OBVIOUS
  <2>1. Carried
    BY CarriedStep
  <2>2. permitted \subseteq permitted'
    BY <2>1 DEF Carried
  <2>3. fp' # Nil => ObjPermitted(fp)'
    BY <2>1, <2>2 DEF Carried, StoredFrom, ClassInv, ObjPermitted, HostsPermitted, NoStatus, NoHosts
  <2>4. fpCache' # Nil => ObjPermitted(fpCache)'
    BY <2>1, <2>2 DEF Carried, ClassInv, ObjPermitted, HostsPermitted
  <2>5. run' # Nil => ObjPermitted(run.obj)'
    <3> SUFFICES ASSUME run' # Nil PROVE ObjPermitted(run.obj)'
      OBVIOUS
    <3>1. CASE fpCache # Nil /\ run'.obj = fpCache
      BY <2>2, <3>1 DEF ClassInv, ObjPermitted, HostsPermitted
    <3>2. CASE /\ run # Nil /\ run'.obj.spec = run.obj.spec
               /\ run'.obj.status.resolved = run.obj.status.resolved
      BY <2>2, <3>2 DEF ClassInv, ObjPermitted, HostsPermitted
    <3>3. CASE /\ run # Nil /\ run'.obj.spec = run.obj.spec
               /\ run'.obj.status.resolved
                      = ResolveRules(run.obj.status.resolved, run.obj.spec, dns)
      <4>1. run.obj.spec \in Specs /\ run.obj.status.resolved \in ResolvedHosts
            /\ dns \in AnswerMaps
        BY <3>3 DEF TypeOK, Runs, Policies, Statuses, AnswerMaps
      <4>2. HostsPermitted(ResolveRules(run.obj.status.resolved, run.obj.spec, dns))
        BY <3>3, <4>1, ResolvePermitted DEF ClassInv, ObjPermitted
      <4> QED
        BY <2>2, <3>3, <4>2 DEF ClassInv, ObjPermitted, HostsPermitted
    <3> QED
      BY <2>1, <3>1, <3>2, <3>3 DEF Carried, RunFrom
  <2>6. np' # Nil => \A ip \in Peers(np'.spec) \ ForeignPeers : ClassOf[ip] \in permitted'
    <3> SUFFICES ASSUME np' # Nil, NEW ip \in Peers(np'.spec) \ ForeignPeers
                 PROVE  ClassOf[ip] \in permitted'
      OBVIOUS
    <3>1. CASE np # Nil /\ np'.spec = np.spec
      BY <2>2, <3>1 DEF ClassInv
    <3>2. CASE np'.spec \in ForeignNPs
      BY <3>2 DEF ForeignPeers
    <3>3. CASE pc = "apply" /\ run # Nil /\ np'.spec = Desired
      <4>1. run.obj.status.resolved \in ResolvedHosts
        BY <3>3, ApplyTypes
      <4>2. PICK m \in Matches : /\ run.obj.status.resolved[m] # Nil
                                 /\ ip \in run.obj.status.resolved[m].ips
        BY <3>3, <4>1, PeersListed DEF Desired
      <4> QED
        BY <2>2, <3>3, <4>2 DEF ClassInv, ObjPermitted, HostsPermitted
    <3> QED
      BY <2>1, <3>1, <3>2, <3>3 DEF Carried, AppliedFrom
  <2> QED
    BY <2>3, <2>4, <2>5, <2>6 DEF ClassInv
<1>3. ClassInv => NoUnpermittedClass
  BY DEF ClassInv, NoUnpermittedClass, ObjPermitted, HostsPermitted
<1> QED
  BY <1>1, <1>2, <1>3, TypeCorrect, PTL DEF Spec
----------------------------------------------------------------------------
(* Fail-closed, where no spec asks for consensus.                          *)

NoConsensus == \A s \in Specs : MinAgreement(s.security) <= 1

HostsListed(hosts) == \A m \in Matches : hosts[m] # Nil => hosts[m].ips # {}

\* FailClosed is not inductive: it rests on no copy of the status having an
\* entry without addresses.
ListedInv ==
    /\ fp # Nil => HostsListed(fp.status.resolved)
    /\ fpCache # Nil => HostsListed(fpCache.status.resolved)
    /\ run # Nil => HostsListed(run.obj.status.resolved)
    /\ FailClosed

\* Without consensus mode, the rule loop makes no entry without addresses.
LEMMA ResolveListed ==
    ASSUME NoConsensus, NEW spec \in Specs, NEW hosts \in ResolvedHosts,
           NEW answers \in AnswerMaps, HostsListed(hosts)
    PROVE  HostsListed(ResolveRules(hosts, spec, answers))
<1> DEFINE entry(m) == ResolveRules(hosts, spec, answers)[m]
<1> SUFFICES ASSUME NEW m \in Matches, entry(m) # Nil
             PROVE  entry(m).ips # {}
  BY DEF HostsListed
<1>1. m \in spec.rules /\ m \notin Wildcards
  BY DEF ResolveRules, ResolveRule
<1>2. CASE answers[m] = Nil
  BY <1>1, <1>2 DEF ResolveRules, ResolveRule, findPrevious, HostsListed
<1>3. CASE answers[m] # Nil
  <2>1. answers[m] \in Answers /\ entry(m) = FreshEntry(answers[m], spec.security)
    BY <1>1, <1>3 DEF AnswerMaps, ResolveRules, ResolveRule
  <2>2. answers[m].ips # {}
    BY <2>1, ReconcilerConstants DEF Resolutions
  <2>3. ConsensusIPs(answers[m], spec.security) = answers[m].ips
    BY DEF NoConsensus, ConsensusIPs, filterByConsensus
  <2> QED
    BY <2>1, <2>2, <2>3 DEF FreshEntry
<1> QED
  BY <1>2, <1>3

\* Build gives an egress rule only with at least one peer.
LEMMA BuildClosed ==
    ASSUME NEW spec, NEW resolved \in ResolvedHosts, HostsListed(resolved)
    PROVE  ~AllowsAnyDestination(Build(spec, resolved))
<1>1. CASE resolved = NoHosts
  BY <1>1 DEF Build, denyAllEgress, AllowsAnyDestination
<1>2. CASE resolved # NoHosts
  <2>1. PICK m \in Matches : resolved[m] # Nil
    BY <1>2 DEF NoHosts, ResolvedHosts
  <2>2. PICK ip \in resolved[m].ips : ip \in IPs
    BY <2>1 DEF HostsListed, ResolvedHosts, Entries
  <2> DEFINE listed == {k \in Matches : resolved[k] # Nil /\ ip \in resolved[k].ips}
  <2>3. m \in listed
    BY <2>1, <2>2
  <2>4. IsFiniteSet(listed) /\ PeerCount(resolved, ip) \in Nat
    BY <2>2, ListedByFinite
  <2>5. Cardinality(listed) # 0
    BY <2>3, <2>4, FS_EmptySet
  <2>6. PeerCount(resolved, ip) > 0
    BY <2>4, <2>5 DEF PeerCount
  <2>7. ip \in Peers(Build(spec, resolved))
    BY <1>2, <2>2, <2>6 DEF Peers, Build
  <2> QED
    BY <2>7 DEF AllowsAnyDestination
<1> QED
  BY <1>1, <1>2

\* Where no spec sets security.minResolverAgreement above 1, the controller
\* never stores an egress rule without peers: netpol.Build fails closed.
THEOREM FailClosedSafety ==
    ASSUME NoConsensus
    PROVE  Spec => []FailClosed
<1>1. Init => ListedInv
  BY DEF Init, ListedInv, HostsListed, FailClosed, NewPolicy, NoStatus, NoHosts
<1>2. TypeOK /\ ListedInv /\ [Next]_vars => ListedInv'
  <2> SUFFICES ASSUME TypeOK, ListedInv, [Next]_vars PROVE ListedInv'
    OBVIOUS
  <2>1. Carried
    BY CarriedStep
  <2>2. fp' # Nil => HostsListed(fp'.status.resolved)
    BY <2>1 DEF Carried, StoredFrom, ListedInv, HostsListed, NoStatus, NoHosts
  <2>3. fpCache' # Nil => HostsListed(fpCache'.status.resolved)
    BY <2>1 DEF Carried, ListedInv
  <2>4. run' # Nil => HostsListed(run'.obj.status.resolved)
    <3> SUFFICES ASSUME run' # Nil PROVE HostsListed(run'.obj.status.resolved)
      OBVIOUS
    <3>1. CASE fpCache # Nil /\ run'.obj = fpCache
      BY <3>1 DEF ListedInv
    <3>2. CASE run # Nil /\ run'.obj.status.resolved = run.obj.status.resolved
      BY <3>2 DEF ListedInv
    <3>3. CASE /\ run # Nil
               /\ run'.obj.status.resolved
                      = ResolveRules(run.obj.status.resolved, run.obj.spec, dns)
      <4>1. run.obj.spec \in Specs /\ run.obj.status.resolved \in ResolvedHosts
            /\ dns \in AnswerMaps
        BY <3>3 DEF TypeOK, Runs, Policies, Statuses, AnswerMaps
      <4> QED
        BY <3>3, <4>1, ResolveListed DEF ListedInv
    <3> QED
      BY <2>1, <3>1, <3>2, <3>3 DEF Carried, RunFrom
  <2>5. FailClosed'
    <3>1. CASE np' # Nil /\ pc = "apply" /\ run # Nil /\ np'.spec = Desired
      BY <3>1, ApplyTypes, BuildClosed DEF Desired, ListedInv, FailClosed
    <3> QED
      BY <2>1, <3>1 DEF Carried, AppliedFrom, ListedInv, FailClosed
  <2> QED
    BY <2>2, <2>3, <2>4, <2>5 DEF ListedInv
<1>3. ListedInv => FailClosed
  BY DEF ListedInv
<1> QED
  BY <1>1, <1>2, <1>3, TypeCorrect, PTL DEF Spec
----------------------------------------------------------------------------
(* Freezing on divergence.                                                 *)

FreezeEverywhere == \A s \in Specs : s.mode = "Audit" \/ blockOnDivergence(s.security)

HostsAgreed(hosts) == \A m \in Matches : hosts[m] # Nil /\ ~hosts[m].div => hosts[m].ips \subseteq agreed

\* A cycle only reaches applyNetworkPolicy in Enforce mode and unfrozen.
ApplyGate ==
    pc = "apply" => /\ run.obj.spec.mode # "Audit"
                    /\ ~Freezes(run.obj.spec, run.obj.status.resolved)

\* DivergentNeverAdmitted is not inductive: an entry of an agreeing answer may
\* be retained over many cycles before it is applied.
AgreedInv ==
    /\ fp # Nil => HostsAgreed(fp.status.resolved)
    /\ fpCache # Nil => HostsAgreed(fpCache.status.resolved)
    /\ run # Nil => HostsAgreed(run.obj.status.resolved)
    /\ ApplyGate
    /\ DivergentNeverAdmitted

\* After the rule loop an entry that is not divided was agreed on, before or
\* now.
LEMMA ResolveAgreed ==
    ASSUME NEW spec \in Specs, NEW hosts \in ResolvedHosts, NEW answers \in AnswerMaps,
           HostsAgreed(hosts), NEW m \in Matches,
           NEW e, e = ResolveRules(hosts, spec, answers)[m], e # Nil, ~e.div
    PROVE  e.ips \subseteq agreed \cup AgreedIPs(spec, answers)
<1>1. m \in spec.rules /\ m \notin Wildcards
  BY DEF ResolveRules, ResolveRule
<1>2. CASE answers[m] = Nil
  BY <1>1, <1>2 DEF ResolveRules, ResolveRule, findPrevious, HostsAgreed
<1>3. CASE answers[m] # Nil
  <2>1. e = FreshEntry(answers[m], spec.security)
    BY <1>1, <1>3 DEF ResolveRules, ResolveRule
  <2>2. e.ips \subseteq answers[m].ips /\ ~Divergent(answers[m])
    BY <2>1, AllowedSubset DEF FreshEntry
  <2>3. answers[m].ips \subseteq AgreedIPs(spec, answers)
    BY <1>1, <1>3, <2>2 DEF AgreedIPs
  <2> QED
    BY <2>2, <2>3
<1> QED
  BY <1>2, <1>3

\* The gate before applyNetworkPolicy.
LEMMA GateStep ==
    ASSUME TypeOK, ApplyGate, [Next]_vars
    PROVE  ApplyGate'
<1> USE DEF server, caches, queue, history
<1>1. CASE ReconcileResolve
  <2>1. run'.obj.spec = run.obj.spec /\ run'.obj.status.resolved
            = ResolveRules(run.obj.status.resolved, run.obj.spec, dns)
    BY <1>1, ResolveStatus
  <2>2. pc' = IF \/ run.obj.spec.mode = "Audit"
                 \/ Freezes(run.obj.spec, ResolveRules(run.obj.status.resolved, run.obj.spec, dns))
              THEN "status" ELSE "apply"
    BY <1>1 DEF ReconcileResolve
  <2> QED
    BY <2>1, <2>2 DEF ApplyGate
<1>2. CASE ReconcileNotFound \/ ReconcileStart \/ ReconcileApply \/ ReconcileApplyRejected
           \/ ReconcileApplyFails \/ ReconcileStatus \/ ReconcileStatusRejected
           \/ ReconcileStatusFails \/ Restart
  <2>1. pc' \in {"idle", "resolve", "status"}
    BY <1>2 DEF ReconcileNotFound, ReconcileStart, ReconcileApply, ReconcileApplyRejected,
                ReconcileApplyFails, ReconcileStatus, ReconcileStatusRejected,
                ReconcileStatusFails, Restart, Return
  <2> QED
    BY <2>1 DEF ApplyGate
<1>3. CASE UNCHANGED <<pc, run>>
  BY <1>3 DEF ApplyGate
<1>4. CASE Platform \/ ForeignDelete \/ UNCHANGED vars
  BY <1>3, <1>4 DEF Platform, DeliverFP, DeliverNP, TimerFires, CollectNP, ForeignDelete, vars
<1>5. ASSUME NEW s \in ForeignNPs, ForeignWrite(s) PROVE ApplyGate'
  BY <1>3, <1>5 DEF ForeignWrite
<1>6. ASSUME NEW m \in Matches \ Wildcards, NEW a \in Answers \cup {Nil}, DNSChange(m, a)
      PROVE  ApplyGate'
  BY <1>3, <1>6 DEF DNSChange
<1>7. ASSUME NEW STATE new, WriteFP(new), pc' = pc PROVE ApplyGate'
  <2>1. pc = "apply" => run # Nil
    BY DEF TypeOK
  <2>2. run # Nil => run'.obj = run.obj
    BY <1>7, WriteFPRun
  <2> QED
    BY <1>7, <2>1, <2>2 DEF ApplyGate
<1>8. ASSUME NEW s \in Specs, EditSpec(s) PROVE ApplyGate'
  <2> DEFINE new == [fp EXCEPT !.spec = s, !.generation = @ + 1]
  <2>1. WriteFP(new) /\ pc' = pc
    BY <1>8 DEF EditSpec
  <2> HIDE DEF new
  <2> QED
    BY <1>7, <2>1
<1>9. CASE DeletePolicy
  <2>1. WriteFP(Nil) /\ pc' = pc
    BY <1>9 DEF DeletePolicy
  <2> QED
    BY <1>7, <2>1
<1>10. ASSUME NEW u \in 1..MaxUID, NEW s \in Specs, CreatePolicy(u, s) PROVE ApplyGate'
  <2>1. WriteFP(NewPolicy(u, s)) /\ pc' = pc
    BY <1>10 DEF CreatePolicy
  <2> QED
    BY <1>7, <2>1
<1> QED
  BY <1>1, <1>2, <1>4, <1>5, <1>6, <1>8, <1>9, <1>10 DEF Next, Reconcile, Environment

\* Where every Enforce spec sets security.blockOnDivergence, an address that
\* only came in answers the upstreams disagreed on never reaches the
\* NetworkPolicy: the freeze survives failed lookups, stale caches and retries.
THEOREM FreezeSafety ==
    ASSUME FreezeEverywhere
    PROVE  Spec => []DivergentNeverAdmitted
<1>1. Init => AgreedInv
  BY DEF Init, AgreedInv, HostsAgreed, ApplyGate, DivergentNeverAdmitted, NewPolicy, NoStatus,
         NoHosts
<1>2. TypeOK /\ AgreedInv /\ [Next]_vars => AgreedInv'
  <2> SUFFICES ASSUME TypeOK, AgreedInv, [Next]_vars PROVE AgreedInv'
    OBVIOUS
  <2>1. Carried
    BY CarriedStep
  <2>2. agreed \subseteq agreed'
    BY <2>1 DEF Carried
  <2>3. fp' # Nil => HostsAgreed(fp.status.resolved)'
    BY <2>1, <2>2 DEF Carried, StoredFrom, AgreedInv, HostsAgreed, NoStatus, NoHosts
  <2>4. fpCache' # Nil => HostsAgreed(fpCache.status.resolved)'
    BY <2>1, <2>2 DEF Carried, AgreedInv, HostsAgreed
  <2>5. run' # Nil => HostsAgreed(run.obj.status.resolved)'
    <3> SUFFICES ASSUME run' # Nil PROVE HostsAgreed(run.obj.status.resolved)'
      OBVIOUS
    <3>1. CASE fpCache # Nil /\ run'.obj = fpCache
      BY <2>2, <3>1 DEF AgreedInv, HostsAgreed
    <3>2. CASE run # Nil /\ run'.obj.status.resolved = run.obj.status.resolved
      BY <2>2, <3>2 DEF AgreedInv, HostsAgreed
    <3>3. CASE /\ run # Nil
               /\ run'.obj.status.resolved
                      = ResolveRules(run.obj.status.resolved, run.obj.spec, dns)
               /\ agreed' = agreed \cup AgreedIPs(run.obj.spec, dns)
      <4>1. run.obj.spec \in Specs /\ run.obj.status.resolved \in ResolvedHosts
            /\ dns \in AnswerMaps
        BY <3>3 DEF TypeOK, Runs, Policies, Statuses, AnswerMaps
      <4>2. HostsAgreed(run.obj.status.resolved)
        BY <3>3 DEF AgreedInv
      <4> QED
        BY <3>3, <4>1, <4>2, ResolveAgreed DEF HostsAgreed
    <3> QED
      BY <2>1, <3>1, <3>2, <3>3 DEF Carried, RunFrom
  <2>6. DivergentNeverAdmitted'
    <3> SUFFICES ASSUME np' # Nil, NEW ip \in Peers(np'.spec) \ ForeignPeers
                 PROVE  ip \in agreed'
      BY DEF DivergentNeverAdmitted
    <3>1. CASE np # Nil /\ np'.spec = np.spec
      BY <2>2, <3>1 DEF AgreedInv, DivergentNeverAdmitted
    <3>2. CASE np'.spec \in ForeignNPs
      BY <3>2 DEF ForeignPeers
    <3>3. CASE pc = "apply" /\ run # Nil /\ np'.spec = Desired
      <4>1. run.obj.spec \in Specs /\ run.obj.status.resolved \in ResolvedHosts
        BY <3>3, ApplyTypes
      <4>2. PICK m \in Matches : /\ run.obj.status.resolved[m] # Nil
                                 /\ ip \in run.obj.status.resolved[m].ips
        BY <3>3, <4>1, PeersListed DEF Desired
      <4>3. ~run.obj.status.resolved[m].div
        BY <3>3, <4>1, <4>2 DEF AgreedInv, ApplyGate, FreezeEverywhere, Freezes, anyDivergence
      <4> QED
        BY <2>2, <3>3, <4>2, <4>3 DEF AgreedInv, HostsAgreed
    <3> QED
      BY <2>1, <3>1, <3>2, <3>3 DEF Carried, AppliedFrom
  <2>7. ApplyGate'
    BY GateStep DEF AgreedInv
  <2> QED
    BY <2>3, <2>4, <2>5, <2>6, <2>7 DEF AgreedInv
<1>3. AgreedInv => DivergentNeverAdmitted
  BY DEF AgreedInv
<1> QED
  BY <1>1, <1>2, <1>3, TypeCorrect, PTL DEF Spec
=============================================================================
