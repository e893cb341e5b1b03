----------------------- MODULE ReconcilerStatusProofs -----------------------
(***************************************************************************)
(* Proofs about what Status().Update of Reconciler stores: the status of a *)
(* generation was computed from that generation's spec, and a failed       *)
(* lookup keeps the stored entry.  Both rest on the resourceVersion check. *)
(***************************************************************************)
EXTENDS ReconcilerProofs

\* Every entry of the status belongs to a rule that can be resolved.
EntriesOfRules(o) ==
    \A m \in Matches : o.status.resolved[m] # Nil => m \in o.spec.rules \ Wildcards

\* The status says of the spec what StatusMatchesGeneration asks.
StatusFits(o) ==
    /\ EntriesOfRules(o)
    /\ (o.status.ready = "AuditMode") <=> (o.spec.mode = "Audit")
    /\ o.spec.mode = "Audit" => ~o.status.generated

\* A stored status is of an earlier generation or fits the spec.
StoredInv ==
    fp # Nil => /\ fp.status.observed <= fp.generation
                /\ fp.status.observed = fp.generation => StatusFits(fp)

\* A cached copy with the server's resourceVersion is the stored object.
CacheInv == fpCacheCur => fpCache = fp

\* So is the copy of a cycle that no write has overtaken; after the rule loop
\* only its status differs, and not in the entries of the failed lookups.
RunCurrent ==
    run # Nil /\ run.cur =>
        /\ fp # Nil
        /\ run.obj.spec = fp.spec /\ run.obj.generation = fp.generation
        /\ pc = "resolve" => run.obj.status = fp.status
        /\ pc # "resolve" =>
               \A m \in run.failed : run.obj.status.resolved[m] = fp.status.resolved[m]

\* What the steps of the cycle have computed so far fits the spec it read.
RunFits ==
    /\ pc = "apply" => EntriesOfRules(run.obj) /\ run.obj.spec.mode # "Audit"
    /\ pc = "status" => /\ StatusFits(run.obj)
                        /\ run.obj.status.observed = run.obj.generation

\* The inductive invariant.
StatusInv == StoredInv /\ CacheInv /\ RunCurrent /\ RunFits
----------------------------------------------------------------------------
(* What the steps of the handler leave in the run.                         *)

\* The fields StatusMatchesGeneration reads, after each way to end a cycle.
LEMMA StatusFields ==
    ASSUME NEW st \in Statuses, NEW errors, NEW obj
    PROVE  /\ AuditStatus(obj, st).ready = "AuditMode"
           /\ AuditStatus(obj, st).generated = FALSE
           /\ AuditStatus(obj, st).observed = obj.generation
           /\ FrozenStatus(obj, st).ready = "DivergenceBlocked"
           /\ FrozenStatus(obj, st).observed = obj.generation
           /\ setReadyCondition([st EXCEPT !.generated = TRUE,
                                           !.observed = obj.generation], errors).ready
                  \in {"Reconciled", "ResolutionDegraded"}
           /\ setReadyCondition([st EXCEPT !.generated = TRUE,
                                           !.observed = obj.generation], errors).observed
                  = obj.generation
BY DEF AuditStatus, FrozenStatus, setReadyCondition, Statuses

\* The rule loop makes entries for resolvable rules only, and keeps the entry
\* of a failed lookup.
LEMMA LoopEntries ==
    ASSUME NEW hosts, NEW spec, NEW answers, NEW m \in Matches
    PROVE  /\ ResolveRules(hosts, spec, answers)[m] # Nil => m \in spec.rules \ Wildcards
           /\ m \in spec.rules \ Wildcards /\ answers[m] = Nil =>
                  ResolveRules(hosts, spec, answers)[m] = hosts[m]
BY DEF ResolveRules, ResolveRule, findPrevious

\* The run after the rule loop and the branch on Audit mode and divergence.
LEMMA ResolveFits ==
    ASSUME TypeOK, ReconcileResolve
    PROVE  /\ pc' \in {"apply", "status"} /\ RunFits'
           /\ \A m \in run'.failed : run'.obj.status.resolved[m] = run.obj.status.resolved[m]
<1> DEFINE hosts == ResolveRules(run.obj.status.resolved, run.obj.spec, dns)
           st == WithResolved(run.obj.status, hosts)
           after == IF run.obj.spec.mode = "Audit" THEN AuditStatus(run.obj, st)
                    ELSE IF Freezes(run.obj.spec, hosts) THEN FrozenStatus(run.obj, st)
                    ELSE st
           missed == {m \in run.obj.spec.rules \ Wildcards : dns[m] = Nil}
<1>1. /\ run \in Runs /\ run.obj \in Policies /\ hosts \in ResolvedHosts
      /\ run'.obj.status.resolved = hosts /\ run'.obj.spec = run.obj.spec
      /\ run'.obj.generation = run.obj.generation
  BY ResolveStatus
<1>2. run.obj.status \in Statuses
  BY <1>1 DEF Policies
<1>3. st \in Statuses
  BY <1>1, <1>2, StatusTypes
<1>4. /\ run' = [run EXCEPT !.obj.status = after, !.failed = missed,
                            !.errors = ResolutionErrors(run.obj.spec, dns)]
      /\ pc' = IF run.obj.spec.mode = "Audit" \/ Freezes(run.obj.spec, hosts)
               THEN "status" ELSE "apply"
  BY DEF ReconcileResolve
<1> HIDE DEF hosts, st, missed
<1>5. /\ run.obj.spec.mode = "Audit" =>
             after.ready = "AuditMode" /\ after.generated = FALSE
      /\ run.obj.spec.mode # "Audit" /\ Freezes(run.obj.spec, hosts) =>
             after.ready = "DivergenceBlocked"
      /\ pc' = "status" => after.observed = run.obj.generation
  BY <1>3, <1>4, StatusFields
<1> HIDE DEF after
<1>6. run'.obj.status = after /\ run'.failed = missed
  BY <1>1, <1>4 DEF Runs, Policies
<1>7. EntriesOfRules(run'.obj)
  <2> SUFFICES ASSUME NEW m \in Matches, hosts[m] # Nil PROVE m \in run.obj.spec.rules \ Wildcards
    BY <1>1 DEF EntriesOfRules
  <2> QED
    BY LoopEntries DEF hosts
<1>8. \A m \in run'.failed : run'.obj.status.resolved[m] = run.obj.status.resolved[m]
  <2> SUFFICES ASSUME NEW m \in missed PROVE hosts[m] = run.obj.status.resolved[m]
    BY <1>1, <1>6
  <2>1. m \in Matches
    BY <1>1, ReconcilerConstants DEF missed, Policies, PolicySpecs
  <2> QED
    BY <2>1, LoopEntries DEF hosts, missed
<1>9. pc' = "apply" => run'.obj.spec.mode # "Audit"
  BY <1>1, <1>4
<1>10. pc' = "status" => StatusFits(run'.obj) /\ run'.obj.status.observed = run'.obj.generation
  BY <1>1, <1>4, <1>5, <1>6, <1>7 DEF StatusFits
<1> QED
  BY <1>4, <1>7, <1>8, <1>9, <1>10 DEF RunFits

\* The run after applyNetworkPolicy.
LEMMA ApplyFits ==
    ASSUME TypeOK, ReconcileApply, RunFits
    PROVE  /\ pc' = "status" /\ RunFits'
           /\ run'.obj.status.resolved = run.obj.status.resolved
<1>1. pc = "apply" /\ pc' = "status"
  BY DEF ReconcileApply
<1>2. /\ run.obj.status \in Statuses /\ run'.obj.status = AppliedStatus
      /\ AppliedStatus.resolved = run.obj.status.resolved
      /\ run'.obj.spec = run.obj.spec /\ run'.obj.generation = run.obj.generation
  BY <1>1, ApplyTypes, ApplyRun
<1>3. /\ AppliedStatus.ready \in {"Reconciled", "ResolutionDegraded"}
      /\ AppliedStatus.observed = run.obj.generation
  BY <1>2 DEF AppliedStatus, setReadyCondition, Statuses
<1>4. EntriesOfRules(run'.obj) /\ run'.obj.spec.mode # "Audit"
  BY <1>1, <1>2 DEF RunFits, EntriesOfRules
<1> QED
  BY <1>1, <1>2, <1>3, <1>4 DEF RunFits, StatusFits
----------------------------------------------------------------------------
(* The inductive step.                                                     *)

\* A write of the policy by a user makes every copy stale; its status is of
\* an earlier generation.
LEMMA UserWriteStep ==
    ASSUME TypeOK, StatusInv, NEW STATE new, WriteFP(new), pc' = pc,
           new # Nil => new.status.observed \in Nat /\ new.generation \in Nat
                            /\ new.status.observed < new.generation
    PROVE  StatusInv'
<1>1. /\ fp' = new /\ fpCacheCur' = FALSE
      /\ run' # Nil => run # Nil /\ run'.obj = run.obj /\ run'.cur = FALSE
      /\ run # Nil => run'.obj = run.obj
  BY WriteFPRun
<1>2. StoredInv'
  BY <1>1 DEF StoredInv
<1>3. CacheInv' /\ RunCurrent'
  BY <1>1 DEF CacheInv, RunCurrent
<1>4. RunFits'
  <2>1. pc \in {"apply", "status"} => run'.obj = run.obj
    BY <1>1 DEF TypeOK
  <2> QED
    BY <2>1 DEF StatusInv, RunFits, EntriesOfRules, StatusFits
<1> QED
  BY <1>2, <1>3, <1>4 DEF StatusInv

\* Status().Update of a current copy.
LEMMA StatusWriteStep ==
    ASSUME TypeOK, StatusInv, pc = "status", StatusAccepted, WriteStatus, Return,
           fpCache' = fpCache
    PROVE  StatusInv'
<1>1. /\ fp \in Policies /\ run \in Runs /\ run.cur = TRUE /\ run # Nil
      /\ fp' \in Policies /\ fp'.status = run.obj.status
      /\ fp'.spec = fp.spec /\ fp'.generation = fp.generation /\ fp # Nil
  BY WriteStatusType DEF TypeOK, StatusAccepted
<1>2. run.obj.spec = fp.spec /\ run.obj.generation = fp.generation
  BY <1>1 DEF StatusInv, RunCurrent
<1>3. StatusFits(run.obj) /\ run.obj.status.observed = run.obj.generation
  BY DEF StatusInv, RunFits
<1>4. StatusFits(fp')
  BY <1>1, <1>2, <1>3 DEF StatusFits, EntriesOfRules
<1>5. StoredInv'
  <2>1. fp'.generation \in Nat /\ fp'.status.observed = fp'.generation
    BY <1>1, <1>2, <1>3 DEF Policies
  <2> QED
    BY <1>4, <2>1 DEF StoredInv, StatusFits, EntriesOfRules
<1>6. CacheInv'
  <2>1. CASE fpCacheCur' = FALSE
    BY <2>1 DEF CacheInv
  <2>2. CASE fpCacheCur' # FALSE
    <3>1. fp.status = run.obj.status /\ fpCacheCur' = fpCacheCur
      BY <2>2 DEF WriteStatus
    <3>2. fp' = fp
      BY <1>1, <3>1 DEF WriteStatus, Policies
    <3> QED
      BY <3>1, <3>2 DEF StatusInv, CacheInv
  <2> QED
    BY <2>1, <2>2
<1>7. RunCurrent' /\ RunFits'
  BY DEF Return, RunCurrent, RunFits
<1> QED
  BY <1>5, <1>6, <1>7 DEF StatusInv

\* Every step keeps the invariant.
LEMMA StatusStep ==
    ASSUME TypeOK, StatusInv, [Next]_vars
    PROVE  StatusInv'
<1> USE DEF server, caches, queue, history
<1>1. CASE UNCHANGED <<fp, fpCache, fpCacheCur, run, pc>>
  BY <1>1 DEF StatusInv, StoredInv, CacheInv, RunCurrent, RunFits, EntriesOfRules, StatusFits
<1>2. CASE Return /\ UNCHANGED <<fp, fpCache, fpCacheCur>>
  BY <1>2 DEF Return, StatusInv, StoredInv, CacheInv, RunCurrent, RunFits, EntriesOfRules,
              StatusFits
<1>3. CASE ReconcileNotFound \/ DeliverNP \/ TimerFires \/ CollectNP \/ ForeignDelete
           \/ UNCHANGED vars
  BY <1>1, <1>3 DEF ReconcileNotFound, DeliverNP, TimerFires, CollectNP, ForeignDelete, vars
<1>4. CASE ReconcileApplyRejected \/ ReconcileApplyFails \/ ReconcileStatusRejected
  BY <1>2, <1>4 DEF ReconcileApplyRejected, ReconcileApplyFails, ReconcileStatusRejected
<1>5. CASE ReconcileStart
  <2>1. /\ pc' = "resolve" /\ fpCache # Nil /\ UNCHANGED <<fp, fpCache, fpCacheCur>>
        /\ run'.obj = fpCache /\ run'.cur = fpCacheCur
    BY <1>5 DEF ReconcileStart
  <2>2. StoredInv' /\ CacheInv' /\ RunFits'
    BY <2>1 DEF StatusInv, StoredInv, CacheInv, RunFits, EntriesOfRules, StatusFits
  <2>3. RunCurrent'
    BY <2>1 DEF StatusInv, CacheInv, RunCurrent
  <2> QED
    BY <2>2, <2>3 DEF StatusInv
<1>6. CASE ReconcileResolve
  <2>1. /\ UNCHANGED <<fp, fpCache, fpCacheCur>> /\ pc = "resolve" /\ run # Nil
        /\ pc' # "resolve"
    BY <1>6, ResolveFits DEF ReconcileResolve, TypeOK
  <2>2. /\ run'.obj.spec = run.obj.spec /\ run'.obj.generation = run.obj.generation
        /\ run'.cur = run.cur
    BY <1>6, ResolveStatus
  <2>3. \A m \in run'.failed : run'.obj.status.resolved[m] = run.obj.status.resolved[m]
    BY <1>6, ResolveFits
  <2>4. RunCurrent'
    BY <2>1, <2>2, <2>3 DEF StatusInv, RunCurrent
  <2>5. StoredInv' /\ CacheInv'
    BY <2>1 DEF StatusInv, StoredInv, CacheInv, EntriesOfRules, StatusFits
  <2> QED
    BY <1>6, <2>4, <2>5, ResolveFits DEF StatusInv
<1>7. CASE ReconcileApply
  <2>1. /\ UNCHANGED <<fp, fpCache, fpCacheCur>> /\ pc = "apply" /\ run # Nil
    BY <1>7 DEF ReconcileApply, TypeOK
  <2>2. /\ run'.obj.spec = run.obj.spec /\ run'.obj.generation = run.obj.generation
        /\ run'.cur = run.cur /\ run'.failed = run.failed
    BY <1>7, ApplyRun
  <2>3. /\ pc' = "status" /\ RunFits'
        /\ run'.obj.status.resolved = run.obj.status.resolved
    BY <1>7, ApplyFits DEF StatusInv
  <2>4. RunCurrent'
    BY <2>1, <2>2, <2>3 DEF StatusInv, RunCurrent
  <2>5. StoredInv' /\ CacheInv'
    BY <2>1 DEF StatusInv, StoredInv, CacheInv, EntriesOfRules, StatusFits
  <2> QED
    BY <2>3, <2>4, <2>5 DEF StatusInv
<1>8. CASE ReconcileStatus
  BY <1>8, StatusWriteStep DEF ReconcileStatus
<1>9. CASE ReconcileStatusFails
  <2>1. CASE WriteStatus
    BY <1>9, <2>1, StatusWriteStep DEF ReconcileStatusFails
  <2>2. CASE UNCHANGED <<fp, fpCacheCur>>
    BY <1>2, <1>9, <2>2 DEF ReconcileStatusFails
  <2> QED
    BY <1>9, <2>1, <2>2 DEF ReconcileStatusFails
<1>10. CASE DeliverFP
  <2>1. UNCHANGED <<fp, run, pc>> /\ fpCache' = fp
    BY <1>10 DEF DeliverFP
  <2> QED
    BY <2>1 DEF StatusInv, StoredInv, CacheInv, RunCurrent, RunFits, EntriesOfRules, StatusFits
<1>11. CASE Restart
  <2>1. fp' = fp /\ fpCache' = fp /\ pc' = "idle" /\ run' = Nil
    BY <1>11 DEF Restart, Return
  <2> QED
    BY <2>1 DEF StatusInv, StoredInv, CacheInv, RunCurrent, RunFits, EntriesOfRules, StatusFits
<1>12. ASSUME NEW s \in Specs, EditSpec(s) PROVE StatusInv'
  <2> DEFINE new == [fp EXCEPT !.spec = s, !.generation = @ + 1]
  <2>1. WriteFP(new) /\ pc' = pc /\ fp # Nil /\ fp \in Policies
    BY <1>12 DEF EditSpec, TypeOK
  <2>2. new.status = fp.status /\ new.generation = fp.generation + 1
    BY <2>1 DEF Policies
  <2>3. fp.status.observed \in Nat /\ fp.generation \in Nat
    BY <2>1 DEF Policies, Statuses
  <2>4. fp.status.observed <= fp.generation
    BY <2>1 DEF StatusInv, StoredInv
  <2>5. /\ new.status.observed \in Nat /\ new.generation \in Nat
        /\ new.status.observed < new.generation
    BY <2>2, <2>3, <2>4
  <2> HIDE DEF new
  <2> QED
    BY <2>1, <2>5, UserWriteStep
<1>13. CASE DeletePolicy
  BY <1>13, UserWriteStep DEF DeletePolicy
<1>14. ASSUME NEW u \in 1..MaxUID, NEW s \in Specs, CreatePolicy(u, s) PROVE StatusInv'
  <2>1. WriteFP(NewPolicy(u, s)) /\ pc' = pc
    BY <1>14 DEF CreatePolicy
  <2>2. NewPolicy(u, s).generation = 1 /\ NewPolicy(u, s).status.observed = 0
    BY DEF NewPolicy, NoStatus
  <2> QED
    BY <2>1, <2>2, UserWriteStep
<1>15. ASSUME NEW s \in ForeignNPs, ForeignWrite(s) PROVE StatusInv'
  BY <1>1, <1>15 DEF ForeignWrite
<1>16. ASSUME NEW m \in Matches \ Wildcards, NEW a \in Answers \cup {Nil}, DNSChange(m, a)
       PROVE  StatusInv'
  BY <1>1, <1>16 DEF DNSChange
<1> QED
  BY <1>3, <1>4, <1>5, <1>6, <1>7, <1>8, <1>9, <1>10, <1>11, <1>12, <1>13, <1>14, <1>15, <1>16
  DEF Next, Reconcile, Platform, Environment

\* The invariant holds initially and throughout.
LEMMA StatusInvariant == Spec => [](TypeOK /\ StatusInv)
<1>1. Init => StatusInv
  <2> SUFFICES ASSUME Init PROVE StatusInv
    OBVIOUS
  <2>1. PICK s \in Specs : fp = NewPolicy(1, s)
    BY DEF Init
  <2>2. fp.generation = 1 /\ fp.status.observed = 0
    BY <2>1 DEF NewPolicy, NoStatus
  <2>3. StoredInv
    BY <2>2 DEF StoredInv
  <2>4. CacheInv /\ RunCurrent /\ RunFits
    BY DEF Init, CacheInv, RunCurrent, RunFits
  <2> QED
    BY <2>3, <2>4 DEF StatusInv
<1> QED
  BY <1>1, StatusStep, TypeCorrect, PTL DEF Spec

\* status.observedGeneration equal to the generation means that the status was
\* computed from this very spec: no edit can slip between the read of the
\* policy and Status().Update, whatever copy the cycle worked on.
THEOREM StatusGeneration == Spec => []StatusMatchesGeneration
<1>1. StatusInv => StatusMatchesGeneration
  BY DEF StatusInv, StoredInv, StatusFits, EntriesOfRules, StatusMatchesGeneration
<1> QED
  BY <1>1, StatusInvariant, PTL

\* No status write replaces or drops the stored entry of a host whose lookup
\* failed in that cycle, although findPrevious reads the cycle's own copy.
THEOREM FailureRetention == Spec => FailureKeepsEntry
<1> DEFINE keeps == pc = "status" /\ fp # Nil /\ fp' # Nil /\ fp'.status # fp.status =>
                        \A m \in run.failed : fp'.status.resolved[m] = fp.status.resolved[m]
<1>1. ASSUME TypeOK, StatusInv, [Next]_vars PROVE keeps
  <2> SUFFICES ASSUME pc = "status", fp # Nil, fp' # Nil, fp'.status # fp.status
               PROVE  \A m \in run.failed : fp'.status.resolved[m] = fp.status.resolved[m]
    OBVIOUS
  <2>1. StatusAccepted /\ WriteStatus
    <3> USE DEF server, caches, queue, history
    <3>1. ASSUME NEW s \in Specs, EditSpec(s) PROVE FALSE
      <4>1. fp \in Policies /\ fp' = [fp EXCEPT !.spec = s, !.generation = @ + 1]
        BY <1>1, <3>1 DEF EditSpec, WriteFP, TypeOK
      <4>2. fp'.status = fp.status
        BY <4>1 DEF Policies
      <4> QED
        BY <4>2
    <3>2. ASSUME NEW u \in 1..MaxUID, NEW s \in Specs, CreatePolicy(u, s) PROVE FALSE
      BY <3>2 DEF CreatePolicy
    <3>3. CASE DeletePolicy
      BY <3>3 DEF DeletePolicy, WriteFP
    <3>4. CASE ReconcileApply \/ ReconcileApplyRejected \/ ReconcileApplyFails
               \/ ReconcileResolve \/ ReconcileNotFound \/ ReconcileStart
      BY <3>4 DEF ReconcileApply, ReconcileApplyRejected, ReconcileApplyFails,
                  ReconcileResolve, ReconcileNotFound, ReconcileStart
    <3>5. CASE Platform \/ ForeignDelete \/ Restart \/ ReconcileStatusRejected \/ UNCHANGED vars
      BY <3>5 DEF Platform, DeliverFP, DeliverNP, TimerFires, CollectNP, ForeignDelete, Restart,
                  ReconcileStatusRejected, vars
    <3>6. ASSUME NEW s \in ForeignNPs, ForeignWrite(s) PROVE FALSE
      BY <3>6 DEF ForeignWrite
    <3>7. ASSUME NEW m \in Matches \ Wildcards, NEW a \in Answers \cup {Nil}, DNSChange(m, a)
          PROVE  FALSE
      BY <3>7 DEF DNSChange
    <3>8. CASE ReconcileStatus \/ ReconcileStatusFails
      BY <3>8 DEF ReconcileStatus, ReconcileStatusFails
    <3> QED
      BY <1>1, <3>1, <3>2, <3>3, <3>4, <3>5, <3>6, <3>7, <3>8 DEF Next, Reconcile, Environment
  <2>2. run.cur = TRUE /\ fp'.status = run.obj.status /\ run \in Runs
    BY <1>1, <2>1, WriteStatusType
  <2>3. run # Nil
    BY <2>2, ReconcilerConstants
  <2> QED
    BY <1>1, <2>2, <2>3 DEF StatusInv, RunCurrent
<1>2. TypeOK /\ StatusInv /\ [Next]_vars => [keeps]_fp
  BY <1>1
<1> QED
  BY <1>2, StatusInvariant, PTL DEF Spec, FailureKeepsEntry
=============================================================================
