---------------------- MODULE EgressObservationProofs ----------------------
(***************************************************************************)
(* Proofs about EgressObservation, for every set of hostnames, windows,    *)
(* retention and every bound on time, queries and disruptions.             *)
(***************************************************************************)
EXTENDS EgressObservation, TLAPS

----------------------------------------------------------------------------
(* Type correctness.                                                       *)

\* An entry of a map is a Domain or Nil, and its fields are numbers.
LEMMA EntryType ==
    ASSUME NEW s \in DomainMaps, NEW h \in Hostnames, s[h] # Nil
    PROVE  /\ s[h] \in Domains
           /\ s[h].count \in Nat /\ s[h].first \in Times /\ s[h].last \in Times
BY DEF DomainMaps, Domains

\* What is added for a hostname the store holds is a number of its queries.
LEMMA DeltaType ==
    ASSUME TypeOK, NEW h \in Hostnames, store[h] # Nil
    PROVE  /\ Delta(h) \in Nat
           /\ Delta(h) = IF store[h].count < synced[h] THEN store[h].count
                         ELSE store[h].count - synced[h]
<1>1. store[h].count \in Nat /\ synced[h] \in Nat
  BY EntryType DEF TypeOK
<1> QED
  BY <1>1 DEF Delta

\* Record and prune keep the store a map of domains.
LEMMA RecordedType ==
    ASSUME TypeOK, NEW h \in Hostnames
    PROVE  Recorded(h) \in DomainMaps /\ pruneLocked(Recorded(h)) \in DomainMaps
<1>1. store \in DomainMaps /\ clock \in Times
  BY DEF TypeOK
<1> DEFINE new == IF store[h] = Nil THEN [first |-> clock, last |-> clock, count |-> 1]
                  ELSE [first |-> store[h].first, last |-> clock, count |-> store[h].count + 1]
<1>2. new \in Domains
  <2>1. CASE store[h] = Nil
    BY <1>1, <2>1 DEF Domains
  <2>2. CASE store[h] # Nil
    BY <1>1, <2>2, EntryType DEF Domains
  <2> QED
    BY <2>1, <2>2
<1>3. Recorded(h) = [store EXCEPT ![h] = new]
  BY <1>1 DEF Recorded, DomainMaps
<1> HIDE DEF new
<1>4. Recorded(h) \in DomainMaps
  BY <1>1, <1>2, <1>3 DEF DomainMaps
<1>5. pruneLocked(Recorded(h)) \in DomainMaps
  BY <1>4 DEF DomainMaps, pruneLocked
<1> QED
  BY <1>4, <1>5

\* The merge of two maps is a map.
LEMMA MergeType ==
    ASSUME TypeOK, NEW existing \in DomainMaps
    PROVE  mergeObservedDomains(existing) \in DomainMaps
<1> SUFFICES ASSUME NEW h \in Hostnames
             PROVE  mergeObservedDomains(existing)[h] \in Domains \cup {Nil}
  BY DEF mergeObservedDomains, DomainMaps
<1>0. store \in DomainMaps
  BY DEF TypeOK
<1>1. CASE store[h] = Nil
  BY <1>1 DEF mergeObservedDomains, DomainMaps
<1>2. CASE store[h] # Nil /\ existing[h] = Nil
  <2>1. mergeObservedDomains(existing)[h] = [store[h] EXCEPT !.count = Delta(h)]
    BY <1>2 DEF mergeObservedDomains
  <2> QED
    BY <1>0, <1>2, <2>1, EntryType, DeltaType DEF Domains
<1>3. CASE store[h] # Nil /\ existing[h] # Nil
  <2>1. mergeObservedDomains(existing)[h] =
            [first |-> Earlier(store[h].first, existing[h].first),
             last  |-> Later(store[h].last, existing[h].last),
             count |-> existing[h].count + Delta(h)]
    BY <1>3 DEF mergeObservedDomains
  <2>2. /\ Earlier(store[h].first, existing[h].first) \in Times
        /\ Later(store[h].last, existing[h].last) \in Times
    BY <1>0, <1>3, EntryType DEF Earlier, Later
  <2>3. existing[h].count + Delta(h) \in Nat
    BY <1>3, EntryType, DeltaType
  <2> QED
    BY <2>1, <2>2, <2>3 DEF Domains
<1> QED
  BY <1>1, <1>2, <1>3

\* The working copy after the merge.
LEMMA MergeRun ==
    ASSUME TypeOK, ReconcileMerge
    PROVE  /\ run \in Runs /\ run.obj \in Observations
           /\ run' \in Runs
           /\ run'.obj.domains = mergeObservedDomains(run.obj.domains)
           /\ run'.cur = run.cur
<1> DEFINE done == (clock - run.obj.created >= run.obj.window)
           merged == mergeObservedDomains(run.obj.domains)
<1>1. run \in Runs /\ run.obj \in Observations /\ run.cur \in BOOLEAN
  BY DEF TypeOK, ReconcileMerge, Runs
<1>2. run.obj.domains \in DomainMaps /\ run.obj.generation \in Nat
  BY <1>1 DEF Observations
<1>3. merged \in DomainMaps
  BY <1>2, MergeType
<1>4. done \in BOOLEAN
  OBVIOUS
<1>5. run' = [run EXCEPT !.obj =
                  [[run.obj EXCEPT !.domains = merged, !.complete = done,
                                   !.observed = run.obj.generation] EXCEPT !.ready = "Observing"]]
  BY DEF ReconcileMerge, setObservationCondition
<1> HIDE DEF done, merged
<1>6. run'.obj = [run.obj EXCEPT !.domains = merged, !.complete = done,
                                 !.observed = run.obj.generation, !.ready = "Observing"]
      /\ run'.cur = run.cur /\ run' = [obj |-> run'.obj, cur |-> run.cur]
  BY <1>1, <1>5 DEF Runs, Observations
<1>7. run'.obj \in Observations /\ run'.obj.domains = merged
  BY <1>1, <1>2, <1>3, <1>4, <1>6 DEF Observations
<1> QED
  BY <1>1, <1>6, <1>7 DEF Runs, merged

\* The copy a cycle works on is made stale by a write, not changed.
LEMMA StaleRun ==
    ASSUME TypeOK, NEW new, WriteObs(new)
    PROVE  /\ run' \in Runs \cup {Nil} /\ ((run = Nil) <=> (run' = Nil))
           /\ run # Nil => run'.obj = run.obj
<1>1. CASE run = Nil
  BY <1>1 DEF WriteObs
<1>2. CASE run # Nil
  <2>1. run \in Runs /\ run' = [run EXCEPT !.cur = FALSE]
    BY <1>2 DEF TypeOK, WriteObs
  <2>2. run' \in Runs /\ run'.obj = run.obj
    BY <2>1 DEF Runs
  <2> QED
    BY <1>2, <2>2, ObservationConstants
<1> QED
  BY <1>1, <1>2

\* A new object is well typed and has observed nothing.
LEMMA NewObservationType ==
    ASSUME clock \in Times, NEW w \in Windows
    PROVE  /\ NewObservation(w) \in Observations /\ NewObservation(w) # Nil
           /\ NewObservation(w).domains = NoDomains
<1>1. NoDomains \in DomainMaps
  BY DEF NoDomains, DomainMaps
<1>2. NewObservation(w) \in Observations /\ NewObservation(w).domains = NoDomains
  BY <1>1 DEF NewObservation, Observations
<1> QED
  BY <1>2, ObservationConstants

\* A cycle that ends leaves nothing behind; the status it writes is well typed.
LEMMA StatusType ==
    ASSUME TypeOK, ReconcileStatus \/ ReconcileStatusFails
    PROVE  /\ obs' = obs \/ (obs' = run.obj /\ run # Nil)
           /\ obs' \in Observations \cup {Nil} /\ obsCacheCur' \in BOOLEAN
<1>1. run \in Runs /\ run # Nil /\ run.obj \in Observations
  BY ObservationConstants DEF TypeOK, ReconcileStatus, ReconcileStatusFails, Runs
<1>2. obs' = obs \/ obs' = run.obj
  BY DEF ReconcileStatus, ReconcileStatusFails, WriteStatus
<1>3. obsCacheCur' \in {FALSE, obsCacheCur}
  <2>1. WriteStatus => obsCacheCur' \in {FALSE, obsCacheCur}
    BY DEF WriteStatus
  <2> QED
    BY <2>1 DEF ReconcileStatus, ReconcileStatusFails
<1>4. obsCacheCur' \in BOOLEAN
  BY <1>3 DEF TypeOK
<1> QED
  BY <1>1, <1>2, <1>4 DEF TypeOK

\* A disruption uses up one of those left.
LEMMA DisruptType == TypeOK /\ Disrupt => left' \in 0..MaxDisruptions
BY ObservationConstants DEF TypeOK, Disrupt

\* Every step keeps the types.
LEMMA TypeStep == TypeOK /\ [Next]_vars => TypeOK'
<1> SUFFICES ASSUME TypeOK, [Next]_vars
             PROVE  TypeOK'
  OBVIOUS
<1> USE DEF memory
<1>1. ASSUME NEW h \in Hostnames, Record(h)
      PROVE  TypeOK'
  <2>1. store' \in DomainMaps
    BY <1>1, RecordedType DEF Record
  <2>2. lastPrune' \in Int /\ total' \in [Hostnames -> Nat]
    BY <1>1 DEF Record, TypeOK, Times
  <2> QED
    BY <1>1, <2>1, <2>2 DEF Record, TypeOK
<1>2. CASE ReconcileNotFound
  BY <1>2 DEF ReconcileNotFound, TypeOK
<1>3. CASE ReconcileStart
  <2>1. run' \in Runs /\ run' # Nil
    BY <1>3, ObservationConstants DEF ReconcileStart, TypeOK, Runs
  <2>2. pc' \in {"merge", "inactive"}
    BY <1>3 DEF ReconcileStart
  <2> QED
    BY <1>3, <2>1, <2>2 DEF ReconcileStart, TypeOK
<1>4. CASE ReconcileMerge
  <2>1. run' \in Runs /\ run' # Nil
    BY <1>4, MergeRun, ObservationConstants
  <2>2. synced' \in [Hostnames -> Nat]
    <3>1. ASSUME NEW h \in Hostnames
          PROVE  (IF store[h] = Nil THEN synced[h] ELSE store[h].count) \in Nat
      BY EntryType DEF TypeOK
    <3> QED
      BY <1>4, <3>1 DEF ReconcileMerge, Synced
  <2> QED
    BY <1>4, <2>1, <2>2 DEF ReconcileMerge, TypeOK
<1>5. CASE ReconcileInactive
  <2>1. run \in Runs /\ run.obj \in Observations
    BY <1>5 DEF ReconcileInactive, TypeOK, Runs
  <2>2. run'.obj = [run.obj EXCEPT !.observed = run.obj.generation,
                                   !.ready = "SnoopResolverInactive"]
        /\ run' = [obj |-> run'.obj, cur |-> run.cur]
    BY <1>5, <2>1 DEF ReconcileInactive, setObservationCondition, Runs, Observations
  <2>3. run'.obj \in Observations
    BY <2>1, <2>2 DEF Observations
  <2>4. run' \in Runs /\ run' # Nil
    BY <2>1, <2>2, <2>3, ObservationConstants DEF Runs
  <2> QED
    BY <1>5, <2>4 DEF ReconcileInactive, TypeOK
<1>6. CASE ReconcileStatus
  BY <1>6, StatusType DEF ReconcileStatus, Return, RequeueLater, TypeOK
<1>7. CASE ReconcileStatusFails
  BY <1>7, StatusType, DisruptType DEF ReconcileStatusFails, Return, RequeueLater, TypeOK
<1>8. CASE Deliver
  BY <1>8 DEF Deliver, TypeOK
<1>9. ASSUME NEW w \in Windows, CreateObservation(w)
      PROVE  TypeOK'
  BY <1>9, StaleRun, NewObservationType, DisruptType DEF CreateObservation, WriteObs, TypeOK
<1>10. ASSUME NEW w \in Windows, EditWindow(w)
       PROVE  TypeOK'
  <2>1. obs \in Observations /\ obs' = [obs EXCEPT !.window = w, !.generation = @ + 1]
    BY <1>10 DEF EditWindow, WriteObs, TypeOK
  <2>2. obs.generation \in Nat \ {0} /\ obs.generation + 1 \in Nat \ {0}
    BY <2>1 DEF Observations
  <2>3. obs' \in Observations
    BY <2>1, <2>2 DEF Observations
  <2> QED
    BY <1>10, <2>3, StaleRun, DisruptType DEF EditWindow, WriteObs, TypeOK
<1>11. CASE DeleteObservation
  BY <1>11, StaleRun, DisruptType DEF DeleteObservation, WriteObs, TypeOK
<1>12. CASE Restart
  <2>1. store' \in DomainMaps /\ synced' \in [Hostnames -> Nat] /\ lastPrune' \in Int
    BY <1>12, ObservationConstants DEF Restart, NoDomains, DomainMaps
  <2>2. queued' \in BOOLEAN
    BY <1>12 DEF Restart
  <2> QED
    BY <1>12, <2>1, <2>2, DisruptType DEF Restart, Return, TypeOK
<1>13. CASE Tick
  BY <1>13, ObservationConstants DEF Tick, TypeOK, Times
<1>14. CASE UNCHANGED vars
  BY <1>14 DEF vars, TypeOK
<1> QED
  BY <1>1, <1>2, <1>3, <1>4, <1>5, <1>6, <1>7, <1>8, <1>9, <1>10, <1>11, <1>12, <1>13,
     <1>14 DEF Next, Reconcile

\* The initial states are well typed.
LEMMA TypeInit == Init => TypeOK
<1> SUFFICES ASSUME Init
             PROVE  TypeOK
  OBVIOUS
<1>1. clock \in Times /\ left \in 0..MaxDisruptions
  BY ObservationConstants DEF Init, Times
<1>2. NoDomains \in DomainMaps
  BY DEF NoDomains, DomainMaps
<1>3. obs \in Observations \cup {Nil}
  BY <1>1, NewObservationType DEF Init
<1>4. store \in DomainMaps /\ lastPrune \in Int /\ synced \in [Hostnames -> Nat]
  BY <1>2, ObservationConstants DEF Init, FreshMemory
<1> QED
  BY <1>1, <1>3, <1>4 DEF Init, TypeOK

\* Type correctness: every copy of the object, the store and the remembered
\* counts stay well formed.
THEOREM TypeCorrect == Spec => []TypeOK
BY TypeInit, TypeStep, PTL DEF Spec
----------------------------------------------------------------------------
(* Counting.  NoDoubleCount is not inductive: a cycle adds what the store  *)
(* holds beyond syncedCounts to whatever copy it read.  The strengthening  *)
(* says that every copy, with what a merge would add to it now, stays      *)
(* within the queries seen.                                                *)

\* What a merge would add now.
Pending == [h \in Hostnames |-> IF store[h] = Nil THEN 0 ELSE Delta(h)]

Covered(o, p, t) ==
    \A h \in Hostnames : o.domains[h] # Nil => o.domains[h].count + p[h] <= t[h]

CountInv ==
    /\ \A h \in Hostnames : Pending[h] <= total[h]
    /\ obs # Nil => Covered(obs, Pending, total)
    /\ obsCache # Nil => Covered(obsCache, Pending, total)
    /\ run # Nil => Covered(run.obj, Pending, total)

\* What is pending is a number for every hostname.
LEMMA PendingType ==
    ASSUME TypeOK
    PROVE  /\ Pending \in [Hostnames -> Nat]
           /\ \A h \in Hostnames : store[h] # Nil => Pending[h] = Delta(h)
           /\ \A h \in Hostnames : store[h] = Nil => Pending[h] = 0
BY DeltaType DEF Pending

\* A copy stays covered when no more becomes pending than is queried.
LEMMA CoveredKept ==
    ASSUME NEW o \in Observations,
           NEW p \in [Hostnames -> Nat], NEW q \in [Hostnames -> Nat],
           NEW t \in [Hostnames -> Nat], NEW u \in [Hostnames -> Nat],
           \A h \in Hostnames : q[h] + t[h] <= p[h] + u[h],
           Covered(o, p, t)
    PROVE  Covered(o, q, u)
<1> SUFFICES ASSUME NEW h \in Hostnames, o.domains[h] # Nil
             PROVE  o.domains[h].count + q[h] <= u[h]
  BY DEF Covered
<1>1. o.domains[h].count \in Nat
  BY EntryType DEF Observations
<1>2. o.domains[h].count + p[h] <= t[h]
  BY DEF Covered
<1> QED
  BY <1>1, <1>2

\* One query makes at most one more pending; pruning makes none.
LEMMA RecordPending ==
    ASSUME TypeOK, TypeOK', NEW k \in Hostnames, Record(k)
    PROVE  \A h \in Hostnames : Pending'[h] + total[h] <= Pending[h] + total'[h]
<1> SUFFICES ASSUME NEW h \in Hostnames
             PROVE  Pending'[h] + total[h] <= Pending[h] + total'[h]
  OBVIOUS
<1>0. Pending[h] \in Nat /\ total[h] \in Nat /\ synced[h] \in Nat
      /\ synced' = synced /\ total' = [total EXCEPT ![k] = @ + 1]
      /\ total \in [Hostnames -> Nat] /\ store \in DomainMaps
  BY PendingType DEF TypeOK, Record
<1>1. CASE store'[h] = Nil
  <2>1. Pending'[h] = 0
    BY <1>1 DEF Pending
  <2> QED
    BY <1>0, <2>1
<1>2. CASE store'[h] # Nil
  <2>1. store'[h] = Recorded(k)[h]
    BY <1>2 DEF Record, pruneLocked
  <2>2. Pending'[h] = IF store'[h].count < synced[h] THEN store'[h].count
                      ELSE store'[h].count - synced[h]
    BY <1>0, <1>2 DEF Pending, Delta
  <2>3. CASE h # k
    <3>1. store'[h] = store[h]
      BY <1>0, <2>1, <2>3 DEF Recorded, DomainMaps
    <3>2. Pending'[h] = Pending[h]
      BY <1>2, <2>2, <3>1 DEF Pending, Delta
    <3> QED
      BY <1>0, <2>3, <3>2
  <2>4. CASE h = k /\ store[h] = Nil
    <3>1. store'[h].count = 1
      BY <1>0, <2>1, <2>4 DEF Recorded, DomainMaps
    <3>2. Pending'[h] <= 1 /\ Pending'[h] \in Int
      BY <1>0, <2>2, <3>1
    <3> QED
      BY <1>0, <2>4, <3>2
  <2>5. CASE h = k /\ store[h] # Nil
    <3>1. store'[h].count = store[h].count + 1 /\ store[h].count \in Nat
      BY <1>0, <2>1, <2>5, EntryType DEF Recorded, DomainMaps
    <3>2. Pending[h] = IF store[h].count < synced[h] THEN store[h].count
                       ELSE store[h].count - synced[h]
      BY <2>5, PendingType, DeltaType
    <3>3. Pending'[h] <= Pending[h] + 1 /\ Pending'[h] \in Int
      BY <1>0, <2>2, <3>1, <3>2
    <3> QED
      BY <1>0, <2>5, <3>3
  <2> QED
    BY <2>3, <2>4, <2>5
<1> QED
  BY <1>1, <1>2

\* After a merge nothing is pending.
LEMMA MergePending ==
    ASSUME TypeOK, ReconcileMerge
    PROVE  Pending' = [h \in Hostnames |-> 0]
<1> SUFFICES ASSUME NEW h \in Hostnames, store[h] # Nil
             PROVE  Delta(h)' = 0
  BY DEF Pending, ReconcileMerge
<1>1. store' = store /\ synced'[h] = store[h].count /\ store[h].count \in Nat
  BY EntryType DEF ReconcileMerge, Synced, TypeOK
<1> QED
  BY <1>1 DEF Delta

\* A merge moves what is pending into the copy.
LEMMA MergeCovered ==
    ASSUME TypeOK, ReconcileMerge,
           \A h \in Hostnames : Pending[h] <= total[h],
           Covered(run.obj, Pending, total)
    PROVE  Covered(run'.obj, Pending', total)
<1> SUFFICES ASSUME NEW h \in Hostnames, run'.obj.domains[h] # Nil
             PROVE  run'.obj.domains[h].count + Pending'[h] <= total[h]
  BY DEF Covered
<1> DEFINE old == run.obj.domains
<1>1. run.obj \in Observations /\ run'.obj.domains = mergeObservedDomains(old)
  BY MergeRun
<1>2. old \in DomainMaps
  BY <1>1 DEF Observations
<1>3. Pending'[h] = 0 /\ total[h] \in Nat /\ Pending[h] \in Nat
  BY MergePending, PendingType DEF TypeOK
<1>4. old[h] # Nil => old[h].count \in Nat /\ old[h].count + Pending[h] <= total[h]
  BY <1>2, EntryType DEF Covered
<1>5. CASE store[h] = Nil
  <2>1. mergeObservedDomains(old)[h] = old[h]
    BY <1>5 DEF mergeObservedDomains
  <2> QED
    BY <1>1, <1>3, <1>4, <2>1
<1>6. CASE store[h] # Nil
  <2>1. Pending[h] = Delta(h)
    BY <1>6, PendingType
  <2>2. store[h] \in Domains
    BY <1>6, EntryType DEF TypeOK
  <2>3. CASE old[h] = Nil
    <3>1. mergeObservedDomains(old)[h].count = Delta(h)
      BY <1>6, <2>2, <2>3 DEF mergeObservedDomains, Domains
    <3> QED
      BY <1>1, <1>3, <2>1, <3>1
  <2>4. CASE old[h] # Nil
    <3>1. mergeObservedDomains(old)[h].count = old[h].count + Delta(h)
      BY <1>6, <2>4 DEF mergeObservedDomains
    <3> QED
      BY <1>1, <1>3, <1>4, <2>1, <2>4, <3>1
  <2> QED
    BY <2>3, <2>4
<1> QED
  BY <1>5, <1>6
\* Steps that touch neither the store nor the counters leave what is pending.
LEMMA SamePending ==
    ASSUME store' = store, synced' = synced
    PROVE  Pending' = Pending
BY DEF Pending, Delta

\* Every step keeps all copies covered.
LEMMA CountStep == TypeOK /\ TypeOK' /\ CountInv /\ [Next]_vars => CountInv'
<1> SUFFICES ASSUME TypeOK, TypeOK', CountInv, [Next]_vars
             PROVE  CountInv'
  OBVIOUS
<1> USE DEF memory
<1>0. /\ Pending \in [Hostnames -> Nat] /\ Pending' \in [Hostnames -> Nat]
      /\ total \in [Hostnames -> Nat] /\ total' \in [Hostnames -> Nat]
  <2>1. Pending \in [Hostnames -> Nat]
    BY PendingType
  <2>2. (Pending \in [Hostnames -> Nat])'
    BY DeltaType DEF Pending, Delta, TypeOK, DomainMaps, Domains
  <2> QED
    BY <2>1, <2>2 DEF TypeOK
<1>a. /\ obs # Nil => obs \in Observations
      /\ obsCache # Nil => obsCache \in Observations
      /\ run # Nil => run.obj \in Observations
  BY DEF TypeOK, Runs
<1>1. ASSUME NEW k \in Hostnames, Record(k)
      PROVE  CountInv'
  <2>1. \A h \in Hostnames : Pending'[h] + total[h] <= Pending[h] + total'[h]
    BY <1>1, RecordPending
  <2>2. obs' = obs /\ obsCache' = obsCache /\ run' = run
    BY <1>1 DEF Record
  <2>3. \A h \in Hostnames : Pending'[h] <= total'[h]
    BY <1>0, <2>1 DEF CountInv
  <2>4. obs # Nil => Covered(obs, Pending', total')
    BY <1>0, <1>a, <2>1, CoveredKept DEF CountInv
  <2>5. obsCache # Nil => Covered(obsCache, Pending', total')
    BY <1>0, <1>a, <2>1, CoveredKept DEF CountInv
  <2>6. run # Nil => Covered(run.obj, Pending', total')
    BY <1>0, <1>a, <2>1, CoveredKept DEF CountInv
  <2> QED
    BY <2>2, <2>3, <2>4, <2>5, <2>6 DEF CountInv, Covered
<1>2. CASE ReconcileNotFound
  BY <1>2, SamePending DEF ReconcileNotFound, CountInv, Covered
<1>3. CASE ReconcileStart
  <2>1. run'.obj = obsCache /\ obsCache # Nil
    BY <1>3 DEF ReconcileStart
  <2> QED
    BY <1>3, <2>1, SamePending DEF ReconcileStart, CountInv, Covered
<1>4. CASE ReconcileMerge
  <2>1. Pending' = [h \in Hostnames |-> 0]
    BY <1>4, MergePending
  <2>2. run # Nil /\ total' = total /\ obs' = obs /\ obsCache' = obsCache
    BY <1>4 DEF ReconcileMerge, TypeOK
  <2>3. Covered(run'.obj, Pending', total)
    BY <1>4, <2>2, MergeCovered DEF CountInv
  <2>4. \A h \in Hostnames : Pending'[h] + total[h] <= Pending[h] + total'[h]
    BY <1>0, <2>1, <2>2
  <2>5. obs # Nil => Covered(obs, Pending', total')
    BY <1>0, <1>a, <2>4, CoveredKept DEF CountInv
  <2>6. obsCache # Nil => Covered(obsCache, Pending', total')
    BY <1>0, <1>a, <2>4, CoveredKept DEF CountInv
  <2>7. \A h \in Hostnames : Pending'[h] <= total'[h]
    BY <1>0, <2>1, <2>2
  <2> QED
    BY <2>2, <2>3, <2>5, <2>6, <2>7 DEF CountInv, Covered
<1>5. CASE ReconcileInactive
  <2>1. run # Nil /\ run \in Runs
    BY <1>5 DEF ReconcileInactive, TypeOK
  <2>2. run'.obj.domains = run.obj.domains
    BY <1>5, <2>1 DEF ReconcileInactive, setObservationCondition, Runs, Observations
  <2> QED
    BY <1>5, <2>1, <2>2, SamePending DEF ReconcileInactive, CountInv, Covered
<1>6. CASE ReconcileStatus \/ ReconcileStatusFails
  <2>1. obs' = obs \/ (obs' = run.obj /\ run # Nil)
    BY <1>6, StatusType
  <2>2. run' = Nil /\ obsCache' = obsCache /\ store' = store /\ synced' = synced
        /\ total' = total
    BY <1>6 DEF ReconcileStatus, ReconcileStatusFails, Return
  <2> QED
    BY <2>1, <2>2, SamePending DEF CountInv, Covered
<1>7. CASE Deliver
  BY <1>7, SamePending DEF Deliver, CountInv, Covered
<1>8. ASSUME NEW w \in Windows, CreateObservation(w)
      PROVE  CountInv'
  <2>1. obs' = NewObservation(w) /\ obs'.domains = NoDomains
    BY <1>8, NewObservationType DEF CreateObservation, WriteObs, TypeOK
  <2>2. run # Nil => run'.obj = run.obj
    BY <1>8, StaleRun DEF CreateObservation
  <2>3. run' # Nil => run # Nil
    BY <1>8, StaleRun DEF CreateObservation
  <2>4. Covered(obs', Pending', total')
    BY <2>1 DEF Covered, NoDomains
  <2> QED
    BY <1>8, <2>2, <2>3, <2>4, SamePending DEF CreateObservation, CountInv, Covered
<1>9. ASSUME NEW w \in Windows, EditWindow(w)
      PROVE  CountInv'
  <2>1. obs # Nil /\ obs'.domains = obs.domains
    BY <1>9, <1>a DEF EditWindow, WriteObs, Observations
  <2>2. /\ run # Nil => run'.obj = run.obj
        /\ run' # Nil => run # Nil
    BY <1>9, StaleRun DEF EditWindow
  <2> QED
    BY <1>9, <2>1, <2>2, SamePending DEF EditWindow, CountInv, Covered
<1>10. CASE DeleteObservation
  <2>1. /\ run # Nil => run'.obj = run.obj
        /\ run' # Nil => run # Nil
    BY <1>10, StaleRun DEF DeleteObservation
  <2> QED
    BY <1>10, <2>1, SamePending DEF DeleteObservation, WriteObs, CountInv, Covered
<1>11. CASE Restart
  <2>1. Pending' = [h \in Hostnames |-> 0]
    BY <1>11 DEF Restart, NoDomains, Pending
  <2>2. obs' = obs /\ obsCache' = obs /\ run' = Nil /\ total' = total
    BY <1>11 DEF Restart, Return
  <2>3. obs # Nil => Covered(obs, Pending', total')
    BY <1>0, <1>a, <2>1, <2>2, CoveredKept DEF CountInv
  <2>4. \A h \in Hostnames : Pending'[h] <= total'[h]
    BY <1>0, <2>1
  <2> QED
    BY <2>2, <2>3, <2>4 DEF CountInv, Covered
<1>12. CASE Tick
  BY <1>12, SamePending DEF Tick, CountInv, Covered
<1>13. CASE UNCHANGED vars
  BY <1>13, SamePending DEF vars, CountInv, Covered
<1> QED
  BY <1>1, <1>2, <1>3, <1>4, <1>5, <1>6, <1>7, <1>8, <1>9, <1>10, <1>11, <1>12, <1>13
     DEF Next, Reconcile

\* Initially nothing is counted or pending.
LEMMA CountInit == Init => CountInv
<1> SUFFICES ASSUME Init
             PROVE  CountInv
  OBVIOUS
<1>1. Pending = [h \in Hostnames |-> 0] /\ total = [h \in Hostnames |-> 0]
  BY DEF Init, FreshMemory, NoDomains, Pending
<1>2. TypeOK
  BY TypeInit
<1>3. obs # Nil => obs.domains = NoDomains
  BY <1>2, NewObservationType DEF Init, TypeOK
<1>4. obsCache = obs /\ run = Nil
  BY DEF Init
<1> QED
  BY <1>1, <1>3, <1>4 DEF CountInv, Covered, NoDomains

\* No status ever claims more queries than the proxy saw, for any number of
\* conflicts, failures, restarts, prunings and recreations.
THEOREM CountSafety == Spec => []NoDoubleCount
<1>1. TypeOK /\ CountInv => NoDoubleCount
  <2> SUFFICES ASSUME TypeOK, CountInv, obs # Nil, NEW h \in Hostnames,
                      obs.domains[h] # Nil
               PROVE  obs.domains[h].count <= total[h]
    BY DEF NoDoubleCount
  <2>1. obs \in Observations /\ obs.domains \in DomainMaps
    BY DEF TypeOK, Observations
  <2>2. obs.domains[h].count \in Nat /\ Pending[h] \in Nat /\ total[h] \in Nat
    BY <2>1, EntryType, PendingType DEF TypeOK
  <2>3. obs.domains[h].count + Pending[h] <= total[h]
    BY DEF CountInv, Covered
  <2> QED
    BY <2>2, <2>3
<1> QED
  BY <1>1, TypeCorrect, CountInit, CountStep, PTL DEF Spec
----------------------------------------------------------------------------
(* Nothing observed is lost.  A write is accepted only from a copy that is *)
(* current, so it suffices that a current copy contains the object.        *)

Extends(new, old) ==
    \A h \in Hostnames : old[h] # Nil =>
        /\ new[h] # Nil
        /\ new[h].first <= old[h].first
        /\ new[h].last >= old[h].last
        /\ new[h].count >= old[h].count

CurInv ==
    /\ obsCacheCur => obsCache = obs
    /\ run # Nil /\ run.cur /\ obs # Nil => Extends(run.obj.domains, obs.domains)

\* A map contains itself.
LEMMA ExtendsItself ==
    ASSUME NEW d \in DomainMaps
    PROVE  Extends(d, d)
BY EntryType DEF Extends, Times

\* A merge keeps every known hostname and widens its times and count.
LEMMA MergeExtends ==
    ASSUME TypeOK, NEW d \in DomainMaps, NEW e \in DomainMaps, Extends(d, e)
    PROVE  Extends(mergeObservedDomains(d), e)
<1> SUFFICES ASSUME NEW h \in Hostnames, e[h] # Nil
             PROVE  /\ mergeObservedDomains(d)[h] # Nil
                    /\ mergeObservedDomains(d)[h].first <= e[h].first
                    /\ mergeObservedDomains(d)[h].last >= e[h].last
                    /\ mergeObservedDomains(d)[h].count >= e[h].count
  BY DEF Extends
<1>1. d[h] # Nil /\ d[h].first <= e[h].first /\ d[h].last >= e[h].last
      /\ d[h].count >= e[h].count
  BY DEF Extends
<1>2. CASE store[h] = Nil
  BY <1>1, <1>2 DEF mergeObservedDomains
<1>3. CASE store[h] # Nil
  <2>1. mergeObservedDomains(d)[h] =
            [first |-> Earlier(store[h].first, d[h].first),
             last  |-> Later(store[h].last, d[h].last),
             count |-> d[h].count + Delta(h)]
    BY <1>1, <1>3 DEF mergeObservedDomains
  <2>2. /\ store[h].first \in Int /\ store[h].last \in Int
        /\ d[h].first \in Int /\ d[h].last \in Int /\ d[h].count \in Nat
        /\ e[h].first \in Int /\ e[h].last \in Int /\ e[h].count \in Nat
    BY <1>1, <1>3, EntryType DEF TypeOK, Times
  <2>3. Delta(h) \in Nat
    BY <1>3, DeltaType
  <2>4. /\ Earlier(store[h].first, d[h].first) <= e[h].first
        /\ Later(store[h].last, d[h].last) >= e[h].last
        /\ d[h].count + Delta(h) >= e[h].count
    BY <1>1, <2>2, <2>3 DEF Earlier, Later
  <2>5. mergeObservedDomains(d)[h] # Nil
    BY <2>1, MergeType, ObservationConstants, EntryType, <2>2, <2>3, <1>1, <1>3
       DEF Domains, Earlier, Later, TypeOK
  <2> QED
    BY <2>1, <2>4, <2>5
<1> QED
  BY <1>2, <1>3

\* A write to the object leaves no copy current.
LEMMA WriteCur ==
    ASSUME TypeOK, NEW new, WriteObs(new)
    PROVE  obsCacheCur' = FALSE /\ (run' # Nil => run'.cur = FALSE)
BY DEF WriteObs, TypeOK, Runs

\* Every step keeps current copies ahead of the object.
LEMMA CurStep == TypeOK /\ CurInv /\ [Next]_vars => CurInv'
<1> SUFFICES ASSUME TypeOK, CurInv, [Next]_vars
             PROVE  CurInv'
  OBVIOUS
<1> USE DEF memory
<1>1. ASSUME NEW k \in Hostnames, Record(k)
      PROVE  CurInv'
  BY <1>1 DEF Record, CurInv, Extends
<1>2. CASE ReconcileNotFound
  BY <1>2 DEF ReconcileNotFound, CurInv, Extends
<1>3. CASE ReconcileStart
  <2>1. run'.obj = obsCache /\ run'.cur = obsCacheCur /\ obs' = obs
        /\ obsCache' = obsCache /\ obsCacheCur' = obsCacheCur
    BY <1>3 DEF ReconcileStart
  <2>2. obs # Nil => obs.domains \in DomainMaps
    BY DEF TypeOK, Observations
  <2>3. run'.cur /\ obs # Nil => Extends(run'.obj.domains, obs.domains)
    BY <2>1, <2>2, ExtendsItself DEF CurInv
  <2> QED
    BY <2>1, <2>3 DEF CurInv, Extends
<1>4. CASE ReconcileMerge
  <2>1. run # Nil /\ obs' = obs /\ obsCache' = obsCache /\ obsCacheCur' = obsCacheCur
    BY <1>4 DEF ReconcileMerge, TypeOK
  <2>2. /\ run.obj \in Observations /\ run'.cur = run.cur
        /\ run'.obj.domains = mergeObservedDomains(run.obj.domains)
    BY <1>4, MergeRun
  <2>3. run.obj.domains \in DomainMaps /\ (obs # Nil => obs.domains \in DomainMaps)
    BY <2>2 DEF TypeOK, Observations
  <2>4. run'.cur /\ obs # Nil => Extends(run'.obj.domains, obs.domains)
    BY <2>1, <2>2, <2>3, MergeExtends DEF CurInv
  <2> QED
    BY <2>1, <2>4 DEF CurInv, Extends
<1>5. CASE ReconcileInactive
  <2>1. run # Nil /\ run \in Runs
    BY <1>5 DEF ReconcileInactive, TypeOK
  <2>2. run'.obj.domains = run.obj.domains /\ run'.cur = run.cur
    BY <1>5, <2>1 DEF ReconcileInactive, setObservationCondition, Runs, Observations
  <2> QED
    BY <1>5, <2>1, <2>2 DEF ReconcileInactive, CurInv, Extends
<1>6. CASE ReconcileStatus \/ ReconcileStatusFails
  <2>1. run' = Nil /\ obsCache' = obsCache
    BY <1>6 DEF ReconcileStatus, ReconcileStatusFails, Return
  <2>2. (obs' = obs /\ obsCacheCur' = obsCacheCur) \/ WriteStatus
    BY <1>6 DEF ReconcileStatus, ReconcileStatusFails
  <2>3. obsCacheCur' => obs' = obs /\ obsCacheCur
    BY <2>2 DEF WriteStatus
  <2> QED
    BY <2>1, <2>3 DEF CurInv
<1>7. CASE Deliver
  BY <1>7 DEF Deliver, CurInv, Extends
<1>8. ASSUME NEW w \in Windows, CreateObservation(w) \/ EditWindow(w)
      PROVE  CurInv'
  <2>1. PICK new : WriteObs(new)
    BY <1>8 DEF CreateObservation, EditWindow
  <2> QED
    BY <2>1, WriteCur DEF CurInv
<1>9. CASE DeleteObservation
  BY <1>9, WriteCur DEF DeleteObservation, CurInv
<1>10. CASE Restart
  BY <1>10 DEF Restart, Return, CurInv
<1>11. CASE Tick
  BY <1>11 DEF Tick, CurInv, Extends
<1>12. CASE UNCHANGED vars
  BY <1>12 DEF vars, CurInv, Extends
<1> QED
  BY <1>1, <1>2, <1>3, <1>4, <1>5, <1>6, <1>7, <1>8, <1>9, <1>10, <1>11, <1>12
     DEF Next, Reconcile

\* While the object exists its status only grows.
Keeps == obs # Nil /\ obs' # Nil => Extends(obs'.domains, obs.domains)

\* No step of any actor takes an observation back while the object exists.
LEMMA StepKeeps == TypeOK /\ CurInv /\ [Next]_vars => Keeps
<1> SUFFICES ASSUME TypeOK, CurInv, [Next]_vars, obs # Nil, obs' # Nil
             PROVE  Extends(obs'.domains, obs.domains)
  BY DEF Keeps
<1>1. obs \in Observations /\ obs.domains \in DomainMaps
  BY DEF TypeOK, Observations
<1>2. Extends(obs.domains, obs.domains)
  BY <1>1, ExtendsItself
<1>3. CASE ReconcileStatus \/ ReconcileStatusFails
  <2>1. obs' = obs \/ (obs' = run.obj /\ run.cur)
    BY <1>3 DEF ReconcileStatus, ReconcileStatusFails, WriteStatus
  <2>2. run # Nil
    BY <1>3 DEF ReconcileStatus, ReconcileStatusFails, TypeOK
  <2> QED
    BY <1>2, <2>1, <2>2 DEF CurInv
<1>4. ASSUME NEW w \in Windows, EditWindow(w)
      PROVE  Extends(obs'.domains, obs.domains)
  <2>1. obs'.domains = obs.domains
    BY <1>1, <1>4 DEF EditWindow, WriteObs, Observations
  <2> QED
    BY <1>2, <2>1
<1>5. ASSUME NEW w \in Windows, CreateObservation(w)
      PROVE  FALSE
  BY <1>5 DEF CreateObservation
<1>6. CASE DeleteObservation
  BY <1>6 DEF DeleteObservation, WriteObs
<1>7. CASE obs' = obs
  BY <1>2, <1>7
<1>8. \/ ReconcileStatus \/ ReconcileStatusFails \/ DeleteObservation \/ obs' = obs
      \/ \E w \in Windows : CreateObservation(w) \/ EditWindow(w)
  BY DEF Next, Reconcile, Record, ReconcileNotFound, ReconcileStart, ReconcileMerge,
         ReconcileInactive, Deliver, Restart, Tick, vars
<1> QED
  BY <1>3, <1>4, <1>5, <1>6, <1>7, <1>8

\* Whatever a status once reported stays reported, for any number of conflicts,
\* failures, restarts and prunings.
THEOREM ObservationsSurvive == Spec => ObservationsKept
<1>1. Init => CurInv
  BY DEF Init, CurInv
<1>2. Keeps => [obs # Nil /\ obs' # Nil => \A h \in Hostnames : obs.domains[h] # Nil =>
                  /\ obs'.domains[h] # Nil
                  /\ obs'.domains[h].first <= obs.domains[h].first
                  /\ obs'.domains[h].last >= obs.domains[h].last
                  /\ obs'.domains[h].count >= obs.domains[h].count]_obs
  BY DEF Extends, Keeps
<1> QED
  BY <1>1, <1>2, TypeCorrect, CurStep, StepKeeps, PTL DEF Spec, ObservationsKept
----------------------------------------------------------------------------
(* Refinement: the status is a tally of the queries (QueryTally).          *)

\* The tally of an existing object is a number for each hostname.
LEMMA TallyType ==
    ASSUME TypeOK, obs # Nil
    PROVE  StatusTally \in [Hostnames -> Nat] /\ StatusTally # Nil
<1>1. obs.domains \in DomainMaps
  BY DEF TypeOK, Observations
<1>2. \A h \in Hostnames : (IF obs.domains[h] = Nil THEN 0 ELSE obs.domains[h].count) \in Nat
  BY <1>1, EntryType
<1>3. StatusTally \in [Hostnames -> Nat]
  BY <1>2 DEF StatusTally
<1> QED
  BY <1>3, ObservationConstants

\* An object without observations has the empty tally.
LEMMA TallyOfNew ==
    ASSUME obs # Nil, obs.domains = NoDomains
    PROVE  StatusTally = Tally!Zero
BY DEF StatusTally, NoDomains, Tally!Zero

\* A status that grows within the queries seen is a report.
LEMMA GrowthReports ==
    ASSUME TypeOK, TypeOK', NoDoubleCount', Keeps, obs # Nil, obs' # Nil, total' = total
    PROVE  Tally!Report
<1>1. /\ StatusTally \in [Hostnames -> Nat] /\ StatusTally # Nil
      /\ StatusTally' \in [Hostnames -> Nat]
  <2>1. (TypeOK /\ obs # Nil => StatusTally \in [Hostnames -> Nat])'
    BY TallyType, PTL
  <2> QED
    BY <2>1, TallyType
<1>2. ASSUME NEW h \in Hostnames
      PROVE  StatusTally[h] <= StatusTally'[h] /\ StatusTally'[h] <= total[h]
  <2>1. /\ StatusTally[h] = IF obs.domains[h] = Nil THEN 0 ELSE obs.domains[h].count
        /\ StatusTally'[h] = IF obs'.domains[h] = Nil THEN 0 ELSE obs'.domains[h].count
    BY DEF StatusTally
  <2>2. StatusTally[h] \in Nat /\ StatusTally'[h] \in Nat /\ total[h] \in Nat
    BY <1>1 DEF TypeOK
  <2>3. obs.domains[h] # Nil =>
            obs'.domains[h] # Nil /\ obs'.domains[h].count >= obs.domains[h].count
    BY DEF Keeps, Extends
  <2>4. obs'.domains[h] # Nil => obs'.domains[h].count <= total[h]
    BY DEF NoDoubleCount
  <2> QED
    BY <2>1, <2>2, <2>3, <2>4
<1> QED
  BY <1>1, <1>2 DEF Tally!Report

\* Every step of the controller, of users and of the proxy is a step of the
\* tally, or none.
LEMMA TallyStep ==
    ASSUME TypeOK, TypeOK', NoDoubleCount', Keeps, [Next]_vars
    PROVE  [Tally!Next]_<<total, StatusTally>>
<1> USE DEF memory
<1>1. ASSUME NEW h \in Hostnames, Record(h)
      PROVE  Tally!Query(h)
  BY <1>1 DEF Record, StatusTally, Tally!Query
<1>2. \/ \E h \in Hostnames : Record(h)
      \/ total' = total /\ obs' = obs
      \/ total' = total /\ (ReconcileStatus \/ ReconcileStatusFails)
      \/ total' = total /\ \E w \in Windows : EditWindow(w) \/ CreateObservation(w)
      \/ total' = total /\ DeleteObservation
  BY DEF Next, Reconcile, ReconcileNotFound, ReconcileStart, ReconcileMerge, ReconcileInactive,
         ReconcileStatus, ReconcileStatusFails, Deliver, CreateObservation, EditWindow,
         DeleteObservation, Restart, Tick, vars
<1>3. CASE total' = total /\ obs' = obs
  BY <1>3 DEF StatusTally
<1>4. CASE total' = total /\ (ReconcileStatus \/ ReconcileStatusFails)
  <2>1. obs' = obs \/ (obs' = run.obj /\ obs # Nil /\ run # Nil)
    BY <1>4 DEF ReconcileStatus, ReconcileStatusFails, WriteStatus, TypeOK
  <2>2. run # Nil => run.obj # Nil
    BY ObservationConstants DEF TypeOK, Runs
  <2>3. CASE obs' = obs
    BY <1>3, <1>4, <2>3
  <2>4. CASE obs' = run.obj /\ obs # Nil /\ run # Nil
    BY <1>4, <2>2, <2>4, GrowthReports DEF Tally!Next
  <2> QED
    BY <2>1, <2>3, <2>4
<1>5. ASSUME total' = total, NEW w \in Windows, EditWindow(w)
      PROVE  Tally!Report
  <2>1. obs # Nil /\ obs \in Observations
    BY <1>5 DEF EditWindow, TypeOK
  <2>2. obs'.domains = obs.domains
    BY <1>5, <2>1 DEF EditWindow, WriteObs, Observations
  <2>3. obs' \in Observations
    <3>1. obs.generation + 1 \in Nat \ {0}
      BY <2>1 DEF Observations
    <3> QED
      BY <1>5, <2>1, <3>1 DEF EditWindow, WriteObs, Observations
  <2> QED
    BY <1>5, <2>1, <2>3, GrowthReports, ObservationConstants
<1>6. ASSUME total' = total, NEW w \in Windows, CreateObservation(w)
      PROVE  Tally!Create
  <2>1. obs = Nil /\ obs' = NewObservation(w) /\ clock \in Times
    BY <1>6 DEF CreateObservation, WriteObs, TypeOK
  <2>2. obs' # Nil /\ obs'.domains = NoDomains
    BY <2>1, NewObservationType
  <2>3. StatusTally' = Tally!Zero
    BY <2>2 DEF StatusTally, NoDomains, Tally!Zero
  <2> QED
    BY <1>6, <2>1, <2>3 DEF Tally!Create, StatusTally
<1>7. CASE total' = total /\ DeleteObservation
  <2>1. obs # Nil /\ obs' = Nil
    BY <1>7 DEF DeleteObservation, WriteObs
  <2>2. StatusTally # Nil
    BY <2>1, TallyType
  <2> QED
    BY <1>7, <2>1, <2>2 DEF Tally!Next, Tally!Remove, StatusTally
<1> QED
  BY <1>1, <1>2, <1>3, <1>4, <1>5, <1>6, <1>7 DEF Tally!Next

\* The initial status is no tally or an empty one.
LEMMA TallyInit == Init => Tally!Init
<1> SUFFICES ASSUME Init
             PROVE  Tally!Init
  OBVIOUS
<1>1. clock \in Times
  BY TypeInit DEF TypeOK
<1>2. obs # Nil => obs.domains = NoDomains
  BY <1>1, NewObservationType DEF Init
<1>3. StatusTally = Nil \/ StatusTally = Tally!Zero
  BY <1>2, TallyOfNew DEF StatusTally
<1> QED
  BY <1>3 DEF Init, Tally!Init, Tally!Zero

\* The controller implements the tally, whatever the cache, the store and the
\* updates do: a reader of the status cannot tell the difference.
THEOREM TallyRefinement == Spec => ImplementsTally
<1>1. Init => CurInv
  BY DEF Init, CurInv
<1> QED
  BY <1>1, TypeCorrect, CountSafety, CurStep, StepKeeps, TallyInit, TallyStep, PTL
     DEF Spec, ImplementsTally, Tally!Spec
=============================================================================
