# A TLA+ model of fqdn-network-policy

The repository is a Kubernetes controller that turns policies written in hostnames
(`FQDNNetworkPolicy`, `ClusterFQDNNetworkPolicy`) into `NetworkPolicy` objects written in
addresses, and that observes which hostnames a cluster queries (`FQDNEgressObservation`).
What makes it hard is not the translation but its surroundings: every read comes from a
cache that lags, every cycle makes several writes of which any may fail or conflict, DNS
changes without telling anybody, resolvers disagree, and the process may restart between
any two steps. The modules here model those surroundings explicitly and check what the
README, the comments and the API types promise. Paths below are relative to the
repository.

## Inventory

| Component | State | Operations | Module |
|---|---|---|---|
| FQDNNetworkPolicy reconciler (`internal/controller/fqdnnetworkpolicy_controller.go`, `ip_filter.go`, `resolver_divergence.go`) | status of the policy, NetworkPolicy, work queue | `Reconcile`, `applyNetworkPolicy`, filters, conditions, requeue | `PolicyLogic`, `Reconciler` |
| NetworkPolicy builder (`internal/netpol`) | none | `Build`, `denyAllEgress`, `collectPorts` | `PolicyLogic` |
| ClusterFQDNNetworkPolicy reconciler (`internal/controller/clusterfqdnnetworkpolicy_controller.go`) | status, one NetworkPolicy per namespace | `Reconcile`, `matchedNamespaces`, `garbageCollect`, `updateClusterStatus` | `ClusterReconciler` |
| Resolver chain (`internal/dns/{resolver,multi_resolver,snoop_resolver,ip_cache}.go`) | two `IPCache`s | `Resolve` of three resolvers, the proxy's `handleQuery` | `ResolverChain` |
| FQDNEgressObservation (`internal/controller/fqdnegressobservation_controller.go`, `internal/dns/observation_store.go`) | store of counts, `syncedCounts`, status | `Record`, pruning, `Reconcile`, `mergeObservedDomains` | `EgressObservation` |
| Drift detection (`internal/controller/drift.go`) | `observedUnpoliciedDomains` in every policy's status | `computeUnpoliciedDomains`, `recordDrift` | `DomainLogic`, `DriftWorkflow` |
| Profiler (`internal/profiler`) | none | `FilterDomains`, `ClusterWildcards`, `SynthesizePolicy`, `Simulate` | `DomainLogic`, `DriftWorkflow` |
| Webhook (`internal/webhook`) | the snoop flag | `validateEgressRules` | `DomainLogic`, `DriftWorkflow` |
| kubectl plugin (`cmd/kubectl-fqdn_policy`) | none | `preview`, `diff`; `suggest`, `profile`, `simulate` | `PluginPreview`; `DriftWorkflow` |
| TTL queue (`internal/dns/ttl_queue.go`) | heap of refresh times, one per cycle | `Upsert`, `MinDelay` | `TTLQueue`, `CycleTrackers` |
| Churn tracker (`internal/dns/churn_tracker.go`) | a ring of address sets per hostname | `Record` | `CycleTrackers` |
| ASN enrichment (`internal/enrich`, `internal/controller/enrichment.go`) | request channel, cache, lookups in flight | `RequestAsync`, `Get`, workers | `CycleTrackers` |
| Entry point (`cmd/main.go`) | | which resolver runs, what is shared | initial states, `Started` |
| Wildcard resolver, metrics | none, or output only | | see *Not modelled* |

How they interact: each reconciler is driven by a work queue (watch events, namespace
events for the cluster policy, and `RequeueAfter`). The two policy reconcilers call
`Resolver.Resolve` for every rule, filter the answer (consensus, blocked address classes),
retain the previous entry of a host whose lookup fails, decide on Audit mode and on the
divergence freeze, build and write NetworkPolicies, then write the status, from which the
next cycle retains. The resolver is shared by all workers; the snoop resolver's proxy
writes into one of its caches, and into the observation store that the third reconciler
folds into its status. The same store gives the policy reconciler its drift, and the two
policy reconcilers share the churn tracker and the enrichment manager. Operators close the
loop: the plugin turns drift or observations into manifests that come back through the
webhook, possibly long after the state they were made from.

Hard behaviours, and the properties that make each component correct:

* *Reconciler*: stale copies of policy and NetworkPolicy, the two writes of a cycle, edits
  and recreation in between, failing lookups after divided answers. Correct when no
  blocked address class leaks (`NoUnpermittedClass`), egress fails closed (`FailClosed`),
  the freeze holds (`DivergentNeverAdmitted`), the status speaks about the spec it names
  (`StatusMatchesGeneration`), failures retain (`FailureKeepsEntry`), and everything
  converges (`EventuallyConverged`, `OrphanCollected`).
* *ClusterReconciler*: all of that over several namespaces that are relabelled, terminate
  and appear while single writes fail silently. `DivergentNeverAdmitted`, `EventuallySynced`;
  and, what the code does not reach, `EventuallyFannedOut`.
* *ResolverChain*: concurrent queries answered in any order or not at all, workers racing on
  the caches, expiry. `NothingForgotten`, `EventuallyCurrent`, and that an answer without
  error has addresses (part of `TypeOK`, and an assumption of the reconcilers).
* *EgressObservation*: memory that a restart clears against a status that survives,
  counters that restart after pruning, updates that fail after the counter advanced.
  `NoDoubleCount`, `ObservationsKept`, `EventuallyReported`, and as a whole the abstract
  `QueryTally`.
* *DriftWorkflow*: drift is computed from a stale list of policies and counted before an
  update that may be lost, while operators apply manifests made from older drift.
  `DriftCounted`, `DriftClears`; and for the commands, which each match hostnames in their own
  code, `RoundTrip`, `NoForeignDomain`, `ProfileAdmissible`.
* *CycleTrackers*: a heap that depends on positions its entries remember, a ring shared by two
  reconcilers, a queue that drops requests and lookups that overtake each other.
  `PeekEarliest`, `ChurnExact`, `EventuallyEnriched`; and, what the code does not reach,
  `RefreshedAtExpiry`.
* *PluginPreview*: a second copy of the controller's filter. `PluginAgrees`.

`PROJECT.json` lists the hazards line by line with the properties that cover them.

## Modules

`PolicyLogic` has no state: the filters, the rule loop's decisions and `netpol.Build` as
operators over `Resolution`s and status entries. Addresses, hosts, ports and upstreams are
elements of constant sets; an address has one class (`ClassOf`); a NetworkPolicy's peers
are a bag (an address listed by two hosts appears twice, which is what `ipSetsEqual`
compares). Rules are a set because the webhook rejects duplicate matches.

`Reconciler` is one `FQDNNetworkPolicy` against the API server. The actions
`ReconcileStart`, `ReconcileResolve`, `ReconcileApply`, `ReconcileStatus` (with their
`...Rejected`, a conflict, and `...Fails`, an error whose write may or may not have
happened) are the handler from read to read and from write to write; `run` is the handler's
local copy. `resourceVersion` is represented by what it decides: `fpCacheCur`, `npCacheCur`
and `run.cur` say whether a copy is still the server's version. The rule loop is one
step: lookups of different hosts at different moments see a mixture of answers, but any
mixture is itself a value of `dns` and reachable by the same number of `DNSChange` steps.
`permitted` and `agreed` are history variables.

`ClusterReconciler` has the same shape with caches per namespace; `ReconcileApply` is one
turn of the fan-out loop, `GarbageCollect(n)` one delete. Wildcards are looked up here, as
in the code. A NetworkPolicy is its spec and whether it carries the label that
`garbageCollect` lists by. `syntheticPolicy` gives no uid, so the OwnerReference of a
create has none and the server refuses it (`Accepted`); an update sends the references
the object already has. NetworkPolicies of the fan-out's name therefore come from elsewhere:
they are there at the start (`FirstNPs`), or another actor restores or edits them
(`ForeignWrite`), with the label or without. Updates, garbage collection and the status
are then checked on those.

`ResolverChain` is one hostname. `ResolveHit`/`ResolveMiss` is the cache check, `QueryReturns`
one goroutine's answer, `ResolveAggregate` the loop over the channel, `ResolveFallback` the
`ActiveResolver`, `HandleQuery` the proxy. Lifetimes count down with `Tick`. The worker
then applies the filters of `PolicyLogic` (`Admitted`). The history variables `recent` and
`relayed` hold what is left of the floor and of the TTL an address was last recorded with.

`EgressObservation` is one observation object with the store, `syncedCounts` and a bounded
clock. A request that is due now and one that is due after `RequeueAfter` are one flag,
since the worker may take either at any later time.

`QueryTally` is what an observation object promises: a tally per hostname that may lag, but
counts no query that was not made and never goes back. `EgressObservation` implements it
(`ImplementsTally`, the tally being the counts in the stored status).

`PluginPreview` adds to `Reconciler` the operators `runPreview` and `runDiff` of the plugin,
applied to the policy and to the DNS answers of the moment.

`DomainLogic` has no state: hostnames are sequences of labels, top-level label first, so
that a suffix is a prefix and a wildcard ends in `"*"`; `Lower` is the lower case of a label.
White space and final dots, which the proxy has already removed, are left out. It holds the
drift matcher, the profiler, the simulator and the webhook's rule check.

`DriftWorkflow` is one namespace: `Record` (proxy), `MergeObserved` (observation object),
`ReconcileStart` / `ReconcileDrift` / `ReconcileStatus` (what a cycle does about drift, the
rest is in `Reconciler`), the commands `runSuggest` and `runProfile`, which leave a `manifest`,
and `Apply`, which may come much later. `Started` is `cmd/main.go`'s choice: a proxy that
cannot listen is replaced while the webhook still sees the flag. `counted` is a history variable.

`TTLQueue` is the heap with its remembered positions, on top of the sift operations of
`container/heap`, whose loops are recursive functions of the number of iterations. `CycleTrackers` runs it in cycles of both reconcilers (`Start`, one
`ResolveSucceeds` or `ResolveFails` per rule, `Finish`), with the shared churn rings and the
enrichment manager: `CheckFresh` and `Send` are the two halves of `RequestAsync`, `Take`,
`Lookup` and `Set` a worker. Within a cycle time is counted from its start; ages of cached
enrichments are counted by `Tick`, which stands for hours. A tick therefore needs every
policy to have had a whole cycle and the workers to be done: cycles come every few minutes
and a lookup ends after `lookupTimeout`. `recent` is a history variable.

Each `MC` module gives constants for TLC and nothing else. Definitions named
after a definition with a suffix (`doBlockOptIn`, `StrayNone`, `SyncedNever` ...) are
plausible bugs: substituted for the original they make the corresponding property fail.

## Runs

| Run | Properties | Result |
|---|---|---|
| `safety` | `TypeOK`, `NoUnpermittedClass`, `FailClosed`, `DivergentNeverAdmitted`, `StatusMatchesGeneration`, `FailureKeepsEntry`, `EventuallyConverged`, `OrphanCollected`, `PluginAgrees` | hold; 430 000 states |
| `caches` | `TypeOK`, `NothingForgotten`, `EventuallyCurrent` | hold; 840 000 states |
| `fanout` | `TypeOK`, `DivergentNeverAdmitted`, `EventuallySynced` | hold; 670 000 states |
| `counts` | `TypeOK`, `NoDoubleCount`, `ObservationsKept`, `EventuallyReported`, `ImplementsTally` | hold; 1.9 million states |
| `drift` | `TypeOK`, `DriftCounted`, `RoundTrip`, `NoForeignDomain`, `ProfileAdmissible`, `DriftClears` | hold; 520 000 states |
| `trackers` | `TypeOK`, `PeekEarliest`, `ChurnExact`, `EventuallyEnriched` | hold; 380 000 states |
| `consensus` | `FailClosed` | violated, finding 1 |
| `ports` | `SpecTakesEffect` | violated, finding 2 |
| `retention` | `FailureKeepsAccess` | violated, finding 3 |
| `bypass` | `ConsensusHonoured` | violated, finding 4 |
| `create` | `EventuallyFannedOut` | violated, finding 5 |
| `expiry` | `RefreshedAtExpiry` | violated, finding 6 |

**Bounds.** `MaxDisruptions` bounds what the world does to the controller: edits, deletions,
foreign writes, DNS changes, lost queries, failing calls and restarts share one budget; the
controller's own steps are not bounded. Three disruptions (`safety`) are what the longest
known scenarios take: divided answer, failing lookup, failed status write; or delete,
recreate, conflict. In `Reconciler` and `ClusterReconciler` every initial spec and answer
is tried, so scenarios do not spend budget on getting started. `safety` has a host and a
wildcard, a default and a relaxed Enforce spec and an Audit one (an edit may tighten the
filter), a clean answer that the default filter blocks as a whole, and a divided one. `MaxUID` = 2 allows one recreation. `safety` and `fanout` use specs that freeze, because
`DivergentNeverAdmitted` speaks of those; `safety` excludes consensus, whose effect is
finding 1. `caches` has two upstreams, an IPv4 and an IPv6 address and two workers;
a tick is the TTL floor, and the ceiling (3) and the cache's default (2) keep the order
5 < 60 < 300; all upstreams answer at first or none does, and the proxy's upstream gives
the IPv4 address one of two TTLs. `fanout` starts with one namespace of each
labelling; the specs differ on the second, which has a NetworkPolicy. `create` needs no
disruption. In `counts` a hostname is queried before and after another one's query prunes
it; window, retention and prune interval are one unit of a clock that runs to 2.
`drift` has an apex and a subdomain (spelt in upper case) below `co.uk`, an internal
single label, domains of two owners below `com.br`, a public suffix the code does not know,
and a neighbour domain below either suffix that nobody queries; two queries (`MaxQueries`,
enough for the threshold 2 of the profile), and three disruptions: a command, its `Apply`, and one
failure, edit or restart in between. `trackers` checks five setups in one run:
three hostnames of which one is in two rules, so that the heap sifts in both directions;
failing lookups of either reconciler with and without a previous entry; both reconcilers
recording one hostname in a ring of 2; and two addresses that compete for a queue of one
place with two workers and a cache age of 2 ticks. The order floor < poll interval < ceiling
of the code (5 < 60 < 300) is 1 < 2 < 5, with TTLs on both sides of the poll interval. One or two
disruptions (failed lookups and calls, restarts, reassigned addresses) per setup.
Deadlock checking is off where the bounded environment may leave a finished system with
nothing to do.

**Fairness.** Weak fairness of the worker (controller-runtime keeps running handlers of a
non-empty queue), of watch delivery, of timers, of the Kubernetes garbage collector and the
removal of terminating namespaces; in `caches` weak fairness of each worker and strong
fairness of the clock (time passes between calls even though calls keep coming). In `drift` the start
of a cycle is strongly fair for each policy, because every cycle ends in a requeue and the
work queue is served in turn: one policy cannot keep another from the only worker for ever. In
`trackers` the cycles of each reconciler, each enrichment worker and the passing of time
are weakly fair. Nothing is assumed of users, DNS, other actors or faults.

## What the violations show

1. A host all of whose addresses the consensus filter rejects is kept with no address;
   `Build` then emits a rule with an empty `To`, which allows every destination.
2. `applyNetworkPolicy` compares only addresses: an edit of ports alone is reported
   `Reconciled` and never written.
3. Retention reads the status, which is written after the NetworkPolicy; if that second
   write is lost, the next failing lookup replaces the NetworkPolicy by deny-all.
4. A hit in `MultiResolver`'s cache carries no per-upstream results, so consensus (and the
   freeze) do not apply to the second cycle within the TTL.
5. `syntheticPolicy` has no uid, so every NetworkPolicy of the cluster fan-out is created with
   an OwnerReference that the API server refuses; the error is only logged and the cycle
   reports `Ready` and lists the namespace.
6. `MinDelay` is called with the default poll interval (60 s) as its floor, so TTLs
   below it have expired when the next cycle comes, although the queue knows the moment.

Known deviations that have no run of their own:

* `ManagedPolicies` is incremented in every cycle and decremented once per deletion; the
  README calls it the number of active policies.
* `syncedCounts` advances before the status update: an update that conflicts or fails loses
  its queries, although `fqdnegressobservation_types.go` calls `QueryCount` "the number of times
  this hostname was observed queried" (`EgressObservation` has it; `NoDoubleCount` and
  `QueryTally` allow a tally that lags).
* `IPCache.Record` overwrites the expiry of an address it sees again, so an answer with a shorter
  TTL ends a longer promise made to another pod (`ip_cache.go:43-45`; `NothingForgotten`
  speaks of the last TTL).
* A failed write of the cluster fan-out is only logged, and the cycle reports `Ready`.
  `Degraded` of the cluster policy is never cleared. A NetworkPolicy without the fan-out's
  label that has the right addresses is left alone, so it never gets the label, and
  `garbageCollect` never sees it (`Synced` speaks of labelled ones).
* `commonMultiPartTLDs` has fifteen suffixes. Below any other (`com.br`) `BaseDomain` is the public
  suffix itself, a profile may contain `*.com.br`, and the simulator's audit does not
  flag it (the third disjunct of `NoForeignDomain`).
* A wildcard rule is admitted by the webhook, allowed by `simulate` and covered for drift, but
  skipped by the `FQDNNetworkPolicy` reconciler.
* A hostname that fails without a previous entry, or in a cluster policy, asks for no
  refresh of its own.
* Two lookups of one address may be in flight, although the comment on `cacheTTL` promises one
  per window.
* The plugin blocks IPv6 unique local addresses, which the controller lets pass
  (`Comparable` in `PluginPreview` excludes them).
* Drift compares hostnames as they are spelt, the profiler and the simulator in lower
  case: a name queried in upper case stays drift under the profile made for it
  (`RoundTrip` speaks of the lower-case name).
* Applying a newer suggestion replaces the rules of the older one and sets the policy back to
  Audit. A wildcard threshold of 0 is replaced by 3 although `ClusterWildcards` takes 0 and 1 as
  "no clustering".

## Proofs

TLAPS checks eight modules. Every invariant and every action property that a run checks is
also a theorem; TLC shows it on the run's instance, the theorem for every value of
the constants under the assumptions named `...Constants` in the modules (the types of the
constants, and, where a model compares with it, `Nil` being none of the values it stands in
for). Five theorems have a hypothesis of their own, named below; the instance of the passing
run that checks the property satisfies it.

`PolicyLogicProofs` holds the lemmas on `PolicyLogic` that both reconcilers and the resolver
chain need (`BuildType` needs that finitely many hosts list an address).

`ReconcilerProofs`
* `TypeCorrect`: `TypeOK` is inductive once the operators of `PolicyLogic` are typed by
  lemmas.
* `ClassSafety` (`NoUnpermittedClass`). The property speaks of the stored objects; the
  strengthening `ClassInv` says the same of every copy (cache and working copy) and that every
  copy's spec is permitted, because a cycle may write from any of them.
* `FailClosedSafety` (`FailClosed`), assuming `NoConsensus`: no spec asks for an agreement
  above one. The invariant `ListedInv`: no copy of the status has an entry without addresses.
  Without the assumption the property is false (finding 1).
* `FreezeSafety` (`DivergentNeverAdmitted`), assuming `FreezeEverywhere`: every Enforce spec
  sets `blockOnDivergence`. The invariant `AgreedInv`: entries not marked divided contain
  agreed addresses only, in every copy, and a cycle reaches `applyNetworkPolicy` only with
  undivided entries (`ApplyGate`).

The last three share the lemma `CarriedStep`, which says for each action which copy an
object may come from; each proof then only looks at the rule loop and at `Build`.

`ReconcilerStatusProofs`
* `StatusGeneration` (`StatusMatchesGeneration`) and `FailureRetention` (`FailureKeepsEntry`,
  an action property), both from `StatusInv`. What a status write stores was computed from the
  copy the cycle read, so the invariant relates copies by the resourceVersion: a cached copy
  that is current equals the stored object (`CacheInv`); a working copy that is current has
  the stored spec and generation, and its entries of failed lookups are the stored ones
  (`RunCurrent`); what the cycle has computed so far fits the spec it read (`RunFits`).

`ClusterReconcilerProofs`
* `ClusterTypeCorrect` (`TypeOK`).
* `ClusterFreezeSafety` (`DivergentNeverAdmitted`), assuming `FreezeEverywhere`. `AgreedInv`
  is that of `FreezeSafety` for all copies of the cluster policy; each namespace may be
  written from an entry agreed on many cycles ago.

`ResolverChainProofs`
* `ChainTypeCorrect` (`TypeOK`). Not inductive as it stands: a result is put together from the
  call in progress, so `ChainInv` types the calls and says that an upstream only gives its
  own responses.
* `Remembered` (`NothingForgotten`), without a hypothesis on TTLs: each `Record` gives the
  addresses of its answer at least what the history variables say and keeps the live
  entries of the others (`RecentStep`, `RelayedStep`), and `Tick` counts all down alike.

`EgressObservationProofs`
* `TypeCorrect`.
* `CountSafety` (`NoDoubleCount`). The invariant `CountInv`: every copy of the object, *plus
  what a merge would add to it now*, is at most the number of queries. It is needed because
  a cycle adds to whatever copy it read; a query raises both sides by one
  (`RecordPending`), a merge moves the pending part into the copy (`MergeCovered`), pruning
  and restarts only lower it.
* `ObservationsSurvive` (`ObservationsKept`, an action property). The invariant `CurInv`: a
  copy that is still current contains the stored object, so an accepted write only adds.
* `TallyRefinement` (`ImplementsTally`). Initial states map to initial states; a recorded
  query is `Query`, an accepted status write `Report`, and creating and deleting the object
  `Create` and `Remove`; every other step leaves `total` and the stored counts alone.
  `Report` needs that counts do not shrink (`StepKeeps`, from `CurInv`) and that they
  stay below the queries (`CountSafety`).

`DriftWorkflowProofs`
* `DriftTypeCorrect` (`TypeOK`) and `CountedBeforeReported` (`DriftCounted`) from `DriftInv`: the
  drift of every copy of a policy (stored, cached, working) has been counted, and the sets of
  names are finite.
* `ProfileLetsThrough` (`RoundTrip`), `ProfileStaysHome` (`NoForeignDomain`) and
  `ProfileReadyToApply` (`ProfileAdmissible`). These are about functions rather than steps: for
  every finite set of observed names, every rule of a profile is an observed name in lower
  case or `*.` before the base domain of one (`ProfileRules`, `ClusterMatches`), every external
  name has such a rule (`ProfileMatched`), and a rule reaches only names below that base domain
  (`ProfileReach`). That domain is never a suffix of the table: only the suffix itself has it
  for a base domain, and one name is below every threshold (`BaseBelowSuffix`,
  `SuffixUnclustered`). So it is a domain below the public suffixes, whatever these are,
  unless the table lacks one (`BaseDomainOwned`). The invariant supplies that `reported` is a finite set of observed names.
  The last two assume `PlainNames`, no observed name has a label `*` (a query for
  `*.co.uk` would make a rule for all of `co.uk`).

`CycleTrackersProofs`
* The heap. `Heaps(S, n, nx)` are the arrangements of hosts in which everybody is where their
  entry believes to be. `SwapHeap` keeps that; `UpStepKeeps` and `DownStepKeeps` are the loop
  invariants of one iteration of the two sift loops (the order fails at most between the
  current position and its parent, or its children, and parent and children of the position
  are in order); `UpHeap`, `DownHeap`, `FixHeap`, `UpsertKnown` and `UpsertNew` conclude that
  `Upsert` keeps the heap and changes one refresh time; `RootFirst` that the root is the
  earliest. Since the prover has no induction over data, loops are recursive functions over
  `0..n`, and their invariants (`LoopInvariant`), their existence (`LoopExists`) and `RootFirst`
  are proved by the least counterexample, which well-foundedness of `<` on the naturals gives.
* The ring. `RingOK` says of each slot which of the recent recordings it holds, by its distance
  from the head; `RecordRingOK` is one recording, `RingUnion` the count.
* `TrackersTypeCorrect` (`TypeOK`), `ChurnCountExact` (`ChurnExact`) and
  `EarliestRefreshFirst` (`PeekEarliest`) from `TrackerInv`: the queue of every running cycle is a
  heap, a running cycle has no RequeueAfter yet, an entry is there to be enriched while
  addresses are left, every ring is `RingOK`.

The proofs changed the models in details. Constants got the assumptions
the code justifies but the models had left unsaid (`"*"` is no valid label; lower case keeps
labels valid). The sift loops of `TTLQueue` are recursive functions instead of RECURSIVE
operators. And no EXCEPT uses `@` inside another EXCEPT: tlapm 1.4.5 reads the inner `@` as a
component of itself.

Only model-checked: the liveness properties (`EventuallyConverged`, `OrphanCollected`,
`PluginAgrees`, `EventuallyCurrent`, `EventuallySynced`, `EventuallyReported`, `DriftClears`,
`EventuallyEnriched`), which depend on fairness and so are beyond this prover.

## Plan

Done: (1) the core, `PolicyLogic` and `Reconciler`; (2) `ResolverChain`; (3)
`ClusterReconciler`; (4) `EgressObservation` and the abstract `QueryTally` it implements; (5)
the small stateful components, `TTLQueue`, `CycleTrackers` and `DriftWorkflow`; (6) the
profiler, webhook and plugin, `DomainLogic` and `PluginPreview`; (7) theorems for the invariants
and action properties of all of them.

Next, in this order:

* An abstract specification of the controller (the NetworkPolicy is always one that some
  stored spec and some past answers justify) that both reconcilers implement, checked and
  proved as a refinement.
* The composition of `DriftWorkflow` with the rule loop, to compare what `simulate` reports
  with what is enforced.

## Not modelled

* Event records, logs, messages and metrics: no property depends on them, and nothing reads
  them. The ASN-change warning of the enrichment workers is one of them.
* DNS messages and sockets: a response is its addresses, minimum TTL and chain length. The AD
  bit is only copied into the status.
* `WildcardResolver`: no code path constructs one.
* HTTP and JSON of the ipinfo client and of the webhook; flags, files, kubeconfig and
  terminal output of the plugin; `ClassifyDomain`, a table whose result only fills columns of
  reports; generated deep copies.
* More than one policy object at a time in `Reconciler`: policies share the resolver (modelled
  with several workers), the trackers (modelled with both reconcilers), drift (modelled with
  two policies) and, by colliding names, a NetworkPolicy.
