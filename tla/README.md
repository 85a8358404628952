# Verification of the VPSie cluster scaler

TLA+ models of the controller in `src/` (Go, controller-runtime), the TLC
configurations that check them on small instances, and theorems about them that
TLAPS checks for every value of the constants.

## 1. The system

The program runs in a Cluster API management cluster. For each `ScalingPolicy`
it watches one `MachineDeployment` and changes its size (horizontal scaling),
the plan its machines are made from (vertical scaling), and a set of satellite
`MachineDeployment`s for pods too large for that plan.

| Component | State it keeps | Operations | Talks to |
|---|---|---|---|
| `ScalingPolicyReconciler` (`scalingpolicy_controller.go`) | nothing of its own: the policy's status (draining node and time, last scale time, previous template), `caches[UID]` | one pass: utilisation, drain completion, timeout and abort, rollout watch and revert, scale up, cordon and evict, plan switch, status write | API server through the informer cache, workload cluster, pricing |
| Node pools (`nodepool.go`) | `status.nodePools`, a list | group oversized pods, create, scale up and clean up satellites | the same |
| Rebalancer (`rebalancer.go`) | `status.lastRebalanceTime` | a ticker's goroutine: cooldown, rollout check, plan switch, status write | reconciler's `caches`, `switchPlan` |
| Pricing cache (`pricing/cache.go`) | plans, categories, their names and `lastRefresh`, under an RWMutex | `EnsureFresh`, `Refresh`, readers | VPSie API |
| Plan selection (`selector`, `pricing/scorer.go`) | none | filter by constraints and direction, score, compare savings | |
| Simulator (`scheduler/simulator.go`) | none | first-fit-decreasing of pods on N-1 nodes | |
| Utilisation (`utilization`) | none | requests and usage per node | workload client |
| Workload client (`workload/client.go`) | clients cached for five minutes | list nodes and pods, cordon, uncordon, evict, count | workload cluster |
| VPSie client, metrics, `cmd/main.go`, API types | HTTP, counters, wiring, data types | | |

What interacts: a pass reads the policy and the `MachineDeployment` from
informers, which may lag behind the writes of the pass before; it patches
`MachineDeployment`s without a precondition, but its status write at the end is
refused if the policy's resourceVersion has moved. `MaxConcurrentReconciles`
is 1, so the passes of a controller do not overlap, but everything else may act
between any two of their API calls: Cluster API, the kube-scheduler, the pods'
owners, the rebalancer, a user. An event on the `MachineDeployment` (the pass's
own patch is one) starts the next pass at once, while the policy's watch
ignores status-only changes (`GenerationChangedPredicate`): that is why a pass
can see its predecessor's patch and not its status.

What is hard: the drain is a protocol over many passes whose only memory is the
status; the replicas, the cordon, the status and the satellites are written one
after the other and any of these writes may be the last one of a pass; each of
the timers (drain, stabilisation, stall, scale-down delay, cooldown) is a field
of the status; two goroutines write the same status from copies of their own
and share one pricing cache; a change of plan is decided on averages, scores and
a simulation, each of which rounds. `hazards` in `PROJECT.json` lists these
places line by line.

### What makes each component correct

* Reconciler: replicas stay in bounds; a replica is taken away only for a node
  that was drained for it, once; nothing lands on the drained node; no node is
  left cordoned; the stabilisation window is honoured; templates referred to
  exist; a revert undoes the last switch; drains end; pending pods are served.
* Node pools: every satellite is in the list; their number and size are
  bounded; each has its template; none is deleted within the delay of a use that
  a pass has noticed; those without any workload pod go.
* Rebalancer: it keeps to its cooldown; it leaves the drain and the last scale
  time that the pass recorded; a change of size by the pass and a change of plan by
  the rebalancer do not undo each other. When both change the plan, the later
  patch wins, and no property says which.
* Pricing cache: it is one price list, replaced as a whole; an older one does
  not replace a newer one; new prices are used in the end.
* Selection and simulator: a scale-down said to be safe has room for every pod;
  the plan chosen is the best candidate; a switch saves what the policy asks for,
  stays within its constraints, and is to a plan that holds the average load.

## 2. The modules

| Module | What it is |
|---|---|
| `ScaleDown` | abstract specification: replicas grow by one, or shrink by one for a victim chosen before |
| `Rollout` | abstract specification: the plan becomes a cheaper one, or goes back, once, to the one the last change left |
| `Reconciler` | the pass of `Reconcile` and `reconcileHorizontal`, call by call, with Cluster API, the scheduler, the informer, a second writer and crashes |
| `MCReconciler` | constant values, symmetry and a view for TLC |
| `ReconcilerProofs` | invariants of `Reconciler` under every fault |
| `DrainProofs` | the drain protocol: cordons, the window, the rollback, and the refinements of `ScaleDown` and `Rollout` |
| `Satellites` | abstract specification: satellites are made below a limit, grow one by one, and go as a whole when long unused |
| `NodePools` | `reconcileNodePools`, `createSatelliteMD`, `cleanupNodePools`, with the same kind of environment |
| `Rebalancer` | the rebalancer's cycle, composed with every action of `Reconciler` |
| `PriceList` | abstract specification: one price list, replaced as a whole, that answers questions |
| `PricingCache` | `pricing.Cache`: refreshes and reads of two goroutines, field by field at the lock |
| `Simulator` | `DefaultSimulator`: first-fit decreasing pod by pod, taints, selectors, affinities; and what a packing is |
| `VerticalScaling` | `Calculate`, `determineDirection`, both simulations, `Select`, the switch, and a pool whose nodes and pods change between passes |
| `MCReconciler`, `MCNodePools`, `MCRebalancer`, `MCPricingCache`, `MCVertical` | constant values, symmetry and views for TLC |
| `NodePoolsProofs`, `RebalancerProofs`, `PricingProofs`, `VerticalProofs` | the theorems of these modules |

`Rebalancer` extends `Reconciler`, and `RebalancerProofs` extends `ReconcilerProofs`,
so what is proved of the pass alone is used for the composition.

### Reconciler

`policy` is the status in the API server, `md` the `MachineDeployment`, `cache`
what the informers show of both. A pass is a sequence of actions, one per API
call, with `pc` naming the call it is at and `mem`, `memMD` its copies:

| Action | Code (`scalingpolicy_controller.go`) |
|---|---|
| `Begin` | 118-251: policy, `MachineDeployment`, current plan |
| `Observe` | 590-714: utilisation, and with it which node may be drained |
| `ListPending` | 723-779 |
| `DrainTimedOut`, `CheckDrain`, `RecheckPending`, `ReduceReplicas` | 782-873: an open drain |
| `RevertStalled`, `AwaitRollout`, `RolloutDone` | 882-941: a rollout |
| `ScaleUp`, `KeepReplicas` | 943-1084 |
| `CordonTarget`, `EvictPods` | 1086-1132 |
| `SwitchPlan`, `KeepPlan` | 346-404, 527-586 |
| `SaveStatus`, `Crash` | 406-410 |

`MergePatch` is what `client.MergeFrom` does: only the fields the pass changed,
as absolute values, over whatever the object is by then. A failed patch leaves
the change in the pass's copy, as in the code.

`Faults` switches on what may go wrong besides interleaving: `conflict`,
`crash`, `stale` (informer lag), `workload`, `uncordon`, `evict`, `patch`,
`plan`, `dryrun`.

Abstractions: pods that are not oversized have one size and a node holds
`NodeCapacity` of them, so first-fit is exact; `target`, computed at `Observe`,
stands for the decision the code takes later from the same `utilResult`; any
cheaper plan may be selected; times are ages that stop at `AgeCap`; a node name
is not reused while anything refers to it; an evicted pod's replacement appears
when the old pod leaves; rolling updates have maxSurge 1; `spec.dryRun` is
chosen anew for each pass. The prologue's error exits write conditions only and
are left out. `reconcileNodePools`, called between the horizontal part and plan
selection, touches no field that the rest of the pass reads; it is `NodePools`.

### NodePools

`nodePools` is `status.nodePools`, a sequence in which a pool may occur twice,
as nothing in the code prevents it. A pass goes through `Begin`, `ListPending`,
one of `CreatePool`, `ScalePool`, `SkipGroup` per group in any order (Go's map
order), `StartCleanup`, then `DropMissing`, `KeepUnread`, `CountPods` and
`DeletePool` per entry, `EndCleanup` and `SaveStatus` or `LoseStatus`. During
cleanup `left` is what remains of the list and `mem` is `updatedPools`. The two
calls of a creation or a deletion are one action with all their outcomes.
`sinceUse` is a history variable: how long ago a pass last noticed a use of the
pool (its creation, a scale-up, a pod counted), whichever entry of the list the
code recorded it in. A use that no pass noticed is not in it.

Abstractions: a pool stands for its plan, its deployment and its template
(nicknames are taken to be distinct); a node of a pool holds one oversized pod
and any number of ordinary ones, which nothing keeps off it since a satellite's
machine spec has no taint, and which cleanup counts like the others; an oversized
pod whose satellite goes is pending again, an ordinary one finds room elsewhere;
registering and becoming a node is one step; an error in `ListNodes` is the
`workload` fault and one in counting, or a node that `ListNodes` skipped, is
`count`; `LastPodSeen` is never nil because no code path leaves it nil, and
`TypeOK` says so; `NodePoolStatus.Replicas` is never read and is left out; the
price list does not change during a run.

### Rebalancer

The module extends `Reconciler`: the pass, Cluster API and the kubelet are the
actions of that module, wrapped (`PassBegins`, `PassMoves`, `PassSaves`,
`PassCrashes`, `OtherWriter`, `RolloutReported`, `RTick`) to say what each does
to the rebalancer's state. Its own cycle is

| Action | Code (`rebalancer.go`) |
|---|---|
| `RList` | 56-72: the policies with rebalancing enabled |
| `RSkip` | 98-107: the cooldown lasts |
| `RInspect` | 124-173: too few replicas, or a rollout under way |
| `RGiveUp`, `RKeepPlan` | 175-262: no prices, no plan, a dry run; nothing better |
| `RSwitch` | 264-277 with `switchPlan` |
| `RSave`, `RCrash` | 278: `Status().Update` |

`rmem` and `rmd` are its copies, `rfresh` says that its resourceVersion is still
current, and `stamp` is `lastRebalanceTime` in the three copies of the status
that exist: the API server's, the pass's and the rebalancer's. The policy is one
with rebalancing enabled; without it, `Reconciler` alone is the model. The field is kept
apart from `policy` because the pass carries it along without looking at it.
The informer is taken to be current (`InformerAssumption`): a cycle's reads grow
old while it is under way, not before. `rolling` is what the deployment's status
says of a rolling update. Any cheaper plan may be selected; which one the code
selects is `VerticalScaling`.

### PricingCache

Each goroutine goes through `EnsureFresh` (the freshness test under the read
lock), `FetchCategories` or `FetchFails`, `FetchPlans` or `SkipCategory` per
category, `Lock`, one action per field stored, and then the reads of a pass, of
which `Plans` takes two steps under one read lock. The test, the fetches and the
store are separate, so both goroutines may refresh at once. VPSie publishes
numbered editions of its price list, and a fetched offer carries the edition of
its price; `overtaken` is a history variable: another refresh was stored since
this one began to fetch. Names that differ in case only are one `Name`.

### Simulator and VerticalScaling

A pass reads the workload cluster once and decides on that snapshot, so what
happens there is left to the time between two passes: pods come and go
(`PodStarts`, `PodEnds`), machines join when there are too few or ahead of the one
they replace (`NodeJoins`, the surge of a rollout), machines leave (`NodeLeaves`),
and the horizontal scaler changes the replicas (`Resize`). `nodes` gives the plan
each node was made with, so a pool is mixed while a switch rolls through it and
may have more or fewer nodes than replicas; `at` places the pods. The pass is

| Action | Code |
|---|---|
| `WithoutUtilization`, `TriggerUpscale`, `TriggerDownscale`, `InRange` | `determineDirection`, on the nodes `listed`: `ListNodes` leaves out those it cannot get |
| `DecideDownscale` | the simulation of the current plan |
| `SimulateReduction`, `EndReduction`, `NoReduction` | the simulation before a drain, with every node taken to be like `first`, `utilResult.Nodes[0]` |
| `CountNode` | the loop at 286-289: each node's bytes are cut to MB, then added |
| `BeginSelect`, `ConsiderPlan` | `Select` for the average per listed node (`PerNode`) |
| `SwitchPlan`, `KeepPlan` | 346-404 |

`Unknowns` switches on what may fail: reading the cluster or a node of it, the
metrics, the current plan in the price list, the switch.

The plans are considered in any order, that of the API's answer; pods of equal
size are simulated in any order, since `sort.Slice` is not stable. Scores are
exact fractions: the code's floats are not, and two scores that differ by less
than their rounding may be ordered the other way. Memory is counted in units of
which `MB` make one MB, so what is cut off is cut off here too, in the synthetic
plan as in the average. `Requested` gives the sum for each set of pods, additive
by assumption. Prices do not change, and the revert of a stalled rollout, which is
in `Reconciler`, is not in this module.

### Three models and one pass

`Reconciler` and `NodePools` share the pass and the status write, but no field
except the resourceVersion: a conflict is the `conflict` fault of one and the
`lost` fault of the other. Both filter the same pending pods, one for those
that fit and one for those that do not. `VerticalScaling` refines what is a free
choice in `Reconciler` and `Rebalancer`: which cheaper plan `SwitchPlan` and
`RSwitch` take (`SwitchSaves` is why only cheaper ones), and when the simulation
lets a drain begin. `PricingCache` is what the two processes of `Rebalancer` ask
for prices; its failures are the `plan` fault of the pass and `RGiveUp`.

## 3. What the runs check

| Run | Question | Bounds |
|---|---|---|
| `drain_protocol` | Without lost status writes, is each reduction paid for by one drain, nothing left cordoned, the window honoured, and `ScaleDown` implemented? | 3 nodes, 2 pods of one size and an oversized one, replicas 1..3, timeouts 1, window 2; refused evictions, failing patches |
| `lost_writes` | What holds whatever is lost or stale? | 2 nodes, 1 pod, replicas 1..2, eight faults at once |
| `plan_switch` | Does a revert undo the last switch and no other, and is `Rollout` implemented? | 2 nodes, a pod, 3 plans, the cheapest broken, maxUnavailable 1, dry-run passes, unknown plans |
| `rebalance` | Does the rebalancer keep the drain, do changes of size and of plan compose, do the templates exist, is a recorded cooldown kept? | 2 nodes, 3 plans, the cheapest broken, replicas 1..2, cooldown 1, conflicts, crashes |
| `pricing_refresh` | Is the cache one list, do old prices stay away, do new ones arrive? | 2 goroutines, 2 plans of 2 categories, one of them allowed, 2 editions, failing fetches, fairness |
| `vertical` | Are the simulations and the selection right, and what does a switch guarantee? | 5 pods, 4 plans of which 3 are offered and one of these excluded, up to 3 nodes, replicas 1..2, three aggressiveness levels, all four failures |
| `drain_liveness` | Do drains end and are pending pods served? | 2 nodes, 2 pods, refused evictions, fairness |
| `pool_lifecycle` | Are satellites listed, limited, complete, kept while used and removed when idle, and is `Satellites` implemented? | 2 plans, 3 pods of which one is ordinary, maxPools 1, failing counts, outside deletions, fairness |
| `pool_faults` | What holds of the list and the satellites whatever is lost or stale? | 1 plan, 3 pods of which one is ordinary, maxPools 2 (room for a pool to be listed twice), all seven faults |

Three nodes let two drains follow each other with a node left; two pods fill
and overfill a node; ages up to one past each timeout tell "not yet", "just"
and "past" apart. `lost_writes` has the smallest bounds because every fault
multiplies its states; what it checks is also proved. It uses the view
`WithoutHistory`, which drops the history variables: no guard reads them, and
`TypeOK`'s conjunct about them is proved. Symmetry permutes nodes and the pods
that are not oversized in runs without liveness.

The run of the rebalancer has no pods, since it never looks at one: its drains
are of empty nodes, and sizes only go down. Two replicas are the fewest it
touches. Its view drops what nobody reads any more: history variables, copies of
the deployment after the last patch, and what a refused status write would have
said. Three plans allow a switch during a switch.
The five pods of `vertical` are one too large for the small plan, one bound by
memory, one bound by a selector, one that does not tolerate a taint the nodes
got later, and one of a DaemonSet; between them they use every taint, selector
and affinity operator. The plan the pool starts on, which is no longer offered,
has more memory than the two it may be switched to, and less CPU than one of them,
so all directions are possible; the cheapest and largest plan is excluded. Two replicas are three
nodes in a surge, and one if a machine is missing. In `pool_lifecycle` somebody
else may delete a pool at any time, so there `Satellites` allows every deletion;
when the code deletes is `UsedPoolKept` in the same run, and what `Satellites` says
of it without outsiders is proved (`ImplementsSatellites`). In `pricing_refresh` the
later edition adds a category and changes the price of the plan that is in both.

Three more runs show where the code differs from what the repository says of it:

| Run | What happens |
|---|---|
| `early_revert` | A switch is reverted by the next pass, because the stall clock is the last horizontal scaling and `switchPlan` does not set it. |
| `upscale_needs_savings` | `Select` asks for no savings when scaling up, but its caller compares with `minSavings` again: a bigger plan that costs more is recommended and never taken. |
| `unchecked_downscale` | The simulation is of the plan in use. The smaller plan selected afterwards only has to hold the average request of a node, and the pods do not fit on it. |

### What the excluded faults do

A property that is checked without a fault is one that this fault breaks; TLC
finds each of these when the fault is added:

* `stale` (the informer lags): the pass that the replicas patch starts reads the
  old status and takes a second replica for the same node.
* `conflict`, `crash`: the status write that records the drain or the scaling is
  lost; a node stays cordoned, or the window is not honoured. The window is in the
  status and nowhere else, so `StabilizationHonoured` is about passes whose write
  arrives and that read the latest one; with `stale` it fails too.
* `uncordon`, and `workload` between cordon and evictions: a node stays cordoned
  and no status names it.
* `patch`: a revert whose patch fails leaves the reverted template in the pass's
  copy, and the switch that follows saves it as the rollback template.
* `lag` in `NodePools`: a satellite just created is not in the informer yet;
  cleanup takes it for deleted, drops its entry, and `maxPools` is exceeded.
  `lost`: the entry is never saved, with the same effect.
* `external` with room for two entries: a pool deleted by somebody and created
  again is listed twice, and the older clock deletes it while it is in use.
* the rebalancer itself acts on the pass as `conflict` does: a status write of its
  own that is accepted makes the pass's be refused. With both at work and no other
  fault, `NoOrphanCordon` and `RevertUndoesLastSwitch` are violated, so neither is
  claimed of `Rebalancer`.

Some things need no fault, and no property above denies them. An evicted pod's
replacement that the scheduler has not yet looked at is not pending in the sense
of `ListPendingPods`, so the replica may go before it runs. With maxUnavailable 0
the old machines stay ready, the pass after a switch takes the rollout for
complete, and the rollback template is dropped before the new machines are seen.
While a rollout mixes two plans, the simulation before a drain gives every node
the size of the first one listed (`scalingpolicy_controller.go:1051`;
`simulator.go:86` takes the pool to be homogeneous): `SafeMeansFit` asks that no
node that remains is smaller, and without that TLC finds it violated. A pool whose
pods were not counted for `scaleDownDelay`, because the counts failed, is
deleted with the pods on it, and so is one that a pod reaches between the count
and the deletion. A stalled plan that is reverted is selected again by the next
pass, and so on for ever; no property says that the plan settles, because it need
not.

### Fairness

`FairSpec` assumes weak fairness of the pass (each pass is requeued after a
fixed interval and no call of it blocks for ever), of the clock, of Cluster
API's steps towards the declared size and its status reports, and, in
`Reconciler`, of the scheduler's and kubelet's steps on a pod. Nothing obliges
anybody to create, finish or delete anything, or to fail. `IdlePoolRemoved`
needs machines to become nodes: a pool none of whose machines does is kept by
the code (`nodepool.go:408`).

`PricingCache` assumes weak fairness of the clock and of each goroutine, and
strong fairness of what someone tries for ever: that a stale cache is noticed,
that the lock is granted (Go's RWMutex keeps readers from starving a writer), and
that VPSie answers a request repeated without end now and then, for each
category by itself. Nothing makes all categories arrive in one refresh, and the
property does not ask for it.

## 4. What is proved

For every set of nodes, pods, plans and templates and every bound that the
assumptions of the modules allow:

| Theorem | States | Under |
|---|---|---|
| `TypeCorrect` | `[]TypeOK` | every fault |
| `ReplicasStayInBounds` | `[]ReplicasInBounds` | every fault |
| `TemplatesAlwaysExist` | `[]TemplatesExist` | every fault |
| `NodeStaysEmpty` | `[]EmptyAtReduce` | every fault |
| `EachReductionPaidOnce` | `OneDrainPerReduction` | `StatusReliable` |
| `ScaleDownWaits` | `StabilizationHonoured` | `StatusReliable` |
| `ImplementsScaleDown` | `RefinesScaleDown` | `StatusReliable` |
| `NoCordonForgotten` | `[]NoOrphanCordon` | `CordonReliable` |
| `RevertGoesBack` | `RevertUndoesLastSwitch` | `SwitchReliable` |
| `ImplementsRollout` | `RefinesRollout` | `SwitchReliable` |
| `PoolTypes` | `[]TypeOK` of `NodePools` | every fault |
| `PoolsStayInBounds` | `[]PoolReplicasBounded` | every fault |
| `ListStaysWithinLimit` | `[]ListWithinLimit` | every fault |
| `PoolsAreListed` | `[]EveryPoolListed` | `ReliableReads` |
| `PoolsStayWithinLimit` | `[]PoolLimit` | `ReliableReads` |
| `PoolsHaveTemplates` | `[]PoolHasTemplate` | `CopiesCurrent` |
| `UsedPoolsStay` | `UsedPoolKept` | `OneEntryEach` |
| `ImplementsSatellites` | `RefinesSatellites` | `OneEntryEach` |
| `RTypeCorrect` | `[]RTypeOK` | every fault but `stale` |
| `DrainSurvivesRebalancer` | `RebalancerKeepsDrain` | the same |
| `ReplicasStayInBoundsBoth` | `[]ReplicasInBounds`, both writers | the same |
| `TemplatesAlwaysExistBoth` | `[]TemplatesExist`, both writers | the same |
| `TypeCorrectBoth` | `[]TypeOK`, both writers | the same |
| `NodeStaysEmptyBoth` | `[]EmptyAtReduce`, both writers | the same |
| `PatchesAlwaysCompose` | `PatchesCompose` | the same |
| `CooldownAlwaysHonoured` | `CooldownHonoured` | the same |
| `PricesTypeCorrect` | `[]PTypeOK` | failing fetches |
| `CacheIsOneList` | `RefinesPriceList` | failing fetches |
| `OnlyOverlapBringsOldPrices` | `OldPricesOnlyByOverlap` | failing fetches |
| `VerticalTypeCorrect` | `[]VTypeOK` | every failure |
| `SafeSimulationMeansFit` | `[]SafeMeansFit` | every failure |
| `BlockedSimulationMeansNoFit` | `[]BlockedMeansNoFit` | every failure |
| `SelectionIsBest` | `[]BestIsChosen` | every failure |
| `EverySwitchSaves` | `SwitchSaves` | every failure |
| `SwitchKeepsTotal` | `SwitchHoldsTotal` | every failure |
| `SyntheticNodeIsNoLarger` | `SyntheticCapacity(n)` is within `n` | |

`StatusReliable` excludes the faults `conflict`, `crash` and `stale`;
`CordonReliable` excludes `workload` and `uncordon` besides, `SwitchReliable`
`patch` besides. `CopiesCurrent` excludes `lag`, `ReliableReads` `lag` and `lost`;
`OneEntryEach` asks besides that nobody else deletes satellites or that `maxPools`
is 1: a pool made again next to its old entry needs room for two. They are not for
convenience: section 3 says what each fault does. `RevertGoesBack` and
`ImplementsRollout` speak of policies without rebalancing: the pass and the
rebalancer together may each hold a rollback template of its own switch.

The arguments:

* `BoundsInv`: replicas are in bounds in the API server, in the pass's copy and
  in the informer's. A merge patch writes an absolute value computed from a
  copy, so the bound has to hold of all three.
* `TemplatesInv`, `RTemplatesInv`: every copy of the deployment and of the status
  names existing templates, since any of them may be written back.
* `EmptyAtReduce` is inductive given `TypeOK`: a cordoned node gets no pod.
* `DrainInv`: as no write is lost, between passes the cache is the API
  server's state and within a pass `mem` is the only newer copy; a node being
  drained has `claim = "owed"`, and `lastScaleAge` is no older than the last scale-up. The
  refinement maps the abstract victim to the draining node of the current copy.
* `CordonRemembered`: a cordoned node is the draining node of the current copy,
  or has been given up, or the pass is between cordoning and evicting.
* `RollbackInv`: the current copy of `previousInfraTemplate` is either empty or
  the template that the last switch replaced, and the pass's copy of the
  deployment has the API server's template. It is inductive together with
  `DrainInv`, which gives the agreement of the copies. `PlanSteps` sorts the steps
  into those that keep, revert and switch the plan.
* `CheaperInv`: the plan to go back to costs more than the present one, and the
  plan a pass found at its start does not. A pass may revert a stalled switch and
  switch again by the price of the plan it began with: the reverted plan costs
  more than that one, so the switch still goes down, as `Rollout` asks.
* `RTypeOK` says why the rebalancer keeps the drain: a copy that is still current
  equals the API server's status but for the rollback template, and a copy that
  is not current is refused.
* `CooldownInv`: of the three copies of `lastRebalanceTime`, the API server's is
  the last recorded switch, and the pass's equals it as long as the pass's write
  would be accepted; the rebalancer's equals it from `RList` to the switch, since
  nobody else sets it.
* `LimitInv`: list and copy are within the limit; during cleanup the two lists
  together are no longer than the list it began with.
* `TrackInv`: the copies follow every write, live pools are listed and have templates.
  `PoolLimit` follows by counting: the entries of a list are at least as many as
  the pools in it.
* `TemplateInv`: the informer's deployments and templates are the API server's, so
  a pass that makes a satellite sees whether its template is there. Lost status
  writes do not matter: a template outlives its satellite in every order of calls.
* `AgeInv`: no pool is listed twice, across `mem` and `left` together, no entry is
  older than its pool's last use, what is listed is live unless others delete
  (`ListedLive`), and the entry at `delete` is as old as the delay. Distinctness
  is what fails when somebody else deletes a pool and the list has room for two
  entries; with room for one the old entry has to go before the new one comes.
* `RefinesSatellites` needs all of these: the entry bound counts live satellites
  when one is made, the age bound allows a deletion, and the replicas of the copy
  are the API server's when one grows. The map takes a satellite that is not live
  to have size 0, and a live one has at least one machine (`SatelliteHasMachines`).
* `ListInv`: what a refresh has fetched fits together, what the writer has stored
  so far is its own draft, and a reader between its two reads sees the names that
  are there. The refinement mapping `TheList` takes the new list to be there from
  the moment the lock is held; nobody reads until it is released.
* `AgesInv`: nothing is newer than what is published, and a draft that nobody
  overtook is at least as new as what is stored.
* `VInv`: in a simulation `home` packs the pods placed so far, `room` is the
  capacity less what they request, and every pod is placed, blocked or left
  (`Accounted`); `sum` is less than one MB a node short of what the pods on the
  nodes counted so far request (`Summed`); in the selection no plan already looked
  at beats `best` (`BestSoFar`). That a safe simulation fits the real nodes that
  remain takes `SyntheticNodeIsNoLarger`, since none of them is smaller than
  `first`, and a bijection from them to the virtual nodes. With one virtual node, once a pod is blocked,
  either a blocked pod may not run there or the pods dealt with so far request more
  than it holds (`BlockedForGood`); at the end these are all the pods, so no packing
  exists, whatever the order. With two nodes or more first-fit decreasing may miss
  a packing, and nothing is claimed.
* `TypeCorrectBoth` and `NodeStaysEmptyBoth` come from the steps of the pass proved
  in `ReconcilerProofs`, and the rebalancer's own steps, which touch neither pods
  nor cordons.

Every safety and action property of a passing run is the statement of a theorem.
Only model-checked is liveness: `DrainResolves`, `PendingPodServed`,
`IdlePoolRemoved` and `PublishedPricesArrive`, since fairness, ENABLED and an
induction over what is left to do are beyond the prover. What the three
findings say is shown by TLC's counterexamples.

## 5. What is not modelled

* The workload client's cache of clients with its lifetime: what a rotated
  kubeconfig causes is that calls fail, and that is the `workload` fault.
* The `caches` map: it is read and written by two goroutines without a lock, and
  a data race on a Go map ends the process. It is created once per policy and
  keeps its credentials; the models begin with the cache it holds.
* The VPSie HTTP client and its JSON: `PricingCache` models its answers and
  failures, as external definitions.
* Metrics, events and conditions, which no decision reads; flags and wiring in
  `cmd/main.go`; generated deep copies.
* `ResolveCategoryID`, `NodePoolStatus.Replicas`: nothing reads them.

* In `VerticalScaling`, a change of the price list between two passes and the
  revert of a stalled switch: the first is in `PricingCache` and the second in
  `Reconciler`. What a switch saves is by the prices the pass has read, and compared
  with the plan it found at its start, which a revert in the same pass may have
  replaced by a dearer one (`CheaperInv`).
* A property of two switches to different plans by the pass and the rebalancer at
  once: `Rebalancer` has the behaviour, and the later patch wins.

## 6. Running

    tlc -workers 2 -config drain_protocol.cfg MCReconciler.tla
    tlc -workers 2 -config pool_lifecycle.cfg MCNodePools.tla
    tlc -workers 2 -config rebalance.cfg MCRebalancer.tla
    tlc -workers 2 -config pricing_refresh.cfg MCPricingCache.tla
    tlc -workers 2 -config vertical.cfg MCVertical.tla
    tlapm VerticalProofs.tla

`lost_writes`, `plan_switch`, `rebalance` and `pool_faults` take two or three
minutes each, `vertical` one and a half, the others less.

`PROJECT.json` maps every definition to its source lines and lists for every
property a mutant (a definition above the one it replaces, marked `\* mutant`)
that breaks it.
