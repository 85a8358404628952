---------------------------- MODULE Reconciler ----------------------------
(***************************************************************************)
(* ScalingPolicyReconciler.Reconcile: one pass over one ScalingPolicy and  *)
(* the MachineDeployment it targets, read call by call, together with the  *)
(* actors it races with: Cluster API creating, readying and deleting       *)
(* machines, the kube-scheduler and the owners of the pods, the informer   *)
(* cache behind the manager's client, a second writer of the policy, and a *)
(* controller that may stop at any call.                                   *)
(*                                                                         *)
(* MaxConcurrentReconciles is 1, so there is one pass at a time; every API *)
(* call of a pass is a step of its own, and whatever the environment does  *)
(* may happen between two of them.  All state that outlives a pass is the  *)
(* policy's status, the MachineDeployment and the workload cluster; `mem`  *)
(* and `memMD` are the pass's copies and are lost when it ends or crashes. *)
(*                                                                         *)
(* Times are ages: what time.Since would return, in clock ticks, up to     *)
(* AgeCap; NoTime is a nil metav1.Time.  Pods that are not oversized are   *)
(* of one size and a node holds NodeCapacity of them.                      *)
(***************************************************************************)
EXTENDS Integers, FiniteSets

CONSTANTS
  Node,               \* names a workload node can have
  Pod,                \* workload pods that are neither DaemonSet nor mirror pods
  Template,           \* VPSieMachineTemplates, one per plan
  InitTemplate,       \* the template the MachineDeployment starts from
  Broken,             \* templates whose machines never become ready
  Price,              \* Price[t]: the monthly price of t's plan
  Oversized,          \* pods that do not fit an empty node of the base plan
  NodePoolsEnabled,   \* spec.nodePoolPolicy.enabled
  NoNode, NoTemplate, \* the empty strings of the two status fields
  MinReplicas, MaxReplicas,     \* effective spec.horizontal bounds
  MaxUnavailable,     \* of the MachineDeployment's rollout strategy
  NodeCapacity,       \* pods a node has room for
  ScaleDownThreshold, \* spec.targetUtilization.scaleDownThreshold, percent
  DrainTimeout, RolloutStallTimeout, Stabilization, \* in ticks
  AgeCap,             \* ages above this are not told apart
  Faults              \* what may go wrong besides the interleaving, see below

(* "conflict": somebody else writes the policy during a pass;              *)
(* "crash": the controller stops, or the API server fails a status write;  *)
(* "stale": the informer cache lags behind the API server;                 *)
(* "workload": a read of the workload cluster fails or misses a node;      *)
(* "uncordon", "evict", "patch": that call fails, or is refused;           *)
(* "plan": the current plan is missing from the pricing cache;             *)
(* "dryrun": spec.dryRun is set during some passes.                        *)
FaultKinds == {"conflict", "crash", "stale", "workload", "uncordon",
               "evict", "patch", "plan", "dryrun"}

NoTime == -1
Age == NoTime .. AgeCap

ASSUME NamesAssumption ==
  /\ IsFiniteSet(Node) /\ IsFiniteSet(Pod)
  /\ NoNode \notin Node /\ NoTemplate \notin Template
  /\ InitTemplate \in Template /\ Broken \subseteq Template \ {InitTemplate}
  /\ Price \in [Template -> Nat]
  /\ Oversized \subseteq Pod /\ NodePoolsEnabled \in BOOLEAN
ASSUME BoundsAssumption ==
  /\ MinReplicas \in Nat \ {0} /\ MaxReplicas \in Nat
  /\ MinReplicas <= MaxReplicas /\ MaxReplicas <= Cardinality(Node)
  /\ MaxUnavailable \in Nat
  /\ NodeCapacity \in Nat \ {0} /\ ScaleDownThreshold \in 1 .. 100
ASSUME TimesAssumption ==
  /\ DrainTimeout \in Nat /\ RolloutStallTimeout \in Nat
  /\ Stabilization \in Nat /\ AgeCap \in Nat
  /\ DrainTimeout < AgeCap /\ RolloutStallTimeout < AgeCap
  /\ Stabilization <= AgeCap
ASSUME FaultsAssumption == Faults \subseteq FaultKinds

VARIABLES
  policy,      \* the ScalingPolicy's status in the API server
  md,          \* the MachineDeployment in the API server
  templates,   \* the VPSieMachineTemplates that exist
  cache,       \* the informer's copies; `latest`: its policy is the newest
  pc,          \* the call the pass is at; "idle" between passes
  mem, memMD,  \* the pass's copies of the policy and the MachineDeployment
  fresh,       \* the resourceVersion of mem is still the current one
  dryRun,      \* spec.dryRun as the pass read it
  basePlan,    \* currentPlan, named by its template; NoTemplate if nil
  target,      \* the node that utilResult allows to be drained, or NoNode
  pending,     \* whether pendingPods is non-empty
  machine,     \* machine[n]: "absent", "booting" or "ready"
  machineTmpl, \* the template n's machine was made from
  cordoned,    \* the nodes with spec.unschedulable
  podPhase,    \* "absent", "queued" (the scheduler has not tried it yet),
               \* "unschedulable", "running" or "terminating"
  podAt,       \* the node a pod is bound to
  claim,       \* history: claim[n] is "owed" from the moment n is cordoned
               \* until replicas are reduced for it, "settled" from then on
  sinceUp,     \* history: the age of the last replica increase
  sinceSwitch, \* history: the age of the last plan switch
  switchedFrom \* history: the template the last plan switch replaced

workloadVars == <<machine, machineTmpl, cordoned, podPhase, podAt>>
history == <<claim, sinceUp, sinceSwitch, switchedFrom>>
passVars == <<pc, mem, memMD, fresh, dryRun, basePlan, target, pending>>
vars == <<policy, md, templates, cache, passVars, workloadVars, history>>

Status == [drainingNode : Node \cup {NoNode}, drainingAge : Age,
           lastScaleAge : Age, prevTemplate : Template \cup {NoTemplate}]
Deployment == [replicas : Nat,
               ready : 0 .. Cardinality(Node), tmpl : Template]
Calls == {"idle", "observe", "list", "drain", "recheck", "reduce", "scale",
          "evict", "switch", "save"}

NewStatus == [drainingNode |-> NoNode, drainingAge |-> NoTime,
              lastScaleAge |-> NoTime, prevTemplate |-> NoTemplate]
InitMD == [replicas |-> MinReplicas, ready |-> 0, tmpl |-> InitTemplate]

CanFail(f) == f \in Faults
NoClamp(desired) == desired   \* mutant
ClampToMin(desired) == IF desired < MinReplicas THEN MinReplicas ELSE desired
Since(age, limit) == age # NoTime /\ age > limit
Within(age, limit) == age # NoTime /\ age < limit

Machines == {n \in Node : machine[n] # "absent"}
Ready == {n \in Node : machine[n] = "ready"}
PodsOn(n) == {p \in Pod : podAt[p] = n}
Outdated == {n \in Machines : machineTmpl[n] # md.tmpl}

(***************************************************************************)
(* Writing to the API server.  Unless the informer may lag, its copy       *)
(* follows each write before anything else happens.                        *)
(***************************************************************************)
CacheMD(m) == cache' = IF CanFail("stale") THEN cache
                       ELSE [cache EXCEPT !.md = m]
CachePolicy(p) == cache' = IF CanFail("stale") THEN [cache EXCEPT !.latest = FALSE]
                           ELSE [cache EXCEPT !.policy = p]

(* client.MergeFrom sends the fields the pass changed in its own copy, as  *)
(* absolute values and with no precondition; the answer replaces the copy. *)
MergePatch(changed) ==
  [md EXCEPT
     !.replicas = IF changed.replicas # memMD.replicas THEN changed.replicas ELSE @,
     !.tmpl = IF changed.tmpl # memMD.tmpl THEN changed.tmpl ELSE @]
PatchMD(changed) == /\ md' = MergePatch(changed)
                    /\ memMD' = md'
                    /\ CacheMD(md')
PatchFails(changed) == /\ CanFail("patch")
                       /\ memMD' = changed
                       /\ UNCHANGED <<md, cache>>

-----------------------------------------------------------------------------
Init ==
  /\ md \in [replicas : {MinReplicas, MaxReplicas}, ready : {0}, tmpl : {InitTemplate}]
  /\ policy = NewStatus
  /\ templates = {InitTemplate}
  /\ cache = [policy |-> NewStatus, latest |-> TRUE, md |-> md]
  /\ pc = "idle" /\ mem = NewStatus /\ memMD = InitMD /\ fresh = FALSE /\ dryRun = FALSE
  /\ basePlan = NoTemplate /\ target = NoNode /\ pending = FALSE
  /\ machine = [n \in Node |-> "absent"]
  /\ machineTmpl = [n \in Node |-> InitTemplate]
  /\ cordoned = {}
  /\ podPhase = [p \in Pod |-> "absent"] /\ podAt = [p \in Pod |-> NoNode]
  /\ claim = [n \in Node |-> "none"]
  /\ sinceUp = NoTime /\ sinceSwitch = NoTime /\ switchedFrom = NoTemplate

(***************************************************************************)
(* The pass.                                                               *)
(***************************************************************************)
\* Get the policy, the MachineDeployment and its template, all from the cache.
Begin ==
  /\ pc = "idle" /\ pc' = "observe"
  /\ mem' = cache.policy /\ fresh' = cache.latest
  /\ memMD' = cache.md
  /\ dryRun' \in {FALSE} \cup (IF CanFail("dryrun") THEN {TRUE} ELSE {})
  /\ basePlan' \in {cache.md.tmpl} \cup (IF CanFail("plan") THEN {NoTemplate} ELSE {})
  /\ UNCHANGED <<policy, md, templates, cache, target, pending, workloadVars, history>>

Load(nodes) == Cardinality(UNION {PodsOn(n) : n \in nodes})
\* EffectiveCPUPercent and EffectiveMemoryPercent, by what the pods request.
LowUtilization(nodes) ==
  100 * Load(nodes) < ScaleDownThreshold * NodeCapacity * Cardinality(nodes)
\* SimulateDownscale on nodes like the first one, one fewer than now.
FitsOneFewer(nodes) == Load(nodes) <= NodeCapacity * (memMD.replicas - 1)
\* leastUtilizedNode: pods are of one size, so the fewest requests.
LeastUtilized(nodes) == {n \in nodes : \A m \in nodes : Load({n}) <= Load({m})}

\* ListNodes drops a node whose Get fails; no node at all is an error.
ListedNodes == IF CanFail("workload") THEN SUBSET Ready ELSE {Ready}

\* determineDirection takes the utilisation that the scale-down decision of the
\* pass is made from later.  No node is a target if nothing could be read, if
\* the metrics server reports more usage than the requests, or if the pods
\* would not fit.
Observe ==
  /\ pc = "observe" /\ pc' = "list"
  /\ \E nodes \in ListedNodes :
       target' \in {NoNode} \cup
         IF LowUtilization(nodes) /\ FitsOneFewer(nodes) THEN LeastUtilized(nodes) ELSE {}
  /\ UNCHANGED <<policy, md, templates, cache, mem, memMD, fresh, dryRun, basePlan,
                 pending, workloadVars, history>>

Unschedulable == {p \in Pod : podPhase[p] = "unschedulable"}
\* The pods left after those too large for the current plan are filtered out.
FittingPending == IF basePlan # NoTemplate /\ NodePoolsEnabled
                    THEN Unschedulable \ Oversized ELSE Unschedulable

\* What the pass has read of the workload cluster serves the branch without an
\* open drain only; it is forgotten elsewhere to keep states few.
GoTo(call) ==
  /\ pc' = call
  /\ IF call \in {"scale", "evict"} THEN UNCHANGED <<target, pending>>
     ELSE target' = NoNode /\ pending' = FALSE

\* reconcileHorizontal, first call.  Its error ends the horizontal part only.
ListPending ==
  /\ pc = "list"
  /\ \/ CanFail("workload") /\ GoTo("switch")
     \/ mem.drainingNode # NoNode /\ GoTo("drain")
     \/ /\ mem.drainingNode = NoNode /\ pc' = "scale"
        /\ pending' = (FittingPending # {}) /\ UNCHANGED target
  /\ UNCHANGED <<policy, md, templates, cache, mem, memMD, fresh, dryRun, basePlan,
                 workloadVars, history>>

(* A drain from an earlier pass is open.                                   *)
ForgetNodeOnly == [mem EXCEPT !.drainingNode = NoNode]   \* mutant
ForgetTimeOnly == [mem EXCEPT !.drainingAge = NoTime]    \* mutant
NotDraining == [mem EXCEPT !.drainingNode = NoNode, !.drainingAge = NoTime]

AbandonCordoned ==   \* mutant: the node stays cordoned
  /\ mem' = NotDraining /\ GoTo("switch")
  /\ UNCHANGED <<cordoned, claim>>
\* UncordonNode's error is logged and the drain is forgotten all the same.
AbandonDrain ==
  /\ mem' = NotDraining /\ GoTo("switch")
  /\ \/ /\ cordoned' = cordoned \ {mem.drainingNode}
        /\ claim' = [claim EXCEPT ![mem.drainingNode] =
                       IF @ = "owed" THEN "none" ELSE @]
     \/ CanFail("uncordon") /\ UNCHANGED <<cordoned, claim>>

NeverExpires == FALSE   \* mutant
DrainExpired == Since(mem.drainingAge, DrainTimeout)

DrainTimedOut ==
  /\ pc = "drain" /\ DrainExpired
  /\ AbandonDrain
  /\ UNCHANGED <<policy, md, templates, cache, memMD, fresh, dryRun, basePlan, machine,
                 machineTmpl, podPhase, podAt, sinceUp, sinceSwitch, switchedFrom>>

StillRunning ==   \* mutant: a terminating pod does not count
  {p \in PodsOn(mem.drainingNode) : podPhase[p] = "running"}
Remaining == PodsOn(mem.drainingNode)

\* GetNonSystemPodCount; a node that no longer exists has no pods.
CheckDrain ==
  /\ pc = "drain" /\ ~DrainExpired
  /\ \/ GoTo(IF Remaining = {} THEN "recheck" ELSE "switch")
     \/ CanFail("workload") /\ GoTo("switch")
  /\ UNCHANGED <<policy, md, templates, cache, mem, memMD, fresh, dryRun, basePlan,
                 workloadVars, history>>

\* The second ListPendingPods, which nothing filters.
RecheckPending ==
  /\ pc = "recheck"
  /\ \/ /\ Unschedulable = {} /\ GoTo("reduce")
        /\ UNCHANGED <<mem, cordoned, claim>>
     \/ Unschedulable # {} /\ AbandonDrain
     \/ CanFail("workload") /\ GoTo("switch") /\ UNCHANGED <<mem, cordoned, claim>>
  /\ UNCHANGED <<policy, md, templates, cache, memMD, fresh, dryRun, basePlan, machine,
                 machineTmpl, podPhase, podAt, sinceUp, sinceSwitch, switchedFrom>>

ReduceReplicas ==
  LET smaller == [memMD EXCEPT !.replicas = ClampToMin(@ - 1)] IN
  /\ pc = "reduce" /\ GoTo("switch")
  /\ \/ /\ PatchMD(smaller)
        /\ mem' = [NotDraining EXCEPT !.lastScaleAge = 0]
        /\ claim' = [claim EXCEPT ![mem.drainingNode] = "settled"]
     \/ PatchFails(smaller) /\ UNCHANGED <<mem, claim>>
  /\ UNCHANGED <<policy, templates, fresh, dryRun, basePlan, workloadVars,
                 sinceUp, sinceSwitch, switchedFrom>>

(* No drain is open.                                                       *)
NoSpareReady == memMD.replicas >= memMD.ready   \* mutant
RolloutInProgress == memMD.replicas > memMD.ready

\* A rollout that stalled is undone if the template before it is known.
RevertStalled ==
  LET reverted == [memMD EXCEPT !.tmpl = mem.prevTemplate] IN
  /\ pc = "scale" /\ RolloutInProgress
  /\ Since(mem.lastScaleAge, RolloutStallTimeout) /\ mem.prevTemplate # NoTemplate
  /\ GoTo("switch")
  /\ \/ PatchMD(reverted) /\ mem' = [mem EXCEPT !.prevTemplate = NoTemplate]
     \/ PatchFails(reverted) /\ UNCHANGED mem
  /\ UNCHANGED <<policy, templates, fresh, dryRun, basePlan, workloadVars, history>>

\* Waiting for nodes, or a stall that can only be reported.
AwaitRollout ==
  /\ pc = "scale" /\ RolloutInProgress
  /\ ~Since(mem.lastScaleAge, RolloutStallTimeout) \/ mem.prevTemplate = NoTemplate
  /\ GoTo("switch")
  /\ UNCHANGED <<policy, md, templates, cache, mem, memMD, fresh, dryRun, basePlan,
                 workloadVars, history>>

\* "Rollout completed successfully": what every later branch starts with.
RolloutDone == [mem EXCEPT !.prevTemplate = NoTemplate]

ScaleUp ==
  LET larger == [memMD EXCEPT !.replicas = @ + 1] IN
  /\ pc = "scale" /\ ~RolloutInProgress
  /\ pending /\ memMD.replicas < MaxReplicas /\ ~dryRun
  /\ GoTo("switch")
  /\ \/ /\ PatchMD(larger)
        /\ mem' = [RolloutDone EXCEPT !.lastScaleAge = 0]
        /\ sinceUp' = 0
     \/ PatchFails(larger) /\ mem' = RolloutDone /\ UNCHANGED sinceUp
  /\ UNCHANGED <<policy, templates, fresh, dryRun, basePlan, workloadVars,
                 claim, sinceSwitch, switchedFrom>>

NoStabilization ==   \* mutant
  ~pending /\ memMD.replicas > MinReplicas /\ target # NoNode
AtMinimum ==   \* mutant: off by one
  /\ ~pending /\ memMD.replicas >= MinReplicas
  /\ ~Within(mem.lastScaleAge, Stabilization) /\ target # NoNode
ScaleDownDue ==
  /\ ~pending /\ memMD.replicas > MinReplicas
  /\ ~Within(mem.lastScaleAge, Stabilization)
  /\ target # NoNode

KeepReplicas ==
  /\ pc = "scale" /\ ~RolloutInProgress
  /\ \/ pending /\ (memMD.replicas >= MaxReplicas \/ dryRun)
     \/ ~pending /\ (~ScaleDownDue \/ dryRun)
  /\ mem' = RolloutDone /\ GoTo("switch")
  /\ UNCHANGED <<policy, md, templates, cache, memMD, fresh, dryRun, basePlan,
                 workloadVars, history>>

\* CordonNode fails if the node is gone; then nothing else is done.
CordonTarget ==
  /\ pc = "scale" /\ ~RolloutInProgress /\ ScaleDownDue /\ ~dryRun
  /\ mem' = RolloutDone
  /\ \/ /\ machine[target] # "absent"
        /\ cordoned' = cordoned \cup {target}
        /\ claim' = [claim EXCEPT ![target] = "owed"]
        /\ GoTo("evict")
     \/ /\ machine[target] = "absent" \/ CanFail("workload")
        /\ GoTo("switch") /\ UNCHANGED <<cordoned, claim>>
  /\ UNCHANGED <<policy, md, templates, cache, memMD, fresh, dryRun, basePlan, machine,
                 machineTmpl, podPhase, podAt, sinceUp, sinceSwitch, switchedFrom>>

\* DrainNode: one eviction per pod; a refused one is logged and not retried.
EvictPods ==
  /\ pc = "evict" /\ GoTo("switch")
  /\ \/ \E gone \in IF CanFail("evict") THEN SUBSET PodsOn(target)
                    ELSE {PodsOn(target)} :
          /\ podPhase' = [p \in Pod |-> IF p \in gone THEN "terminating" ELSE podPhase[p]]
          /\ mem' = [mem EXCEPT !.drainingNode = target, !.drainingAge = 0]
     \/ CanFail("workload") /\ UNCHANGED <<podPhase, mem>>
  /\ UNCHANGED <<policy, md, templates, cache, memMD, fresh, dryRun, basePlan, machine,
                 machineTmpl, cordoned, podAt, claim, sinceUp, sinceSwitch, switchedFrom>>

(* Plan selection and switchPlan.                                          *)
\* shouldSwitch: some plan saves money over the current one.
OtherPlans == {t \in Template : basePlan # NoTemplate /\ t # basePlan}   \* mutant
WorthSwitching == {t \in Template : basePlan # NoTemplate /\ Price[t] < Price[basePlan]}

SkipCreate(t) == UNCHANGED templates   \* mutant
CreateTemplate(t) == templates' = templates \cup {t}
KeepFirst ==   \* mutant: an earlier rollback template is not replaced
  [mem EXCEPT !.prevTemplate = IF @ = NoTemplate THEN memMD.tmpl ELSE @]
RememberTemplate == [mem EXCEPT !.prevTemplate = memMD.tmpl]

SwitchPlan ==
  /\ pc = "switch" /\ pc' = "save" /\ ~dryRun
  /\ \E t \in WorthSwitching :
       LET switched == [memMD EXCEPT !.tmpl = t] IN
       /\ CreateTemplate(t) /\ mem' = RememberTemplate
       /\ \/ /\ PatchMD(switched)
             /\ sinceSwitch' = 0 /\ switchedFrom' = md.tmpl
          \/ PatchFails(switched) /\ UNCHANGED <<sinceSwitch, switchedFrom>>
  /\ UNCHANGED <<policy, fresh, dryRun, basePlan, target, pending, workloadVars,
                 claim, sinceUp>>

\* Select recommends the current plan or none, it is a dry run, or creating
\* the new template fails.
KeepPlan ==
  /\ pc = "switch" /\ pc' = "save"
  /\ UNCHANGED <<policy, md, templates, cache, mem, memMD, fresh, dryRun, basePlan, target,
                 pending, workloadVars, history>>

EndPass ==
  /\ pc' = "idle" /\ mem' = NewStatus /\ memMD' = InitMD /\ fresh' = FALSE
  /\ dryRun' = FALSE /\ basePlan' = NoTemplate /\ target' = NoNode /\ pending' = FALSE
  /\ UNCHANGED <<md, templates, workloadVars, history>>

\* Status().Update: a whole-object write that the API server refuses if the
\* policy has changed since the pass read it.
AlwaysAccepted == TRUE   \* mutant: no optimistic locking
Accepted == fresh
SaveStatus ==
  /\ pc = "save" /\ EndPass
  /\ IF Accepted THEN policy' = mem /\ CachePolicy(mem)
              ELSE UNCHANGED <<policy, cache>>

Crash == pc # "idle" /\ CanFail("crash") /\ EndPass /\ UNCHANGED <<policy, cache>>

Pass == \/ Begin \/ Observe \/ ListPending \/ DrainTimedOut \/ CheckDrain
        \/ RecheckPending \/ ReduceReplicas \/ RevertStalled \/ AwaitRollout
        \/ ScaleUp \/ KeepReplicas \/ CordonTarget \/ EvictPods
        \/ SwitchPlan \/ KeepPlan \/ SaveStatus

(***************************************************************************)
(* The rest of the management cluster.                                     *)
(***************************************************************************)
\* Another client writes the policy; its content here stays the same.
ForeignWrite ==
  /\ CanFail("conflict") /\ pc # "idle" /\ fresh
  /\ fresh' = FALSE /\ CachePolicy(policy)
  /\ UNCHANGED <<policy, md, templates, pc, mem, memMD, dryRun, basePlan, target, pending,
                 workloadVars, history>>

SyncCache ==
  /\ CanFail("stale")
  /\ \/ cache' = [cache EXCEPT !.policy = policy, !.latest = TRUE]
     \/ cache' = [cache EXCEPT !.md = md]
  /\ UNCHANGED <<policy, md, templates, passVars, workloadVars, history>>

\* The MachineDeployment controller writes status.readyReplicas when it runs.
ReportStatus ==
  /\ md.ready # Cardinality(Ready)
  /\ md' = [md EXCEPT !.ready = Cardinality(Ready)] /\ CacheMD(md')
  /\ UNCHANGED <<policy, templates, passVars, workloadVars, history>>

\* Node names are not reused while anything still refers to them.
Referenced(n) == n \in {policy.drainingNode, cache.policy.drainingNode,
                        mem.drainingNode, target}

\* Rolling update with maxSurge 1.
CreateMachine(n) ==
  /\ machine[n] = "absent" /\ ~Referenced(n)
  /\ Cardinality(Machines) < md.replicas + (IF Outdated = {} THEN 0 ELSE 1)
  /\ machine' = [machine EXCEPT ![n] = "booting"]
  /\ machineTmpl' = [machineTmpl EXCEPT ![n] = md.tmpl]
  /\ claim' = [claim EXCEPT ![n] = "none"]
  /\ UNCHANGED <<policy, md, templates, cache, passVars, cordoned, podPhase, podAt,
                 sinceUp, sinceSwitch, switchedFrom>>

BecomeReady(n) ==
  /\ machine[n] = "booting" /\ machineTmpl[n] \notin Broken
  /\ machine' = [machine EXCEPT ![n] = "ready"]
  /\ UNCHANGED <<policy, md, templates, cache, passVars, machineTmpl, cordoned,
                 podPhase, podAt, history>>

\* Cluster API picks the machine; nothing tells it which node was drained.
DeleteMachine(n) ==
  /\ n \in Machines /\ Cardinality(Machines) > md.replicas
  /\ Outdated # {} => /\ n \in Outdated
                      /\ n \in Ready => Cardinality(Ready) > md.replicas - MaxUnavailable
  /\ machine' = [machine EXCEPT ![n] = "absent"]
  /\ machineTmpl' = [machineTmpl EXCEPT ![n] = InitTemplate]
  /\ cordoned' = cordoned \ {n}
  /\ podPhase' = [p \in Pod |-> IF podAt[p] = n THEN "queued" ELSE podPhase[p]]
  /\ podAt' = [p \in Pod |-> IF podAt[p] = n THEN NoNode ELSE podAt[p]]
  /\ claim' = [claim EXCEPT ![n] = IF Referenced(n) THEN @ ELSE "none"]
  /\ UNCHANGED <<policy, md, templates, cache, passVars, sinceUp, sinceSwitch, switchedFrom>>

(***************************************************************************)
(* The workload cluster.                                                   *)
(***************************************************************************)
Schedulable(p) == IF p \in Oversized THEN {}
  ELSE {n \in Ready \ cordoned : Cardinality(PodsOn(n)) < NodeCapacity}

CreatePod(p) ==
  /\ podPhase[p] = "absent"
  /\ podPhase' = [podPhase EXCEPT ![p] = "queued"] /\ UNCHANGED podAt
BindPod(p) ==
  /\ podPhase[p] \in {"queued", "unschedulable"}
  /\ \E n \in Schedulable(p) : podAt' = [podAt EXCEPT ![p] = n]
  /\ podPhase' = [podPhase EXCEPT ![p] = "running"]
RejectPod(p) ==
  /\ podPhase[p] = "queued" /\ Schedulable(p) = {}
  /\ podPhase' = [podPhase EXCEPT ![p] = "unschedulable"] /\ UNCHANGED podAt
\* An evicted pod leaves its node, and its owner makes another.
ReplacePod(p) ==
  /\ podPhase[p] = "terminating"
  /\ podPhase' = [podPhase EXCEPT ![p] = "queued"]
  /\ podAt' = [podAt EXCEPT ![p] = NoNode]
FinishPod(p) ==
  /\ podPhase[p] \in {"queued", "unschedulable", "running"}
  /\ podPhase' = [podPhase EXCEPT ![p] = "absent"]
  /\ podAt' = [podAt EXCEPT ![p] = NoNode]
PodsOnly == UNCHANGED <<policy, md, templates, cache, passVars, machine, machineTmpl,
                        cordoned, claim, sinceUp, sinceSwitch, switchedFrom>>
PodStep == /\ \E p \in Pod : \/ CreatePod(p) \/ BindPod(p) \/ RejectPod(p)
                             \/ ReplacePod(p) \/ FinishPod(p)
           /\ PodsOnly

Aged(age) == IF age = NoTime \/ age = AgeCap THEN age ELSE age + 1
AgedStatus(s) == [s EXCEPT !.drainingAge = Aged(@), !.lastScaleAge = Aged(@)]
Tick ==
  /\ policy' = AgedStatus(policy) /\ mem' = AgedStatus(mem)
  /\ cache' = [cache EXCEPT !.policy = AgedStatus(@)]
  /\ sinceUp' = Aged(sinceUp) /\ sinceSwitch' = Aged(sinceSwitch)
  /\ UNCHANGED <<md, templates, pc, memMD, fresh, dryRun, basePlan, target, pending,
                 workloadVars, claim, switchedFrom>>

MachineStep == \E n \in Node : CreateMachine(n) \/ BecomeReady(n) \/ DeleteMachine(n)
Environment == \/ ForeignWrite \/ SyncCache \/ ReportStatus
               \/ MachineStep \/ PodStep \/ Tick

Next == Pass \/ Crash \/ Environment
Spec == Init /\ [][Next]_vars

(* controller-runtime requeues every pass, so the loop never stops; Cluster *)
(* API and the scheduler act on what stays to be done; the clock advances.  *)
(* Nobody is obliged to create or finish pods, to fail, or to write the     *)
(* policy.                                                                  *)
Fairness ==
  /\ WF_vars(Pass) /\ WF_vars(Tick) /\ WF_vars(ReportStatus)
  /\ \A n \in Node : /\ WF_vars(CreateMachine(n)) /\ WF_vars(BecomeReady(n))
                     /\ WF_vars(DeleteMachine(n))
  /\ \A p \in Pod : WF_vars((BindPod(p) \/ RejectPod(p) \/ ReplacePod(p)) /\ PodsOnly)
FairSpec == Spec /\ Fairness

-----------------------------------------------------------------------------
(***************************************************************************)
(* Properties.                                                             *)
(***************************************************************************)
DrainFieldsAgree(s) == s.drainingNode = NoNode <=> s.drainingAge = NoTime
StatusOK ==
  /\ policy \in Status /\ DrainFieldsAgree(policy)
  /\ mem \in Status /\ DrainFieldsAgree(mem)
  /\ cache.policy \in Status /\ DrainFieldsAgree(cache.policy)
  /\ cache = [policy |-> cache.policy, latest |-> cache.latest, md |-> cache.md]
DeploymentOK ==
  /\ md \in Deployment /\ memMD \in Deployment /\ cache.md \in Deployment
  /\ templates \subseteq Template
PassOK ==
  /\ pc \in Calls /\ fresh \in BOOLEAN /\ dryRun \in BOOLEAN /\ cache.latest \in BOOLEAN
  /\ pending \in BOOLEAN
  /\ basePlan \in Template \cup {NoTemplate}
  /\ target \in Node \cup {NoNode} /\ (pc = "evict" => target # NoNode)
MachinesOK ==
  /\ machine \in [Node -> {"absent", "booting", "ready"}]
  /\ machineTmpl \in [Node -> Template]
  /\ cordoned \subseteq Node
PodsOK ==
  /\ podPhase \in [Pod -> {"absent", "queued", "unschedulable", "running", "terminating"}]
  /\ podAt \in [Pod -> Node \cup {NoNode}]
  /\ \A p \in Pod : IF podPhase[p] \in {"running", "terminating"}
                     THEN podAt[p] \in Ready ELSE podAt[p] = NoNode
HistoryOK ==
  /\ claim \in [Node -> {"none", "owed", "settled"}]
  /\ sinceUp \in Age /\ sinceSwitch \in Age
  /\ switchedFrom \in Template \cup {NoTemplate}

\* Every variable holds a value of its kind; the two fields that record a drain
\* are set and cleared together; and a pod is bound to a node, one that is
\* ready, exactly while it runs or terminates.
TypeOK == StatusOK /\ DeploymentOK /\ PassOK /\ MachinesOK /\ PodsOK /\ HistoryOK

\* Whatever is lost, stale or refused, spec.replicas stays within the bounds
\* of spec.horizontal (scalingpolicy_controller.go:842-845, 958-961).
ReplicasInBounds == md.replicas \in MinReplicas .. MaxReplicas

\* The MachineDeployment never refers to a template that does not exist, and
\* neither does the template a stalled rollout would be reverted to
\* (scalingpolicy_controller.go:560-577, 892-895).
TemplatesExist ==
  {md.tmpl, policy.prevTemplate, mem.prevTemplate} \subseteq templates \cup {NoTemplate}

\* Between counting no pods on the drained node and reducing the replicas
\* no pod gets onto it, as long as it is cordoned (802-849).
EmptyAtReduce ==
  pc \in {"recheck", "reduce"} /\ mem.drainingNode \in cordoned
    => PodsOn(mem.drainingNode) = {}

\* Every replica taken away was paid for by draining a node, and no drain
\* pays twice (723-863).
OneDrainPerReduction ==
  [][md'.replicas < md.replicas => claim[mem.drainingNode] = "owed"]_vars

\* A cordoned node is being drained or has been given up for a replica;
\* no other node is left unschedulable (783-830, 1095-1108).
NoOrphanCordon ==
  \A n \in cordoned : \/ claim[n] = "settled"
                       \/ n \in {policy.drainingNode, mem.drainingNode}
                       \/ (pc = "evict" /\ n = target)

\* As long as every pass gets its status written and reads the latest one (no
\* "conflict", "crash" or "stale"), no node is cordoned within the stabilization
\* window of the last scale-up, whatever other drains, rollouts and failed calls
\* lie between.  The window is kept in the status only: a pass that scales up and
\* loses its status write loses the window with it (1017-1030).
StabilizationHonoured ==
  [][pc = "scale" /\ pc' = "evict" => ~Within(sinceUp, Stabilization)]_vars

\* The pass, its crashes aside, does what ScaleDown promises: the status and
\* the copy a pass works on are one drain record (723-1132, 406-408).
Victim == IF pc = "idle" THEN policy.drainingNode ELSE mem.drainingNode
Promise == INSTANCE ScaleDown WITH replicas <- md.replicas, victim <- Victim
RefinesScaleDown == Promise!Spec

\* An open drain is completed, aborted or timed out: it never blocks
\* horizontal scaling for good (779-863).
DrainResolves == policy.drainingNode # NoNode ~> policy.drainingNode = NoNode

\* An unschedulable pod that a node could hold is scheduled or goes away,
\* unless the pool has grown to its limit (944-1001).
PendingPodServed ==
  \A p \in Pod \ Oversized :
    podPhase[p] = "unschedulable" ~>
      podPhase[p] # "unschedulable" \/ md.replicas = MaxReplicas

\* Reverting a stalled rollout puts back the template that the last plan switch
\* replaced, although the pointer to it is a field of the status and the switch
\* a patch of the deployment (scalingpolicy_controller.go:574, 892-899).
RevertUndoesLastSwitch ==
  [][pc = "scale" /\ md'.tmpl # md.tmpl => md'.tmpl = switchedFrom]_vars

\* The pass does with the plan what Rollout promises, even when it reverts a
\* stalled switch and selects another plan right after it, by the price of the
\* plan it found at its start (346-349, 574, 892-899, 941-943).
LastPrev == IF pc = "idle" THEN policy.prevTemplate ELSE mem.prevTemplate
Plans == INSTANCE Rollout WITH plan <- md.tmpl, undo <- LastPrev
RefinesRollout == Plans!Spec

-----------------------------------------------------------------------------
(***************************************************************************)
(* What the documentation promises and the code does not keep.             *)
(***************************************************************************)
\* "Detects when readyReplicas < currentReplicas for >15 minutes. For vertical
\* stalls (plan switch), auto-reverts" (architecture.html:763).
RevertOnlyAfterStall ==
  [][pc = "scale" /\ md'.tmpl # md.tmpl => Since(sinceSwitch, RolloutStallTimeout)]_vars
=============================================================================
