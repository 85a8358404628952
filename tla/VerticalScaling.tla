-------------------------- MODULE VerticalScaling --------------------------
(***************************************************************************)
(* Which plan the pool should run on: Calculate and determineDirection,    *)
(* the simulation of a scale-down, Select with its scores, and the switch. *)
(* Between the passes pods come and go, and so do nodes: a switch rolls    *)
(* through the pool, the horizontal scaler resizes it, machines fail.      *)
(*                                                                         *)
(* A pass reads the workload cluster once, at its start, and decides on    *)
(* that copy, so what happens there during a pass is left to the time      *)
(* after it.                                                               *)
(***************************************************************************)
EXTENDS Simulator, FiniteSetsExt

CONSTANTS
  Plan,         \* the plans known to the pricing cache
  Offered,      \* those of spec.allowedCategories
  PlanSpec,     \* PlanSpec[p]: its cpu, ram, ssd and monthly price
  Allocatable,  \* Allocatable[p]: what the kubelet of a machine of plan p reports
  InitPlan, NoPlan,
  NodeName, NoNode,
  MinReplicas, MaxReplicas,  \* of spec.horizontal
  Constraints,  \* spec.constraints
  MinSavingsPercent, ScaleUpThreshold, ScaleDownThreshold,
  Usage,        \* the percentages of CPU and memory that metrics-server may report
  Unknowns      \* what a pass may fail to do, see below

(* "workload": read the workload cluster, or one of the nodes;             *)
(* "metrics": read metrics-server; "plan": find the current plan in the    *)
(* pricing cache; "switch": patch the MachineDeployment.                   *)

ASSUME PlansAssumption ==
  /\ IsFiniteSet(Plan) /\ Offered \subseteq Plan
  /\ InitPlan \in Plan /\ NoPlan \notin Plan
  /\ PlanSpec \in [Plan -> [cpu : Nat, ram : Nat, ssd : Nat, price : Nat]]
  /\ Allocatable \in [Plan -> Resources]
ASSUME NodesAssumption ==
  /\ IsFiniteSet(NodeName) /\ NoNode \notin NodeName
  /\ MinReplicas \in Nat \ {0} /\ MaxReplicas \in Nat /\ MinReplicas <= MaxReplicas
ASSUME SpecAssumption ==
  /\ MinSavingsPercent \in Nat \ {0}
  /\ ScaleUpThreshold \in 1 .. 100 /\ ScaleDownThreshold \in 1 .. 99
  /\ Constraints \in [minCPU : Nat, maxCPU : Nat, minRAM : Nat, maxRAM : Nat,
                      minSSD : Nat, excluded : SUBSET Plan]
  /\ Usage \subseteq [cpu : 0 .. 100, mem : 0 .. 100]
  /\ Unknowns \subseteq {"workload", "metrics", "plan", "switch"}

VARIABLES
  nodes,     \* nodes[n]: the plan that node n was made with, NoPlan without n
  at,        \* at[p]: the node that pod p runs on, or NoNode
  plan,      \* the plan of the MachineDeployment's template
  replicas,  \* of the MachineDeployment
  vpc,       \* what the pass is at; "idle" between passes
  known,     \* the pass found the current plan in the pricing cache
  listed,    \* utilResult.Nodes; none when utilResult is nil
  quiet,     \* both effective percentages are below the scale-down threshold
  direction, \* what determineDirection returned
  first,     \* utilResult.Nodes[0] while a drain is simulated
  uncounted, \* the listed nodes whose requests are not in `sum` yet
  sum,       \* totalReqCPU and totalReqRAM, the latter in MB
  weights,   \* the scores' weights, in tenths, by spec.aggressiveness
  unseen,    \* the plans Select has not looked at
  best       \* bestPlan

cluster == <<nodes, at, plan, replicas>>
passVars == <<vpc, known, listed, quiet, direction, first, uncounted, sum, weights,
              unseen, best>>
vars == <<cluster, passVars, simVars>>

Moderate == [price |-> 5, fit |-> 3, headroom |-> 2]
WeightsForAggressiveness ==
  {[price |-> 3, fit |-> 3, headroom |-> 4], Moderate, [price |-> 7, fit |-> 2, headroom |-> 1]}

Present == {n \in NodeName : nodes[n] # NoPlan}
PodsOn(N) == {p \in SimPod : at[p] \in N}

Init ==
  /\ nodes = [n \in NodeName |-> NoPlan] /\ at = [p \in SimPod |-> NoNode]
  /\ plan = InitPlan /\ replicas = MinReplicas
  /\ vpc = "idle" /\ known = TRUE /\ listed = {} /\ quiet = FALSE /\ direction = "any"
  /\ first = NoNode /\ uncounted = {} /\ sum = Nothing
  /\ weights = Moderate /\ unseen = {} /\ best = NoPlan
  /\ NoSimulation

(***************************************************************************)
(* Utilisation: requests over allocatable of the nodes N, and the metrics. *)
(***************************************************************************)
NoMetrics == [cpu |-> -1, mem |-> -1]
Metrics == Usage \cup {m \in {NoMetrics} : "metrics" \in Unknowns}
Available(m) == m # NoMetrics

TotalAllocatable(N, r) == MapThenSumSet(LAMBDA n : Allocatable[nodes[n]][r], N)
\* Comparing 100 * requested / allocatable with a threshold; 0 over 0 is 0.
ScheduledAbove(N, r, t) == 100 * Requested[PodsOn(N)][r] > t * TotalAllocatable(N, r)
ScheduledBelow(N, r, t) == \/ TotalAllocatable(N, r) = 0
                           \/ 100 * Requested[PodsOn(N)][r] < t * TotalAllocatable(N, r)

NeedsUpscale(N, m) ==
  \E r \in {"cpu", "mem"} : \/ ScheduledAbove(N, r, ScaleUpThreshold)
                            \/ Available(m) /\ m[r] > ScaleUpThreshold
NeedsDownscale(N, m) ==
  \A r \in {"cpu", "mem"} : \/ ScheduledBelow(N, r, ScaleDownThreshold)
                            \/ Available(m) /\ m[r] < ScaleDownThreshold
\* What the horizontal scale-down asks of the same figures.
EffectivelyBelow(N, m) ==
  \A r \in {"cpu", "mem"} : /\ ScheduledBelow(N, r, ScaleDownThreshold)
                            /\ Available(m) => m[r] < ScaleDownThreshold

(***************************************************************************)
(* determineDirection.                                                     *)
(***************************************************************************)
ResolveCurrentPlan == known' \in {TRUE} \cup {b \in {FALSE} : "plan" \in Unknowns}
\* ListNodes leaves out a node that it cannot get; no node at all is an error.
Listings == {N \in SUBSET Present : N # {} /\ (N = Present \/ "workload" \in Unknowns)}
Measure(N, m) ==
  /\ vpc = "idle" /\ ResolveCurrentPlan
  /\ listed' = N /\ quiet' = EffectivelyBelow(N, m)
  /\ UNCHANGED <<cluster, first, uncounted, sum, weights, unseen, best>>

\* The first turn of the loop that sums up what the nodes' pods request.
BeginAverage == vpc' = "average" /\ uncounted' = listed

\* The pass goes on without the figures of the workload cluster.
WithoutUtilization ==
  /\ vpc = "idle" /\ (Present = {} \/ "workload" \in Unknowns)
  /\ ResolveCurrentPlan /\ BeginAverage
  /\ UNCHANGED <<cluster, listed, quiet, direction, first, sum, weights, unseen, best, simVars>>

TriggerUpscale ==
  /\ \E N \in Listings, m \in Metrics : Measure(N, m) /\ NeedsUpscale(N, m)
  /\ direction' = "up" /\ vpc' = "horizontal" /\ UNCHANGED simVars

\* The plan simulated is the current one.
TriggerDownscale ==
  /\ \E N \in Listings, m \in Metrics :
       /\ Measure(N, m) /\ ~NeedsUpscale(N, m) /\ NeedsDownscale(N, m)
       /\ Simulate(PodsOn(N), Capacity(PlanSpec[plan].cpu, PlanSpec[plan].ram), replicas)
  /\ known' /\ vpc' = "downscale" /\ UNCHANGED direction

InRange ==
  /\ \E N \in Listings, m \in Metrics : /\ Measure(N, m) /\ ~NeedsUpscale(N, m)
                                        /\ known' => ~NeedsDownscale(N, m)
  /\ direction' = "any" /\ vpc' = "horizontal" /\ UNCHANGED simVars

DecideDownscale ==
  /\ vpc = "downscale" /\ Simulated
  /\ direction' = IF Safe THEN "down" ELSE "any"
  /\ vpc' = "horizontal" /\ EndSimulation
  /\ UNCHANGED <<cluster, known, listed, quiet, first, uncounted, sum, weights, unseen, best>>

(***************************************************************************)
(* The simulation that comes before a drain, on one node less.             *)
(***************************************************************************)
RoundedUp(n) == [cpu |-> (n.cpu + KubeletCPU + Core - 1) \div Core,   \* mutant
                 ram |-> (n.mem + KubeletRAM * MB) \div MB]
\* The plan made up from what the first node reports.
SyntheticPlan(n) == [cpu |-> (n.cpu + KubeletCPU) \div Core,
                     ram |-> (n.mem + KubeletRAM * MB) \div MB]
SyntheticCapacity(n) == LET s == SyntheticPlan(n) IN Capacity(s.cpu, s.ram)

\* The order of utilResult.Nodes is that of the machines in the informer.
SimulateReduction ==
  /\ vpc = "horizontal" /\ quiet /\ replicas > MinReplicas
  /\ first' \in listed
  /\ Simulate(PodsOn(listed), SyntheticCapacity(Allocatable[nodes[first']]), replicas - 1)
  /\ vpc' = "reduction"
  /\ UNCHANGED <<cluster, known, listed, quiet, direction, uncounted, sum, weights, unseen, best>>

EndHorizontal ==
  /\ BeginAverage /\ quiet' = FALSE /\ first' = NoNode
  /\ UNCHANGED <<cluster, known, listed, direction, sum, weights, unseen, best>>
\* A drain begins or does not; either way the pass goes on to select a plan.
EndReduction == vpc = "reduction" /\ Simulated /\ EndSimulation /\ EndHorizontal
\* Nothing to reduce, or another guard of reconcileHorizontal stops it.
NoReduction == vpc = "horizontal" /\ EndHorizontal /\ UNCHANGED simVars

SimulationStep ==
  /\ vpc \in {"downscale", "reduction"} /\ (PlacePod \/ BlockPod)
  /\ UNCHANGED <<cluster, passVars>>

(***************************************************************************)
(* What one node of the chosen plan has to hold: the average of the nodes  *)
(* listed, as far as there are any.                                        *)
(***************************************************************************)
WholeMB(t) == [cpu |-> t.cpu, mem |-> t.mem \div MB]
CountNode ==
  /\ vpc = "average"
  /\ \E n \in uncounted : /\ uncounted' = uncounted \ {n}
                          /\ sum' = Plus(sum, WholeMB(Requested[PodsOn({n})]))
  /\ UNCHANGED <<cluster, vpc, known, listed, quiet, direction, first, weights, unseen, best,
                 simVars>>

AtLeast(a, b) == [cpu |-> Max({a.cpu, b.cpu}), mem |-> Max({a.mem, b.mem})]
StaticMinimum == [cpu |-> Constraints.minCPU * Core, mem |-> Constraints.minRAM]
PerReplica == [cpu |-> sum.cpu \div replicas, mem |-> sum.mem \div replicas]   \* mutant
PerNode == [cpu |-> sum.cpu \div Cardinality(listed), mem |-> sum.mem \div Cardinality(listed)]

Required == IF listed = {} THEN StaticMinimum ELSE AtLeast(StaticMinimum, PerNode)

(***************************************************************************)
(* Select.                                                                 *)
(***************************************************************************)
\* It starts from the first plan, with no plan chosen.
BeginSelect ==
  /\ vpc = "average" /\ uncounted = {}
  /\ vpc' = "select" /\ unseen' = Offered /\ best' = NoPlan
  /\ weights' \in WeightsForAggressiveness
  /\ UNCHANGED <<cluster, known, listed, quiet, direction, first, uncounted, sum, simVars>>

\* In units of CPU and in MB.
PlanCapacity(p) == [cpu |-> AtLeastZero(PlanSpec[p].cpu * Core - KubeletCPU),
                    mem |-> AtLeastZero(PlanSpec[p].ram - KubeletRAM)]

Unknown == [cpu |-> 0, ram |-> 0, ssd |-> 0, price |-> 0]
Current == IF known THEN PlanSpec[plan] ELSE Unknown

InDirection(s) ==
  /\ direction = "up" => s.cpu > Current.cpu \/ s.ram > Current.ram
  /\ direction = "down" => s.cpu < Current.cpu \/ s.ram < Current.ram
Candidate(p) ==
  LET s == PlanSpec[p]
  IN /\ p \notin Constraints.excluded
     /\ s.cpu \in Constraints.minCPU .. Constraints.maxCPU
     /\ s.ram \in Constraints.minRAM .. Constraints.maxRAM
     /\ s.ssd >= Constraints.minSSD
     /\ InDirection(s)
     /\ Within(Required, PlanCapacity(p))

(***************************************************************************)
(* Scores are fractions, compared without rounding.                        *)
(***************************************************************************)
Zero == [num |-> 0, den |-> 1]
Higher(s, t) == s.num * t.den > t.num * s.den

\* price / priceMonthly + fit * f + headroom * (1 - f), where f is the mean of
\* the shares of CPU and memory in use, cut off at 1: used / all.
ScorePlan(p) ==
  LET c == PlanCapacity(p)
      price == PlanSpec[p].price
      all == 2 * c.cpu * c.mem
      used == Min({all, Required.cpu * c.mem + Required.mem * c.cpu})
  IN IF c.cpu = 0 \/ c.mem = 0 \/ price = 0 THEN Zero
     ELSE [num |-> weights.price * all
                   + price * (weights.fit * used + weights.headroom * (all - used)),
           den |-> price * all]
BestScore == IF best = NoPlan THEN Zero ELSE ScorePlan(best)

AnyCandidate(p) == Candidate(p)   \* mutant: the last candidate
Improves(p) == Candidate(p) /\ Higher(ScorePlan(p), BestScore)

\* One turn of the loop; the plans come in the order of the API's answer,
\* which decides between equal scores.
ConsiderPlan ==
  /\ vpc = "select"
  /\ \E p \in unseen : /\ unseen' = unseen \ {p}
                       /\ best' = IF Improves(p) THEN p ELSE best
  /\ UNCHANGED <<cluster, vpc, known, listed, quiet, direction, first, uncounted, sum, weights,
                 simVars>>

(***************************************************************************)
(* The switch.  Select lowers the savings it asks for when scaling up, its *)
(* caller does not.                                                        *)
(***************************************************************************)
Cheaper(p) == Current.price > PlanSpec[p].price   \* mutant
Saves(p) == /\ Current.price > 0
            /\ 100 * (Current.price - PlanSpec[p].price)
                 >= MinSavingsPercent * Current.price
ShouldSwitch == best # NoPlan /\ ~(known /\ best = plan) /\ Saves(best)

EndPass ==
  /\ vpc' = "idle" /\ known' = TRUE /\ listed' = {} /\ direction' = "any" /\ sum' = Nothing
  /\ weights' = Moderate /\ best' = NoPlan
  /\ UNCHANGED <<nodes, at, replicas, quiet, first, uncounted, unseen, simVars>>
Selected == vpc = "select" /\ unseen = {}

SwitchPlan == Selected /\ ShouldSwitch /\ plan' = best /\ EndPass
\* Nothing to gain, a dry run, or a call of switchPlan that fails.
KeepPlan ==
  /\ Selected /\ (~ShouldSwitch \/ "switch" \in Unknowns)
  /\ UNCHANGED plan /\ EndPass

(***************************************************************************)
(* The workload cluster between two passes.                                *)
(***************************************************************************)
PodStarts ==
  /\ vpc = "idle"
  /\ \E p \in SimPod, n \in Present :
       /\ at[p] = NoNode /\ Within(Requested[PodsOn({n}) \cup {p}], Allocatable[nodes[n]])
       /\ at' = [at EXCEPT ![p] = n]
  /\ UNCHANGED <<nodes, plan, replicas, passVars, simVars>>
PodEnds ==
  /\ vpc = "idle"
  /\ \E p \in SimPod : at[p] # NoNode /\ at' = [at EXCEPT ![p] = NoNode]
  /\ UNCHANGED <<nodes, plan, replicas, passVars, simVars>>
\* A machine joins when there are too few, and a rollout makes the new one
\* before the old one goes (maxSurge 1).
NodeJoins ==
  /\ vpc = "idle"
  /\ \/ Cardinality(Present) < replicas
     \/ Cardinality(Present) = replicas /\ \E n \in Present : nodes[n] # plan
  /\ \E n \in NodeName \ Present : nodes' = [nodes EXCEPT ![n] = plan]
  /\ UNCHANGED <<at, plan, replicas, passVars, simVars>>
\* The rollout or a smaller number of replicas takes a machine away, or it fails.
NodeLeaves ==
  /\ vpc = "idle"
  /\ \E n \in Present : /\ nodes' = [nodes EXCEPT ![n] = NoPlan]
                        /\ at' = [p \in SimPod |-> IF at[p] = n THEN NoNode ELSE at[p]]
  /\ UNCHANGED <<plan, replicas, passVars, simVars>>
\* What the horizontal scaler does in the end.
Resize ==
  /\ vpc = "idle" /\ replicas' \in MinReplicas .. MaxReplicas
  /\ replicas' \in {replicas - 1, replicas + 1}
  /\ UNCHANGED <<nodes, at, plan, passVars, simVars>>

Reads == WithoutUtilization \/ TriggerUpscale \/ TriggerDownscale \/ InRange
Horizontal == SimulateReduction \/ EndReduction \/ NoReduction
Decides == CountNode \/ BeginSelect \/ ConsiderPlan \/ SwitchPlan \/ KeepPlan
Between == PodStarts \/ PodEnds \/ NodeJoins \/ NodeLeaves \/ Resize
Next == Reads \/ DecideDownscale \/ SimulationStep \/ Horizontal \/ Decides \/ Between
Spec == Init /\ [][Next]_vars

-----------------------------------------------------------------------------
(***************************************************************************)
(* Properties.                                                             *)
(***************************************************************************)
VirtualNodes == CASE vpc = "downscale" -> 1 .. replicas
                  [] vpc = "reduction" -> 1 .. replicas - 1
                  [] OTHER -> {}
\* The variables hold values of their kind; no virtual node has been given more
\* than it has, and a plan that is chosen is one that is offered.
VTypeOK ==
  /\ nodes \in [NodeName -> Plan \cup {NoPlan}] /\ at \in [SimPod -> NodeName \cup {NoNode}]
  /\ plan \in Plan /\ replicas \in MinReplicas .. MaxReplicas
  /\ vpc \in {"idle", "downscale", "horizontal", "reduction", "average", "select"}
  /\ known \in BOOLEAN /\ quiet \in BOOLEAN /\ direction \in {"any", "up", "down"}
  /\ listed \subseteq (IF vpc = "idle" THEN {} ELSE Present)
  /\ uncounted \subseteq (IF vpc = "average" THEN listed ELSE {})
  /\ first \in (IF vpc = "reduction" THEN listed ELSE {NoNode})
  /\ sum \in Resources
  /\ weights \in WeightsForAggressiveness
  /\ unseen \subseteq Offered /\ best \in Offered \cup {NoPlan}
  /\ left \subseteq SimPod /\ blocking \subseteq SimPod
  /\ room \in [VirtualNodes -> Resources]
  /\ DOMAIN home \subseteq SimPod
  /\ \A p \in DOMAIN home : home[p] \in VirtualNodes

Workload == {p \in PodsOn(listed) : PodSpec[p].kind \notin {"DaemonSet", "mirror"}}
Remaining(R) ==
  /\ R \subseteq Present /\ Cardinality(R) = replicas - 1
  /\ \A n \in R : Within(Allocatable[nodes[first]], Allocatable[nodes[n]])
\* A simulation that calls a scale-down safe is right about the workload pods of
\* the nodes listed: each may run on the pool's nodes, and there is a way to
\* place them all, before a plan is changed on as many nodes of the plan
\* simulated as there are replicas, and before a node is drained on whatever
\* real nodes remain, one fewer than the replicas.  As all nodes are taken to be
\* like the first, that holds only of nodes that are no smaller than it, which in
\* a rollout need not be all; and what DaemonSets and static pods take is left
\* aside (simulator.go:76-186, scalingpolicy_controller.go:681, 1045-1058).
SafeMeansFit ==
  Simulated /\ Safe =>
    /\ vpc = "downscale" =>
         Fit(Workload, [v \in 1 .. replicas |-> Capacity(PlanSpec[plan].cpu, PlanSpec[plan].ram)])
    /\ vpc = "reduction" =>
         \A R \in SUBSET NodeName :
           Remaining(R) => Fit(Workload, [n \in R |-> Allocatable[nodes[n]]])
    /\ vpc \in {"downscale", "reduction"} => \A p \in Workload : Admitted(p)

\* When one node is to remain, a simulation that blocks the scale-down is right
\* too: the pods do not fit on what it takes that node to have
\* (simulator.go:129-172).
BlockedMeansNoFit ==
  vpc = "reduction" /\ replicas = 2 /\ Simulated /\ ~Safe =>
    \/ \E q \in Workload : ~Admitted(q)
    \/ ~Fit(Workload, [v \in {1} |-> SyntheticCapacity(Allocatable[nodes[first]])])

\* Whatever the order of the plans, the one chosen has a score that no other
\* candidate beats, and none is chosen only if no candidate scores
\* (selector.go:80-135).
BestIsChosen ==
  Selected => /\ best # NoPlan => Candidate(best)
              /\ \A p \in Offered : Candidate(p) => ~Higher(ScorePlan(p), BestScore)

\* A pass that has read the workload cluster never takes the pool to a plan of
\* which as many nodes as it listed hold less than the pods on those request.
\* What is lost in rounding is less than one unit of CPU a node, and two MB:
\* one where a node's bytes become MB, one in the average
\* (scalingpolicy_controller.go:284-302, selector.go:118-121).
SwitchHoldsTotal ==
  [][plan' # plan /\ listed # {} =>
       LET count == Cardinality(listed)
           capacity == PlanCapacity(plan')
           request == Requested[PodsOn(listed)]
       IN /\ request.cpu < count * (capacity.cpu + 1)
          /\ request.mem < count * (capacity.mem + 2) * MB]_vars

\* A change of plan saves at least minSavingsPercent of what the pool's plan
\* costs, whatever the direction and whatever the pass could not read, and the
\* new plan is an allowed one within every one of the policy's constraints
\* (scalingpolicy_controller.go:347-349, selector.go:85-121).
SwitchSaves ==
  [][plan' # plan =>
       LET from == PlanSpec[plan]
           to == PlanSpec[plan']
       IN /\ 100 * (from.price - to.price) >= MinSavingsPercent * from.price
          /\ plan' \in Offered \ Constraints.excluded
          /\ to.cpu \in Constraints.minCPU .. Constraints.maxCPU
          /\ to.ram \in Constraints.minRAM .. Constraints.maxRAM
          /\ to.ssd >= Constraints.minSSD]_vars

\* docs: utilisation above the threshold gets a bigger plan, with the savings
\* threshold relaxed to 0 (scalingpolicy_types.go:87-88,
\* docs/architecture.html:359, 938).
UpscaleTakesBiggerPlan ==
  [][Selected /\ direction = "up" /\ best # NoPlan => plan' = best]_vars

\* docs: a smaller plan is taken only if a scheduling simulation confirms that
\* all pods fit on it (scalingpolicy_types.go:95-96,
\* docs/architecture.html:360, 937).
DownscaleFits ==
  [][plan' # plan /\ known /\ PlanSpec[plan'].cpu < Current.cpu =>
       Fit(Workload, [v \in 1 .. replicas |->
                        Capacity(PlanSpec[plan'].cpu, PlanSpec[plan'].ram)])]_vars
=============================================================================
