--------------------------- MODULE VerticalProofs ---------------------------
(***************************************************************************)
(* What a safe simulation and a change of plan guarantee, for every set of *)
(* pods, every catalogue of plans, every policy and however the nodes and  *)
(* pods of the pool change between the passes.                             *)
(*                                                                         *)
(* The simulation is followed by keeping account of each virtual node:     *)
(* what it has left and what its pods request make up its capacity.  The   *)
(* loops over the nodes and over the plans are followed by what they have  *)
(* established about those they have been through.                         *)
(***************************************************************************)
EXTENDS VerticalScaling, FiniteSetTheorems, TLAPS

Simulating == vpc \in {"downscale", "reduction"}
Machine(p) == Capacity(PlanSpec[p].cpu, PlanSpec[p].ram)
SimCapacity == IF vpc = "downscale" THEN Machine(plan)
               ELSE SyntheticCapacity(Allocatable[nodes[first]])
Placed(v) == {p \in DOMAIN home : home[p] = v}

\* Every movable pod is still to be placed, blocked or at home on a node that
\* admits it, and no virtual node has lost or gained any of its capacity.
Accounted ==
  Simulating =>
    /\ left \cup blocking \cup DOMAIN home = Movable(PodsOn(listed))
    /\ left \cap DOMAIN home = {}
    /\ \A v \in VirtualNodes : Plus(Requested[Placed(v)], room[v]) = SimCapacity
    /\ \A p \in DOMAIN home : Admitted(p)

\* The sums are those of the nodes counted so far; each may have lost up to an
\* MB when its bytes became MB.
Counted == listed \ uncounted
Summed ==
  IF vpc \in {"average", "select"}
  THEN /\ sum.cpu = Requested[PodsOn(Counted)].cpu
       /\ Requested[PodsOn(Counted)].mem <= (sum.mem + Cardinality(Counted)) * MB
  ELSE sum = Nothing

\* The plan chosen so far is a candidate that no plan seen so far beats.
BestSoFar ==
  vpc = "select" =>
    /\ best # NoPlan => Candidate(best)
    /\ \A p \in Offered \ unseen : Candidate(p) => ~Higher(ScorePlan(p), BestScore)

\* Once a pod is blocked on the only virtual node, some blocked pod may not run
\* there or the pods dealt with so far are more than it holds.
BlockedForGood ==
  vpc = "reduction" /\ replicas = 2 =>
    \/ blocking = {}
    \/ \E q \in blocking : ~Admitted(q)
    \/ ~Within(Requested[DOMAIN home \cup blocking], SimCapacity)

VInv == VTypeOK /\ Accounted /\ Summed /\ BestSoFar /\ BlockedForGood

-----------------------------------------------------------------------------
(***************************************************************************)
(* Arithmetic.                                                             *)
(***************************************************************************)
LEMMA AtLeastZeroType == ASSUME NEW n \in Int
                         PROVE  AtLeastZero(n) \in Nat /\ AtLeastZero(n) >= n
BY DEF AtLeastZero

LEMMA ProductType == ASSUME NEW a \in Nat, NEW b \in Nat PROVE a * b \in Nat
BY SMT

LEMMA ProductPositive == ASSUME NEW a \in Nat \ {0}, NEW b \in Nat \ {0}
                         PROVE  a * b \in Nat \ {0}
BY SMT

LEMMA CapacityType == ASSUME NEW cpu \in Nat, NEW ram \in Nat
                      PROVE  Capacity(cpu, ram) \in Resources
<1>1. cpu * Core - KubeletCPU \in Int /\ (ram - KubeletRAM) * MB \in Int
  BY UnitsAssumption, SMT
<1> QED BY <1>1, AtLeastZeroType DEF Capacity, Resources

LEMMA MaxOfTwo == ASSUME NEW a \in Nat, NEW b \in Nat
                  PROVE  Max({a, b}) \in Nat /\ Max({a, b}) >= a /\ Max({a, b}) >= b
<1>1. \E x \in {a, b} : \A y \in {a, b} : x >= y
  BY SMT
<1> QED BY <1>1 DEF Max

LEMMA MinOfTwo == ASSUME NEW a \in Nat, NEW b \in Nat
                  PROVE  Min({a, b}) \in Nat /\ Min({a, b}) <= a /\ Min({a, b}) <= b
<1>1. \E x \in {a, b} : \A y \in {a, b} : x <= y
  BY SMT
<1> QED BY <1>1 DEF Min

\* Dividing by the number of nodes and rounding down loses less than one unit
\* for each node.
LEMMA AverageBound ==
  ASSUME NEW t \in Nat, NEW n \in Nat \ {0}, NEW c \in Nat, t \div n <= c
  PROVE  t < n * (c + 1)
<1> DEFINE q == t \div n
<1>1. q \in Int /\ t % n \in 0 .. (n - 1) /\ t = n * q + (t % n)
  BY SMT
<1>2. n * q <= n * c
  BY <1>1, SMT
<1>3. n * (c + 1) = n * c + n
  BY SMT
<1> HIDE DEF q
<1>4. n * q \in Int /\ n * c \in Int
  BY <1>1, SMT
<1> QED BY <1>1, <1>2, <1>3, <1>4, SMT

LEMMA FloorOf == ASSUME NEW k \in Nat, NEW n \in Nat \ {0}
                 PROVE  (k \div n) * n <= k /\ k \div n \in Nat
<1> DEFINE q == k \div n
<1>1. q \in Int /\ k % n \in 0 .. (n - 1) /\ k = n * q + (k % n)
  BY SMT
<1>2. q \in Nat
  BY SMT
<1> HIDE DEF q
<1>3. n * q = q * n
  BY <1>2, SMT
<1>4. n * q \in Nat
  BY <1>2, ProductType
<1>5. q * n <= k
  BY <1>1, <1>3, <1>4, SMT
<1> QED BY <1>2, <1>5 DEF q

\* What is lost in cutting an amount down to whole units is less than one unit.
LEMMA NextUnit == ASSUME NEW k \in Nat, NEW n \in Nat \ {0}
                  PROVE  k <= (k \div n + 1) * n
<1> DEFINE q == k \div n
<1>1. q \in Int /\ k % n \in 0 .. (n - 1) /\ k = n * q + (k % n)
  BY SMT
<1> HIDE DEF q
<1>2. (q + 1) * n = n * q + n /\ n * q \in Int
  BY <1>1, SMT
<1>3. k <= (q + 1) * n
  BY <1>1, <1>2
<1> QED BY <1>3 DEF q

\* Reading an amount and what the kubelet keeps back as a whole number of units
\* never adds to it.
LEMMA RoundedDown ==
  ASSUME NEW a \in Nat, NEW back \in Nat, NEW unit \in Nat \ {0}
  PROVE  /\ (a + back) \div unit \in Nat
         /\ ((a + back) \div unit) * unit - back <= a
<1> DEFINE k == a + back
           q == k \div unit
<1>1. k \in Nat
  OBVIOUS
<1>2. q * unit <= k /\ q \in Nat
  BY <1>1, FloorOf
<1>3. q * unit \in Nat
  BY <1>2, ProductType
<1> HIDE DEF q
<1>4. q * unit - back <= a
  BY <1>2, <1>3
<1> QED BY <1>2, <1>4 DEF q

\* The node made up for the simulation of a drain has no more room than the
\* real one, neither in CPU nor in memory, although both are read as whole units
\* and turned back (scalingpolicy_controller.go:1052-1055, simulator.go:97-98).
THEOREM SyntheticNodeIsNoLarger ==
  ASSUME NEW p \in Plan
  PROVE  LET c == SyntheticCapacity(Allocatable[p])
         IN c \in Resources /\ Within(c, Allocatable[p])
<1> DEFINE a == Allocatable[p]
           back == KubeletRAM * MB
           c == (a.cpu + KubeletCPU) \div Core
           m == (a.mem + back) \div MB
<1>1. a.cpu \in Nat /\ a.mem \in Nat
  BY PlansAssumption DEF Resources
<1>2. back \in Nat
  BY UnitsAssumption, ProductType
<1>3. c \in Nat /\ c * Core - KubeletCPU <= a.cpu
  BY <1>1, RoundedDown, UnitsAssumption
<1>4. m \in Nat /\ m * MB - back <= a.mem
  <2> HIDE DEF back
  <2> QED BY <1>1, <1>2, RoundedDown, UnitsAssumption
<1>5. SyntheticCapacity(a) = Capacity(c, m)
  BY DEF SyntheticCapacity, SyntheticPlan
<1> HIDE DEF a, c, m
<1>6. (m - KubeletRAM) * MB = m * MB - back
  BY <1>4, UnitsAssumption, SMT DEF back
<1> HIDE DEF back
<1>7. c * Core \in Nat /\ m * MB \in Nat
  BY <1>3, <1>4, UnitsAssumption, ProductType
<1>8. Within(Capacity(c, m), a)
  BY <1>1, <1>2, <1>3, <1>4, <1>6, <1>7, UnitsAssumption DEF Capacity, Within, AtLeastZero
<1> QED BY <1>3, <1>4, <1>5, <1>8, CapacityType DEF a

-----------------------------------------------------------------------------
(***************************************************************************)
(* Fractions.                                                              *)
(***************************************************************************)
Fraction == [num : Nat, den : Nat \ {0}]

LEMMA TimesKeepsOrder ==
  ASSUME NEW a \in Nat, NEW b \in Nat, NEW d \in Nat \ {0}
  PROVE  /\ a <= b => a * d <= b * d
         /\ a < b => a * d < b * d
<1>1. ASSUME a <= b PROVE a * d <= b * d
  <2> DEFINE k == b - a
  <2>1. k \in Nat /\ b = a + k
    BY <1>1
  <2>2. (a + k) * d = a * d + k * d
    BY <2>1, SMT
  <2>3. k * d \in Nat /\ a * d \in Nat
    BY <2>1, ProductType
  <2> QED BY <2>1, <2>2, <2>3
<1>2. ASSUME a < b PROVE a * d < b * d
  <2> DEFINE k == b - a
  <2>1. k \in Nat \ {0} /\ b = a + k
    BY <1>2
  <2>2. (a + k) * d = a * d + k * d
    BY <2>1, SMT
  <2>3. k * d \in Nat \ {0} /\ a * d \in Nat
    BY <2>1, ProductType, ProductPositive
  <2> QED BY <2>1, <2>2, <2>3
<1> QED BY <1>1, <1>2

\* What the best score so far beats or equals, a better one does too.
LEMMA HigherIsTransitive ==
  ASSUME NEW q \in Fraction, NEW b \in Fraction, NEW p \in Fraction,
         ~Higher(q, b), Higher(p, b)
  PROVE  ~Higher(q, p)
<1> DEFINE nq == q.num  dq == q.den  nb == b.num  db == b.den  np == p.num  dp == p.den
<1>1. /\ nq \in Nat /\ nb \in Nat /\ np \in Nat
      /\ dq \in Nat \ {0} /\ db \in Nat \ {0} /\ dp \in Nat \ {0}
  BY DEF Fraction
<1> DEFINE qb == nq * db  bq == nb * dq  pb == np * db  bp == nb * dp
           qp == nq * dp  pq == np * dq
<1>2. qb \in Nat /\ bq \in Nat /\ pb \in Nat /\ bp \in Nat /\ qp \in Nat /\ pq \in Nat
  BY <1>1, ProductType
<1>3. qb <= bq /\ bp < pb
  BY <1>2 DEF Higher
<1>4. qb * dp = qp * db /\ bq * dp = bp * dq /\ pb * dq = pq * db
  BY <1>1, SMT
<1>5. SUFFICES ASSUME pq < qp PROVE FALSE
  BY <1>2 DEF Higher
<1> HIDE DEF qb, bq, pb, bp, qp, pq
<1>6. /\ qb * dp \in Nat /\ bq * dp \in Nat /\ bp * dq \in Nat
      /\ pb * dq \in Nat /\ pq * db \in Nat /\ qp * db \in Nat
  BY <1>1, <1>2, ProductType
<1>7. qb * dp <= bq * dp
  BY <1>1, <1>2, <1>3, TimesKeepsOrder
<1>8. bp * dq < pb * dq
  BY <1>1, <1>2, <1>3, TimesKeepsOrder
<1>9. pq * db < qp * db
  BY <1>1, <1>2, <1>5, TimesKeepsOrder
<1> QED BY <1>4, <1>6, <1>7, <1>8, <1>9

LEMMA HigherIsStrict == ASSUME NEW p \in Fraction, NEW q \in Fraction, Higher(p, q)
                        PROVE  ~Higher(q, p) /\ ~Higher(p, p)
BY ProductType DEF Higher, Fraction

(***************************************************************************)
(* What the selection computes, as far as its type goes.                   *)
(***************************************************************************)
LEMMA RequestedType == ASSUME NEW S \in SUBSET SimPod PROVE Requested[S] \in Resources
BY RequestedAssumption

LEMMA PodsOnType == ASSUME NEW N PROVE PodsOn(N) \in SUBSET SimPod
BY DEF PodsOn

LEMMA OnePodMore ==
  ASSUME NEW S \in SUBSET SimPod, NEW p \in SimPod \ S
  PROVE  Requested[S \cup {p}] = Plus(Requested[S], Requested[{p}])
<1>1. {p} \in SUBSET (SimPod \ S)
  OBVIOUS
<1> QED BY <1>1, RequestedAssumption

LEMMA PlanCapacityType == ASSUME NEW p \in Plan PROVE PlanCapacity(p) \in Resources
<1>1. PlanSpec[p].cpu * Core - KubeletCPU \in Int /\ PlanSpec[p].ram - KubeletRAM \in Int
  BY PlansAssumption, UnitsAssumption, SMT
<1> QED BY <1>1, AtLeastZeroType DEF PlanCapacity, Resources

LEMMA MachineType == ASSUME NEW p \in Plan PROVE Machine(p) \in Resources
BY CapacityType, PlansAssumption DEF Machine

LEMMA ListedIsFinite ==
  ASSUME NEW N, N \subseteq Present
  PROVE  /\ IsFiniteSet(N) /\ Cardinality(N) \in Nat
         /\ N # {} => Cardinality(N) \in Nat \ {0}
<1>1. N \in SUBSET NodeName
  BY DEF Present
<1>2. IsFiniteSet(N)
  BY <1>1, NodesAssumption, FS_Subset
<1>3. Cardinality(N) \in Nat /\ (Cardinality(N) = 0 <=> N = {})
  BY <1>2, FS_CardinalityType, FS_EmptySet
<1> QED BY <1>2, <1>3

LEMMA PerNodeType == ASSUME VTypeOK, listed # {} PROVE PerNode \in Resources
<1>1. sum.cpu \in Nat /\ sum.mem \in Nat
  BY DEF VTypeOK, Resources
<1>2. listed \subseteq Present
  BY DEF VTypeOK
<1>3. Cardinality(listed) \in Nat \ {0}
  BY <1>2, ListedIsFinite
<1> QED BY <1>1, <1>3, FloorOf DEF PerNode, Resources

LEMMA StaticMinimumType == StaticMinimum \in Resources
<1>1. Constraints.minCPU \in Nat /\ Constraints.minRAM \in Nat
  BY SpecAssumption
<1> QED BY <1>1, ProductType, UnitsAssumption DEF StaticMinimum, Resources

LEMMA AtLeastType == ASSUME NEW a \in Resources, NEW b \in Resources
                     PROVE  AtLeast(a, b) \in Resources /\ Within(b, AtLeast(a, b))
<1>1. a.cpu \in Nat /\ a.mem \in Nat /\ b.cpu \in Nat /\ b.mem \in Nat
  BY DEF Resources
<1> QED BY <1>1, MaxOfTwo DEF AtLeast, Resources, Within

LEMMA RequiredType == ASSUME VTypeOK PROVE Required \in Resources
BY PerNodeType, StaticMinimumType, AtLeastType DEF Required

LEMMA ScoreType == ASSUME VTypeOK, NEW p \in Plan PROVE ScorePlan(p) \in Fraction
<1> DEFINE c == PlanCapacity(p)
           price == PlanSpec[p].price
           all == 2 * c.cpu * c.mem
           load == Required.cpu * c.mem + Required.mem * c.cpu
           used == Min({all, load})
           mix == weights.fit * used + weights.headroom * (all - used)
<1>1. Zero \in Fraction
  BY DEF Zero, Fraction
<1>2. CASE c.cpu = 0 \/ c.mem = 0 \/ price = 0
  BY <1>1, <1>2 DEF ScorePlan
<1>3. CASE ~(c.cpu = 0 \/ c.mem = 0 \/ price = 0)
  <2>1. /\ c.cpu \in Nat \ {0} /\ c.mem \in Nat \ {0} /\ price \in Nat \ {0}
        /\ Required.cpu \in Nat /\ Required.mem \in Nat
    BY <1>3, PlanCapacityType, PlansAssumption, RequiredType DEF Resources
  <2>2. weights.price \in Nat /\ weights.fit \in Nat /\ weights.headroom \in Nat
    BY DEF VTypeOK, WeightsForAggressiveness, Moderate
  <2> HIDE DEF c, price
  <2>3. 2 * c.cpu \in Nat \ {0}
    BY <2>1
  <2>4. all \in Nat \ {0}
    BY <2>1, <2>3, ProductPositive
  <2>5. load \in Nat
    BY <2>1, ProductType
  <2> HIDE DEF all, load
  <2>6. used \in Nat /\ all - used \in Nat
    BY <2>4, <2>5, MinOfTwo
  <2> HIDE DEF used
  <2>7. mix \in Nat
    BY <2>2, <2>6, ProductType
  <2> HIDE DEF mix
  <2>8. weights.price * all + price * mix \in Nat /\ price * all \in Nat \ {0}
    BY <2>1, <2>2, <2>4, <2>7, ProductType, ProductPositive
  <2>9. ScorePlan(p) = [num |-> weights.price * all + price * mix, den |-> price * all]
    BY <1>3 DEF ScorePlan, c, price, all, load, used, mix
  <2> QED BY <2>8, <2>9 DEF Fraction
<1> QED BY <1>2, <1>3

LEMMA BestScoreType == ASSUME VTypeOK PROVE BestScore \in Fraction
BY ScoreType, PlansAssumption DEF BestScore, VTypeOK, Zero, Fraction

-----------------------------------------------------------------------------
(***************************************************************************)
(* The variables keep values of their kind.                                *)
(***************************************************************************)
LEMMA MovableType == ASSUME NEW S \in SUBSET SimPod PROVE Movable(S) \in SUBSET SimPod
BY DEF Movable

SimulationType ==
  /\ left \subseteq SimPod /\ blocking \subseteq SimPod
  /\ room \in [VirtualNodes -> Resources]
  /\ DOMAIN home \subseteq SimPod
  /\ \A p \in DOMAIN home : home[p] \in VirtualNodes

LEMMA NoSimulationType ==
  ASSUME NoSimulation, ~Simulating PROVE SimulationType
BY DEF NoSimulation, Simulating, SimulationType, VirtualNodes

LEMMA EndSimulationType ==
  ASSUME EndSimulation, ~Simulating' PROVE SimulationType'
BY DEF EndSimulation, Simulating, SimulationType, VirtualNodes

LEMMA SimulateType ==
  ASSUME NEW S \in SUBSET SimPod, NEW capacity \in Resources, NEW n,
         Simulate(S, capacity, n), VirtualNodes' = 1 .. n
  PROVE  SimulationType'
<1>1. left' \in SUBSET SimPod
  BY MovableType DEF Simulate
<1>2. room' \in [VirtualNodes' -> Resources] /\ blocking' = {} /\ DOMAIN home' = {}
  BY DEF Simulate
<1> QED BY <1>1, <1>2 DEF SimulationType

LEMMA PlacePodType ==
  ASSUME SimulationType, PlacePod, UNCHANGED <<vpc, replicas>> PROVE SimulationType'
<1>1. PICK p \in left, v \in DOMAIN room :
        /\ Suits(p, v) /\ left' = left \ {p}
        /\ room' = [room EXCEPT ![v] = Minus(@, Request(p))]
        /\ home' = [q \in DOMAIN home \cup {p} |-> IF q = p THEN v ELSE home[q]]
        /\ UNCHANGED blocking
  BY DEF PlacePod
<1>2. VirtualNodes' = VirtualNodes
  BY DEF VirtualNodes
<1>3. p \in SimPod /\ v \in VirtualNodes /\ room[v] \in Resources /\ Request(p) \in Resources
  BY RequestedType DEF SimulationType, Request
<1>4. Minus(room[v], Request(p)) \in Resources
  BY <1>1, <1>3 DEF Suits, Within, Minus, Resources
<1>5. room' \in [VirtualNodes' -> Resources]
  BY <1>1, <1>2, <1>4 DEF SimulationType
<1>6. DOMAIN home' \subseteq SimPod /\ \A q \in DOMAIN home' : home'[q] \in VirtualNodes'
  BY <1>1, <1>2, <1>3 DEF SimulationType
<1> QED BY <1>1, <1>5, <1>6 DEF SimulationType

LEMMA BlockPodType ==
  ASSUME SimulationType, BlockPod, UNCHANGED <<vpc, replicas>> PROVE SimulationType'
<1>1. VirtualNodes' = VirtualNodes
  BY DEF VirtualNodes
<1> QED BY <1>1 DEF BlockPod, SimulationType

\* The cluster, and the pass apart from its simulation.
ClusterType ==
  /\ nodes \in [NodeName -> Plan \cup {NoPlan}] /\ at \in [SimPod -> NodeName \cup {NoNode}]
  /\ plan \in Plan /\ replicas \in MinReplicas .. MaxReplicas
PassType ==
  /\ vpc \in {"idle", "downscale", "horizontal", "reduction", "average", "select"}
  /\ known \in BOOLEAN /\ quiet \in BOOLEAN /\ direction \in {"any", "up", "down"}
  /\ listed \subseteq (IF vpc = "idle" THEN {} ELSE Present)
  /\ uncounted \subseteq (IF vpc = "average" THEN listed ELSE {})
  /\ first \in (IF vpc = "reduction" THEN listed ELSE {NoNode})
  /\ sum \in Resources
  /\ weights \in WeightsForAggressiveness
  /\ unseen \subseteq Offered /\ best \in Offered \cup {NoPlan}

LEMMA TypeInParts == VTypeOK <=> ClusterType /\ PassType /\ SimulationType
BY DEF VTypeOK, ClusterType, PassType, SimulationType

LEMMA IdlePass ==
  ASSUME PassType, vpc = "idle" PROVE listed = {} /\ uncounted = {} /\ first = NoNode
BY DEF PassType

\* Between two passes nothing but the cluster changes.
LEMMA BetweenType ==
  ASSUME ClusterType, PassType, SimulationType, Between
  PROVE  ClusterType' /\ PassType' /\ SimulationType'
<1>1. vpc = "idle" /\ UNCHANGED <<passVars, simVars>>
  BY DEF Between, PodStarts, PodEnds, NodeJoins, NodeLeaves, Resize
<1>2. PassType'
  BY <1>1, IdlePass DEF PassType, passVars
<1>3. SimulationType'
  BY <1>1 DEF SimulationType, VirtualNodes, passVars, simVars
<1>4. CASE PodStarts \/ PodEnds
  BY <1>2, <1>3, <1>4 DEF PodStarts, PodEnds, Present, ClusterType
<1>5. CASE NodeJoins
  BY <1>2, <1>3, <1>5 DEF NodeJoins, ClusterType
<1>6. CASE NodeLeaves
  BY <1>2, <1>3, <1>6 DEF NodeLeaves, Present, ClusterType
<1>7. CASE Resize
  BY <1>2, <1>3, <1>7 DEF Resize, ClusterType
<1> QED BY <1>4, <1>5, <1>6, <1>7 DEF Between

LEMMA ReadsType ==
  ASSUME ClusterType, PassType, SimulationType, Reads
  PROVE  ClusterType' /\ PassType' /\ SimulationType'
<1>1. vpc = "idle" /\ UNCHANGED cluster
  BY DEF Reads, WithoutUtilization, TriggerUpscale, TriggerDownscale, InRange, Measure
<1>2. ClusterType' /\ Present' = Present
  BY <1>1 DEF ClusterType, Present, cluster
<1>3. listed = {} /\ uncounted = {} /\ first = NoNode
  BY <1>1, IdlePass
<1>4. ASSUME UNCHANGED simVars, ~Simulating' PROVE SimulationType'
  BY <1>1, <1>4 DEF Simulating, SimulationType, VirtualNodes, simVars
<1>5. CASE WithoutUtilization
  <2>1. PassType'
    BY <1>3, <1>5 DEF WithoutUtilization, ResolveCurrentPlan, BeginAverage, PassType
  <2>2. SimulationType'
    BY <1>4, <1>5 DEF WithoutUtilization, BeginAverage, Simulating
  <2> QED BY <1>2, <2>1, <2>2
<1>6. ASSUME NEW N \in Listings, NEW m, Measure(N, m), direction' \in {"any", "up", "down"},
             vpc' \in {"downscale", "horizontal"}
      PROVE  PassType'
  BY <1>2, <1>3, <1>6 DEF Measure, ResolveCurrentPlan, EffectivelyBelow, Listings, PassType
<1>7. CASE TriggerUpscale
  <2>1. PassType'
    BY <1>6, <1>7 DEF TriggerUpscale
  <2>2. SimulationType'
    BY <1>4, <1>7 DEF TriggerUpscale, Simulating
  <2> QED BY <1>2, <2>1, <2>2
<1>8. CASE TriggerDownscale
  <2>1. PassType'
    BY <1>6, <1>8 DEF TriggerDownscale, PassType
  <2>2. PICK N \in Listings : Simulate(PodsOn(N), Machine(plan), replicas)
    BY <1>8 DEF TriggerDownscale, Machine
  <2>3. Machine(plan) \in Resources /\ PodsOn(N) \in SUBSET SimPod
    BY MachineType, PodsOnType DEF ClusterType
  <2>4. VirtualNodes' = 1 .. replicas
    BY <1>1, <1>8 DEF TriggerDownscale, VirtualNodes, cluster
  <2>5. SimulationType'
    BY <2>2, <2>3, <2>4, SimulateType
  <2> QED BY <1>2, <2>1, <2>5
<1>9. CASE InRange
  <2>1. PassType'
    BY <1>6, <1>9 DEF InRange
  <2>2. SimulationType'
    BY <1>4, <1>9 DEF InRange, Simulating
  <2> QED BY <1>2, <2>1, <2>2
<1> QED BY <1>5, <1>7, <1>8, <1>9 DEF Reads

LEMMA ScaleDownType ==
  ASSUME ClusterType, PassType, SimulationType, DecideDownscale \/ Horizontal
  PROVE  ClusterType' /\ PassType' /\ SimulationType'
<1>1. UNCHANGED cluster
  BY DEF DecideDownscale, Horizontal, SimulateReduction, EndReduction, NoReduction, EndHorizontal
<1>2. ClusterType' /\ Present' = Present
  BY <1>1 DEF ClusterType, Present, cluster
<1>3. CASE DecideDownscale
  <2>1. PassType'
    BY <1>2, <1>3 DEF DecideDownscale, PassType
  <2>2. SimulationType'
    BY <1>3, EndSimulationType DEF DecideDownscale, Simulating
  <2> QED BY <1>2, <2>1, <2>2
<1>4. CASE SimulateReduction
  <2>1. PassType'
    BY <1>2, <1>4 DEF SimulateReduction, PassType
  <2>2. first' \in listed /\ nodes[first'] \in Plan
    BY <1>4, PlansAssumption DEF SimulateReduction, PassType, ClusterType, Present
  <2>3. SyntheticCapacity(Allocatable[nodes[first']]) \in Resources
    BY <2>2, SyntheticNodeIsNoLarger
  <2>4. VirtualNodes' = 1 .. replicas - 1
    BY <1>1, <1>4 DEF SimulateReduction, VirtualNodes, cluster
  <2>5. SimulationType'
    BY <1>4, <2>3, <2>4, PodsOnType, SimulateType DEF SimulateReduction
  <2> QED BY <1>2, <2>1, <2>5
<1>5. ASSUME EndHorizontal, vpc # "idle" PROVE PassType'
  BY <1>2, <1>5 DEF EndHorizontal, BeginAverage, PassType
<1>6. CASE EndReduction
  <2>1. PassType'
    BY <1>5, <1>6 DEF EndReduction
  <2>2. SimulationType'
    BY <1>6, EndSimulationType DEF EndReduction, EndHorizontal, BeginAverage, Simulating
  <2> QED BY <1>2, <2>1, <2>2
<1>7. CASE NoReduction
  <2>1. PassType'
    BY <1>5, <1>7 DEF NoReduction
  <2>2. SimulationType'
    BY <1>7 DEF NoReduction, EndHorizontal, BeginAverage, SimulationType, VirtualNodes, simVars
  <2> QED BY <1>2, <2>1, <2>2
<1> QED BY <1>3, <1>4, <1>6, <1>7 DEF Horizontal

LEMMA DecidesType ==
  ASSUME ClusterType, PassType, SimulationType, Decides
  PROVE  ClusterType' /\ PassType' /\ SimulationType'
<1>1. /\ UNCHANGED <<nodes, at, replicas, simVars>>
      /\ ~Simulating /\ ~Simulating'
  BY DEF Decides, CountNode, BeginSelect, ConsiderPlan, SwitchPlan, KeepPlan, Selected, EndPass,
     cluster, Simulating
<1>2. SimulationType'
  BY <1>1 DEF SimulationType, VirtualNodes, Simulating, simVars
<1>3. Present' = Present
  BY <1>1 DEF Present
<1>4. ASSUME UNCHANGED cluster PROVE ClusterType'
  BY <1>4 DEF ClusterType, cluster
<1>5. CASE CountNode
  <2>1. PICK n \in uncounted : /\ uncounted' = uncounted \ {n}
                               /\ sum' = Plus(sum, WholeMB(Requested[PodsOn({n})]))
    BY <1>5 DEF CountNode
  <2>2. Requested[PodsOn({n})] \in Resources
    BY PodsOnType, RequestedType
  <2>3. WholeMB(Requested[PodsOn({n})]) \in Resources
    BY <2>2, FloorOf, UnitsAssumption DEF WholeMB, Resources
  <2>4. sum' \in Resources
    BY <2>1, <2>3 DEF PassType, Plus, Resources
  <2>5. PassType'
    BY <1>3, <1>5, <2>1, <2>4 DEF CountNode, PassType
  <2> QED BY <1>2, <1>4, <1>5, <2>5 DEF CountNode
<1>6. CASE BeginSelect
  BY <1>2, <1>3, <1>4, <1>6 DEF BeginSelect, PassType
<1>7. CASE ConsiderPlan
  BY <1>2, <1>3, <1>4, <1>7 DEF ConsiderPlan, PassType
<1>8. CASE SwitchPlan \/ KeepPlan
  <2>1. plan' \in Plan
    BY <1>8, PlansAssumption DEF SwitchPlan, KeepPlan, ShouldSwitch, PassType, ClusterType
  <2>2. ClusterType'
    BY <1>1, <2>1 DEF ClusterType
  <2>3. uncounted = {} /\ first = NoNode
    BY <1>8 DEF SwitchPlan, KeepPlan, Selected, PassType
  <2>4. EndPass
    BY <1>8 DEF SwitchPlan, KeepPlan
  <2>5. Nothing \in Resources /\ Moderate \in WeightsForAggressiveness
    BY DEF Nothing, Resources, WeightsForAggressiveness
  <2>6. PassType'
    BY <2>3, <2>4, <2>5 DEF EndPass, PassType
  <2> QED BY <1>2, <2>2, <2>6
<1> QED BY <1>5, <1>6, <1>7, <1>8 DEF Decides

LEMMA TypeStep == ASSUME VTypeOK, [Next]_vars PROVE VTypeOK'
<1> SUFFICES ClusterType' /\ PassType' /\ SimulationType'
  BY TypeInParts DEF VTypeOK, ClusterType, PassType, SimulationType
<1>0. ClusterType /\ PassType /\ SimulationType
  BY TypeInParts
<1>1. CASE Reads
  BY <1>0, <1>1, ReadsType
<1>2. CASE DecideDownscale \/ Horizontal
  BY <1>0, <1>2, ScaleDownType
<1>3. CASE SimulationStep
  BY <1>0, <1>3, PlacePodType, BlockPodType
     DEF SimulationStep, ClusterType, PassType, Present, cluster, passVars
<1>4. CASE Decides
  BY <1>0, <1>4, DecidesType
<1>5. CASE Between
  BY <1>0, <1>5, BetweenType
<1>6. CASE UNCHANGED vars
  BY <1>0, <1>6 DEF vars, ClusterType, PassType, SimulationType, Present, VirtualNodes, cluster,
     passVars, simVars
<1> QED BY <1>1, <1>2, <1>3, <1>4, <1>5, <1>6 DEF Next

LEMMA InitType == ASSUME Init PROVE VTypeOK
<1>1. SimulationType
  BY NoSimulationType DEF Init, Simulating
<1>2. ClusterType
  BY PlansAssumption, NodesAssumption DEF Init, ClusterType
<1>3. PassType
  BY DEF Init, PassType, Nothing, Resources, WeightsForAggressiveness
<1> QED BY <1>1, <1>2, <1>3, TypeInParts

\* Every variable of the simulation and of the pass always holds a value of its
\* kind, and no virtual node is ever given more than it has.
THEOREM VerticalTypeCorrect == Spec => []VTypeOK
BY InitType, TypeStep, PTL DEF Spec

-----------------------------------------------------------------------------
(***************************************************************************)
(* The account of the simulation.                                          *)
(***************************************************************************)
Balanced(S, capacity) ==
  /\ left \cup blocking \cup DOMAIN home = Movable(S)
  /\ left \cap DOMAIN home = {}
  /\ \A v \in DOMAIN room : Plus(Requested[Placed(v)], room[v]) = capacity
  /\ \A p \in DOMAIN home : Admitted(p)

LEMMA SimulateBalances ==
  ASSUME NEW S \in SUBSET SimPod, NEW capacity \in Resources, NEW n, Simulate(S, capacity, n)
  PROVE  Balanced(S, capacity)'
<1>1. left' = Movable(S) /\ blocking' = {} /\ DOMAIN home' = {}
  BY DEF Simulate
<1>2. \A v : Placed(v)' = {}
  BY <1>1 DEF Placed
<1>3. \A v \in DOMAIN room' : room'[v] = capacity
  BY DEF Simulate
<1>4. Plus(Nothing, capacity) = capacity
  BY DEF Plus, Nothing, Resources
<1>5. Movable(S)' = Movable(S)
  BY DEF Movable
<1>6. \A v \in DOMAIN room' : Plus(Requested[Placed(v)'], room'[v]) = capacity
  BY <1>2, <1>3, <1>4, RequestedAssumption
<1>7. left' \cup blocking' \cup DOMAIN home' = Movable(S) /\ left' \cap DOMAIN home' = {}
  BY <1>1
<1> QED BY <1>1, <1>5, <1>6, <1>7 DEF Balanced

LEMMA PlacePodBalances ==
  ASSUME SimulationType, NEW S \in SUBSET SimPod, NEW capacity \in Resources,
         Balanced(S, capacity), PlacePod
  PROVE  Balanced(S, capacity)'
<1>1. PICK p \in left, v \in DOMAIN room :
        /\ Suits(p, v) /\ left' = left \ {p}
        /\ room' = [room EXCEPT ![v] = Minus(@, Request(p))]
        /\ home' = [q \in DOMAIN home \cup {p} |-> IF q = p THEN v ELSE home[q]]
        /\ UNCHANGED blocking
  BY DEF PlacePod
<1>2. p \in SimPod /\ p \notin DOMAIN home
  BY DEF SimulationType, Balanced
<1>3. DOMAIN home' = DOMAIN home \cup {p} /\ DOMAIN room' = DOMAIN room
  BY <1>1
<1>4. left' \cup blocking' \cup DOMAIN home' = Movable(S)' /\ left' \cap DOMAIN home' = {}
  BY <1>1, <1>2, <1>3 DEF Balanced, Movable
<1>5. Placed(v)' = Placed(v) \cup {p} /\ p \notin Placed(v)
  BY <1>1, <1>2, <1>3 DEF Placed
<1>6. \A u \in DOMAIN room : u # v => Placed(u)' = Placed(u) /\ room'[u] = room[u]
  BY <1>1, <1>2, <1>3 DEF Placed
<1>7. Placed(v) \in SUBSET SimPod
  BY DEF Placed, SimulationType
<1>8. Requested[Placed(v)'] = Plus(Requested[Placed(v)], Request(p))
  BY <1>2, <1>5, <1>7, OnePodMore DEF Request
<1>9. /\ Requested[Placed(v)] \in Resources /\ Request(p) \in Resources
      /\ room[v] \in Resources /\ room'[v] = Minus(room[v], Request(p))
  BY <1>1, <1>2, <1>7, RequestedType DEF SimulationType, Request
<1>10. Plus(Requested[Placed(v)'], room'[v]) = Plus(Requested[Placed(v)], room[v])
  BY <1>8, <1>9 DEF Plus, Minus, Resources
<1>11. \A u \in DOMAIN room' : Plus(Requested[Placed(u)'], room'[u]) = capacity
  BY <1>1, <1>3, <1>6, <1>10 DEF Balanced
<1>12. Admitted(p) /\ \A q \in DOMAIN home' : q = p \/ q \in DOMAIN home
  BY <1>1, <1>3 DEF Suits
<1>13. \A q \in DOMAIN home' : Admitted(q)
  BY <1>12 DEF Balanced
<1> QED BY <1>4, <1>11, <1>13 DEF Balanced, Admitted

LEMMA BlockPodBalances ==
  ASSUME NEW S \in SUBSET SimPod, NEW capacity \in Resources,
         Balanced(S, capacity), BlockPod
  PROVE  Balanced(S, capacity)'
<1>1. PICK p \in left : left' = left \ {p} /\ blocking' = blocking \cup {p} /\ UNCHANGED <<room, home>>
  BY DEF BlockPod
<1>2. left' \cup blocking' \cup DOMAIN home' = left \cup blocking \cup DOMAIN home
  BY <1>1
<1> QED BY <1>1, <1>2 DEF Balanced, Movable, Placed

LEMMA AccountIsBalance ==
  ASSUME SimulationType
  PROVE  Accounted <=> (Simulating => Balanced(PodsOn(listed), SimCapacity))
<1>1. DOMAIN room = VirtualNodes
  BY DEF SimulationType
<1> QED BY <1>1 DEF Accounted, Balanced

LEMMA FirstNodeType ==
  ASSUME VTypeOK, vpc = "reduction" PROVE first \in listed /\ nodes[first] \in Plan
BY DEF VTypeOK, Present

LEMMA SimCapacityType == ASSUME VTypeOK, Simulating PROVE SimCapacity \in Resources
<1>1. CASE vpc = "downscale"
  BY <1>1, MachineType DEF SimCapacity, VTypeOK
<1>2. CASE vpc = "reduction"
  BY <1>2, FirstNodeType, SyntheticNodeIsNoLarger DEF SimCapacity
<1> QED BY <1>1, <1>2 DEF Simulating

LEMMA AccountStep == ASSUME VTypeOK, Accounted, [Next]_vars PROVE Accounted'
<1>t. SimulationType /\ SimulationType'
  BY TypeStep, TypeInParts DEF VTypeOK, SimulationType
<1>n. ASSUME ~Simulating' PROVE Accounted'
  BY <1>n DEF Accounted
<1>b. ASSUME NEW S, NEW c, Balanced(S, c)', PodsOn(listed)' = S, SimCapacity' = c
      PROVE  Accounted'
  <2>1. Movable(S)' = Movable(PodsOn(listed))'
    BY <1>b DEF Movable
  <2>2. DOMAIN room' = VirtualNodes'
    BY <1>t DEF SimulationType
  <2> QED BY <1>b, <2>1, <2>2 DEF Accounted, Balanced
<1>1. CASE TriggerDownscale
  <2> SUFFICES ASSUME NEW N, Simulate(PodsOn(N), Machine(plan), replicas),
                      listed' = N, UNCHANGED cluster, vpc' = "downscale"
               PROVE  Accounted'
    BY <1>1 DEF TriggerDownscale, Measure, Machine
  <2> SUFFICES ASSUME NEW S, S = PodsOn(N), NEW c, c = Machine(plan) PROVE Accounted'
    OBVIOUS
  <2>1. PodsOn(listed)' = S /\ SimCapacity' = c
    BY DEF PodsOn, SimCapacity, Machine, cluster
  <2>2. S \in SUBSET SimPod /\ c \in Resources
    BY PodsOnType, MachineType DEF VTypeOK
  <2>3. Balanced(S, c)'
    BY <2>2, SimulateBalances
  <2> QED BY <1>b, <2>1, <2>3
<1>2. CASE SimulateReduction
  <2> SUFFICES ASSUME NEW n, n \in listed, first' = n,
                      Simulate(PodsOn(listed), SyntheticCapacity(Allocatable[nodes[n]]),
                               replicas - 1),
                      UNCHANGED <<cluster, listed>>, vpc' = "reduction"
               PROVE  Accounted'
    BY <1>2 DEF SimulateReduction
  <2> SUFFICES ASSUME NEW S, S = PodsOn(listed),
                      NEW c, c = SyntheticCapacity(Allocatable[nodes[n]])
               PROVE  Accounted'
    OBVIOUS
  <2>1. PodsOn(listed)' = S /\ SimCapacity' = c
    BY DEF PodsOn, SimCapacity, cluster
  <2>2. nodes[n] \in Plan
    BY DEF VTypeOK, Present
  <2>3. S \in SUBSET SimPod /\ c \in Resources
    BY <2>2, PodsOnType, SyntheticNodeIsNoLarger
  <2>4. Balanced(S, c)'
    BY <2>3, SimulateBalances
  <2> QED BY <1>b, <2>1, <2>4
<1>3. CASE SimulationStep
  <2> SUFFICES ASSUME NEW S, S = PodsOn(listed), NEW c, c = SimCapacity PROVE Accounted'
    OBVIOUS
  <2>1. UNCHANGED <<cluster, passVars>> /\ Simulating
    BY <1>3 DEF SimulationStep, Simulating
  <2>2. SimCapacity' = c /\ PodsOn(listed)' = S
    BY <2>1 DEF SimCapacity, PodsOn, cluster, passVars
  <2>3. Balanced(S, c) /\ c \in Resources /\ S \in SUBSET SimPod
    BY <1>t, <2>1, AccountIsBalance, SimCapacityType, PodsOnType
  <2>4. Balanced(S, c)'
    BY <1>3, <1>t, <2>3, PlacePodBalances, BlockPodBalances DEF SimulationStep
  <2> QED BY <1>b, <2>2, <2>4
<1>4. CASE WithoutUtilization \/ TriggerUpscale \/ InRange \/ DecideDownscale
  BY <1>4, <1>n DEF WithoutUtilization, TriggerUpscale, InRange, DecideDownscale,
     BeginAverage, Simulating
<1>5. CASE EndReduction \/ NoReduction
  BY <1>5, <1>n DEF EndReduction, NoReduction, EndHorizontal, BeginAverage, Simulating
<1>6. CASE Decides
  BY <1>6, <1>n DEF Decides, CountNode, BeginSelect, ConsiderPlan, SwitchPlan, KeepPlan,
     Selected, EndPass, Simulating
<1>7. CASE Between
  BY <1>7, <1>n DEF Between, PodStarts, PodEnds, NodeJoins, NodeLeaves, Resize, Simulating,
     passVars
<1>8. CASE UNCHANGED vars
  <2>1. SimCapacity' = SimCapacity /\ Simulating' = Simulating /\ VirtualNodes' = VirtualNodes
    BY <1>8 DEF vars, SimCapacity, Simulating, VirtualNodes, cluster, passVars
  <2>2. /\ Movable(PodsOn(listed))' = Movable(PodsOn(listed))
        /\ \A v : Placed(v)' = Placed(v)
    BY <1>8 DEF vars, Movable, PodsOn, Placed, cluster, passVars, simVars
  <2> QED BY <1>8, <2>1, <2>2 DEF vars, simVars, Accounted, Admitted
<1> QED BY <1>1, <1>2, <1>3, <1>4, <1>5, <1>6, <1>7, <1>8 DEF Next, Reads, Horizontal

-----------------------------------------------------------------------------
(***************************************************************************)
(* What a blocked pod tells about a single node.                           *)
(***************************************************************************)
LEMMA OneMorePod ==
  ASSUME NEW S \in SUBSET SimPod, NEW p \in SimPod, NEW c \in Resources,
         ~Within(Requested[S], c)
  PROVE  ~Within(Requested[S \cup {p}], c)
<1>1. CASE p \in S
  <2>1. S \cup {p} = S
    BY <1>1
  <2> QED BY <2>1
<1>2. CASE p \notin S
  <2>1. Requested[S \cup {p}] = Plus(Requested[S], Requested[{p}])
    BY <1>2, OnePodMore
  <2>2. Requested[S] \in Resources /\ Requested[{p}] \in Resources
    BY RequestedType
  <2> QED BY <2>1, <2>2 DEF Plus, Within, Resources
<1> QED BY <1>1, <1>2

\* A pod for which the node has no room left is one too many.
LEMMA OnePodTooMany ==
  ASSUME NEW S \in SUBSET SimPod, NEW p \in SimPod \ S,
         NEW r \in Resources, NEW c \in Resources,
         Plus(Requested[S], r) = c, ~Within(Request(p), r)
  PROVE  ~Within(Requested[S \cup {p}], c)
<1>1. Requested[S \cup {p}] = Plus(Requested[S], Request(p))
  BY OnePodMore DEF Request
<1>2. Requested[S] \in Resources /\ Request(p) \in Resources
  BY RequestedType DEF Request
<1> QED BY <1>1, <1>2 DEF Plus, Within, Resources

LEMMA SimulationStepBlocks ==
  ASSUME VTypeOK, Accounted, BlockedForGood, SimulationStep PROVE BlockedForGood'
<1> SUFFICES ASSUME vpc = "reduction", replicas = 2, NEW c, c = SimCapacity
             PROVE  \/ blocking' = {}
                    \/ \E q \in blocking' : ~Admitted(q)
                    \/ ~Within(Requested[DOMAIN home' \cup blocking'], c)
  BY DEF BlockedForGood, SimulationStep, SimCapacity, Admitted,
     cluster, passVars
<1> DEFINE S == DOMAIN home \cup blocking
<1>1. S \in SUBSET SimPod /\ c \in Resources
  BY SimCapacityType DEF VTypeOK, Simulating
<1>2. \/ blocking = {} \/ \E q \in blocking : ~Admitted(q) \/ ~Within(Requested[S], c)
  BY DEF BlockedForGood
<1>3. CASE PlacePod
  <2>1. PICK p \in left : DOMAIN home' = DOMAIN home \cup {p} /\ blocking' = blocking
    BY <1>3 DEF PlacePod
  <2>2. DOMAIN home' \cup blocking' = S \cup {p} /\ p \in SimPod
    BY <2>1 DEF VTypeOK
  <2>3. ~Within(Requested[S], c) => ~Within(Requested[S \cup {p}], c)
    BY <1>1, <2>2, OneMorePod
  <2> QED BY <1>2, <2>1, <2>2, <2>3
<1>4. CASE BlockPod
  <2>1. PICK p \in left : /\ \A v \in DOMAIN room : ~Suits(p, v)
                          /\ blocking' = blocking \cup {p} /\ home' = home
    BY <1>4 DEF BlockPod
  <2>2. DOMAIN home' \cup blocking' = S \cup {p} /\ p \in SimPod
    BY <2>1 DEF VTypeOK
  <2>3. CASE blocking # {}
    <3>1. ~Within(Requested[S], c) => ~Within(Requested[S \cup {p}], c)
      BY <1>1, <2>2, OneMorePod
    <3> QED BY <1>2, <2>1, <2>2, <2>3, <3>1
  <2>4. CASE blocking = {}
    <3>1. VirtualNodes = {1}
      BY DEF VirtualNodes
    <3>2. room[1] \in Resources /\ Placed(1) = S /\ p \notin S
      BY <2>4, <3>1 DEF VTypeOK, Placed, Accounted, Simulating
    <3>3. Plus(Requested[S], room[1]) = c
      BY <3>1, <3>2 DEF Accounted, Simulating
    <3>4. ~Admitted(p) \/ ~Within(Request(p), room[1])
      BY <2>1, <3>1 DEF VTypeOK, Suits
    <3>5. ~Within(Request(p), room[1]) => ~Within(Requested[S \cup {p}], c)
      BY <1>1, <2>2, <3>2, <3>3, OnePodTooMany
    <3> QED BY <2>1, <2>2, <3>4, <3>5
  <2> QED BY <2>3, <2>4
<1> QED BY <1>3, <1>4 DEF SimulationStep

LEMMA BlockStep ==
  ASSUME VTypeOK, Accounted, BlockedForGood, [Next]_vars PROVE BlockedForGood'
<1>n. ASSUME vpc' # "reduction" PROVE BlockedForGood'
  BY <1>n DEF BlockedForGood
<1>1. CASE Reads \/ DecideDownscale
  BY <1>1, <1>n DEF Reads, WithoutUtilization, TriggerUpscale, TriggerDownscale, InRange,
     DecideDownscale, BeginAverage
<1>2. CASE SimulateReduction
  <2>1. blocking' = {}
    BY <1>2 DEF SimulateReduction, Simulate
  <2> QED BY <2>1 DEF BlockedForGood
<1>3. CASE SimulationStep
  BY <1>3, SimulationStepBlocks
<1>4. CASE EndReduction \/ NoReduction
  BY <1>4, <1>n DEF EndReduction, NoReduction, EndHorizontal, BeginAverage
<1>5. CASE Decides
  BY <1>5, <1>n DEF Decides, CountNode, BeginSelect, ConsiderPlan, SwitchPlan, KeepPlan,
     Selected, EndPass
<1>6. CASE Between
  BY <1>6, <1>n DEF Between, PodStarts, PodEnds, NodeJoins, NodeLeaves, Resize, passVars
<1>7. CASE UNCHANGED vars
  BY <1>7 DEF vars, BlockedForGood, SimCapacity, Admitted, cluster, passVars, simVars
<1> QED BY <1>1, <1>2, <1>3, <1>4, <1>5, <1>6, <1>7 DEF Next, Horizontal

-----------------------------------------------------------------------------
(***************************************************************************)
(* The loop over the nodes.                                                *)
(***************************************************************************)
LEMMA PodsOnSplit ==
  ASSUME NEW N, NEW n, n \notin N
  PROVE  Requested[PodsOn(N \cup {n})] = Plus(Requested[PodsOn(N)], Requested[PodsOn({n})])
<1>1. PodsOn(N \cup {n}) = PodsOn(N) \cup PodsOn({n})
  BY DEF PodsOn
<1>2. PodsOn(N) \in SUBSET SimPod /\ PodsOn({n}) \in SUBSET (SimPod \ PodsOn(N))
  BY DEF PodsOn
<1> QED BY <1>1, <1>2, RequestedAssumption

\* Bytes that become MB lose less than one for each node.
LEMMA OneNodeMore ==
  ASSUME NEW before \in Nat, NEW here \in Nat, NEW s \in Nat, NEW k \in Nat,
         before <= (s + k) * MB
  PROVE  before + here <= (s + here \div MB + k + 1) * MB
<1> DEFINE q == here \div MB
<1>1. q \in Nat /\ here <= (q + 1) * MB
  BY UnitsAssumption, FloorOf, NextUnit
<1> HIDE DEF q
<1>2. (s + q + k + 1) * MB = (s + k) * MB + (q + 1) * MB
  BY <1>1, UnitsAssumption, SMT
<1>3. (s + k) * MB \in Nat /\ (q + 1) * MB \in Nat /\ (s + q + k + 1) * MB \in Nat
  BY <1>1, UnitsAssumption, ProductType
<1>4. before + here <= (s + q + k + 1) * MB
  BY <1>1, <1>2, <1>3
<1> QED BY <1>4 DEF q

LEMMA CountNodeSums == ASSUME VTypeOK, Summed, CountNode PROVE Summed'
<1>1. vpc = "average" /\ UNCHANGED <<nodes, at, vpc, listed>>
  BY DEF CountNode, cluster
<1>2. PICK n \in uncounted : /\ uncounted' = uncounted \ {n}
                             /\ sum' = Plus(sum, WholeMB(Requested[PodsOn({n})]))
  BY DEF CountNode
<1>3. n \in listed /\ Counted' = Counted \cup {n} /\ n \notin Counted /\ Counted \subseteq Present
  BY <1>1, <1>2 DEF Counted, VTypeOK
<1>4. \A N : PodsOn(N)' = PodsOn(N)
  BY <1>1 DEF PodsOn
<1> DEFINE t == Requested[PodsOn(Counted)]
           h == Requested[PodsOn({n})]
           k == Cardinality(Counted)
<1>5. t \in Resources /\ h \in Resources /\ sum \in Resources
  BY RequestedType, PodsOnType DEF VTypeOK
<1>6. k \in Nat /\ Cardinality(Counted') = k + 1
  BY <1>3, ListedIsFinite, FS_AddElement
<1>7. Requested[PodsOn(Counted)'] = Plus(t, h)
  BY <1>3, <1>4, PodsOnSplit
<1>8. sum.cpu = t.cpu /\ t.mem <= (sum.mem + k) * MB
  BY <1>1 DEF Summed
<1>9. sum'.cpu = sum.cpu + h.cpu /\ sum'.mem = sum.mem + h.mem \div MB
  BY <1>2 DEF Plus, WholeMB
<1>10. /\ Requested[PodsOn(Counted)'].cpu = t.cpu + h.cpu
       /\ Requested[PodsOn(Counted)'].mem = t.mem + h.mem
  BY <1>7 DEF Plus
<1> HIDE DEF t, h, k
<1>11. t.mem + h.mem <= (sum.mem + h.mem \div MB + k + 1) * MB
  BY <1>5, <1>6, <1>8, OneNodeMore DEF Resources
<1>12. h.mem \div MB \in Nat /\ sum.mem \in Nat
  BY <1>5, UnitsAssumption, FloorOf DEF Resources
<1>13. sum'.mem + Cardinality(Counted') = sum.mem + h.mem \div MB + k + 1
  BY <1>6, <1>9, <1>12
<1> QED BY <1>1, <1>8, <1>9, <1>10, <1>11, <1>13 DEF Summed

LEMMA SumStep == ASSUME VTypeOK, Summed, [Next]_vars PROVE Summed'
<1>i. ASSUME vpc \notin {"average", "select"}, vpc' \notin {"average", "select"}, UNCHANGED sum
      PROVE  Summed'
  BY <1>i DEF Summed
<1>b. ASSUME BeginAverage, vpc \notin {"average", "select"}, UNCHANGED <<listed, sum>>
      PROVE  Summed'
  <2>1. Counted' = {} /\ PodsOn(Counted)' = {}
    BY <1>b DEF BeginAverage, Counted, PodsOn
  <2>2. Requested[PodsOn(Counted)'] = Nothing /\ Cardinality(Counted') = 0
    BY <2>1, RequestedAssumption, FS_EmptySet
  <2>3. sum' = Nothing
    BY <1>b DEF Summed
  <2>4. 0 <= (0 + 0) * MB
    BY UnitsAssumption
  <2> QED BY <1>b, <2>2, <2>3, <2>4 DEF Summed, BeginAverage, Nothing
<1>1. CASE WithoutUtilization
  BY <1>1, <1>b DEF WithoutUtilization
<1>2. CASE TriggerUpscale \/ TriggerDownscale \/ InRange
  BY <1>2, <1>i DEF TriggerUpscale, TriggerDownscale, InRange, Measure
<1>3. CASE DecideDownscale \/ SimulateReduction
  BY <1>3, <1>i DEF DecideDownscale, SimulateReduction
<1>4. CASE EndReduction \/ NoReduction
  BY <1>4, <1>b DEF EndReduction, NoReduction, EndHorizontal
<1>s. ASSUME UNCHANGED <<nodes, at, listed, uncounted, sum>>,
             vpc \in {"average", "select"} <=> vpc' \in {"average", "select"}
      PROVE  Summed'
  <2>1. Counted' = Counted /\ PodsOn(Counted)' = PodsOn(Counted)
    BY <1>s DEF Counted, PodsOn
  <2> QED BY <1>s, <2>1 DEF Summed
<1>5. CASE SimulationStep
  BY <1>5, <1>s DEF SimulationStep, cluster, passVars
<1>6. CASE CountNode
  BY <1>6, CountNodeSums
<1>7. CASE BeginSelect \/ ConsiderPlan
  BY <1>7, <1>s DEF BeginSelect, ConsiderPlan, cluster
<1>8. CASE SwitchPlan \/ KeepPlan
  BY <1>8 DEF SwitchPlan, KeepPlan, EndPass, Summed
<1>9. CASE Between
  BY <1>9, <1>i DEF Between, PodStarts, PodEnds, NodeJoins, NodeLeaves, Resize, passVars
<1>10. CASE UNCHANGED vars
  BY <1>10, <1>s DEF vars, cluster, passVars
<1> QED BY <1>1, <1>2, <1>3, <1>4, <1>5, <1>6, <1>7, <1>8, <1>9, <1>10
        DEF Next, Reads, Horizontal, Decides

-----------------------------------------------------------------------------
(***************************************************************************)
(* The loop of the selection.                                              *)
(***************************************************************************)
LEMMA CandidatesStable ==
  ASSUME UNCHANGED <<plan, weights, known, listed, sum, direction>>, NEW p
  PROVE  (Candidate(p)' <=> Candidate(p)) /\ ScorePlan(p)' = ScorePlan(p)
<1>1. Required' = Required
  BY DEF Required, PerNode
<1>2. Current' = Current
  BY DEF Current
<1>3. \A s : InDirection(s)' <=> InDirection(s)
  BY <1>2 DEF InDirection
<1>4. PlanCapacity(p)' = PlanCapacity(p)
  BY DEF PlanCapacity
<1>5. Candidate(p)' <=> Candidate(p)
  BY <1>1, <1>3, <1>4 DEF Candidate
<1>6. ScorePlan(p)' = ScorePlan(p)
  BY <1>1, <1>4 DEF ScorePlan
<1> QED BY <1>5, <1>6

LEMMA ConsiderKeepsBest ==
  ASSUME VTypeOK, BestSoFar, ConsiderPlan PROVE BestSoFar'
<1>1. UNCHANGED <<plan, weights, known, listed, sum, direction>> /\ vpc = "select"
  BY DEF ConsiderPlan, cluster
<1>2. PICK p \in unseen : /\ unseen' = unseen \ {p}
                          /\ best' = IF Improves(p) THEN p ELSE best
  BY DEF ConsiderPlan
<1>3. p \in Offered /\ p \in Plan /\ p # NoPlan
  BY PlansAssumption DEF VTypeOK
<1>4. \A q : (Candidate(q)' <=> Candidate(q)) /\ ScorePlan(q)' = ScorePlan(q)
  BY <1>1, CandidatesStable
<1>5. ScorePlan(p) \in Fraction /\ BestScore \in Fraction
  BY <1>3, ScoreType, BestScoreType
<1>6. \A q \in Offered : ScorePlan(q) \in Fraction
  BY ScoreType, PlansAssumption
<1>7. \A q \in Offered \ unseen' : q = p \/ q \in Offered \ unseen
  BY <1>2
<1>8. CASE Improves(p)
  <2>1. best' = p /\ Candidate(p) /\ Higher(ScorePlan(p), BestScore)
    BY <1>2, <1>8 DEF Improves
  <2>2. BestScore' = ScorePlan(p)
    BY <1>3, <1>4, <2>1 DEF BestScore
  <2>3. ~Higher(ScorePlan(p), ScorePlan(p))
    BY <1>5, <2>1, HigherIsStrict
  <2>4. ASSUME NEW q \in Offered \ unseen, Candidate(q)
        PROVE  ~Higher(ScorePlan(q), ScorePlan(p))
    <3>1. ~Higher(ScorePlan(q), BestScore)
      BY <1>1, <2>4 DEF BestSoFar
    <3> QED BY <1>5, <1>6, <2>1, <3>1, HigherIsTransitive
  <2>5. \A q \in Offered \ unseen' : Candidate(q)' => ~Higher(ScorePlan(q)', BestScore')
    BY <1>4, <1>7, <2>2, <2>3, <2>4
  <2> QED BY <1>4, <2>1, <2>5 DEF BestSoFar, Higher
<1>9. CASE ~Improves(p)
  <2>1. best' = best
    BY <1>2, <1>9
  <2>2. BestScore' = BestScore
    BY <1>4, <2>1 DEF BestScore
  <2>3. Candidate(p) => ~Higher(ScorePlan(p), BestScore)
    BY <1>9 DEF Improves
  <2>4. \A q \in Offered \ unseen' : Candidate(q)' => ~Higher(ScorePlan(q)', BestScore')
    BY <1>1, <1>4, <1>7, <2>2, <2>3 DEF BestSoFar
  <2> QED BY <1>1, <1>4, <2>1, <2>4 DEF BestSoFar, Higher
<1> QED BY <1>8, <1>9

LEMMA BestStep == ASSUME VTypeOK, BestSoFar, [Next]_vars PROVE BestSoFar'
<1>n. ASSUME vpc' # "select" PROVE BestSoFar'
  BY <1>n DEF BestSoFar
<1>1. CASE Reads \/ DecideDownscale
  BY <1>1, <1>n DEF Reads, WithoutUtilization, TriggerUpscale, TriggerDownscale, InRange,
     DecideDownscale, BeginAverage
<1>2. CASE SimulationStep
  BY <1>2, <1>n DEF SimulationStep, passVars
<1>3. CASE Horizontal
  BY <1>3, <1>n DEF Horizontal, SimulateReduction, EndReduction, NoReduction, EndHorizontal,
     BeginAverage
<1>4. CASE CountNode
  BY <1>4, <1>n DEF CountNode
<1>5. CASE BeginSelect
  BY <1>5 DEF BeginSelect, BestSoFar
<1>6. CASE ConsiderPlan
  BY <1>6, ConsiderKeepsBest
<1>7. CASE SwitchPlan \/ KeepPlan
  BY <1>7, <1>n DEF SwitchPlan, KeepPlan, EndPass
<1>8. CASE Between
  BY <1>8, <1>n DEF Between, PodStarts, PodEnds, NodeJoins, NodeLeaves, Resize, passVars
<1>9. CASE UNCHANGED vars
  <2>1. \A q : (Candidate(q)' <=> Candidate(q)) /\ ScorePlan(q)' = ScorePlan(q)
    BY <1>9, CandidatesStable DEF vars, cluster, passVars
  <2>2. BestScore' = BestScore
    BY <1>9, <2>1 DEF vars, passVars, BestScore
  <2> QED BY <1>9, <2>1, <2>2 DEF vars, passVars, BestSoFar, Higher
<1> QED BY <1>1, <1>2, <1>3, <1>4, <1>5, <1>6, <1>7, <1>8, <1>9 DEF Next, Decides

\* The inductive invariant behind the theorems below.
THEOREM VerticalInvariant == Spec => []VInv
<1>1. Init => VInv
  BY InitType DEF Init, VInv, Accounted, Simulating, Summed, BestSoFar, BlockedForGood
<1>2. VInv /\ [Next]_vars => VInv'
  BY TypeStep, AccountStep, SumStep, BestStep, BlockStep DEF VInv
<1> QED BY <1>1, <1>2, PTL DEF Spec

-----------------------------------------------------------------------------
(***************************************************************************)
(* What follows.                                                           *)
(***************************************************************************)
LEMMA WithinIsTransitive ==
  ASSUME NEW a \in Resources, NEW b \in Resources, NEW c \in Resources,
         Within(a, b), Within(b, c)
  PROVE  Within(a, c)
BY DEF Within, Resources

LEMMA SafeSimulationPacks ==
  ASSUME VTypeOK, Accounted, Simulating, Simulated, Safe
  PROVE  /\ Workload = DOMAIN home
         /\ \A p \in Workload : home[p] \in VirtualNodes
         /\ \A v \in VirtualNodes :
              Within(Requested[{p \in Workload : home[p] = v}], SimCapacity)
<1>1. Workload = DOMAIN home
  BY DEF Accounted, Simulated, Safe, Workload, Movable
<1>2. ASSUME NEW v \in VirtualNodes
      PROVE  Within(Requested[{p \in Workload : home[p] = v}], SimCapacity)
  <2>1. Placed(v) = {p \in Workload : home[p] = v} /\ Placed(v) \in SUBSET SimPod
    BY <1>1 DEF Placed, VTypeOK
  <2>2. Requested[Placed(v)] \in Resources /\ room[v] \in Resources
    BY <2>1, RequestedType DEF VTypeOK
  <2>3. Plus(Requested[Placed(v)], room[v]) = SimCapacity
    BY DEF Accounted
  <2> QED BY <2>1, <2>2, <2>3 DEF Plus, Within, Resources
<1> QED BY <1>1, <1>2 DEF VTypeOK

\* A packing of nodes 1 to n is one of any n nodes that are no smaller: number
\* them, and let each pod follow its virtual node.
LEMMA PackingFits ==
  ASSUME NEW n \in Nat, NEW S \in SUBSET SimPod, NEW h,
         NEW small \in Resources,
         \A p \in S : h[p] \in 1 .. n,
         \A v \in 1 .. n : Within(Requested[{p \in S : h[p] = v}], small),
         NEW R, IsFiniteSet(R), Cardinality(R) = n,
         NEW capacity \in [R -> Resources], \A x \in R : Within(small, capacity[x])
  PROVE  Fit(S, capacity)
<1>1. PICK f : f \in Bijection(1 .. n, R)
  BY FS_CardinalityType DEF ExistsBijection
<1>2. /\ f \in [1 .. n -> R]
      /\ \A v, w \in 1 .. n : f[v] = f[w] => v = w
      /\ \A x \in R : \E v \in 1 .. n : f[v] = x
  BY <1>1 DEF Bijection, Injection, Surjection, IsInjective
<1> DEFINE g == [p \in S |-> f[h[p]]]
<1>3. g \in [S -> DOMAIN capacity]
  BY <1>2
<1>4. ASSUME NEW x \in R
      PROVE  Within(Requested[{p \in S : g[p] = x}], capacity[x])
  <2>1. PICK v \in 1 .. n : f[v] = x
    BY <1>2
  <2>2. {p \in S : g[p] = x} = {p \in S : h[p] = v}
    BY <1>2, <2>1
  <2>3. {p \in S : h[p] = v} \in SUBSET SimPod
    OBVIOUS
  <2>4. Requested[{p \in S : h[p] = v}] \in Resources
    BY <2>3, RequestedType
  <2> QED BY <2>2, <2>4, WithinIsTransitive
<1>5. Packing(g, S, capacity)
  BY <1>4 DEF Packing
<1> QED BY <1>3, <1>5 DEF Fit

\* Before a plan is changed, a simulation that calls a scale-down safe has found
\* room for every workload pod on as many nodes of the plan simulated as there
\* are replicas.  Before a drain it has found room on whatever real nodes remain,
\* one fewer than the replicas, provided none of them is smaller than the node
\* that stood for them all.
THEOREM SafeSimulationMeansFit == Spec => []SafeMeansFit
<1>1. VInv => SafeMeansFit
  <2> SUFFICES ASSUME VInv, Simulated, Safe PROVE
        /\ vpc = "downscale" => Fit(Workload, [v \in 1 .. replicas |-> Machine(plan)])
        /\ vpc = "reduction" =>
             \A R \in SUBSET NodeName :
               Remaining(R) => Fit(Workload, [n \in R |-> Allocatable[nodes[n]]])
        /\ vpc \in {"downscale", "reduction"} => \A p \in Workload : Admitted(p)
    BY DEF SafeMeansFit, Machine
  <2>1. Workload \in SUBSET SimPod /\ replicas \in Nat /\ replicas - 1 \in Nat
    BY PodsOnType, NodesAssumption DEF Workload, VInv, VTypeOK
  <2>2. ASSUME vpc = "downscale"
        PROVE  Fit(Workload, [v \in 1 .. replicas |-> Machine(plan)])
    <3>1. SimCapacity = Machine(plan) /\ VirtualNodes = 1 .. replicas /\ Simulating
      BY <2>2 DEF SimCapacity, VirtualNodes, Simulating
    <3>2. Machine(plan) \in Resources /\ Within(Machine(plan), Machine(plan))
      BY MachineType DEF VInv, VTypeOK, Within, Resources
    <3>3. IsFiniteSet(1 .. replicas) /\ Cardinality(1 .. replicas) = replicas
      BY <2>1, FS_Interval
    <3>4. /\ \A p \in Workload : home[p] \in 1 .. replicas
          /\ \A v \in 1 .. replicas :
               Within(Requested[{p \in Workload : home[p] = v}], Machine(plan))
      BY <3>1, SafeSimulationPacks DEF VInv
    <3> DEFINE capacity == [v \in 1 .. replicas |-> Machine(plan)]
    <3>5. capacity \in [1 .. replicas -> Resources]
          /\ \A v \in 1 .. replicas : Within(Machine(plan), capacity[v])
      BY <3>2
    <3> HIDE DEF capacity
    <3>6. Fit(Workload, capacity)
      BY <2>1, <3>2, <3>3, <3>4, <3>5, PackingFits
    <3> QED BY <3>6 DEF capacity
  <2>3. ASSUME vpc = "reduction", NEW R \in SUBSET NodeName, Remaining(R)
        PROVE  Fit(Workload, [n \in R |-> Allocatable[nodes[n]]])
    <3> DEFINE a == Allocatable[nodes[first]]
               capacity == [n \in R |-> Allocatable[nodes[n]]]
    <3>1. VirtualNodes = 1 .. replicas - 1 /\ Simulating
      BY <2>3 DEF VirtualNodes, Simulating
    <3>2. nodes[first] \in Plan /\ a \in Resources
      BY <2>3, FirstNodeType, PlansAssumption DEF VInv
    <3>3. SimCapacity \in Resources /\ Within(SimCapacity, a)
      BY <2>3, <3>2, SyntheticNodeIsNoLarger DEF SimCapacity
    <3>4. R \subseteq Present /\ IsFiniteSet(R) /\ Cardinality(R) = replicas - 1
      BY <2>3, ListedIsFinite DEF Remaining
    <3>5. \A n \in R : Allocatable[nodes[n]] \in Resources
      BY <3>4, PlansAssumption DEF Present, VInv, VTypeOK
    <3>6. \A n \in R : Within(a, Allocatable[nodes[n]])
      BY <2>3 DEF Remaining
    <3> HIDE DEF a
    <3>7. \A n \in R : Within(SimCapacity, Allocatable[nodes[n]])
      BY <3>2, <3>3, <3>5, <3>6, WithinIsTransitive
    <3>8. capacity \in [R -> Resources] /\ \A n \in R : Within(SimCapacity, capacity[n])
      BY <3>5, <3>7
    <3>9. /\ \A p \in Workload : home[p] \in 1 .. replicas - 1
          /\ \A v \in 1 .. replicas - 1 :
               Within(Requested[{p \in Workload : home[p] = v}], SimCapacity)
      BY <3>1, SafeSimulationPacks DEF VInv
    <3> HIDE DEF capacity
    <3>10. Fit(Workload, capacity)
      BY <2>1, <3>3, <3>4, <3>8, <3>9, PackingFits
    <3> QED BY <3>10 DEF capacity
  <2>4. ASSUME vpc \in {"downscale", "reduction"} PROVE \A p \in Workload : Admitted(p)
    BY <2>4, SafeSimulationPacks DEF VInv, Accounted, Simulating
  <2> QED BY <2>2, <2>3, <2>4
<1> QED BY <1>1, VerticalInvariant, PTL

\* A simulation of the last node but one that blocks the scale-down is right
\* whatever the order in which it took the pods: one of them may not run on the
\* node that would stay, or together they are too much for it.
THEOREM BlockedSimulationMeansNoFit == Spec => []BlockedMeansNoFit
<1>1. VInv => BlockedMeansNoFit
  <2> DEFINE c == SyntheticCapacity(Allocatable[nodes[first]])
  <2> SUFFICES ASSUME VInv, vpc = "reduction", replicas = 2, Simulated, ~Safe,
                      \A q \in Workload : Admitted(q), Fit(Workload, [v \in {1} |-> c])
               PROVE  FALSE
    BY DEF BlockedMeansNoFit
  <2>1. SimCapacity = c
    BY DEF SimCapacity
  <2>2. blocking # {}
    BY DEF Safe, VInv, VTypeOK, VirtualNodes
  <2>3. Workload = DOMAIN home \cup blocking
    BY DEF VInv, Accounted, Simulating, Simulated, Workload, Movable
  <2> HIDE DEF c
  <2>4. ~Within(Requested[Workload], c)
    BY <2>1, <2>2, <2>3 DEF VInv, BlockedForGood
  <2>5. PICK h \in [Workload -> {1}] : Packing(h, Workload, [v \in {1} |-> c])
    BY DEF Fit
  <2>6. {q \in Workload : h[q] = 1} = Workload
    OBVIOUS
  <2>7. Within(Requested[Workload], c)
    BY <2>5, <2>6 DEF Packing
  <2> QED BY <2>4, <2>7
<1> QED BY <1>1, VerticalInvariant, PTL

\* The plan selected is a candidate that no other candidate outscores.
THEOREM SelectionIsBest == Spec => []BestIsChosen
<1>1. VInv => BestIsChosen
  BY DEF VInv, BestSoFar, BestIsChosen, Selected
<1> QED BY <1>1, VerticalInvariant, PTL

\* Only a switch changes the plan.
LEMMA OnlySwitchPlan == ASSUME [Next]_vars, plan' # plan PROVE SwitchPlan
<1>1. ~Reads /\ ~Horizontal /\ ~DecideDownscale /\ ~SimulationStep
  BY DEF Reads, Horizontal, WithoutUtilization, TriggerUpscale, TriggerDownscale, InRange, Measure,
     DecideDownscale, SimulationStep, SimulateReduction, EndReduction, NoReduction, EndHorizontal,
     cluster
<1>2. ~Between
  BY DEF Between, PodStarts, PodEnds, NodeJoins, NodeLeaves, Resize
<1>3. ~(CountNode \/ BeginSelect \/ ConsiderPlan \/ KeepPlan)
  BY DEF CountNode, BeginSelect, ConsiderPlan, KeepPlan, cluster
<1> QED BY <1>1, <1>2, <1>3 DEF Next, Decides, vars, cluster

LEMMA SwitchTakesCandidate ==
  ASSUME VInv, [Next]_vars, plan' # plan
  PROVE  /\ plan' = best /\ Saves(best) /\ Candidate(best) /\ best \in Offered
         /\ vpc = "select"
<1>1. SwitchPlan
  BY OnlySwitchPlan
<1>2. plan' = best /\ best # NoPlan /\ Saves(best) /\ vpc = "select"
  BY <1>1 DEF SwitchPlan, ShouldSwitch, Selected
<1> QED BY <1>2 DEF VInv, BestSoFar, VTypeOK

\* Every change of plan saves what the policy asks for, to a plan that the policy
\* allows within all of its constraints.
THEOREM EverySwitchSaves == Spec => SwitchSaves
<1>1. ASSUME VInv, [Next]_vars, plan' # plan
      PROVE  /\ 100 * (PlanSpec[plan].price - PlanSpec[plan'].price)
                  >= MinSavingsPercent * PlanSpec[plan].price
             /\ plan' \in Offered \ Constraints.excluded
             /\ PlanSpec[plan'].cpu \in Constraints.minCPU .. Constraints.maxCPU
             /\ PlanSpec[plan'].ram \in Constraints.minRAM .. Constraints.maxRAM
             /\ PlanSpec[plan'].ssd >= Constraints.minSSD
  <2>1. plan' = best /\ Saves(best) /\ Candidate(best) /\ best \in Offered
    BY <1>1, SwitchTakesCandidate
  <2>2. known
    BY <2>1 DEF Saves, Current, Unknown
  <2>3. Current = PlanSpec[plan]
    BY <2>2 DEF Current
  <2> QED BY <2>1, <2>3 DEF Saves, Candidate
<1> QED BY <1>1, VerticalInvariant, PTL DEF Spec, SwitchSaves

\* As many nodes of the new plan as the pass listed hold what the pods of those
\* requested, but for one unit of CPU and two MB a node that rounding may lose.
THEOREM SwitchKeepsTotal == Spec => SwitchHoldsTotal
<1> DEFINE count == Cardinality(listed)
           request == Requested[PodsOn(listed)]
<1>1. ASSUME VInv, [Next]_vars, plan' # plan, listed # {}
      PROVE  /\ request.cpu < count * (PlanCapacity(plan').cpu + 1)
             /\ request.mem < count * (PlanCapacity(plan').mem + 2) * MB
  <2> DEFINE c == PlanCapacity(best)
  <2>1. plan' = best /\ Candidate(best) /\ best \in Plan /\ vpc = "select"
    BY <1>1, SwitchTakesCandidate, PlansAssumption
  <2>2. count \in Nat \ {0}
    BY <1>1, <2>1, ListedIsFinite DEF VInv, VTypeOK
  <2>3. c \in Resources /\ request \in Resources /\ sum \in Resources
    BY <1>1, <2>1, PlanCapacityType, RequestedType, PodsOnType DEF VInv, VTypeOK
  <2>4. PerNode \in Resources /\ Required \in Resources
    BY <1>1, PerNodeType, RequiredType DEF VInv
  <2>5. Within(PerNode, Required)
    BY <1>1, <2>4, StaticMinimumType, AtLeastType DEF Required
  <2>6. Within(PerNode, c)
    BY <2>1, <2>3, <2>4, <2>5, WithinIsTransitive DEF Candidate
  <2>7. sum.cpu \div count <= c.cpu /\ sum.mem \div count <= c.mem
    BY <2>6 DEF Within, PerNode
  <2>8. Counted = listed
    BY <1>1, <2>1 DEF Counted, VInv, VTypeOK
  <2>9. sum.cpu = request.cpu /\ request.mem <= (sum.mem + count) * MB
    BY <1>1, <2>1, <2>8 DEF VInv, Summed
  <2> HIDE DEF c, request, count
  <2>10. /\ c.cpu \in Nat /\ c.mem \in Nat /\ request.cpu \in Nat /\ request.mem \in Nat
         /\ sum.cpu \in Nat /\ sum.mem \in Nat
    BY <2>3 DEF Resources
  <2>11. request.cpu < count * (c.cpu + 1)
    BY <2>2, <2>7, <2>9, <2>10, AverageBound
  <2>12. sum.mem < count * (c.mem + 1)
    BY <2>2, <2>7, <2>10, AverageBound
  <2>13. request.mem < count * (c.mem + 2) * MB
    <3>1. count * (c.mem + 2) = count * (c.mem + 1) + count
      BY <2>2, <2>10, SMT
    <3>2. count * (c.mem + 1) \in Nat
      BY <2>2, <2>10, ProductType
    <3>3. sum.mem + count \in Nat /\ count * (c.mem + 2) \in Nat
          /\ sum.mem + count < count * (c.mem + 2)
      BY <2>2, <2>10, <2>12, <3>1, <3>2
    <3>4. (sum.mem + count) * MB < count * (c.mem + 2) * MB
      BY <3>3, TimesKeepsOrder, UnitsAssumption
    <3>5. (sum.mem + count) * MB \in Nat /\ count * (c.mem + 2) * MB \in Nat
      BY <3>3, ProductType, UnitsAssumption
    <3> QED BY <2>9, <2>10, <3>4, <3>5
  <2> QED BY <2>1, <2>11, <2>13 DEF c
<1> QED BY <1>1, VerticalInvariant, PTL DEF Spec, SwitchHoldsTotal, count, request
=============================================================================
