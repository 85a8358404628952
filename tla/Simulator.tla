----------------------------- MODULE Simulator -----------------------------
(***************************************************************************)
(* DefaultSimulator.SimulateDownscale: would the workload pods of a pool   *)
(* fit on so many nodes of a given capacity?  First-fit decreasing, one    *)
(* pod a step, over virtual nodes that all carry the labels and taints of  *)
(* the pool's first node.                                                  *)
(*                                                                         *)
(* CPU is counted in units of which Core make a vCPU, memory in units of   *)
(* which MB make a megabyte; what the kubelet keeps back is whole.         *)
(***************************************************************************)
EXTENDS Integers, FiniteSets, Sequences

CONSTANTS
  SimPod,      \* the pods that can run in the pool
  PodSpec,     \* what decides where a pod may run, see PodSpecs
  Requested,   \* Requested[S]: what the containers of the pods of S request
  NodeLabels, NodeTaints,  \* of the pool's nodes
  Quantity,    \* Quantity[s]: the amount that resource.MustParse reads in s
  Core, KubeletCPU,  \* 1000 and 100, in millicores
  MB, KubeletRAM     \* 1024 * 1024 in bytes, and 256 in MB

Resources == [cpu : Nat, mem : Nat]
Nothing == [cpu |-> 0, mem |-> 0]
Plus(a, b) == [cpu |-> a.cpu + b.cpu, mem |-> a.mem + b.mem]
Minus(a, b) == [cpu |-> a.cpu - b.cpu, mem |-> a.mem - b.mem]
Within(a, b) == a.cpu <= b.cpu /\ a.mem <= b.mem

ASSUME PodsAssumption == IsFiniteSet(SimPod)
ASSUME RequestedAssumption ==
  /\ Requested \in [SUBSET SimPod -> Resources]
  /\ Requested[{}] = Nothing
  /\ \A S \in SUBSET SimPod : \A T \in SUBSET (SimPod \ S) :
       Requested[S \cup T] = Plus(Requested[S], Requested[T])
ASSUME UnitsAssumption ==
  /\ Core \in Nat \ {0} /\ KubeletCPU \in Nat
  /\ MB \in Nat \ {0} /\ KubeletRAM \in Nat

VARIABLES
  left,     \* the pods still to be placed
  room,     \* room[v]: remainCPU and remainMemory of virtual node v
  blocking, \* the pods that no virtual node takes
  home      \* history: the virtual node of each pod placed

simVars == <<left, room, blocking, home>>

Request(p) == Requested[{p}]

(***************************************************************************)
(* What a node must offer a pod besides room.                              *)
(***************************************************************************)
\* The empty key with Exists is looked at first, whatever the effect.
TolerateTaint(tolerations, taint) ==
  \E t \in tolerations :
    \/ t.operator = "Exists" /\ t.key = ""
    \/ /\ t.key = taint.key /\ t.effect \in {"", taint.effect}
       /\ \/ t.operator = "Exists"
          \/ t.operator \in {"", "Equal"} /\ t.value = taint.value
ToleratesTaints(tolerations, taints) ==
  \A taint \in taints :
    taint.effect \in {"NoSchedule", "NoExecute"} => TolerateTaint(tolerations, taint)

\* Reading a label that is not there gives the empty string.
Label(key) == IF key \in DOMAIN NodeLabels THEN NodeLabels[key] ELSE ""
MatchesNodeSelector(selector) == \A k \in DOMAIN selector : Label(k) = selector[k]

MatchExpression(e) ==
  LET exists == e.key \in DOMAIN NodeLabels
      listed == \E i \in DOMAIN e.values : e.values[i] = Label(e.key)
      comparable == exists /\ e.values # <<>>
  IN /\ e.operator = "In" => exists /\ listed
     /\ e.operator = "NotIn" => ~(exists /\ listed)
     /\ e.operator = "Exists" => exists
     /\ e.operator = "DoesNotExist" => ~exists
     /\ e.operator = "Gt" => comparable /\ Quantity[Label(e.key)] > Quantity[e.values[1]]
     /\ e.operator = "Lt" => comparable /\ Quantity[Label(e.key)] < Quantity[e.values[1]]
\* A term is its matchExpressions; its matchFields are not looked at.
MatchesNodeSelectorTerm(term) == \A e \in term : MatchExpression(e)
\* `terms` are the required rules, meaningful if there are any rules at all.
MatchesRequiredNodeAffinity(affinity) ==
  affinity.required => \E term \in affinity.terms : MatchesNodeSelectorTerm(term)

Admitted(p) ==
  /\ ToleratesTaints(PodSpec[p].tolerations, NodeTaints)
  /\ MatchesNodeSelector(PodSpec[p].nodeSelector)
  /\ MatchesRequiredNodeAffinity(PodSpec[p].affinity)

(***************************************************************************)
(* The simulation.                                                         *)
(***************************************************************************)
AtLeastZero(n) == IF n < 0 THEN 0 ELSE n
\* What a node with so many vCPUs and MB has for pods.
Capacity(cpu, ram) == [cpu |-> AtLeastZero(cpu * Core - KubeletCPU),
                       mem |-> AtLeastZero((ram - KubeletRAM) * MB)]

EveryPod(pods) == pods   \* mutant
\* Pods of DaemonSets and static pods run on every node anyway.
Movable(pods) == {p \in pods : PodSpec[p].kind \notin {"DaemonSet", "mirror"}}

Simulate(pods, capacity, nodeCount) ==
  /\ left' = Movable(pods)
  /\ room' = [v \in 1 .. nodeCount |-> capacity]
  /\ blocking' = {} /\ home' = [p \in {} |-> 0]

\* Millicores are added to bytes, so memory decides and CPU breaks its ties.
Larger(p, q) == \/ Request(p).mem > Request(q).mem
                \/ /\ Request(p).mem = Request(q).mem
                   /\ Request(p).cpu > Request(q).cpu
\* sort.Slice leaves pods of equal size in any order.
IsNext(p) == p \in left /\ \A q \in left : ~Larger(q, p)

HasCPU(p, v) == Request(p).cpu <= room[v].cpu /\ Admitted(p)   \* mutant
Suits(p, v) == Within(Request(p), room[v]) /\ Admitted(p)

PlacePod ==
  \E p \in left, v \in DOMAIN room :
    /\ IsNext(p) /\ Suits(p, v) /\ \A u \in DOMAIN room : u < v => ~Suits(p, u)
    /\ left' = left \ {p}
    /\ room' = [room EXCEPT ![v] = Minus(@, Request(p))]
    /\ home' = [q \in DOMAIN home \cup {p} |-> IF q = p THEN v ELSE home[q]]
    /\ UNCHANGED blocking

BlockPod ==
  \E p \in left :
    /\ IsNext(p) /\ \A v \in DOMAIN room : ~Suits(p, v)
    /\ left' = left \ {p} /\ blocking' = blocking \cup {p}
    /\ UNCHANGED <<room, home>>

NoSimulation == left = {} /\ room = [v \in {} |-> Nothing] /\ blocking = {}
                /\ home = [p \in {} |-> 0]
EndSimulation == left' = {} /\ room' = [v \in {} |-> Nothing] /\ blocking' = {}
                 /\ home' = [p \in {} |-> 0]
Simulated == left = {}
Safe == DOMAIN room # {} /\ blocking = {}

-----------------------------------------------------------------------------
(***************************************************************************)
(* What a verdict should mean, without reference to the algorithm.         *)
(***************************************************************************)
\* h puts every pod of S on one of the nodes so that none is overfull.
Packing(h, S, capacity) ==
  \A v \in DOMAIN capacity : Within(Requested[{p \in S : h[p] = v}], capacity[v])
Fit(S, capacity) == \E h \in [S -> DOMAIN capacity] : Packing(h, S, capacity)
=============================================================================
