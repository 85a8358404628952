----------------------------- MODULE ScaleDown -----------------------------
(***************************************************************************)
(* What horizontal scaling promises of one MachineDeployment: the number   *)
(* of replicas stays within its bounds and moves by one at a time; it goes *)
(* down only by giving up the one node that is being drained, which is     *)
(* then no longer the victim; and it goes up only while nothing is drained.*)
(***************************************************************************)
EXTENDS Integers

CONSTANTS Node, NoNode, MinReplicas, MaxReplicas

VARIABLES
  replicas,   \* spec.replicas
  victim      \* the node being drained for a scale-down, or NoNode

Init == replicas \in MinReplicas .. MaxReplicas /\ victim = NoNode

Grow == /\ victim = NoNode /\ replicas < MaxReplicas
        /\ replicas' = replicas + 1 /\ UNCHANGED victim

StartDrain(n) == /\ victim = NoNode /\ replicas > MinReplicas
                 /\ victim' = n /\ UNCHANGED replicas

AbandonDrain == /\ victim # NoNode
                /\ victim' = NoNode /\ UNCHANGED replicas

Shrink == /\ victim # NoNode /\ replicas > MinReplicas
          /\ replicas' = replicas - 1 /\ victim' = NoNode

Next == Grow \/ AbandonDrain \/ Shrink \/ \E n \in Node : StartDrain(n)

Spec == Init /\ [][Next]_<<replicas, victim>>
=============================================================================
