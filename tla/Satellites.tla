----------------------------- MODULE Satellites -----------------------------
(***************************************************************************)
(* What the node pools promise of the satellites in the cluster: a plan's  *)
(* satellite is made with one machine and only below the limit on          *)
(* satellites, grows one machine at a time up to its own limit, never      *)
(* shrinks, and goes as a whole, only after nothing used it for long.      *)
(***************************************************************************)
EXTENDS Integers, FiniteSets

CONSTANTS
  Pool, MaxPools, MaxReplicas, ScaleDownDelay, AgeCap,
  Outsiders   \* whether others than the controller delete satellites

VARIABLES
  size,  \* size[p]: how many machines p's satellite asks for; 0 without one
  idle   \* idle[p]: ticks since p was last used, up to AgeCap; Never before

Never == -1
Made == {p \in Pool : size[p] > 0}

Init == size = [p \in Pool |-> 0] /\ idle = [p \in Pool |-> Never]

UseOf(p) == idle' = [idle EXCEPT ![p] = 0]
Resize(p, n) == size' = [size EXCEPT ![p] = n]

Make(p) == p \notin Made /\ Cardinality(Made) < MaxPools /\ Resize(p, 1) /\ UseOf(p)
Grow(p) == p \in Made /\ size[p] < MaxReplicas /\ Resize(p, size[p] + 1) /\ UseOf(p)
See(p) == UseOf(p) /\ UNCHANGED size
Remove(p) == p \in Made /\ idle[p] >= ScaleDownDelay /\ Resize(p, 0) /\ UNCHANGED idle
Lose(p) == Outsiders /\ p \in Made /\ Resize(p, 0) /\ UNCHANGED idle

Older(age) == IF age \in {Never, AgeCap} THEN age ELSE age + 1
Tick == idle' = [p \in Pool |-> Older(idle[p])] /\ UNCHANGED size

Next == Tick \/ \E p \in Pool : Make(p) \/ Grow(p) \/ See(p) \/ Remove(p) \/ Lose(p)
Spec == Init /\ [][Next]_<<size, idle>>
=============================================================================
