--------------------------- MODULE MCReconciler ---------------------------
(* Values for the constants of Reconciler that a configuration cannot write. *)
EXTENDS Reconciler, TLC

CONSTANTS t1, t2, t3

\* Each plan is cheaper than the one before it.
ThreePrices == (t1 :> 3) @@ (t2 :> 2) @@ (t3 :> 1)
TwoPrices == (t1 :> 2) @@ (t2 :> 1)
OnePrice == t1 :> 1
Workloads == Permutations(Node) \cup Permutations(Pod \ Oversized)

\* No guard reads a history variable: states that differ in them only have
\* the same future as far as the invariants of a run with this view can tell.
WithoutHistory == <<policy, md, templates, cache, passVars, workloadVars>>
===========================================================================
