---------------------------- MODULE MCNodePools ----------------------------
(* Values for the constants of NodePools that a configuration cannot write. *)
EXTENDS NodePools, TLC

CONSTANTS q1, q2, ordinary, a, b

\* a is cheaper than b and holds q1 only, or any ordinary pod.
CheapAndLarge == (q1 :> {a, b}) @@ (q2 :> {b}) @@ (ordinary :> {a, b})
Prices == (a :> 1) @@ (b :> 2)
OnePool == (q1 :> {a}) @@ (q2 :> {a}) @@ (ordinary :> {a})
OnePrice == a :> 1
=============================================================================
