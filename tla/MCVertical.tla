----------------------------- MODULE MCVertical -----------------------------
(* Values for the constants of VerticalScaling that a configuration cannot  *)
(* write.  CPU counts in 100m and memory in 128 MB, two of which are the    *)
(* model's MB, so that a plan's 256 MB for the kubelet are one.             *)
EXTENDS VerticalScaling, TLC

CONSTANTS big, wide, plain, picky, daemon, small, tall, old, spot, n1, n2, n3

Labels == ("zone" :> "a") @@ ("gpus" :> "2")
Taints == {[key |-> "dedicated", value |-> "pool", effect |-> "NoSchedule"],
           [key |-> "busy", value |-> "", effect |-> "PreferNoSchedule"]}
Quantities == ("1" :> 1) @@ ("2" :> 2)

Toleration(k, o, v, e) == [key |-> k, operator |-> o, value |-> v, effect |-> e]
Needs(k, o, v) == [key |-> k, operator |-> o, values |-> v]
NoSelector == [k \in {} |-> ""]
NoRules == [required |-> FALSE, terms |-> {}]
Rules(terms) == [required |-> TRUE, terms |-> terms]

\* picky got in before the taint did: it only tolerates NoExecute.
Specs ==
  (big :> [kind |-> "workload", nodeSelector |-> NoSelector,
           tolerations |-> {Toleration("dedicated", "", "pool", "")},
           affinity |-> Rules({{Needs("zone", "In", <<"b">>)},
                               {Needs("zone", "NotIn", <<"b">>), Needs("gpus", "Gt", <<"1">>)}})]) @@
  (wide :> [kind |-> "workload", nodeSelector |-> NoSelector,
            tolerations |-> {Toleration("dedicated", "Equal", "pool", "NoSchedule")},
            affinity |-> Rules({{Needs("gpus", "Lt", <<"1">>)}, {}})]) @@
  (plain :> [kind |-> "workload", nodeSelector |-> "zone" :> "a",
             tolerations |-> {Toleration("", "Exists", "", "")},
             affinity |-> Rules({{Needs("gpus", "Exists", <<>>),
                                  Needs("spot", "DoesNotExist", <<>>)}})]) @@
  (picky :> [kind |-> "workload", nodeSelector |-> NoSelector,
             tolerations |-> {Toleration("dedicated", "Exists", "", "NoExecute")},
             affinity |-> NoRules]) @@
  (daemon :> [kind |-> "DaemonSet", nodeSelector |-> NoSelector,
              tolerations |-> {}, affinity |-> NoRules])
Requests == (big :> [cpu |-> 24, mem |-> 4]) @@ (wide :> [cpu |-> 12, mem |-> 7]) @@
            (plain :> [cpu |-> 5, mem |-> 3]) @@ (picky :> [cpu |-> 3, mem |-> 2]) @@
            (daemon :> [cpu |-> 2, mem |-> 1])
Totals == [S \in SUBSET SimPod |->
             [cpu |-> MapThenSumSet(LAMBDA p : Requests[p].cpu, S),
              mem |-> MapThenSumSet(LAMBDA p : Requests[p].mem, S)]]

Machine(c, r, p) == [cpu |-> c, ram |-> r, ssd |-> 1, price |-> p]
Catalogue == (small :> Machine(2, 5, 8)) @@ (tall :> Machine(4, 5, 9)) @@
             (old :> Machine(3, 8, 16)) @@ (spot :> Machine(4, 8, 3))
\* The kubelets of old machines keep 200m and 384 MB for themselves.
Reported == [p \in Plan |->
               [cpu |-> 10 * Catalogue[p].cpu - (IF p = old THEN 2 ELSE 1),
                mem |-> 2 * Catalogue[p].ram - (IF p = old THEN 3 ELSE 2)]]
Limits == [minCPU |-> 1, maxCPU |-> 4, minRAM |-> 1, maxRAM |-> 8, minSSD |-> 0,
           excluded |-> {spot}]
Loads == {[cpu |-> 10, mem |-> 10], [cpu |-> 90, mem |-> 10]}
SameNodes == Permutations(NodeName)
=============================================================================
