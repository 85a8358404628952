----------------------------- MODULE NodePools -----------------------------
(***************************************************************************)
(* reconcileNodePools and cleanupNodePools: the satellite                  *)
(* MachineDeployments made for pods too large for the base plan, the list  *)
(* of them in the policy's status, and the actors they race with.  A pass  *)
(* of the reconciler reads the status, visits one group of pending pods    *)
(* per plan, cleans up the pools that have been empty for long, and saves  *)
(* the status.  Every API call that something may come between is a step.  *)
(*                                                                         *)
(* A pool stands for its plan, its MachineDeployment and its template: all *)
(* are named after the plan's nickname.  The status is a list and nothing  *)
(* keeps a pool from being in it twice.  A node of a pool holds one        *)
(* oversized pod, and ordinary pods as well: nothing keeps them off it,    *)
(* since a satellite's machines have no taint.  Times are ages in ticks,   *)
(* up to AgeCap.                                                           *)
(***************************************************************************)
EXTENDS Integers, Sequences, FiniteSets

CONSTANTS
  Pool,            \* plans that satellites may be made for
  Pod,             \* the workload pods that may run on satellites
  Oversized,       \* those that do not fit the base plan
  Fits,            \* Fits[q]: the plans allowed by spec.constraints that hold q
  Price,           \* Price[p]: PriceMonthly
  NoPool,
  MaxPools,        \* effective spec.nodePoolPolicy.maxPools
  MaxReplicas,     \* effective spec.horizontal.maxReplicas
  ScaleDownDelay,  \* in ticks
  AgeCap,          \* ages above this are not told apart
  Faults

(* "lag": the informer's copies are behind the API server;                 *)
(* "lost": the status write is refused, or the controller stops in a pass; *)
(* "workload": listing pending pods, nodes or a MachineDeployment fails;   *)
(* "count": GetNonSystemPodCount fails for some node;                      *)
(* "write": a Create, Patch or Delete fails;                               *)
(* "external": somebody else deletes a satellite;                          *)
(* "dryrun": spec.dryRun is set during some passes.                        *)
FaultKinds == {"lag", "lost", "workload", "count", "write", "external", "dryrun"}

Entry == [pool : Pool, age : 0 .. AgeCap]   \* age: that of LastPodSeen

ASSUME PoolsAssumption ==
  /\ IsFiniteSet(Pool) /\ NoPool \notin Pool /\ Oversized \subseteq Pod
  /\ Fits \in [Pod -> SUBSET Pool] /\ Price \in [Pool -> Nat]
  /\ MaxPools \in Nat \ {0} /\ MaxReplicas \in Nat \ {0}
  /\ ScaleDownDelay \in Nat /\ AgeCap \in Nat /\ ScaleDownDelay <= AgeCap
  /\ Faults \subseteq FaultKinds

VARIABLES
  nodePools, \* status.nodePools
  md,        \* md[p]: the satellite MachineDeployment in the API server
  tmpl,      \* the satellite templates that exist
  cache,     \* the informer's copies of these; `latest`: of the status's version
  pc,        \* the call the pass is at; "idle" between passes
  mem,       \* the pass's copy of status.nodePools; in cleanup, updatedPools
  fresh,     \* the resourceVersion of the pass's policy is still current
  dryRun,    \* spec.dryRun as the pass read it
  todo,      \* the groups still to be visited
  left,      \* the entries that cleanup has still to visit
  nodes,     \* nodes[p]: how many nodes p's machines have become
  pending,   \* the oversized pods marked Unschedulable
  podAt,     \* the pool whose node a pod runs on
  sinceUse   \* history: the age of the last use of p that a pass noticed, which is a
             \* creation, a scale-up or a pod count above 0, or Never

passVars == <<pc, mem, fresh, dryRun, todo, left>>
cluster == <<nodes, pending, podAt>>
vars == <<nodePools, md, tmpl, cache, passVars, cluster, sinceUse>>

Deployment == [state : {"absent", "live", "deleting"},
               replicas : Nat, ready : Nat]
Absent == [state |-> "absent", replicas |-> 0, ready |-> 0]
Never == -1

CanFail(f) == f \in Faults
Listed(list) == {list[i].pool : i \in DOMAIN list}
PodsOn(p) == {q \in Pod : podAt[q] = p}
Live == {p \in Pool : md[p].state = "live"}

\* Unless the informer may lag, its copies follow every write.
InSync == cache' = IF CanFail("lag") THEN cache
                   ELSE [cache EXCEPT !.md = md', !.tmpl = tmpl']

Init ==
  /\ nodePools = << >> /\ md = [p \in Pool |-> Absent] /\ tmpl = {}
  /\ cache = [nodePools |-> << >>, latest |-> TRUE, md |-> md, tmpl |-> tmpl]
  /\ pc = "idle" /\ mem = << >> /\ fresh = FALSE /\ dryRun = FALSE
  /\ todo = {} /\ left = << >>
  /\ nodes = [p \in Pool |-> 0] /\ pending = {} /\ podAt = [q \in Pod |-> NoPool]
  /\ sinceUse = [p \in Pool |-> Never]

-----------------------------------------------------------------------------
Begin ==
  /\ pc = "idle" /\ pc' = "list"
  /\ mem' = cache.nodePools /\ fresh' = cache.latest
  /\ dryRun' \in {FALSE} \cup (IF CanFail("dryrun") THEN {TRUE} ELSE {})
  /\ UNCHANGED <<nodePools, md, tmpl, cache, todo, left, cluster, sinceUse>>

\* findCheapestFittingPlan: the first of the cheapest plans.
CheapestFitting(q) == CHOOSE p \in Fits[q] : \A r \in Fits[q] : Price[p] <= Price[r]
Groups == {p \in Pool : \E q \in pending : Fits[q] # {} /\ p = CheapestFitting(q)}

\* Without the list, the pass leaves the pools alone altogether.
ListPending ==
  /\ pc = "list"
  /\ \/ pc' = "groups" /\ todo' = Groups
     \/ CanFail("workload") /\ pc' = "save" /\ UNCHANGED todo
  /\ UNCHANGED <<nodePools, md, tmpl, cache, mem, fresh, dryRun, left, cluster, sinceUse>>

VisitGroup(p) == pc = "groups" /\ p \in todo /\ todo' = todo \ {p}

OverPools == Len(mem) > MaxPools   \* mutant
AtLimit == Len(mem) >= MaxPools

NotTracked(p) == UNCHANGED mem   \* mutant
NoClock(p) == mem' = Append(mem, [pool |-> p, age |-> Never])   \* mutant
Track(p) == mem' = Append(mem, [pool |-> p, age |-> 0])
Used(p) == sinceUse' = [sinceUse EXCEPT ![p] = 0]

\* createSatelliteMD looks for the template in the cache before it creates it.
SkipTemplate(p) == UNCHANGED tmpl   \* mutant
EnsureTemplate(p) == IF p \in cache.tmpl THEN UNCHANGED tmpl
                     ELSE p \notin tmpl /\ tmpl' = tmpl \cup {p}

CreatePool(p) ==
  /\ VisitGroup(p) /\ cache.md[p].state = "absent" /\ ~AtLimit /\ ~dryRun
  /\ \/ /\ EnsureTemplate(p) /\ md[p].state = "absent"
        /\ md' = [md EXCEPT ![p] = [state |-> "live", replicas |-> 1, ready |-> 0]]
        /\ Track(p) /\ Used(p)
     \/ /\ EnsureTemplate(p) /\ (md[p].state # "absent" \/ CanFail("write"))
        /\ UNCHANGED <<md, mem, sinceUse>>
     \/ /\ (p \in tmpl \ cache.tmpl) \/ CanFail("write")
        /\ UNCHANGED <<tmpl, md, mem, sinceUse>>
  /\ InSync
  /\ UNCHANGED <<nodePools, pc, fresh, dryRun, left, cluster>>

RolloutInProgress(p) == cache.md[p].replicas > cache.md[p].ready

\* updateNodePoolReplicas refreshes LastPodSeen of the pool's first entry.
FirstOf(list, p) == {i \in DOMAIN list : /\ list[i].pool = p
                                          /\ \A j \in 1 .. i - 1 : list[j].pool # p}
KeepClock(p) == UNCHANGED mem   \* mutant
RefreshClock(p) ==
  mem' = [i \in DOMAIN mem |-> IF i \in FirstOf(mem, p) THEN [mem[i] EXCEPT !.age = 0] ELSE mem[i]]
OverLimit(p) == cache.md[p].replicas > MaxReplicas   \* mutant
Full(p) == cache.md[p].replicas >= MaxReplicas

ScalePool(p) ==
  /\ VisitGroup(p) /\ cache.md[p].state # "absent"
  /\ ~dryRun /\ ~RolloutInProgress(p) /\ ~Full(p)
  /\ \/ /\ md[p].state # "absent"
        /\ md' = [md EXCEPT ![p].replicas = cache.md[p].replicas + 1]
        /\ RefreshClock(p) /\ Used(p)
     \/ /\ md[p].state = "absent" \/ CanFail("write")
        /\ UNCHANGED <<md, mem, sinceUse>>
  /\ UNCHANGED tmpl /\ InSync
  /\ UNCHANGED <<nodePools, pc, fresh, dryRun, left, cluster>>

SkipGroup(p) ==
  /\ VisitGroup(p)
  /\ \/ dryRun \/ CanFail("workload")
     \/ cache.md[p].state = "absent" /\ AtLimit
     \/ cache.md[p].state # "absent" /\ (RolloutInProgress(p) \/ Full(p))
  /\ UNCHANGED <<nodePools, md, tmpl, cache, pc, mem, fresh, dryRun, left, cluster, sinceUse>>

\* cleanupNodePools goes through the list as the groups left it, and makes
\* the list that replaces it.
StartCleanup ==
  /\ pc = "groups" /\ todo = {} /\ pc' = "clean"
  /\ left' = mem /\ mem' = << >>
  /\ UNCHANGED <<nodePools, md, tmpl, cache, fresh, dryRun, todo, cluster, sinceUse>>

Current == Head(left)
Visit == pc = "clean" /\ left # << >>
Keep(entry) == mem' = Append(mem, entry) /\ left' = Tail(left)
Drop == UNCHANGED mem /\ left' = Tail(left)

\* "MD was deleted externally, remove from status"
DropMissing ==
  /\ Visit /\ cache.md[Current.pool].state = "absent" /\ Drop
  /\ UNCHANGED <<nodePools, md, tmpl, cache, pc, fresh, dryRun, todo, cluster, sinceUse>>

\* A call fails, or no machine of the pool is a node yet.
KeepUnread ==
  /\ Visit
  /\ CanFail("workload") \/ (cache.md[Current.pool].state # "absent" /\ nodes[Current.pool] = 0)
  /\ Keep(Current)
  /\ UNCHANGED <<nodePools, md, tmpl, cache, pc, fresh, dryRun, todo, cluster, sinceUse>>

\* A node whose pods cannot be counted adds nothing to the sum.
Counts(p) == IF CanFail("count") THEN 0 .. Cardinality(PodsOn(p))
             ELSE {Cardinality(PodsOn(p))}
IgnoreDelay(entry) == TRUE   \* mutant
NeverIdle(entry) == FALSE    \* mutant
IdleLong(entry) == entry.age >= ScaleDownDelay

CountPods ==
  /\ Visit /\ cache.md[Current.pool].state # "absent" /\ nodes[Current.pool] > 0
  /\ \E count \in Counts(Current.pool) :
       \/ /\ count > 0 /\ Keep([Current EXCEPT !.age = 0]) /\ Used(Current.pool)
          /\ UNCHANGED pc
       \/ /\ count = 0 /\ (~IdleLong(Current) \/ dryRun)
          /\ Keep(Current) /\ UNCHANGED <<sinceUse, pc>>
       \/ /\ count = 0 /\ IdleLong(Current) /\ ~dryRun
          /\ pc' = "delete" /\ UNCHANGED <<mem, left, sinceUse>>
  /\ UNCHANGED <<nodePools, md, tmpl, cache, fresh, dryRun, todo, cluster>>

\* Delete starts a deletion that Cluster API's finalizer completes; the
\* template is read from the cache and an error deleting it is only logged.
DeletePool ==
  /\ pc = "delete" /\ pc' = "clean"
  /\ \/ /\ md' = [md EXCEPT ![Current.pool].state = IF @ = "absent" THEN @ ELSE "deleting"]
        /\ \/ tmpl' = tmpl \ (cache.tmpl \cap {Current.pool})
           \/ CanFail("write") /\ UNCHANGED tmpl
        /\ Drop
     \/ CanFail("write") /\ UNCHANGED <<md, tmpl>> /\ Keep(Current)
  /\ InSync
  /\ UNCHANGED <<nodePools, fresh, dryRun, todo, cluster, sinceUse>>

EndCleanup ==
  /\ pc = "clean" /\ left = << >> /\ pc' = "save"
  /\ UNCHANGED <<nodePools, md, tmpl, cache, mem, fresh, dryRun, todo, left, cluster, sinceUse>>

EndPass ==
  /\ pc' = "idle" /\ mem' = << >> /\ fresh' = FALSE /\ dryRun' = FALSE
  /\ todo' = {} /\ left' = << >>
  /\ UNCHANGED <<md, tmpl, cluster, sinceUse>>

SaveStatus ==
  /\ pc = "save" /\ fresh /\ EndPass
  /\ nodePools' = mem
  /\ cache' = IF CanFail("lag") THEN [cache EXCEPT !.latest = FALSE]
              ELSE [cache EXCEPT !.nodePools = mem]

\* The API server refuses the write, or the pass never gets that far.
LoseStatus ==
  /\ pc # "idle" /\ (CanFail("lost") \/ (pc = "save" /\ ~fresh)) /\ EndPass
  /\ UNCHANGED <<nodePools, cache>>

Pass == \/ Begin \/ ListPending \/ StartCleanup \/ DeletePool \/ EndCleanup \/ SaveStatus
        \/ (pc = "save" /\ LoseStatus)
        \/ DropMissing \/ KeepUnread \/ CountPods
        \/ \E p \in Pool : CreatePool(p) \/ ScalePool(p) \/ SkipGroup(p)

-----------------------------------------------------------------------------
(* Cluster API, the informer, the scheduler and the owners of the pods.    *)
SyncCache ==
  /\ CanFail("lag")
  /\ \/ cache' = [cache EXCEPT !.nodePools = nodePools, !.latest = TRUE]
     \/ \E p \in Pool : cache' = [cache EXCEPT !.md[p] = md[p]]
     \/ cache' = [cache EXCEPT !.tmpl = tmpl]
  /\ UNCHANGED <<nodePools, md, tmpl, passVars, cluster, sinceUse>>

RegisterNode(p) ==
  /\ p \in Live /\ nodes[p] < md[p].replicas
  /\ nodes' = [nodes EXCEPT ![p] = @ + 1]
  /\ UNCHANGED <<nodePools, md, tmpl, cache, passVars, pending, podAt, sinceUse>>

ReportReady(p) ==
  /\ p \in Live /\ md[p].ready # nodes[p]
  /\ md' = [md EXCEPT ![p].ready = nodes[p]] /\ UNCHANGED tmpl /\ InSync
  /\ UNCHANGED <<nodePools, passVars, cluster, sinceUse>>

\* The finalizer goes when the machines are gone.  Their oversized pods are owed
\* a node; the others find one outside the satellites.
FinishDelete(p) ==
  /\ md[p].state = "deleting"
  /\ md' = [md EXCEPT ![p] = Absent] /\ UNCHANGED tmpl /\ InSync
  /\ nodes' = [nodes EXCEPT ![p] = 0]
  /\ pending' = pending \cup (PodsOn(p) \cap Oversized)
  /\ podAt' = [q \in Pod |-> IF podAt[q] = p THEN NoPool ELSE podAt[q]]
  /\ UNCHANGED <<nodePools, passVars, sinceUse>>

DeleteExternally(p) ==
  /\ CanFail("external") /\ p \in Live
  /\ md' = [md EXCEPT ![p].state = "deleting"] /\ UNCHANGED tmpl /\ InSync
  /\ UNCHANGED <<nodePools, passVars, cluster, sinceUse>>

Holds(p, q) == IF q \in Oversized THEN Cardinality(PodsOn(p) \cap Oversized) < nodes[p]
               ELSE nodes[p] > 0
Room(q) == {p \in Fits[q] \cap Live : Holds(p, q)}

\* A new pod that finds no room is marked Unschedulable; ordinary pods may have
\* taken what there was.
CreatePod(q) ==
  /\ q \in Oversized \ pending /\ podAt[q] = NoPool
  /\ \A p \in Room(q) : PodsOn(p) \ Oversized # {}
  /\ pending' = pending \cup {q} /\ UNCHANGED podAt
BindPod(q) ==
  /\ podAt[q] = NoPool /\ pending' = pending \ {q}
  /\ \E p \in Room(q) : podAt' = [podAt EXCEPT ![q] = p]
FinishPod(q) ==
  /\ q \in pending \/ podAt[q] # NoPool
  /\ pending' = pending \ {q} /\ podAt' = [podAt EXCEPT ![q] = NoPool]
PodsOnly == UNCHANGED <<nodePools, md, tmpl, cache, passVars, nodes, sinceUse>>
PodStep == (\E q \in Pod : CreatePod(q) \/ BindPod(q) \/ FinishPod(q)) /\ PodsOnly

Older(age) == IF age \in {Never, AgeCap} THEN age ELSE age + 1
Aged(list) == [i \in DOMAIN list |-> [list[i] EXCEPT !.age = Older(@)]]
Tick ==
  /\ nodePools' = Aged(nodePools) /\ mem' = Aged(mem) /\ left' = Aged(left)
  /\ cache' = [cache EXCEPT !.nodePools = Aged(@)]
  /\ sinceUse' = [p \in Pool |-> Older(sinceUse[p])]
  /\ UNCHANGED <<md, tmpl, pc, fresh, dryRun, todo, cluster>>

PoolStep == \E p \in Pool : \/ RegisterNode(p) \/ ReportReady(p) \/ FinishDelete(p)
                             \/ DeleteExternally(p)
Next == Pass \/ LoseStatus \/ SyncCache \/ PoolStep \/ PodStep \/ Tick
Spec == Init /\ [][Next]_vars

(* Every pass is requeued, Cluster API goes on with what it has begun, and *)
(* the clock advances; pods need not be created, bound or finished.        *)
FairSpec ==
  /\ Spec /\ WF_vars(Pass) /\ WF_vars(Tick)
  /\ \A p \in Pool : WF_vars(RegisterNode(p)) /\ WF_vars(ReportReady(p)) /\ WF_vars(FinishDelete(p))

-----------------------------------------------------------------------------
\* What the status would be if the pass ended here.
Status == IF pc = "idle" THEN nodePools ELSE mem
Tracked == Listed(Status) \cup Listed(left)
Entries == Len(Status) + Len(left)

ListsOK ==
  /\ nodePools \in Seq(Entry) /\ mem \in Seq(Entry) /\ left \in Seq(Entry)
  /\ cache.nodePools \in Seq(Entry) /\ cache.latest \in BOOLEAN
  /\ sinceUse \in [Pool -> Never .. AgeCap]
ObjectsOK ==
  /\ md \in [Pool -> Deployment] /\ tmpl \subseteq Pool
  /\ cache.md \in [Pool -> Deployment] /\ cache.tmpl \subseteq Pool
  /\ cache = [nodePools |-> cache.nodePools, latest |-> cache.latest,
              md |-> cache.md, tmpl |-> cache.tmpl]
PassOK ==
  /\ pc \in {"idle", "list", "groups", "clean", "delete", "save"}
  /\ fresh \in BOOLEAN /\ dryRun \in BOOLEAN
  /\ todo \subseteq Pool /\ (todo # {} => pc = "groups")
  /\ (pc = "delete" => left # << >>) /\ (left # << >> => pc \in {"clean", "delete"})
ClusterOK ==
  /\ nodes \in [Pool -> Nat] /\ pending \subseteq Oversized
  /\ podAt \in [Pod -> Pool \cup {NoPool}]

\* Every variable holds a value of its kind, every entry has its LastPodSeen,
\* and cleanup deletes only while it has an entry to delete.
TypeOK == ListsOK /\ ObjectsOK /\ PassOK /\ ClusterOK

\* The list never has more entries than maxPools, however often a pool is
\* listed and whatever was lost or stale (nodepool.go:175, 482-484).
ListWithinLimit == Entries <= MaxPools /\ Len(nodePools) <= MaxPools

\* A satellite never has more replicas than spec.horizontal.maxReplicas,
\* whatever is stale or lost (nodepool.go:254-266).
PoolReplicasBounded == \A p \in Pool : md[p].replicas <= MaxReplicas

\* Every satellite is in the list that limits and cleans up the satellites
\* (nodepool.go:207-214, 394-477).
EveryPoolListed == Live \subseteq Tracked

\* "Max pools limit (default 3) prevents unbounded MD proliferation."
\* (architecture.html:947; nodepool.go:175)
PoolLimit == Cardinality(Live) <= MaxPools

\* A satellite's machines can be made: its template exists (nodepool.go:323-332, 456-460).
PoolHasTemplate == Live \subseteq tmpl

\* A pool is deleted only if no pass created it, scaled it up or counted a pod on
\* it within scaleDownDelay; a use that no pass noticed, of a pool whose pods
\* cannot be counted or after the count, does not protect it
\* (nodepool.go:414-454, 486-496).
Deletes(p) == pc = "delete" /\ pc' = "clean" /\ p \in Live /\ p \notin Live'
UsedPoolKept == [][\A p \in Pool : Deletes(p) => sinceUse[p] >= ScaleDownDelay]_vars

\* The satellites do what Satellites promises of them: made one by one below
\* maxPools, grown one by one up to maxReplicas, never resized otherwise, and
\* deleted only when long unused (nodepool.go:173-214, 254-288, 423-454).
Sizes == [p \in Pool |-> IF p \in Live THEN md[p].replicas ELSE 0]
Promise == INSTANCE Satellites WITH size <- Sizes, idle <- sinceUse, Outsiders <- CanFail("external")
RefinesSatellites == Promise!Spec

\* "When a satellite has zero workload pods for longer than scaleDownDelay
\* ... both the satellite MD and its template are deleted."
\* (architecture.html:446): when all workload pods are gone for good, ordinary
\* ones included, so are the pools; a single pod of any kind that stays on a pool
\* keeps it (nodepool.go:414-438, client.go:303-322).
IdlePoolRemoved ==
  <>[](pending = {} /\ \A q \in Pod : podAt[q] = NoPool) => <>[](Live = {})
=============================================================================
