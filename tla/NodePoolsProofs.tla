-------------------------- MODULE NodePoolsProofs --------------------------
(* What holds of NodePools for every set of plans and pods and every limit. *)
EXTENDS NodePools, FiniteSetTheorems, SequenceTheorems, TLAPS

(***************************************************************************)
(* The status list.                                                        *)
(***************************************************************************)
LEMMA EntryFields ==
  ASSUME NEW e \in Entry
  PROVE  e.pool \in Pool /\ e.age \in 0 .. AgeCap
  BY DEF Entry

LEMMA EntryEdit ==
  ASSUME NEW e \in Entry, NEW age \in 0 .. AgeCap
  PROVE  /\ [e EXCEPT !.age = age] \in Entry
         /\ [e EXCEPT !.age = age].pool = e.pool /\ [e EXCEPT !.age = age].age = age
  BY DEF Entry

LEMMA AgeFacts == 0 \in 0 .. AgeCap /\ \A age \in 0 .. AgeCap : Older(age) \in 0 .. AgeCap
  BY PoolsAssumption DEF Older, Never

LEMMA AppendEdit ==
  ASSUME NEW list \in Seq(Entry), NEW e \in Entry
  PROVE  /\ Append(list, e) \in Seq(Entry)
         /\ Len(Append(list, e)) = Len(list) + 1
         /\ Listed(Append(list, e)) = Listed(list) \cup {e.pool}
  <1>1. /\ Append(list, e) \in Seq(Entry) /\ Len(Append(list, e)) = Len(list) + 1
        /\ \A i \in 1 .. Len(list) : Append(list, e)[i] = list[i]
        /\ Append(list, e)[Len(list) + 1] = e
    OBVIOUS
  <1>2. /\ DOMAIN list = 1 .. Len(list)
        /\ DOMAIN Append(list, e) = 1 .. Len(list) \cup {Len(list) + 1}
    BY <1>1
  <1>3. QED
    BY <1>1, <1>2 DEF Listed

LEMMA TailEdit ==
  ASSUME NEW list \in Seq(Entry), list # << >>
  PROVE  /\ Head(list) \in Entry /\ Tail(list) \in Seq(Entry)
         /\ Len(Tail(list)) = Len(list) - 1 /\ Len(list) \in Nat \ {0}
         /\ DOMAIN list = 1 .. Len(list) /\ DOMAIN Tail(list) = 1 .. Len(list) - 1
         /\ \A i \in 1 .. Len(list) - 1 : Tail(list)[i] = list[i + 1]
         /\ Listed(list) = Listed(Tail(list)) \cup {Head(list).pool}
  <1>1. /\ Head(list) = list[1] /\ Head(list) \in Entry /\ Tail(list) \in Seq(Entry)
        /\ Len(list) \in Nat \ {0} /\ Len(Tail(list)) = Len(list) - 1
        /\ DOMAIN list = 1 .. Len(list) /\ DOMAIN Tail(list) = 1 .. Len(list) - 1
        /\ \A i \in 1 .. Len(list) - 1 : Tail(list)[i] = list[i + 1]
    OBVIOUS
  <1>2. \A i \in 1 .. Len(list) : i = 1 \/ (i - 1 \in 1 .. Len(list) - 1 /\ list[i] = Tail(list)[i - 1])
    BY <1>1
  <1>3. \A i \in 1 .. Len(list) - 1 : i + 1 \in 1 .. Len(list)
    BY <1>1
  <1>4. Listed(Tail(list)) = {list[i + 1].pool : i \in 1 .. Len(list) - 1}
    BY <1>1 DEF Listed
  <1>5. Listed(list) = {list[i].pool : i \in 1 .. Len(list)}
    BY <1>1 DEF Listed
  <1>6. Listed(list) \subseteq Listed(Tail(list)) \cup {Head(list).pool}
    <2> SUFFICES ASSUME NEW i \in 1 .. Len(list), i # 1
                 PROVE  list[i].pool \in Listed(Tail(list))
      BY <1>1, <1>5
    <2>1. i - 1 \in 1 .. Len(list) - 1 /\ list[i] = Tail(list)[i - 1]
      BY <1>2
    <2>2. QED
      BY <1>1, <2>1 DEF Listed
  <1>7. 1 \in 1 .. Len(list)
    BY <1>1
  <1>8. Listed(Tail(list)) \cup {Head(list).pool} \subseteq Listed(list)
    BY <1>1, <1>3, <1>4, <1>5, <1>7
  <1>9. QED
    BY <1>1, <1>6, <1>8

LEMMA RefreshEdit ==
  ASSUME mem \in Seq(Entry), NEW p \in Pool, RefreshClock(p)
  PROVE  /\ mem' \in Seq(Entry) /\ Len(mem') = Len(mem) /\ DOMAIN mem' = DOMAIN mem
         /\ \A i \in DOMAIN mem : mem'[i].pool = mem[i].pool /\ mem'[i].age \in {mem[i].age, 0}
         /\ Listed(mem') = Listed(mem)
  <1>1. DOMAIN mem' = 1 .. Len(mem) /\ Len(mem) \in Nat
    BY DEF RefreshClock
  <1>2. \A i \in 1 .. Len(mem) : mem'[i] \in {mem[i], [mem[i] EXCEPT !.age = 0]} /\ mem[i] \in Entry
    BY DEF RefreshClock
  <1>3. \A i \in 1 .. Len(mem) : mem'[i] \in Entry /\ mem'[i].pool = mem[i].pool
                                  /\ mem'[i].age \in {mem[i].age, 0}
    <2> SUFFICES ASSUME NEW i \in 1 .. Len(mem)
                 PROVE  /\ mem'[i] \in Entry /\ mem'[i].pool = mem[i].pool
                        /\ mem'[i].age \in {mem[i].age, 0}
      OBVIOUS
    <2>1. CASE mem'[i] = mem[i]
      BY <1>2, <2>1
    <2>2. CASE mem'[i] = [mem[i] EXCEPT !.age = 0]
      <3>1. mem[i] \in Entry /\ 0 \in 0 .. AgeCap
        BY <1>2, AgeFacts
      <3>2. /\ [mem[i] EXCEPT !.age = 0] \in Entry
            /\ [mem[i] EXCEPT !.age = 0].pool = mem[i].pool /\ [mem[i] EXCEPT !.age = 0].age = 0
        BY <3>1, EntryEdit
      <3>3. QED
        BY <2>2, <3>2
    <2>3. QED
      BY <1>2, <2>1, <2>2
  <1>4. mem'  \in Seq(Entry) /\ Len(mem') = Len(mem)
    BY <1>1, <1>3 DEF RefreshClock
  <1>5. QED
    BY <1>1, <1>3, <1>4 DEF Listed

LEMMA AgedEdit ==
  ASSUME NEW list \in Seq(Entry)
  PROVE  /\ Aged(list) \in Seq(Entry) /\ Len(Aged(list)) = Len(list)
         /\ DOMAIN Aged(list) = DOMAIN list
         /\ \A i \in DOMAIN list : /\ Aged(list)[i].pool = list[i].pool
                                   /\ Aged(list)[i].age = Older(list[i].age)
         /\ Listed(Aged(list)) = Listed(list)
         /\ Aged(list) = << >> <=> list = << >>
  <1>1. DOMAIN Aged(list) = 1 .. Len(list) /\ Len(list) \in Nat
    BY DEF Aged
  <1>2. \A i \in 1 .. Len(list) : /\ Aged(list)[i] \in Entry
                                  /\ Aged(list)[i].pool = list[i].pool
                                  /\ Aged(list)[i].age = Older(list[i].age)
    <2> SUFFICES ASSUME NEW i \in 1 .. Len(list)
                 PROVE  /\ Aged(list)[i] \in Entry /\ Aged(list)[i].pool = list[i].pool
                        /\ Aged(list)[i].age = Older(list[i].age)
      OBVIOUS
    <2>1. list[i] \in Entry /\ list[i].age \in 0 .. AgeCap /\ Older(list[i].age) \in 0 .. AgeCap
      <3>1. list[i] \in Entry
        OBVIOUS
      <3>2. QED
        BY <3>1, EntryFields, AgeFacts
    <2>2. Aged(list)[i] = [list[i] EXCEPT !.age = Older(list[i].age)]
      BY <1>1 DEF Aged
    <2>3. QED
      BY <2>1, <2>2, EntryEdit
  <1>3. Aged(list) \in Seq(Entry) /\ Len(Aged(list)) = Len(list)
    BY <1>1, <1>2 DEF Aged
  <1>4. QED
    BY <1>1, <1>2, <1>3 DEF Listed

LEMMA TypeInit == Init => TypeOK
  <1> SUFFICES ASSUME Init PROVE TypeOK
    OBVIOUS
  <1>1. [p \in Pool |-> Absent] \in [Pool -> Deployment]
    BY PoolsAssumption DEF Absent, Deployment
  <1>2. ListsOK /\ ObjectsOK
    BY <1>1, PoolsAssumption DEF Init, ListsOK, ObjectsOK, Never
  <1>3. PassOK /\ ClusterOK
    BY PoolsAssumption DEF Init, PassOK, ClusterOK
  <1>4. QED
    BY <1>2, <1>3 DEF TypeOK

\* Where a step writes the API server, the informer's copies stay typed.
LEMMA SyncedTyped ==
  ASSUME TypeOK, InSync, md' \in [Pool -> Deployment], tmpl' \subseteq Pool
  PROVE  /\ ObjectsOK'
         /\ cache'.nodePools = cache.nodePools /\ cache'.latest = cache.latest
  BY DEF TypeOK, ObjectsOK, InSync, ListsOK

LEMMA DeploymentEdits ==
  ASSUME TypeOK, NEW p \in Pool
  PROVE  /\ [md EXCEPT ![p] = [state |-> "live", replicas |-> 1, ready |-> 0]] \in [Pool -> Deployment]
         /\ [md EXCEPT ![p].replicas = cache.md[p].replicas + 1] \in [Pool -> Deployment]
         /\ [md EXCEPT ![p].state = IF @ = "absent" THEN @ ELSE "deleting"] \in [Pool -> Deployment]
         /\ [md EXCEPT ![p].state = "deleting"] \in [Pool -> Deployment]
         /\ [md EXCEPT ![p].ready = nodes[p]] \in [Pool -> Deployment]
         /\ [md EXCEPT ![p] = Absent] \in [Pool -> Deployment]
  BY PoolsAssumption DEF TypeOK, ObjectsOK, ClusterOK, Deployment, Absent

LEMMA UseTyped ==
  ASSUME sinceUse \in [Pool -> Never .. AgeCap], NEW p \in Pool, Used(p) \/ UNCHANGED sinceUse
  PROVE  sinceUse' \in [Pool -> Never .. AgeCap]
  BY PoolsAssumption DEF Used, Never

LEMMA NewEntry == \A p \in Pool : [pool |-> p, age |-> 0] \in Entry
  BY PoolsAssumption DEF Entry

\* What visiting an entry does to the two lists.
LEMMA VisitEdits ==
  ASSUME TypeOK, DropMissing \/ KeepUnread \/ CountPods
  PROVE  /\ Current \in Entry /\ pc = "clean" /\ left # << >>
         /\ UNCHANGED <<nodePools, md, tmpl, cache, fresh, dryRun, todo, cluster>>
         /\ \/ Drop /\ UNCHANGED <<pc, sinceUse>> /\ cache.md[Current.pool].state = "absent"
            \/ Keep(Current) /\ UNCHANGED <<pc, sinceUse>>
            \/ Keep([Current EXCEPT !.age = 0]) /\ Used(Current.pool) /\ UNCHANGED pc
            \/ /\ pc' = "delete" /\ UNCHANGED <<mem, left, sinceUse>>
               /\ Current.age >= ScaleDownDelay
  <1>1. pc = "clean" /\ left # << >>
    BY DEF DropMissing, KeepUnread, CountPods, Visit
  <1>2. Current \in Entry
    BY <1>1, TailEdit DEF Current, TypeOK, ListsOK
  <1>3. QED
    BY <1>1, <1>2 DEF DropMissing, KeepUnread, CountPods, IdleLong

LEMMA ListsTyped ==
  ASSUME TypeOK, left # << >>,
         \/ Drop \/ Keep(Current) \/ Keep([Current EXCEPT !.age = 0]) \/ UNCHANGED <<mem, left>>
  PROVE  mem' \in Seq(Entry) /\ left' \in Seq(Entry)
  <1>1. Current \in Entry /\ Tail(left) \in Seq(Entry)
    BY TailEdit DEF Current, TypeOK, ListsOK
  <1>2. [Current EXCEPT !.age = 0] \in Entry
    BY <1>1, EntryEdit, AgeFacts
  <1>3. QED
    BY <1>1, <1>2, AppendEdit DEF Drop, Keep, TypeOK, ListsOK

LEMMA CreatePoolType == TypeOK /\ (\E p \in Pool : CreatePool(p)) => TypeOK'
  <1> SUFFICES ASSUME TypeOK, NEW p \in Pool, CreatePool(p) PROVE TypeOK'
    OBVIOUS
  <1>1. md' \in [Pool -> Deployment] /\ tmpl' \subseteq Pool
    BY DeploymentEdits DEF CreatePool, EnsureTemplate, TypeOK, ObjectsOK
  <1>2. /\ ObjectsOK'
        /\ cache'.nodePools = cache.nodePools /\ cache'.latest = cache.latest
    BY <1>1, SyncedTyped DEF CreatePool
  <1>3. mem' \in Seq(Entry) /\ sinceUse' \in [Pool -> Never .. AgeCap]
    BY NewEntry, AppendEdit, UseTyped DEF CreatePool, Track, TypeOK, ListsOK
  <1>4. ListsOK'
    BY <1>2, <1>3 DEF CreatePool, TypeOK, ListsOK
  <1>5. PassOK' /\ ClusterOK'
    BY DEF CreatePool, VisitGroup, cluster, TypeOK, PassOK, ClusterOK
  <1>6. QED
    BY <1>2, <1>4, <1>5 DEF TypeOK

LEMMA ScalePoolType == TypeOK /\ (\E p \in Pool : ScalePool(p)) => TypeOK'
  <1> SUFFICES ASSUME TypeOK, NEW p \in Pool, ScalePool(p) PROVE TypeOK'
    OBVIOUS
  <1>1. md' \in [Pool -> Deployment] /\ tmpl' \subseteq Pool
    BY DeploymentEdits DEF ScalePool, TypeOK, ObjectsOK
  <1>2. /\ ObjectsOK'
        /\ cache'.nodePools = cache.nodePools /\ cache'.latest = cache.latest
    BY <1>1, SyncedTyped DEF ScalePool
  <1>3. mem' \in Seq(Entry) /\ sinceUse' \in [Pool -> Never .. AgeCap]
    BY RefreshEdit, UseTyped DEF ScalePool, TypeOK, ListsOK
  <1>4. ListsOK'
    BY <1>2, <1>3 DEF ScalePool, TypeOK, ListsOK
  <1>5. PassOK' /\ ClusterOK'
    BY DEF ScalePool, VisitGroup, cluster, TypeOK, PassOK, ClusterOK
  <1>6. QED
    BY <1>2, <1>4, <1>5 DEF TypeOK

LEMMA VisitsType ==
  TypeOK /\ (DropMissing \/ KeepUnread \/ CountPods \/ \E p \in Pool : SkipGroup(p)) => TypeOK'
  <1> SUFFICES ASSUME TypeOK,
                      DropMissing \/ KeepUnread \/ CountPods \/ \E p \in Pool : SkipGroup(p)
               PROVE  TypeOK'
    OBVIOUS
  <1>1. CASE \E p \in Pool : SkipGroup(p)
    BY <1>1 DEF SkipGroup, VisitGroup, cluster, TypeOK, ListsOK, ObjectsOK, PassOK, ClusterOK
  <1>2. CASE DropMissing \/ KeepUnread \/ CountPods
    <2>1. /\ Current.pool \in Pool /\ pc = "clean" /\ left # << >> /\ pc' \in {"clean", "delete"}
          /\ UNCHANGED <<nodePools, md, tmpl, cache, fresh, dryRun, todo, cluster>>
          /\ pc' = "delete" => left' # << >>
      BY <1>2, VisitEdits DEF Entry
    <2>2. mem' \in Seq(Entry) /\ left' \in Seq(Entry) /\ sinceUse' \in [Pool -> Never .. AgeCap]
      BY <1>2, <2>1, VisitEdits, ListsTyped, UseTyped DEF TypeOK, ListsOK
    <2>3. ListsOK' /\ ObjectsOK' /\ ClusterOK'
      BY <2>1, <2>2 DEF cluster, TypeOK, ListsOK, ObjectsOK, ClusterOK
    <2>4. PassOK'
      BY <2>1 DEF TypeOK, PassOK
    <2>5. QED
      BY <2>3, <2>4 DEF TypeOK
  <1>3. QED
    BY <1>1, <1>2

LEMMA DeletePoolType == TypeOK /\ DeletePool => TypeOK'
  <1> SUFFICES ASSUME TypeOK, DeletePool PROVE TypeOK'
    OBVIOUS
  <1>1. left # << >> /\ Current.pool \in Pool /\ (Drop \/ Keep(Current))
    <2>1. left # << >> /\ left \in Seq(Entry)
      BY DEF DeletePool, TypeOK, PassOK, ListsOK
    <2>2. Current \in Entry
      BY <2>1, TailEdit DEF Current
    <2>3. QED
      BY <2>1, <2>2, EntryFields DEF DeletePool
  <1>2. md' \in [Pool -> Deployment] /\ tmpl' \subseteq Pool
    <2>1. /\ md' = [md EXCEPT ![Current.pool].state = IF @ = "absent" THEN @ ELSE "deleting"]
             \/ md' = md
          /\ tmpl' \subseteq tmpl
      BY DEF DeletePool
    <2>2. md \in [Pool -> Deployment] /\ tmpl \subseteq Pool
      BY DEF TypeOK, ObjectsOK
    <2>3. [md EXCEPT ![Current.pool].state = IF @ = "absent" THEN @ ELSE "deleting"]
            \in [Pool -> Deployment]
      BY <1>1, DeploymentEdits, Zenon
    <2>4. QED
      BY <2>1, <2>2, <2>3
  <1>3. /\ ObjectsOK'
        /\ cache'.nodePools = cache.nodePools /\ cache'.latest = cache.latest
    BY <1>2, SyncedTyped DEF DeletePool
  <1>4. mem' \in Seq(Entry) /\ left' \in Seq(Entry)
    BY <1>1, ListsTyped
  <1>5. ListsOK'
    BY <1>3, <1>4 DEF DeletePool, TypeOK, ListsOK
  <1>6. PassOK' /\ ClusterOK'
    BY DEF DeletePool, cluster, TypeOK, PassOK, ClusterOK
  <1>7. QED
    BY <1>3, <1>5, <1>6 DEF TypeOK

LEMMA PassStepsType ==
  TypeOK /\ (Begin \/ ListPending \/ StartCleanup \/ EndCleanup \/ SaveStatus \/ LoseStatus)
    => TypeOK'
  <1> SUFFICES ASSUME TypeOK,
                      Begin \/ ListPending \/ StartCleanup \/ EndCleanup \/ SaveStatus \/ LoseStatus
               PROVE  TypeOK'
    OBVIOUS
  <1>1. UNCHANGED <<md, tmpl, cluster, sinceUse>>
    BY DEF Begin, ListPending, StartCleanup, EndCleanup, SaveStatus, LoseStatus, EndPass
  <1>2. /\ cache'.md = cache.md /\ cache'.tmpl = cache.tmpl
        /\ cache'.nodePools \in {cache.nodePools, mem} /\ cache'.latest \in BOOLEAN
        /\ cache' = [nodePools |-> cache'.nodePools, latest |-> cache'.latest,
                     md |-> cache'.md, tmpl |-> cache'.tmpl]
    BY DEF Begin, ListPending, StartCleanup, EndCleanup, SaveStatus, LoseStatus, TypeOK, ObjectsOK, ListsOK
  <1>3. /\ mem' \in {mem, cache.nodePools, << >>} /\ nodePools' \in {nodePools, mem}
        /\ left' \in {left, mem, << >>}
    BY DEF Begin, ListPending, StartCleanup, EndCleanup, SaveStatus, LoseStatus, EndPass
  <1>4. << >> \in Seq(Entry)
    OBVIOUS
  <1>5. ListsOK' /\ ObjectsOK' /\ ClusterOK'
    BY <1>1, <1>2, <1>3, <1>4 DEF cluster, TypeOK, ListsOK, ObjectsOK, ClusterOK
  <1>6. Groups \subseteq Pool
    BY DEF Groups
  <1>7. PassOK'
    <2>1. CASE Begin
      <3>1. dryRun' \in BOOLEAN /\ fresh' \in BOOLEAN
        BY <2>1 DEF Begin, CanFail, TypeOK, ListsOK
      <3>2. todo = {} /\ left = << >>
        BY <2>1 DEF Begin, TypeOK, PassOK
      <3>3. QED
        BY <2>1, <3>1, <3>2 DEF Begin, PassOK
    <2>6. CASE ListPending
      <3>1. todo = {} /\ left = << >>
        BY <2>6 DEF ListPending, TypeOK, PassOK
      <3>2. QED
        BY <1>6, <2>6, <3>1 DEF ListPending, TypeOK, PassOK
    <2>2. CASE StartCleanup
      BY <2>2 DEF StartCleanup, TypeOK, PassOK
    <2>3. CASE EndCleanup
      BY <2>3 DEF EndCleanup, TypeOK, PassOK
    <2>4. CASE SaveStatus \/ LoseStatus
      BY <2>4 DEF SaveStatus, LoseStatus, EndPass, TypeOK, PassOK
    <2>5. QED
      BY <2>1, <2>2, <2>3, <2>4, <2>6
  <1>8. QED
    BY <1>5, <1>7 DEF TypeOK

LEMMA ClusterStepsType == TypeOK /\ (SyncCache \/ PoolStep \/ PodStep \/ Tick) => TypeOK'
  <1> SUFFICES ASSUME TypeOK PROVE (SyncCache \/ PoolStep \/ PodStep \/ Tick) => TypeOK'
    OBVIOUS
  <1>1. ASSUME SyncCache PROVE TypeOK'
    <2>1. UNCHANGED <<nodePools, md, tmpl, passVars, cluster, sinceUse>>
      BY <1>1 DEF SyncCache
    <2>2. /\ cache'.md \in [Pool -> Deployment] /\ cache'.tmpl \subseteq Pool
          /\ cache'.nodePools \in Seq(Entry) /\ cache'.latest \in BOOLEAN
          /\ cache' = [nodePools |-> cache'.nodePools, latest |-> cache'.latest,
                       md |-> cache'.md, tmpl |-> cache'.tmpl]
      <3>1. \A p \in Pool : [cache.md EXCEPT ![p] = md[p]] \in [Pool -> Deployment]
        BY DEF TypeOK, ObjectsOK
      <3>2. QED
        BY <1>1, <3>1 DEF SyncCache, TypeOK, ObjectsOK, ListsOK
    <2>3. QED
      BY <2>1, <2>2 DEF passVars, cluster, TypeOK, ListsOK, ObjectsOK, PassOK, ClusterOK, Listed
  <1>2. ASSUME PoolStep PROVE TypeOK'
    <2>1. PICK p \in Pool : \/ RegisterNode(p) \/ ReportReady(p)
                            \/ FinishDelete(p) \/ DeleteExternally(p)
      BY <1>2 DEF PoolStep
    <2>2. md' \in [Pool -> Deployment] /\ tmpl' \subseteq Pool
      <3>1. md' = md \/ md' = [md EXCEPT ![p].ready = nodes[p]] \/ md' = [md EXCEPT ![p] = Absent]
            \/ md' = [md EXCEPT ![p].state = "deleting"]
        BY <2>1 DEF RegisterNode, ReportReady, FinishDelete, DeleteExternally
      <3>2. UNCHANGED tmpl
        BY <2>1 DEF RegisterNode, ReportReady, FinishDelete, DeleteExternally
      <3>3. md \in [Pool -> Deployment] /\ tmpl \subseteq Pool
        BY DEF TypeOK, ObjectsOK
      <3>4. /\ [md EXCEPT ![p].ready = nodes[p]] \in [Pool -> Deployment]
            /\ [md EXCEPT ![p] = Absent] \in [Pool -> Deployment]
            /\ [md EXCEPT ![p].state = "deleting"] \in [Pool -> Deployment]
        BY DeploymentEdits, Zenon
      <3>5. QED
        BY <3>1, <3>2, <3>3, <3>4
    <2>3. ObjectsOK' /\ cache'.nodePools = cache.nodePools /\ cache'.latest = cache.latest
      <3>1. CASE RegisterNode(p)
        BY <3>1 DEF RegisterNode, TypeOK, ObjectsOK
      <3>2. CASE ~RegisterNode(p)
        BY <2>1, <2>2, <3>2, SyncedTyped DEF ReportReady, FinishDelete, DeleteExternally
      <3>3. QED
        BY <3>1, <3>2
    <2>4. UNCHANGED <<nodePools, passVars, sinceUse>>
      BY <2>1 DEF RegisterNode, ReportReady, FinishDelete, DeleteExternally
    <2>5. ListsOK' /\ PassOK'
      BY <2>3, <2>4 DEF passVars, TypeOK, ListsOK, PassOK, Listed
    <2>6. ClusterOK'
      BY <2>1 DEF RegisterNode, ReportReady, FinishDelete, DeleteExternally, cluster, PodsOn,
                  TypeOK, ClusterOK
    <2>7. QED
      BY <2>3, <2>5, <2>6 DEF TypeOK
  <1>3. ASSUME PodStep PROVE TypeOK'
    <2>1. UNCHANGED <<nodePools, md, tmpl, cache, passVars, nodes, sinceUse>>
      BY <1>3 DEF PodStep, PodsOnly
    <2>2. ClusterOK'
      BY <1>3 DEF PodStep, PodsOnly, CreatePod, BindPod, FinishPod, Room, Live, TypeOK, ClusterOK
    <2>3. QED
      BY <2>1, <2>2 DEF passVars, TypeOK, ListsOK, ObjectsOK, PassOK, Listed
  <1>4. ASSUME Tick PROVE TypeOK'
    <2>1. UNCHANGED <<md, tmpl, pc, fresh, dryRun, todo, cluster>>
      BY <1>4 DEF Tick
    <2>2. /\ nodePools' \in Seq(Entry) /\ mem' \in Seq(Entry) /\ left' \in Seq(Entry)
          /\ Aged(cache.nodePools) \in Seq(Entry) /\ (left' = << >> <=> left = << >>)
      BY <1>4, AgedEdit DEF Tick, TypeOK, ListsOK
    <2>6. sinceUse' \in [Pool -> Never .. AgeCap]
      BY <1>4, PoolsAssumption DEF Tick, Older, Never, TypeOK, ListsOK
    <2>3. ListsOK' /\ ObjectsOK'
      BY <1>4, <2>1, <2>2, <2>6 DEF Tick, TypeOK, ListsOK, ObjectsOK
    <2>4. PassOK' /\ ClusterOK'
      BY <2>1, <2>2 DEF cluster, TypeOK, PassOK, ClusterOK
    <2>5. QED
      BY <2>3, <2>4 DEF TypeOK
  <1>5. QED
    BY <1>1, <1>2, <1>3, <1>4

LEMMA TypeStep == TypeOK /\ [Next]_vars => TypeOK'
  <1> SUFFICES ASSUME TypeOK, [Next]_vars PROVE TypeOK'
    OBVIOUS
  <1>1. CASE Pass
    BY <1>1, CreatePoolType, ScalePoolType, VisitsType, DeletePoolType, PassStepsType DEF Pass
  <1>2. CASE LoseStatus
    BY <1>2, PassStepsType
  <1>3. CASE SyncCache \/ PoolStep \/ PodStep \/ Tick
    BY <1>3, ClusterStepsType
  <1>4. CASE UNCHANGED vars
    BY <1>4 DEF vars, passVars, cluster, TypeOK, ListsOK, ObjectsOK, PassOK, ClusterOK, Listed
  <1>5. QED
    BY <1>1, <1>2, <1>3, <1>4 DEF Next

\* Every reachable state is typed, cleanup deletes only with a pool to delete,
\* and what it has still to visit is listed (reconcileNodePools,
\* cleanupNodePools), whatever fails and however old the copies it reads are.
THEOREM PoolTypes == Spec => []TypeOK
  <1>1. QED
    BY TypeInit, TypeStep, PTL DEF Spec

-----------------------------------------------------------------------------
(* The bound on a satellite's replicas: the guard reads the informer's     *)
(* copy, and that copy was once the truth.                                 *)
CopiesBounded == \A p \in Pool : cache.md[p].replicas <= MaxReplicas
BoundInv == TypeOK /\ PoolReplicasBounded /\ CopiesBounded

LEMMA BoundInit == Init => BoundInv
  BY TypeInit, PoolsAssumption DEF BoundInv, PoolReplicasBounded, CopiesBounded, Init, Absent

LEMMA BoundSynced ==
  ASSUME BoundInv, InSync, PoolReplicasBounded'
  PROVE  CopiesBounded'
  BY DEF BoundInv, InSync, PoolReplicasBounded, CopiesBounded, TypeOK, ObjectsOK

\* The steps that leave the MachineDeployments, and the copies of them, alone.
LEMMA BoundUntouched ==
  ASSUME BoundInv, UNCHANGED md, cache'.md = cache.md
  PROVE  (PoolReplicasBounded /\ CopiesBounded)'
  BY DEF BoundInv, PoolReplicasBounded, CopiesBounded

LEMMA BoundPass == BoundInv /\ (Pass \/ LoseStatus) => (PoolReplicasBounded /\ CopiesBounded)'
  <1> SUFFICES ASSUME BoundInv PROVE Pass \/ LoseStatus => (PoolReplicasBounded /\ CopiesBounded)'
    OBVIOUS
  <1> USE DEF BoundInv
  <1>1. ASSUME NEW p \in Pool, CreatePool(p) PROVE (PoolReplicasBounded /\ CopiesBounded)'
    <2>1. PoolReplicasBounded'
      BY <1>1, PoolsAssumption DEF CreatePool, PoolReplicasBounded, TypeOK, ObjectsOK
    <2>2. QED
      BY <1>1, <2>1, BoundSynced DEF CreatePool
  <1>2. ASSUME NEW p \in Pool, ScalePool(p) PROVE (PoolReplicasBounded /\ CopiesBounded)'
    <2>1. cache.md[p].replicas \in Nat /\ cache.md[p].replicas + 1 <= MaxReplicas
      BY <1>2, PoolsAssumption
      DEF ScalePool, Full, CopiesBounded, TypeOK, ObjectsOK, Deployment
    <2>2. PoolReplicasBounded'
      BY <1>2, <2>1 DEF ScalePool, PoolReplicasBounded, TypeOK, ObjectsOK, Deployment
    <2>3. QED
      BY <1>2, <2>2, BoundSynced DEF ScalePool
  <1>3. ASSUME DeletePool PROVE (PoolReplicasBounded /\ CopiesBounded)'
    <2>1. PoolReplicasBounded'
      BY <1>3 DEF DeletePool, PoolReplicasBounded, TypeOK, ObjectsOK, Deployment
    <2>2. QED
      BY <1>3, <2>1, BoundSynced DEF DeletePool
  <1>4. ASSUME Begin \/ ListPending \/ StartCleanup \/ EndCleanup \/ SaveStatus \/ LoseStatus
        PROVE  UNCHANGED md /\ cache'.md = cache.md
    BY <1>4 DEF Begin, ListPending, StartCleanup, EndCleanup, SaveStatus, LoseStatus, EndPass,
                TypeOK, ObjectsOK
  <1>5. ASSUME DropMissing \/ KeepUnread \/ CountPods \/ \E p \in Pool : SkipGroup(p)
        PROVE  UNCHANGED md /\ cache'.md = cache.md
    BY <1>5 DEF SkipGroup, DropMissing, KeepUnread, CountPods
  <1>6. QED
    BY <1>1, <1>2, <1>3, <1>4, <1>5, BoundUntouched DEF Pass

LEMMA BoundCluster ==
  BoundInv /\ (SyncCache \/ PoolStep \/ PodStep \/ Tick) => (PoolReplicasBounded /\ CopiesBounded)'
  <1> SUFFICES ASSUME BoundInv
               PROVE  SyncCache \/ PoolStep \/ PodStep \/ Tick
                        => (PoolReplicasBounded /\ CopiesBounded)'
    OBVIOUS
  <1> USE DEF BoundInv
  <1>1. ASSUME SyncCache PROVE (PoolReplicasBounded /\ CopiesBounded)'
    <2>1. PoolReplicasBounded'
      BY <1>1 DEF SyncCache, PoolReplicasBounded
    <2>2. \A p \in Pool : cache'.md[p] \in {cache.md[p], md[p]}
      <3>1. cache'.md = cache.md \/ \E p \in Pool : cache'.md = [cache.md EXCEPT ![p] = md[p]]
        BY <1>1 DEF SyncCache, TypeOK, ObjectsOK
      <3>2. QED
        BY <3>1 DEF TypeOK, ObjectsOK
    <2>3. QED
      BY <2>1, <2>2 DEF PoolReplicasBounded, CopiesBounded
  <1>2. ASSUME NEW p \in Pool, RegisterNode(p) PROVE UNCHANGED md /\ cache'.md = cache.md
    BY <1>2 DEF RegisterNode
  <1>3. ASSUME NEW p \in Pool, ReportReady(p) \/ FinishDelete(p) \/ DeleteExternally(p)
        PROVE  (PoolReplicasBounded /\ CopiesBounded)'
    <2>1. PoolReplicasBounded'
      <3>1. md' = [md EXCEPT ![p].ready = nodes[p]] \/ md' = [md EXCEPT ![p] = Absent]
            \/ md' = [md EXCEPT ![p].state = "deleting"]
        BY <1>3 DEF ReportReady, FinishDelete, DeleteExternally
      <3>2. \A r \in Pool : md'[r].replicas \in {md[r].replicas, 0}
        BY <3>1 DEF Absent, TypeOK, ObjectsOK, Deployment
      <3>3. QED
        BY <3>2, PoolsAssumption DEF PoolReplicasBounded
    <2>2. QED
      BY <1>3, <2>1, BoundSynced DEF ReportReady, FinishDelete, DeleteExternally
  <1>4. ASSUME PodStep \/ Tick PROVE UNCHANGED md /\ cache'.md = cache.md
    BY <1>4 DEF PodStep, PodsOnly, Tick, TypeOK, ObjectsOK
  <1>5. QED
    BY <1>1, <1>2, <1>3, <1>4, BoundUntouched DEF PoolStep

LEMMA BoundStep == BoundInv /\ [Next]_vars => BoundInv'
  <1> SUFFICES ASSUME BoundInv, [Next]_vars PROVE BoundInv'
    OBVIOUS
  <1>1. TypeOK'
    BY TypeStep DEF BoundInv
  <1>2. CASE Next
    BY <1>1, <1>2, BoundPass, BoundCluster DEF Next, BoundInv
  <1>3. CASE UNCHANGED vars
    BY <1>1, <1>3, BoundUntouched DEF BoundInv, vars
  <1>4. QED
    BY <1>2, <1>3

\* updateSatelliteReplicas never takes a satellite above maxReplicas, even from
\* a stale copy of it and with any call failing (nodepool.go:254-284).
THEOREM PoolsStayInBounds == Spec => []PoolReplicasBounded
  <1>1. BoundInv => PoolReplicasBounded
    BY DEF BoundInv
  <1>2. QED
    BY <1>1, BoundInit, BoundStep, PTL DEF Spec

-----------------------------------------------------------------------------
(* The length of the list.                                                 *)

\* Visiting the current entry keeps it, perhaps refreshed, or drops it.
LEMMA VisitLists ==
  ASSUME TypeOK, left # << >>
  PROVE  /\ Keep(Current) \/ Keep([Current EXCEPT !.age = 0]) =>
              /\ Len(mem') + Len(left') = Len(mem) + Len(left)
              /\ Listed(mem') \cup Listed(left') = Listed(mem) \cup Listed(left)
         /\ Drop =>
              /\ Len(mem') + Len(left') = Len(mem) + Len(left) - 1
              /\ Listed(mem') \cup Listed(left') \subseteq Listed(mem) \cup Listed(left)
              /\ (Listed(mem) \cup Listed(left)) \ {Current.pool}
                   \subseteq Listed(mem') \cup Listed(left')
  <1>1. mem \in Seq(Entry) /\ left \in Seq(Entry) /\ Len(mem) \in Nat
    BY DEF TypeOK, ListsOK
  <1>2. /\ Current \in Entry /\ [Current EXCEPT !.age = 0] \in Entry
        /\ [Current EXCEPT !.age = 0].pool = Current.pool
    BY <1>1, TailEdit, EntryEdit, AgeFacts DEF Current
  <1>3. /\ Len(Tail(left)) = Len(left) - 1 /\ Len(left) \in Nat \ {0}
        /\ Listed(left) = Listed(Tail(left)) \cup {Current.pool}
    BY <1>1, TailEdit DEF Current
  <1>4. ASSUME NEW e \in Entry, e.pool = Current.pool, Keep(e)
        PROVE  /\ Len(mem') + Len(left') = Len(mem) + Len(left)
               /\ Listed(mem') \cup Listed(left') = Listed(mem) \cup Listed(left)
    <2>1. Len(mem') = Len(mem) + 1 /\ Listed(mem') = Listed(mem) \cup {e.pool}
      BY <1>1, <1>4, AppendEdit DEF Keep
    <2>2. left' = Tail(left)
      BY <1>4 DEF Keep
    <2>3. QED
      BY <1>1, <1>3, <1>4, <2>1, <2>2
  <1>5. ASSUME Drop
        PROVE  /\ Len(mem') + Len(left') = Len(mem) + Len(left) - 1
               /\ Listed(mem') \cup Listed(left') \subseteq Listed(mem) \cup Listed(left)
               /\ (Listed(mem) \cup Listed(left)) \ {Current.pool}
                    \subseteq Listed(mem') \cup Listed(left')
    BY <1>1, <1>3, <1>5 DEF Drop
  <1>6. QED
    BY <1>2, <1>4, <1>5

CopyWithinLimit == Len(cache.nodePools) <= MaxPools
LimitInv == ListWithinLimit /\ CopyWithinLimit

LEMMA ListLengths ==
  ASSUME TypeOK
  PROVE  /\ Len(nodePools) \in Nat /\ Len(mem) \in Nat /\ Len(left) \in Nat
         /\ Len(cache.nodePools) \in Nat /\ Len(Status) \in Nat
         /\ pc \notin {"clean", "delete"} => left = << >>
  BY DEF TypeOK, ListsOK, PassOK, Status

LEMMA LimitInit == Init => LimitInv
  BY PoolsAssumption DEF Init, LimitInv, ListWithinLimit, CopyWithinLimit, Entries, Status

\* A step of a pass that goes on and does not lengthen the pass's lists.
LEMMA LimitKept ==
  ASSUME TypeOK, LimitInv, pc # "idle", pc' # "idle",
         Len(mem') + Len(left') <= Len(mem) + Len(left), Len(mem') \in Nat, Len(left') \in Nat,
         UNCHANGED nodePools, cache'.nodePools = cache.nodePools
  PROVE  LimitInv'
  BY ListLengths, PoolsAssumption
  DEF LimitInv, ListWithinLimit, CopyWithinLimit, Entries, Status

LEMMA LimitPass ==
  ASSUME TypeOK, LimitInv, Pass \/ LoseStatus
  PROVE  LimitInv'
  <1>1. TypeOK'
    BY CreatePoolType, ScalePoolType, VisitsType, DeletePoolType, PassStepsType DEF Pass
  <1>2. ASSUME NEW p \in Pool, CreatePool(p) PROVE LimitInv'
    <2>1. /\ pc = "groups" /\ pc' = "groups" /\ ~AtLimit /\ left = << >> /\ left' = << >>
          /\ UNCHANGED nodePools /\ cache'.nodePools = cache.nodePools
          /\ UNCHANGED mem \/ Track(p)
      BY <1>2, ListLengths DEF CreatePool, VisitGroup, InSync, TypeOK, ObjectsOK
    <2>2. Len(mem') <= Len(mem) + 1 /\ Len(mem) \in Nat /\ Len(mem') \in Nat
      BY <1>1, <2>1, NewEntry, AppendEdit, ListLengths DEF Track, TypeOK, ListsOK
    <2>3. Len(mem') <= MaxPools /\ Len(left') = 0
      BY <2>1, <2>2, PoolsAssumption DEF AtLimit
    <2>4. QED
      BY <2>1, <2>2, <2>3 DEF LimitInv, ListWithinLimit, CopyWithinLimit, Entries, Status
  <1>3. ASSUME NEW p \in Pool, ScalePool(p) PROVE LimitInv'
    <2>1. /\ pc = "groups" /\ pc' = "groups" /\ UNCHANGED <<nodePools, left>>
          /\ cache'.nodePools = cache.nodePools /\ (UNCHANGED mem \/ RefreshClock(p))
      BY <1>3 DEF ScalePool, VisitGroup, InSync, TypeOK, ObjectsOK
    <2>2. Len(mem') = Len(mem)
      BY <2>1, RefreshEdit DEF TypeOK, ListsOK
    <2>3. /\ Len(left') = Len(left) /\ Len(mem') \in Nat /\ Len(left') \in Nat
          /\ Len(mem') + Len(left') <= Len(mem) + Len(left)
      BY <2>1, <2>2, ListLengths
    <2>4. QED
      BY <2>1, <2>3, LimitKept
  <1>4. ASSUME \E p \in Pool : SkipGroup(p) PROVE LimitInv'
    BY <1>4, ListLengths, LimitKept DEF SkipGroup, VisitGroup
  <1>5. ASSUME DropMissing \/ KeepUnread \/ CountPods PROVE LimitInv'
    <2>1. /\ pc # "idle" /\ pc' # "idle" /\ left # << >> /\ UNCHANGED <<nodePools, cache>>
          /\ \/ Drop \/ Keep(Current) \/ Keep([Current EXCEPT !.age = 0])
             \/ UNCHANGED <<mem, left>>
      BY <1>5, VisitEdits
    <2>2. Len(mem') + Len(left') <= Len(mem) + Len(left)
          /\ Len(mem') \in Nat /\ Len(left') \in Nat
      BY <1>1, <2>1, VisitLists, ListLengths DEF TypeOK, ListsOK
    <2>3. pc # "idle" /\ pc' # "idle" /\ UNCHANGED nodePools /\ cache'.nodePools = cache.nodePools
      BY <2>1
    <2>4. QED
      BY <2>2, <2>3, LimitKept
  <1>6. ASSUME DeletePool PROVE LimitInv'
    <2>1. /\ pc # "idle" /\ pc' # "idle" /\ left # << >> /\ UNCHANGED nodePools
          /\ cache'.nodePools = cache.nodePools /\ (Drop \/ Keep(Current))
      BY <1>6 DEF DeletePool, InSync, TypeOK, ObjectsOK, PassOK
    <2>2. Len(mem') + Len(left') <= Len(mem) + Len(left)
          /\ Len(mem') \in Nat /\ Len(left') \in Nat
      BY <1>1, <2>1, VisitLists, ListLengths DEF TypeOK, ListsOK
    <2>3. QED
      BY <2>1, <2>2, LimitKept
  <1>7. ASSUME Begin PROVE LimitInv'
    BY <1>7, ListLengths
    DEF Begin, LimitInv, ListWithinLimit, CopyWithinLimit, Entries, Status
  <1>8. ASSUME StartCleanup PROVE LimitInv'
    <2>1. left = << >> /\ left' = mem /\ mem' = << >>
      BY <1>8, ListLengths DEF StartCleanup
    <2>2. QED
      BY <1>8, <2>1, ListLengths, LimitKept DEF StartCleanup
  <1>9. ASSUME ListPending \/ EndCleanup PROVE LimitInv'
    BY <1>9, ListLengths, LimitKept DEF ListPending, EndCleanup
  <1>10. ASSUME SaveStatus \/ LoseStatus PROVE LimitInv'
    <2>1. /\ pc # "idle" /\ pc' = "idle" /\ left' = << >>
          /\ nodePools' \in {nodePools, mem} /\ cache'.nodePools \in {cache.nodePools, mem}
      BY <1>10 DEF SaveStatus, LoseStatus, EndPass, TypeOK, ObjectsOK
    <2>2. Len(mem) <= MaxPools
      BY <2>1, ListLengths, PoolsAssumption DEF LimitInv, ListWithinLimit, Entries, Status
    <2>3. Len(nodePools') <= MaxPools /\ Len(cache'.nodePools) <= MaxPools
      BY <2>1, <2>2 DEF LimitInv, ListWithinLimit, CopyWithinLimit
    <2>4. Len(nodePools') \in Nat /\ Len(left') = 0
      BY <2>1, ListLengths
    <2>5. QED
      BY <2>1, <2>3, <2>4, PoolsAssumption
      DEF LimitInv, ListWithinLimit, CopyWithinLimit, Entries, Status
  <1>11. QED
    BY <1>2, <1>3, <1>4, <1>5, <1>6, <1>7, <1>8, <1>9, <1>10 DEF Pass

LEMMA LimitCluster ==
  ASSUME TypeOK, LimitInv, SyncCache \/ PoolStep \/ PodStep \/ Tick \/ UNCHANGED vars
  PROVE  LimitInv'
  <1>1. CASE SyncCache
    <2>1. UNCHANGED <<nodePools, pc, mem, left>>
          /\ cache'.nodePools \in {cache.nodePools, nodePools}
      BY <1>1 DEF SyncCache, passVars, TypeOK, ObjectsOK
    <2>2. QED
      BY <2>1 DEF LimitInv, ListWithinLimit, CopyWithinLimit, Entries, Status
  <1>2. CASE PoolStep \/ PodStep \/ UNCHANGED vars
    <2>1. UNCHANGED <<nodePools, pc, mem, left>> /\ cache'.nodePools = cache.nodePools
      BY <1>2 DEF PoolStep, RegisterNode, ReportReady, FinishDelete, DeleteExternally, InSync,
                  PodStep, PodsOnly, vars, passVars, TypeOK, ObjectsOK
    <2>2. QED
      BY <2>1 DEF LimitInv, ListWithinLimit, CopyWithinLimit, Entries, Status
  <1>3. CASE Tick
    <2>1. cache'.nodePools = Aged(cache.nodePools)
      BY <1>3 DEF Tick, TypeOK, ObjectsOK
    <2>2. /\ Len(nodePools') = Len(nodePools) /\ Len(mem') = Len(mem) /\ Len(left') = Len(left)
          /\ Len(cache'.nodePools) = Len(cache.nodePools) /\ UNCHANGED pc
      BY <1>3, <2>1, AgedEdit DEF Tick, TypeOK, ListsOK
    <2>3. QED
      BY <2>2 DEF LimitInv, ListWithinLimit, CopyWithinLimit, Entries, Status
  <1>4. QED
    BY <1>1, <1>2, <1>3

LEMMA LimitStep == TypeOK /\ LimitInv /\ [Next]_vars => LimitInv'
  BY LimitPass, LimitCluster DEF Next

\* countActivePools keeps the list within maxPools, whatever was lost or stale
\* (nodepool.go:173-184, 482-484).
THEOREM ListStaysWithinLimit == Spec => []ListWithinLimit
  <1>1. TypeOK /\ LimitInv /\ [Next]_vars => (TypeOK /\ LimitInv)'
    BY TypeStep, LimitStep
  <1>2. TypeOK /\ LimitInv => ListWithinLimit
    BY DEF LimitInv
  <1>3. QED
    BY <1>1, <1>2, TypeInit, LimitInit, PTL DEF Spec

-----------------------------------------------------------------------------
(* The list and the satellites: what holds while no status write is lost   *)
(* and the informer does not lag.                                          *)
ReliableReads == Faults \cap {"lag", "lost"} = {}

CopiesFollow ==
  /\ cache = [nodePools |-> nodePools, latest |-> TRUE, md |-> md, tmpl |-> tmpl]
  /\ pc # "idle" => fresh
TrackInv == CopiesFollow /\ EveryPoolListed /\ PoolHasTemplate

LEMMA TrackInit == Init => TrackInv
  BY DEF Init, TrackInv, CopiesFollow, EveryPoolListed, PoolHasTemplate, Live, Absent

\* A step that neither makes a pool live, nor forgets a live one or its
\* template, nor lets the copies fall behind keeps the invariant.
LEMMA TrackKept ==
  ASSUME TrackInv, CopiesFollow', Live' \subseteq Live,
         Live' \subseteq Tracked', Live' \subseteq tmpl'
  PROVE  TrackInv'
  BY DEF TrackInv, EveryPoolListed, PoolHasTemplate

LEMMA TrackCreate ==
  ASSUME TypeOK, TrackInv, ReliableReads, NEW p \in Pool, CreatePool(p)
  PROVE  TrackInv'
  <1>1. ~CanFail("lag") /\ pc = "groups" /\ pc' = "groups" /\ UNCHANGED left
    BY DEF ReliableReads, CanFail, CreatePool, VisitGroup
  <1>2. CopiesFollow'
    BY <1>1 DEF CreatePool, InSync, TrackInv, CopiesFollow
  <1>3. cache.tmpl = tmpl /\ cache.md = md
    BY DEF TrackInv, CopiesFollow
  <1>4. /\ Tracked = Listed(mem) \cup Listed(left)
        /\ Tracked' = Listed(mem') \cup Listed(left)
    BY <1>1 DEF Tracked, Status, Listed
  <1>5. Live \subseteq Tracked /\ Live \subseteq tmpl
    BY DEF TrackInv, EveryPoolListed, PoolHasTemplate
  <1>6. CASE UNCHANGED <<md, mem>>
    <2>1. Live' = Live /\ tmpl \subseteq tmpl'
      BY <1>3, <1>6 DEF CreatePool, EnsureTemplate, Live
    <2>2. QED
      BY <1>2, <1>4, <1>5, <1>6, <2>1, TrackKept
  <1>7. CASE ~UNCHANGED <<md, mem>>
    <2>1. /\ EnsureTemplate(p) /\ Track(p)
          /\ md' = [md EXCEPT ![p] = [state |-> "live", replicas |-> 1, ready |-> 0]]
      BY <1>7 DEF CreatePool
    <2>2. Live' = Live \cup {p} /\ tmpl \cup {p} \subseteq tmpl'
      BY <1>3, <2>1 DEF EnsureTemplate, Live, TypeOK, ObjectsOK, Deployment
    <2>3. Listed(mem') = Listed(mem) \cup {p}
      <3>1. [pool |-> p, age |-> 0] \in Entry /\ [pool |-> p, age |-> 0].pool = p
        BY NewEntry
      <3>2. QED
        BY <2>1, <3>1, AppendEdit DEF Track, TypeOK, ListsOK
    <2>4. Live' \subseteq Tracked' /\ Live' \subseteq tmpl'
      BY <1>4, <1>5, <2>2, <2>3
    <2>5. QED
      BY <1>2, <2>4 DEF TrackInv, EveryPoolListed, PoolHasTemplate
  <1>8. QED
    BY <1>6, <1>7

LEMMA TrackPass ==
  ASSUME TypeOK, TrackInv, ReliableReads, Pass \/ LoseStatus
  PROVE  TrackInv'
  <1>1. ~CanFail("lag") /\ ~CanFail("lost")
    BY DEF ReliableReads, CanFail
  <1>2. CopiesFollow /\ Live \subseteq Tracked /\ Live \subseteq tmpl
    BY DEF TrackInv, EveryPoolListed, PoolHasTemplate
  <1>3. ~LoseStatus
    BY <1>1, <1>2 DEF LoseStatus, CopiesFollow
  <1>4. ASSUME NEW p \in Pool, ScalePool(p) PROVE TrackInv'
    <2>1. CopiesFollow' /\ UNCHANGED <<tmpl, pc, nodePools, left>>
      BY <1>1, <1>2, <1>4 DEF ScalePool, VisitGroup, InSync, CopiesFollow
    <2>2. Live' = Live
      BY <1>4 DEF ScalePool, Live, TypeOK, ObjectsOK, Deployment
    <2>3. Listed(mem') = Listed(mem)
      BY <1>4, RefreshEdit DEF ScalePool, TypeOK, ListsOK
    <2>4. Tracked' = Tracked
      BY <2>1, <2>3 DEF Tracked, Status, Listed
    <2>5. QED
      BY <1>2, <2>1, <2>2, <2>4, TrackKept
  <1>5. ASSUME \E p \in Pool : SkipGroup(p) PROVE TrackInv'
    <2>1. UNCHANGED <<nodePools, md, tmpl, cache, pc, mem, fresh, left>>
      BY <1>5 DEF SkipGroup, VisitGroup
    <2>2. CopiesFollow' /\ Live' = Live /\ Tracked' = Tracked
      BY <1>2, <2>1 DEF CopiesFollow, Live, Tracked, Status, Listed
    <2>3. QED
      BY <1>2, <2>1, <2>2, TrackKept
  <1>6. ASSUME DropMissing \/ KeepUnread \/ CountPods PROVE TrackInv'
    <2>1. /\ Current \in Entry /\ pc = "clean" /\ pc' # "idle" /\ left # << >>
          /\ UNCHANGED <<nodePools, md, tmpl, cache, fresh>>
          /\ \/ Drop /\ cache.md[Current.pool].state = "absent"
             \/ Keep(Current) \/ Keep([Current EXCEPT !.age = 0]) \/ UNCHANGED <<mem, left>>
      BY <1>6, VisitEdits
    <2>2. CopiesFollow' /\ Live' = Live /\ cache.md = md
      BY <1>2, <2>1 DEF CopiesFollow, Live
    <2>3. /\ Tracked = Listed(mem) \cup Listed(left)
          /\ Tracked' = Listed(mem') \cup Listed(left')
      BY <2>1 DEF Tracked, Status, Listed
    <2>4. CASE Drop /\ cache.md[Current.pool].state = "absent"
      <3>1. Current.pool \notin Live
        BY <2>2, <2>4 DEF Live
      <3>2. Tracked \ {Current.pool} \subseteq Tracked'
        BY <2>1, <2>3, <2>4, VisitLists
      <3>3. QED
        BY <1>2, <2>1, <2>2, <3>1, <3>2, TrackKept
    <2>5. CASE Keep(Current) \/ Keep([Current EXCEPT !.age = 0]) \/ UNCHANGED <<mem, left>>
      <3>1. Tracked' = Tracked
        BY <2>1, <2>3, <2>5, VisitLists
      <3>2. QED
        BY <1>2, <2>1, <2>2, <3>1, TrackKept
    <2>6. QED
      BY <2>1, <2>4, <2>5
  <1>7. ASSUME DeletePool PROVE TrackInv'
    <2>1. /\ left # << >> /\ pc = "delete" /\ pc' = "clean" /\ UNCHANGED <<nodePools, fresh>>
      BY <1>7 DEF DeletePool, TypeOK, PassOK
    <2>2. CopiesFollow'
      <3>1. cache' = [cache EXCEPT !.md = md', !.tmpl = tmpl']
        BY <1>1, <1>7 DEF DeletePool, InSync
      <3>2. fresh
        BY <1>2, <2>1 DEF CopiesFollow
      <3>3. QED
        BY <1>2, <2>1, <3>1, <3>2 DEF CopiesFollow
    <2>3. /\ Tracked = Listed(mem) \cup Listed(left)
          /\ Tracked' = Listed(mem') \cup Listed(left')
      BY <2>1 DEF Tracked, Status, Listed
    <2>4. CASE UNCHANGED <<md, tmpl>> /\ Keep(Current)
      <3>1. Live' = Live /\ Tracked' = Tracked
        BY <2>1, <2>3, <2>4, VisitLists DEF Live
      <3>2. QED
        BY <1>2, <2>2, <2>4, <3>1, TrackKept
    <2>5. CASE ~(UNCHANGED <<md, tmpl>> /\ Keep(Current))
      <3>1. /\ md' = [md EXCEPT ![Current.pool].state = IF @ = "absent" THEN @ ELSE "deleting"]
            /\ tmpl \ {Current.pool} \subseteq tmpl' /\ Drop
        BY <1>7, <2>5 DEF DeletePool
      <3>2. Current.pool \in Pool
        BY <2>1, TailEdit, EntryFields DEF Current, TypeOK, ListsOK
      <3>3. Live' = Live \ {Current.pool}
        BY <3>1, <3>2 DEF Live, TypeOK, ObjectsOK, Deployment
      <3>4. Tracked \ {Current.pool} \subseteq Tracked'
        BY <2>1, <2>3, <3>1, VisitLists
      <3>5. QED
        BY <1>2, <2>2, <3>1, <3>3, <3>4, TrackKept
    <2>6. QED
      BY <2>4, <2>5
  <1>8. ASSUME Begin \/ ListPending \/ StartCleanup \/ EndCleanup \/ SaveStatus PROVE TrackInv'
    <2>1. UNCHANGED <<md, tmpl>>
      BY <1>8 DEF Begin, ListPending, StartCleanup, EndCleanup, SaveStatus, EndPass
    <2>2. CopiesFollow'
      BY <1>1, <1>2, <1>8
      DEF Begin, ListPending, StartCleanup, EndCleanup, SaveStatus, EndPass, CopiesFollow
    <2>3. Listed(<< >>) = {}
      BY DEF Listed
    <2>4. Tracked' = Tracked
      <3>1. CASE StartCleanup
        <4>1. left = << >> /\ left' = mem /\ mem' = << >> /\ pc # "idle" /\ pc' # "idle"
          BY <3>1, ListLengths DEF StartCleanup
        <4>2. QED
          BY <2>3, <4>1 DEF Tracked, Status
      <3>2. CASE Begin \/ ListPending \/ EndCleanup \/ SaveStatus
        <4>1. left = << >> /\ left' = << >>
          BY <3>2, ListLengths DEF Begin, ListPending, EndCleanup, SaveStatus, EndPass
        <4>2. Status' = Status
          BY <1>2, <3>2
          DEF Begin, ListPending, EndCleanup, SaveStatus, EndPass, CopiesFollow, Status
        <4>3. QED
          BY <4>1, <4>2 DEF Tracked
      <3>3. QED
        BY <1>8, <3>1, <3>2
    <2>5. Live' = Live
      BY <2>1 DEF Live
    <2>6. QED
      BY <1>2, <2>1, <2>2, <2>4, <2>5, TrackKept
  <1>9. QED
    BY <1>3, <1>4, <1>5, <1>6, <1>7, <1>8, TrackCreate DEF Pass

\* Nothing that happens outside the passes makes a pool live.
LEMMA LiveShrinks ==
  ASSUME TypeOK, PoolStep \/ PodStep \/ Tick \/ UNCHANGED vars
  PROVE  Live' \subseteq Live
  <1>1. \/ md' = md
        \/ \E p \in Pool : \/ md' = [md EXCEPT ![p].ready = nodes[p]]
                           \/ md' = [md EXCEPT ![p] = Absent]
                           \/ md' = [md EXCEPT ![p].state = "deleting"]
    BY DEF PoolStep, RegisterNode, ReportReady, FinishDelete, DeleteExternally,
           PodStep, PodsOnly, Tick, vars
  <1>2. md \in [Pool -> Deployment]
    BY DEF TypeOK, ObjectsOK
  <1>3. CASE md' = md
    BY <1>3 DEF Live
  <1>4. ASSUME NEW p \in Pool, \/ md' = [md EXCEPT ![p].ready = nodes[p]]
                               \/ md' = [md EXCEPT ![p] = Absent]
                               \/ md' = [md EXCEPT ![p].state = "deleting"]
        PROVE  Live' \subseteq Live
    BY <1>2, <1>4 DEF Live, Absent, Deployment
  <1>5. QED
    BY <1>1, <1>3, <1>4

LEMMA TrackCluster ==
  ASSUME TypeOK, TrackInv, ReliableReads, PoolStep \/ PodStep \/ Tick \/ UNCHANGED vars
  PROVE  TrackInv'
  <1>1. CopiesFollow /\ Live \subseteq Tracked /\ Live \subseteq tmpl /\ ~CanFail("lag")
    BY DEF TrackInv, EveryPoolListed, PoolHasTemplate, ReliableReads, CanFail
  <1>2. CASE PoolStep \/ PodStep \/ UNCHANGED vars
    <2>1. UNCHANGED <<nodePools, tmpl, passVars>>
      BY <1>2 DEF PoolStep, RegisterNode, ReportReady, FinishDelete, DeleteExternally,
                  PodStep, PodsOnly, vars
    <2>2. CopiesFollow'
      BY <1>1, <1>2, <2>1 DEF PoolStep, RegisterNode, ReportReady, FinishDelete, DeleteExternally,
                  PodStep, PodsOnly, vars, passVars, CopiesFollow, InSync
    <2>3. Live' \subseteq Live
      BY <1>2, LiveShrinks
    <2>4. Tracked' = Tracked
      BY <2>1 DEF passVars, Tracked, Status, Listed
    <2>5. QED
      BY <1>1, <2>1, <2>2, <2>3, <2>4, TrackKept
  <1>3. CASE Tick
    <2>1. CopiesFollow' /\ Live' = Live /\ UNCHANGED <<tmpl, pc>>
      BY <1>1, <1>3 DEF Tick, CopiesFollow, Live
    <2>2. /\ Listed(nodePools') = Listed(nodePools) /\ Listed(mem') = Listed(mem)
          /\ Listed(left') = Listed(left)
      BY <1>3, AgedEdit DEF Tick, TypeOK, ListsOK
    <2>3. Tracked' = Tracked
      BY <2>1, <2>2 DEF Tracked, Status
    <2>4. QED
      BY <1>1, <2>1, <2>3, TrackKept
  <1>4. QED
    BY <1>2, <1>3

LEMMA TrackStep == ReliableReads /\ TypeOK /\ TrackInv /\ [Next]_vars => TrackInv'
  <1> SUFFICES ASSUME ReliableReads, TypeOK, TrackInv, [Next]_vars PROVE TrackInv'
    OBVIOUS
  <1>1. ~SyncCache
    BY DEF ReliableReads, CanFail, SyncCache
  <1>2. QED
    BY <1>1, TrackPass, TrackCluster DEF Next

\* A list holds no more pools than entries.
LEMMA ListedCardinality ==
  ASSUME NEW list \in Seq(Entry)
  PROVE  IsFiniteSet(Listed(list)) /\ Cardinality(Listed(list)) <= Len(list)
         /\ Cardinality(Listed(list)) \in Nat
  <1> DEFINE poolOf == [i \in 1 .. Len(list) |-> list[i].pool]
  <1>1. DOMAIN list = 1 .. Len(list) /\ Len(list) \in Nat
    OBVIOUS
  <1>2. Listed(list) = {list[i].pool : i \in 1 .. Len(list)}
    BY <1>1 DEF Listed
  <1>3. poolOf \in Surjection(1 .. Len(list), Listed(list))
    BY <1>2 DEF Surjection
  <1>4. IsFiniteSet(1 .. Len(list)) /\ Cardinality(1 .. Len(list)) = Len(list)
    BY <1>1, FS_Interval
  <1>5. IsFiniteSet(Listed(list)) /\ Cardinality(Listed(list)) <= Cardinality(1 .. Len(list))
    BY <1>3, <1>4, FS_Surjection
  <1>6. QED
    BY <1>4, <1>5, FS_CardinalityType

\* As every satellite is listed, there are no more of them than entries.
LEMMA LiveWithinList ==
  ASSUME TypeOK, EveryPoolListed
  PROVE  /\ IsFiniteSet(Live) /\ Cardinality(Live) \in Nat
         /\ Entries \in Nat /\ Cardinality(Live) <= Entries
  <1>1. Status \in Seq(Entry) /\ left \in Seq(Entry) /\ Len(Status) \in Nat /\ Len(left) \in Nat
    BY DEF Status, TypeOK, ListsOK
  <1>2. /\ IsFiniteSet(Listed(Status)) /\ IsFiniteSet(Listed(left))
        /\ Cardinality(Listed(Status)) <= Len(Status) /\ Cardinality(Listed(left)) <= Len(left)
        /\ Cardinality(Listed(Status)) \in Nat /\ Cardinality(Listed(left)) \in Nat
    BY <1>1, ListedCardinality
  <1>3. /\ IsFiniteSet(Tracked) /\ Cardinality(Tracked) \in Nat
        /\ Cardinality(Tracked) <= Cardinality(Listed(Status)) + Cardinality(Listed(left))
    <2>1. IsFiniteSet(Listed(Status) \cap Listed(left))
      BY <1>2, FS_Subset
    <2>2. Cardinality(Listed(Status) \cap Listed(left)) \in Nat
      BY <2>1, FS_CardinalityType
    <2>3. IsFiniteSet(Tracked) /\ Cardinality(Tracked) \in Nat
      BY <1>2, FS_Union, FS_CardinalityType DEF Tracked
    <2>4. Cardinality(Tracked) = Cardinality(Listed(Status)) + Cardinality(Listed(left))
                                   - Cardinality(Listed(Status) \cap Listed(left))
      BY <1>2, FS_Union DEF Tracked
    <2>5. QED
      BY <1>2, <2>2, <2>3, <2>4
  <1>4. IsFiniteSet(Live) /\ Cardinality(Live) <= Cardinality(Tracked) /\ Cardinality(Live) \in Nat
    BY <1>3, FS_Subset, FS_CardinalityType DEF EveryPoolListed
  <1>5. QED
    BY <1>1, <1>2, <1>3, <1>4 DEF Entries

\* Cleanup knows of every satellite, so none is forgotten for good: what
\* createSatelliteMD's caller and cleanupNodePools keep (nodepool.go:207-214, 394-477).
THEOREM PoolsAreListed == ReliableReads => (Spec => []EveryPoolListed)
  <1> SUFFICES ASSUME ReliableReads PROVE Spec => []EveryPoolListed
    OBVIOUS
  <1>1. TypeOK /\ TrackInv /\ [Next]_vars => (TypeOK /\ TrackInv)'
    BY TypeStep, TrackStep
  <1>2. TypeOK /\ TrackInv => EveryPoolListed
    BY DEF TrackInv
  <1>3. QED
    BY <1>1, <1>2, TypeInit, TrackInit, PTL DEF Spec

\* There are never more satellites than maxPools (nodepool.go:173-184).
THEOREM PoolsStayWithinLimit == ReliableReads => (Spec => []PoolLimit)
  <1> SUFFICES ASSUME ReliableReads PROVE Spec => []PoolLimit
    OBVIOUS
  <1> DEFINE Inv == TypeOK /\ LimitInv /\ TrackInv
  <1>1. Inv /\ [Next]_vars => Inv'
    BY TypeStep, LimitStep, TrackStep
  <1>2. Inv => PoolLimit
    BY LiveWithinList, PoolsAssumption DEF PoolLimit, TrackInv, LimitInv, ListWithinLimit
  <1>3. QED
    BY <1>1, <1>2, TypeInit, LimitInit, TrackInit, PTL DEF Spec

-----------------------------------------------------------------------------
(* The templates: what holds while the informer's copies do not lag,       *)
(* whatever else is lost, refused or failing.                              *)
CopiesCurrent == ~CanFail("lag")

TemplateInv == cache.md = md /\ cache.tmpl = tmpl /\ PoolHasTemplate

LEMMA TemplateInit == Init => TemplateInv
  BY DEF Init, TemplateInv, PoolHasTemplate, Live, Absent

LEMMA TemplatePass ==
  ASSUME TypeOK, TemplateInv, CopiesCurrent, Pass \/ LoseStatus
  PROVE  TemplateInv'
  <1>1. /\ cache.md = md /\ cache.tmpl = tmpl /\ Live \subseteq tmpl
        /\ InSync => cache'.md = md' /\ cache'.tmpl = tmpl'
    BY DEF TemplateInv, PoolHasTemplate, CopiesCurrent, InSync, TypeOK, ObjectsOK
  <1>2. ASSUME NEW p \in Pool, CreatePool(p) PROVE TemplateInv'
    <2>1. tmpl \subseteq tmpl' /\ cache'.md = md' /\ cache'.tmpl = tmpl'
      BY <1>1, <1>2 DEF CreatePool, EnsureTemplate
    <2>2. CASE UNCHANGED md
      BY <1>1, <2>1, <2>2 DEF TemplateInv, PoolHasTemplate, Live
    <2>3. CASE ~UNCHANGED md
      <3>1. EnsureTemplate(p) /\ md' = [md EXCEPT ![p] = [state |-> "live", replicas |-> 1, ready |-> 0]]
        BY <1>2, <2>3 DEF CreatePool
      <3>2. Live' \subseteq Live \cup {p} /\ p \in tmpl'
        BY <1>1, <3>1 DEF EnsureTemplate, Live, TypeOK, ObjectsOK
      <3>3. QED
        BY <1>1, <2>1, <3>2 DEF TemplateInv, PoolHasTemplate
    <2>4. QED
      BY <2>2, <2>3
  <1>3. ASSUME NEW p \in Pool, ScalePool(p) PROVE TemplateInv'
    <2>1. UNCHANGED tmpl /\ cache'.md = md' /\ cache'.tmpl = tmpl'
      BY <1>1, <1>3 DEF ScalePool
    <2>2. Live' = Live
      BY <1>3 DEF ScalePool, Live, TypeOK, ObjectsOK, Deployment
    <2>3. QED
      BY <1>1, <2>1, <2>2 DEF TemplateInv, PoolHasTemplate
  <1>4. ASSUME DeletePool PROVE TemplateInv'
    <2>1. Current.pool \in Pool
      <3>1. left \in Seq(Entry) /\ left # << >>
        BY <1>4 DEF DeletePool, TypeOK, PassOK, ListsOK
      <3>2. QED
        BY <3>1, TailEdit, EntryFields DEF Current
    <2>2. cache'.md = md' /\ cache'.tmpl = tmpl'
      BY <1>1, <1>4 DEF DeletePool
    <2>3. CASE UNCHANGED <<md, tmpl>>
      BY <1>1, <2>2, <2>3 DEF TemplateInv, PoolHasTemplate, Live
    <2>4. CASE ~UNCHANGED <<md, tmpl>>
      <3>1. /\ md' = [md EXCEPT ![Current.pool].state = IF @ = "absent" THEN @ ELSE "deleting"]
            /\ tmpl \ {Current.pool} \subseteq tmpl'
        BY <1>4, <2>4 DEF DeletePool
      <3>2. Live' = Live \ {Current.pool}
        BY <2>1, <3>1 DEF Live, TypeOK, ObjectsOK, Deployment
      <3>3. QED
        BY <1>1, <2>2, <3>1, <3>2 DEF TemplateInv, PoolHasTemplate
    <2>5. QED
      BY <2>3, <2>4
  <1>5. ASSUME \/ Begin \/ ListPending \/ StartCleanup \/ EndCleanup \/ SaveStatus \/ LoseStatus
               \/ DropMissing \/ KeepUnread \/ CountPods \/ \E p \in Pool : SkipGroup(p)
        PROVE TemplateInv'
    <2>1. UNCHANGED <<md, tmpl>> /\ cache'.md = cache.md /\ cache'.tmpl = cache.tmpl
      BY <1>5 DEF Begin, ListPending, StartCleanup, EndCleanup, SaveStatus, LoseStatus, EndPass,
                  DropMissing, KeepUnread, CountPods, SkipGroup, TypeOK, ObjectsOK
    <2>2. QED
      BY <1>1, <2>1 DEF TemplateInv, PoolHasTemplate, Live
  <1>6. QED
    BY <1>2, <1>3, <1>4, <1>5 DEF Pass

LEMMA TemplateStep == CopiesCurrent /\ TypeOK /\ TemplateInv /\ [Next]_vars => TemplateInv'
  <1> SUFFICES ASSUME CopiesCurrent, TypeOK, TemplateInv, [Next]_vars PROVE TemplateInv'
    OBVIOUS
  <1>1. CASE PoolStep \/ PodStep \/ Tick \/ UNCHANGED vars
    <2>1. /\ cache.md = md /\ cache.tmpl = tmpl /\ Live \subseteq tmpl
          /\ InSync => cache'.md = md' /\ cache'.tmpl = tmpl'
      BY DEF TemplateInv, PoolHasTemplate, CopiesCurrent, InSync, TypeOK, ObjectsOK
    <2>2. UNCHANGED tmpl /\ cache'.md = md' /\ cache'.tmpl = tmpl'
      BY <1>1, <2>1 DEF PoolStep, RegisterNode, ReportReady, FinishDelete, DeleteExternally,
                        PodStep, PodsOnly, Tick, vars, TypeOK, ObjectsOK
    <2>3. Live' \subseteq Live
      BY <1>1, LiveShrinks
    <2>4. QED
      BY <2>1, <2>2, <2>3 DEF TemplateInv, PoolHasTemplate
  <1>2. ~SyncCache
    BY DEF CopiesCurrent, SyncCache
  <1>3. QED
    BY <1>1, <1>2, TemplatePass DEF Next

\* No satellite is left without the template its machines are made from, even
\* when writes of the status are lost: the template is created before the
\* pool and deleted after it (nodepool.go:323-376, 449-475).
THEOREM PoolsHaveTemplates == CopiesCurrent => (Spec => []PoolHasTemplate)
  <1> SUFFICES ASSUME CopiesCurrent PROVE Spec => []PoolHasTemplate
    OBVIOUS
  <1>1. TypeOK /\ TemplateInv /\ [Next]_vars => (TypeOK /\ TemplateInv)'
    BY TypeStep, TemplateStep
  <1>2. TypeOK /\ TemplateInv => PoolHasTemplate
    BY DEF TemplateInv
  <1>3. QED
    BY <1>1, <1>2, TypeInit, TemplateInit, PTL DEF Spec

-----------------------------------------------------------------------------
(* The ages the list holds: no pool is listed twice, and none is listed as *)
(* idle for longer than it has been.  The list may hold a pool that others *)
(* deleted; creating it again would list it twice, unless its old entry    *)
(* already fills the list.                                                 *)
OneEntryEach == ReliableReads /\ (CanFail("external") => MaxPools = 1)

Distinct(list) == \A i, j \in DOMAIN list : list[i].pool = list[j].pool => i = j
AgesBelow(list, since) == \A i \in DOMAIN list : list[i].age <= since[list[i].pool]
Exact(list) == Distinct(list) /\ AgesBelow(list, sinceUse)

ListedLive == CanFail("external") \/ Tracked \subseteq Live
DoomedIdle == pc = "delete" => Current.age >= ScaleDownDelay
AgeInv == /\ ListedLive
          /\ Exact(Status) /\ Exact(left) /\ Listed(Status) \cap Listed(left) = {}
          /\ DoomedIdle

LEMMA EmptyExact == Exact(<< >>) /\ Listed(<< >>) = {}
  BY DEF Exact, Distinct, AgesBelow, Listed

LEMMA AppendExact ==
  ASSUME NEW list \in Seq(Entry), NEW e \in Entry, NEW since,
         Distinct(list), AgesBelow(list, since), e.pool \notin Listed(list), e.age <= since[e.pool]
  PROVE  Distinct(Append(list, e)) /\ AgesBelow(Append(list, e), since)
  <1>1. /\ DOMAIN list = 1 .. Len(list) /\ Len(list) \in Nat
        /\ DOMAIN Append(list, e) = 1 .. Len(list) + 1
        /\ \A i \in 1 .. Len(list) : Append(list, e)[i] = list[i]
        /\ Append(list, e)[Len(list) + 1] = e
    OBVIOUS
  <1>2. \A i \in 1 .. Len(list) : list[i].pool # e.pool
    BY <1>1 DEF Listed
  <1>3. Distinct(Append(list, e))
    <2> SUFFICES ASSUME NEW i \in 1 .. Len(list) + 1, NEW j \in 1 .. Len(list) + 1,
                        Append(list, e)[i].pool = Append(list, e)[j].pool
                 PROVE  i = j
      BY <1>1 DEF Distinct
    <2>1. CASE i \in 1 .. Len(list) /\ j \in 1 .. Len(list)
      BY <1>1, <2>1 DEF Distinct
    <2>2. CASE i = Len(list) + 1 \/ j = Len(list) + 1
      BY <1>1, <1>2, <2>2
    <2>3. QED
      BY <1>1, <2>1, <2>2
  <1>4. AgesBelow(Append(list, e), since)
    <2> SUFFICES ASSUME NEW i \in 1 .. Len(list) + 1
                 PROVE  Append(list, e)[i].age <= since[Append(list, e)[i].pool]
      BY <1>1 DEF AgesBelow
    <2>1. CASE i \in 1 .. Len(list)
      BY <1>1, <2>1 DEF AgesBelow
    <2>2. CASE i = Len(list) + 1
      BY <1>1, <2>2
    <2>3. QED
      BY <1>1, <2>1, <2>2
  <1>5. QED
    BY <1>3, <1>4

LEMMA TailExact ==
  ASSUME NEW list \in Seq(Entry), list # << >>, Exact(list)
  PROVE  /\ Exact(Tail(list)) /\ Head(list).pool \notin Listed(Tail(list))
         /\ Head(list).age <= sinceUse[Head(list).pool]
  <1>1. /\ Len(list) \in Nat \ {0} /\ Head(list) = list[1]
        /\ DOMAIN list = 1 .. Len(list) /\ DOMAIN Tail(list) = 1 .. Len(list) - 1
        /\ \A i \in 1 .. Len(list) - 1 : Tail(list)[i] = list[i + 1]
    OBVIOUS
  <1>2. \A i \in 1 .. Len(list) - 1 : i + 1 \in 1 .. Len(list) /\ i + 1 # 1
    BY <1>1
  <1>3. 1 \in 1 .. Len(list)
    BY <1>1
  <1>4. Distinct(Tail(list))
    <2> SUFFICES ASSUME NEW i \in 1 .. Len(list) - 1, NEW j \in 1 .. Len(list) - 1,
                        list[i + 1].pool = list[j + 1].pool
                 PROVE  i = j
      BY <1>1 DEF Distinct
    <2>1. i + 1 = j + 1
      BY <1>1, <1>2 DEF Exact, Distinct
    <2>2. QED
      BY <2>1
  <1>5. AgesBelow(Tail(list), sinceUse)
    BY <1>1, <1>2 DEF Exact, AgesBelow
  <1>6. Head(list).pool \notin Listed(Tail(list))
    <2> SUFFICES ASSUME NEW i \in 1 .. Len(list) - 1, list[i + 1].pool = list[1].pool PROVE FALSE
      BY <1>1 DEF Listed
    <2>1. QED
      BY <1>1, <1>2, <1>3 DEF Exact, Distinct
  <1>7. QED
    BY <1>1, <1>3, <1>4, <1>5, <1>6 DEF Exact, AgesBelow

\* Using a pool disturbs no list that does not hold it.
LEMMA UseElsewhere ==
  ASSUME TypeOK, NEW list \in Seq(Entry), Exact(list), NEW p \in Pool, p \notin Listed(list), Used(p)
  PROVE  Distinct(list) /\ AgesBelow(list, sinceUse')
  <1>1. \A i \in DOMAIN list : list[i].pool # p /\ list[i].pool \in Pool
    <2>1. \A i \in DOMAIN list : list[i] \in Entry
      OBVIOUS
    <2>2. QED
      BY <2>1, EntryFields DEF Listed
  <1>2. \A i \in DOMAIN list : sinceUse'[list[i].pool] = sinceUse[list[i].pool]
    BY <1>1 DEF Used, TypeOK, ListsOK
  <1>3. QED
    BY <1>2 DEF Exact, AgesBelow

LEMMA RefreshExact ==
  ASSUME TypeOK, Exact(mem), NEW p \in Pool, RefreshClock(p), Used(p)
  PROVE  Exact(mem)'
  <1>1. /\ DOMAIN mem = 1 .. Len(mem) /\ DOMAIN mem' = DOMAIN mem /\ Len(mem) \in Nat
        /\ \A i \in DOMAIN mem : mem[i] \in Entry /\ mem'[i].pool = mem[i].pool
    BY RefreshEdit DEF TypeOK, ListsOK
  <1>2. Distinct(mem')
    BY <1>1 DEF Exact, Distinct
  <1>3. ASSUME NEW i \in DOMAIN mem PROVE mem'[i].age <= sinceUse'[mem'[i].pool]
    <2>1. CASE mem[i].pool = p
      <3>1. i \in FirstOf(mem, p)
        BY <1>1, <2>1 DEF FirstOf, Exact, Distinct
      <3>2. mem'[i] = [mem[i] EXCEPT !.age = 0]
        BY <1>3, <3>1 DEF RefreshClock
      <3>3. mem'[i].age = 0
        BY <1>1, <1>3, <3>2, EntryEdit, AgeFacts
      <3>4. sinceUse'[p] = 0
        BY DEF Used, TypeOK, ListsOK
      <3>5. QED
        BY <1>1, <1>3, <2>1, <3>3, <3>4
    <2>2. CASE mem[i].pool # p
      <3>1. mem'[i] = mem[i]
        BY <1>3, <2>2 DEF RefreshClock, FirstOf
      <3>2. sinceUse'[mem[i].pool] = sinceUse[mem[i].pool]
        BY <1>1, <1>3, <2>2, EntryFields DEF Used, TypeOK, ListsOK
      <3>3. QED
        BY <1>3, <3>1, <3>2 DEF Exact, AgesBelow
    <2>3. QED
      BY <2>1, <2>2
  <1>4. QED
    BY <1>1, <1>2, <1>3 DEF Exact, AgesBelow

LEMMA AgedExact ==
  ASSUME TypeOK, NEW list \in Seq(Entry), Exact(list), Tick
  PROVE  Distinct(Aged(list)) /\ AgesBelow(Aged(list), sinceUse')
  <1>1. /\ DOMAIN Aged(list) = DOMAIN list
        /\ \A i \in DOMAIN list : /\ Aged(list)[i].pool = list[i].pool
                                  /\ Aged(list)[i].age = Older(list[i].age)
    BY AgedEdit
  <1>2. Distinct(Aged(list))
    BY <1>1 DEF Exact, Distinct
  <1>3. ASSUME NEW i \in DOMAIN list
        PROVE  Aged(list)[i].age <= sinceUse'[Aged(list)[i].pool]
    <2>1. list[i].pool \in Pool /\ list[i].age \in 0 .. AgeCap
      <3>1. list[i] \in Entry
        OBVIOUS
      <3>2. QED
        BY <3>1, EntryFields
    <2>2. sinceUse[list[i].pool] \in Never .. AgeCap /\ list[i].age <= sinceUse[list[i].pool]
      BY <2>1 DEF Exact, AgesBelow, TypeOK, ListsOK
    <2>3. Older(list[i].age) <= Older(sinceUse[list[i].pool])
      BY <2>1, <2>2, PoolsAssumption DEF Older, Never
    <2>4. sinceUse'[list[i].pool] = Older(sinceUse[list[i].pool])
      BY <2>1 DEF Tick
    <2>5. QED
      BY <1>1, <2>3, <2>4
  <1>4. QED
    BY <1>1, <1>2, <1>3 DEF AgesBelow

LEMMA AgeInit == Init => AgeInv
  BY EmptyExact DEF Init, AgeInv, ListedLive, Tracked, Status, DoomedIdle

\* What AgeInv says of the two lists of a pass.
LEMMA AgeLists ==
  ASSUME TypeOK, AgeInv, pc # "idle"
  PROVE  /\ Exact(mem) /\ Exact(left) /\ Listed(mem) \cap Listed(left) = {}
         /\ CanFail("external") \/ Listed(mem) \cup Listed(left) \subseteq Live
         /\ mem \in Seq(Entry) /\ left \in Seq(Entry)
  BY DEF AgeInv, ListedLive, Tracked, Status, TypeOK, ListsOK

\* A step after which the pass goes on with lists that are as good as before.
LEMMA AgeKept ==
  ASSUME pc' # "idle", pc' # "delete", Exact(mem)', Exact(left)',
         Listed(mem') \cap Listed(left') = {},
         CanFail("external") \/ Listed(mem') \cup Listed(left') \subseteq Live'
  PROVE  AgeInv'
  BY DEF AgeInv, ListedLive, Tracked, Status, DoomedIdle, Exact, Listed, AgesBelow, Distinct

LEMMA AgeCreate ==
  ASSUME TypeOK, TrackInv, AgeInv, OneEntryEach, NEW p \in Pool, CreatePool(p)
  PROVE  AgeInv'
  <1>1. /\ pc = "groups" /\ pc' = "groups" /\ left = << >> /\ left' = << >>
        /\ md[p].state = "absent" /\ mem \in Seq(Entry) /\ ~AtLimit
    BY ListLengths DEF CreatePool, VisitGroup, TrackInv, CopiesFollow, TypeOK, ListsOK
  <1>2. Exact(mem) /\ (CanFail("external") \/ Listed(mem) \subseteq Live)
    BY <1>1, AgeLists
  <1>3. Exact(left)' /\ Listed(left') = {}
    BY <1>1 DEF Exact, Distinct, AgesBelow, Listed
  <1>4. CASE UNCHANGED <<md, mem, sinceUse>>
    <2>1. Exact(mem)' /\ Live' = Live
      BY <1>2, <1>4 DEF Exact, Live
    <2>2. QED
      BY <1>1, <1>2, <1>3, <1>4, <2>1, AgeKept
  <1>5. CASE ~UNCHANGED <<md, mem, sinceUse>>
    <2>1. /\ Track(p) /\ Used(p)
          /\ md' = [md EXCEPT ![p] = [state |-> "live", replicas |-> 1, ready |-> 0]]
      BY <1>5 DEF CreatePool
    <2>2. Live' = Live \cup {p} /\ p \notin Listed(mem)
      <3>1. Live' = Live \cup {p} /\ p \notin Live
        BY <1>1, <2>1 DEF Live, TypeOK, ObjectsOK
      <3>2. CASE CanFail("external")
        <4>1. Len(mem) < 1 /\ Len(mem) \in Nat
          BY <1>1, <3>2 DEF OneEntryEach, AtLimit
        <4>2. mem = << >>
          BY <1>1, <4>1
        <4>3. QED
          BY <3>1, <4>2, EmptyExact
      <3>3. QED
        BY <1>2, <3>1, <3>2
    <2>3. Distinct(mem) /\ AgesBelow(mem, sinceUse')
      BY <1>1, <1>2, <2>1, <2>2, UseElsewhere
    <2>4. DEFINE e == [pool |-> p, age |-> 0]
    <2>5. e \in Entry /\ e.pool = p /\ e.age = 0 /\ mem' = Append(mem, e)
      BY <2>1, NewEntry DEF Track
    <2>6. sinceUse'[p] = 0
      BY <2>1 DEF Used, TypeOK, ListsOK
    <2>7. e.pool \notin Listed(mem) /\ e.age <= sinceUse'[e.pool]
      BY <2>2, <2>5, <2>6
    <2> HIDE DEF e
    <2>8. Distinct(mem') /\ AgesBelow(mem', sinceUse') /\ Listed(mem') = Listed(mem) \cup {p}
      BY <1>1, <2>3, <2>5, <2>7, AppendExact, AppendEdit
    <2>9. QED
      BY <1>1, <1>2, <1>3, <2>2, <2>8, AgeKept DEF Exact
  <1>6. QED
    BY <1>4, <1>5

LEMMA AgeScale ==
  ASSUME TypeOK, AgeInv, NEW p \in Pool, ScalePool(p)
  PROVE  AgeInv'
  <1>1. /\ pc = "groups" /\ pc' = "groups" /\ left = << >> /\ left' = << >> /\ mem \in Seq(Entry)
    BY ListLengths DEF ScalePool, VisitGroup, TypeOK, ListsOK
  <1>2. Exact(mem) /\ (CanFail("external") \/ Listed(mem) \subseteq Live)
    BY <1>1, AgeLists
  <1>3. Exact(left)' /\ Listed(left') = {}
    BY <1>1 DEF Exact, Distinct, AgesBelow, Listed
  <1>4. Live' = Live
    BY DEF ScalePool, Live, TypeOK, ObjectsOK, Deployment
  <1>5. Exact(mem)' /\ Listed(mem') = Listed(mem)
    <2>1. CASE UNCHANGED <<mem, sinceUse>>
      BY <1>2, <2>1 DEF Exact
    <2>2. CASE RefreshClock(p) /\ Used(p)
      BY <1>1, <1>2, <2>2, RefreshEdit, RefreshExact
    <2>3. QED
      BY <2>1, <2>2 DEF ScalePool
  <1>6. QED
    BY <1>1, <1>2, <1>3, <1>4, <1>5, AgeKept

\* Keeping the current entry, refreshed or not, or dropping it.
LEMMA AgeVisited ==
  ASSUME TypeOK, AgeInv, pc \in {"clean", "delete"}, left # << >>,
         \/ Drop /\ UNCHANGED sinceUse
         \/ Keep(Current) /\ UNCHANGED sinceUse
         \/ Keep([Current EXCEPT !.age = 0]) /\ Used(Current.pool)
  PROVE  /\ Exact(mem)' /\ Exact(left)' /\ Listed(mem') \cap Listed(left') = {}
         /\ \/ CanFail("external")
            \/ /\ Listed(mem') \cup Listed(left') \subseteq Live
               /\ Drop => Listed(mem') \cup Listed(left') \subseteq Live \ {Current.pool}
  <1>1. /\ Exact(mem) /\ Exact(left) /\ Listed(mem) \cap Listed(left) = {}
        /\ CanFail("external") \/ Listed(mem) \cup Listed(left) \subseteq Live
        /\ mem \in Seq(Entry) /\ left \in Seq(Entry)
    BY AgeLists
  <1>2. /\ Current \in Entry /\ Tail(left) \in Seq(Entry)
        /\ Listed(left) = Listed(Tail(left)) \cup {Current.pool}
    BY <1>1, TailEdit DEF Current
  <1>3. /\ Exact(Tail(left)) /\ Current.pool \notin Listed(Tail(left))
        /\ Current.age <= sinceUse[Current.pool]
    BY <1>1, TailExact DEF Current
  <1>4. Current.pool \in Pool /\ Current.pool \notin Listed(mem) /\ left' = Tail(left)
    BY <1>1, <1>2, EntryFields DEF Keep, Drop
  <1>5. ASSUME Drop, UNCHANGED sinceUse
        PROVE  /\ Exact(mem)' /\ Exact(left)' /\ mem' = mem
    BY <1>1, <1>3, <1>4, <1>5 DEF Exact, Drop
  <1>6. ASSUME Keep(Current), UNCHANGED sinceUse
        PROVE  /\ Exact(mem)' /\ Exact(left)'
               /\ Listed(mem') = Listed(mem) \cup {Current.pool}
    <2>1. Exact(left)'
      BY <1>3, <1>4, <1>6 DEF Exact
    <2>2. mem' = Append(mem, Current)
      BY <1>6 DEF Keep
    <2>3. Distinct(mem') /\ AgesBelow(mem', sinceUse)
      BY <1>1, <1>2, <1>3, <1>4, <2>2, AppendExact DEF Exact
    <2>4. Listed(mem') = Listed(mem) \cup {Current.pool}
      BY <1>1, <1>2, <2>2, AppendEdit
    <2>5. QED
      BY <1>6, <2>1, <2>3, <2>4 DEF Exact
  <1>7. ASSUME Keep([Current EXCEPT !.age = 0]), Used(Current.pool)
        PROVE  /\ Exact(mem)' /\ Exact(left)'
               /\ Listed(mem') = Listed(mem) \cup {Current.pool}
    <2> DEFINE e == [Current EXCEPT !.age = 0]
    <2>1. e \in Entry /\ e.pool = Current.pool /\ e.age = 0
      BY <1>2, EntryEdit, AgeFacts
    <2>2. sinceUse'[Current.pool] = 0
      BY <1>4, <1>7 DEF Used, TypeOK, ListsOK
    <2>3. e.age <= sinceUse'[e.pool]
      BY <2>1, <2>2
    <2>4. mem' = Append(mem, e)
      BY <1>7 DEF Keep
    <2> HIDE DEF e
    <2>5. /\ Distinct(mem) /\ AgesBelow(mem, sinceUse')
          /\ Distinct(Tail(left)) /\ AgesBelow(Tail(left), sinceUse')
      BY <1>1, <1>2, <1>3, <1>4, <1>7, UseElsewhere
    <2>6. Distinct(mem') /\ AgesBelow(mem', sinceUse')
      BY <1>1, <1>4, <2>1, <2>3, <2>4, <2>5, AppendExact
    <2>7. Listed(mem') = Listed(mem) \cup {Current.pool}
      BY <1>1, <2>1, <2>4, AppendEdit
    <2>8. QED
      BY <1>4, <2>5, <2>6, <2>7 DEF Exact
  <1>8. QED
    <2>1. CASE Drop /\ UNCHANGED sinceUse
      BY <1>1, <1>2, <1>3, <1>4, <1>5, <2>1
    <2>2. CASE ~Drop
      BY <1>1, <1>2, <1>3, <1>4, <1>6, <1>7, <2>2
    <2>3. CASE Drop /\ ~UNCHANGED sinceUse
      <3>1. Keep([Current EXCEPT !.age = 0]) /\ mem' = mem
        BY <2>3 DEF Drop
      <3>2. Len(mem') = Len(mem) + 1 /\ Len(mem) \in Nat
        <4>1. [Current EXCEPT !.age = 0] \in Entry
          BY <1>2, EntryEdit, AgeFacts
        <4>2. QED
          BY <1>1, <3>1, <4>1, AppendEdit DEF Keep
      <3>3. QED
        BY <3>1, <3>2
    <2>4. QED
      BY <2>1, <2>2, <2>3

LEMMA AgeVisit ==
  ASSUME TypeOK, AgeInv, TrackInv, DropMissing \/ KeepUnread \/ CountPods
  PROVE  AgeInv'
  <1>1. /\ pc = "clean" /\ left # << >> /\ UNCHANGED md
        /\ \/ Drop /\ UNCHANGED <<pc, sinceUse>>
           \/ Keep(Current) /\ UNCHANGED <<pc, sinceUse>>
           \/ Keep([Current EXCEPT !.age = 0]) /\ Used(Current.pool) /\ UNCHANGED pc
           \/ /\ pc' = "delete" /\ UNCHANGED <<mem, left, sinceUse>>
              /\ Current.age >= ScaleDownDelay
    BY VisitEdits
  <1>2. Live' = Live
    BY <1>1 DEF Live
  <1>3. CASE pc' = "delete"
    <2>1. UNCHANGED <<mem, left, sinceUse>> /\ Current.age >= ScaleDownDelay
      BY <1>1, <1>3
    <2>2. Current' = Current /\ Status = mem /\ Status' = mem
      BY <1>1, <1>3, <2>1 DEF Current, Status
    <2>3. Tracked' = Tracked /\ Exact(Status)' /\ Exact(left)'
      BY <2>1, <2>2 DEF AgeInv, Tracked, Exact
    <2>4. Listed(Status') \cap Listed(left') = {}
      BY <2>1, <2>2 DEF AgeInv
    <2>5. QED
      BY <1>2, <2>1, <2>2, <2>3, <2>4 DEF AgeInv, ListedLive, DoomedIdle
  <1>4. CASE pc' # "delete"
    <2>1. pc' = "clean" /\ \/ Drop /\ UNCHANGED sinceUse
                           \/ Keep(Current) /\ UNCHANGED sinceUse
                           \/ Keep([Current EXCEPT !.age = 0]) /\ Used(Current.pool)
      BY <1>1, <1>4
    <2>2. QED
      BY <1>1, <1>2, <2>1, AgeVisited, AgeKept
  <1>5. QED
    BY <1>3, <1>4

LEMMA AgeDelete ==
  ASSUME TypeOK, AgeInv, DeletePool
  PROVE  AgeInv'
  <1>1. pc = "delete" /\ pc' = "clean" /\ left # << >> /\ UNCHANGED sinceUse
    BY DEF DeletePool, TypeOK, PassOK
  <1>2. Current.pool \in Pool
    BY <1>1, TailEdit, EntryFields DEF Current, TypeOK, ListsOK
  <1>3. CASE UNCHANGED md /\ Keep(Current)
    <2>1. Live' = Live
      BY <1>3 DEF Live
    <2>2. QED
      BY <1>1, <1>3, <2>1, AgeVisited, AgeKept
  <1>4. CASE ~(UNCHANGED md /\ Keep(Current))
    <2>1. /\ md' = [md EXCEPT ![Current.pool].state = IF @ = "absent" THEN @ ELSE "deleting"]
          /\ Drop
      BY <1>4 DEF DeletePool
    <2>2. Live' = Live \ {Current.pool}
      BY <1>2, <2>1 DEF Live, TypeOK, ObjectsOK, Deployment
    <2>3. QED
      BY <1>1, <2>1, <2>2, AgeVisited, AgeKept
  <1>5. QED
    BY <1>3, <1>4

LEMMA AgePass ==
  ASSUME TypeOK, TrackInv, AgeInv, OneEntryEach, Pass \/ LoseStatus
  PROVE  AgeInv'
  <1>1. ~LoseStatus
    BY DEF OneEntryEach, ReliableReads, CanFail, LoseStatus, TrackInv, CopiesFollow
  <1>2. ASSUME \E p \in Pool : SkipGroup(p) PROVE AgeInv'
    BY <1>2 DEF SkipGroup, VisitGroup, AgeInv, ListedLive, Tracked, Status, Exact, Distinct, AgesBelow,
                Listed, DoomedIdle, Live, Current
  <1>3. ASSUME Begin \/ ListPending \/ StartCleanup \/ EndCleanup \/ SaveStatus
        PROVE  AgeInv'
    <2>1. UNCHANGED <<md, sinceUse>> /\ pc' # "delete"
      BY <1>3 DEF Begin, ListPending, StartCleanup, EndCleanup, SaveStatus, EndPass
    <2>2. Exact(<< >>) /\ Listed(<< >>) = {} /\ Exact(<< >>)'
      BY EmptyExact, <2>1 DEF Exact
    <2>3. Live' = Live
      BY <2>1 DEF Live
    <2>4. CASE StartCleanup
      <3>1. /\ pc # "idle" /\ pc' # "idle" /\ left = << >> /\ left' = mem /\ mem' = << >>
        BY <2>4, ListLengths DEF StartCleanup
      <3>2. Exact(mem) /\ (CanFail("external") \/ Listed(mem) \subseteq Live)
        BY <3>1, AgeLists
      <3>3. Exact(left)' /\ Exact(mem)' /\ Listed(mem') = {} /\ Listed(left') = Listed(mem)
        BY <2>1, <2>2, <3>1, <3>2 DEF Exact
      <3>4. QED
        BY <2>1, <2>3, <3>1, <3>2, <3>3, AgeKept
    <2>5. CASE Begin \/ ListPending \/ EndCleanup \/ SaveStatus
      <3>1. left = << >> /\ left' = << >>
        BY <2>5, ListLengths DEF Begin, ListPending, EndCleanup, SaveStatus, EndPass
      <3>2. Status' = Status
        BY <2>5 DEF Begin, ListPending, EndCleanup, SaveStatus, EndPass, TrackInv, CopiesFollow,
                    Status
      <3>3. Exact(Status) /\ (CanFail("external") \/ Listed(Status) \subseteq Live)
        BY DEF AgeInv, ListedLive, Tracked
      <3>4. Exact(Status)' /\ Exact(left)'
        BY <2>1, <2>2, <3>1, <3>2, <3>3 DEF Exact
      <3>5. Tracked' = Listed(Status) /\ Listed(Status') \cap Listed(left') = {}
        BY <2>2, <3>1, <3>2 DEF Tracked
      <3>6. QED
        BY <2>1, <2>3, <3>3, <3>4, <3>5 DEF AgeInv, ListedLive, DoomedIdle
    <2>6. QED
      BY <1>3, <2>4, <2>5
  <1>4. QED
    BY <1>1, <1>2, <1>3, AgeCreate, AgeScale, AgeVisit, AgeDelete DEF Pass

LEMMA AgeCluster ==
  ASSUME TypeOK, AgeInv, PoolStep \/ PodStep \/ Tick \/ UNCHANGED vars
  PROVE  AgeInv'
  <1>1. CASE PoolStep \/ PodStep \/ UNCHANGED vars
    <2>1. UNCHANGED <<nodePools, passVars, sinceUse>>
      BY <1>1 DEF PoolStep, RegisterNode, ReportReady, FinishDelete, DeleteExternally,
                  PodStep, PodsOnly, vars
    <2>2. CanFail("external") \/ Live' = Live
      <3>1. \/ CanFail("external") \/ md' = md
            \/ \E p \in Pool : \/ md' = [md EXCEPT ![p].ready = nodes[p]]
                               \/ md[p].state = "deleting" /\ md' = [md EXCEPT ![p] = Absent]
        BY <1>1 DEF PoolStep, RegisterNode, ReportReady, FinishDelete, DeleteExternally,
                    PodStep, PodsOnly, vars
      <3>2. QED
        BY <3>1 DEF Live, Absent, TypeOK, ObjectsOK, Deployment
    <2>3. QED
      BY <2>1, <2>2 DEF passVars, AgeInv, ListedLive, Tracked, Status, Exact, Distinct, AgesBelow,
                        Listed, DoomedIdle, Current
  <1>2. CASE Tick
    <2>1. /\ UNCHANGED <<md, pc>> /\ Status' = Aged(Status) /\ left' = Aged(left)
          /\ Status \in Seq(Entry) /\ left \in Seq(Entry)
      BY <1>2 DEF Tick, Status, TypeOK, ListsOK
    <2>2. Exact(Status) /\ Exact(left)
      BY DEF AgeInv
    <2>3. Exact(Status)' /\ Exact(left)'
      BY <1>2, <2>1, <2>2, AgedExact DEF Exact
    <2>4. Listed(Status') = Listed(Status) /\ Listed(left') = Listed(left)
      BY <2>1, AgedEdit
    <2>5. Live' = Live /\ Tracked' = Tracked
      BY <2>1, <2>4 DEF Live, Tracked
    <2>6. DoomedIdle'
      <3> SUFFICES ASSUME pc = "delete" PROVE Current'.age >= ScaleDownDelay
        BY <2>1 DEF DoomedIdle
      <3>1. left # << >> /\ Current.age >= ScaleDownDelay
        BY DEF AgeInv, DoomedIdle, TypeOK, PassOK
      <3>2. /\ Current = left[1] /\ 1 \in DOMAIN left /\ left[1] \in Entry /\ Current' = left'[1]
        BY <2>1, <3>1 DEF Current
      <3>3. left'[1].age = Older(left[1].age)
        BY <2>1, <3>2, AgedEdit
      <3>4. Older(left[1].age) >= left[1].age
        BY <3>2, EntryFields, PoolsAssumption DEF Older
      <3>5. left[1].age \in Int /\ Older(left[1].age) \in Int /\ ScaleDownDelay \in Int
        BY <3>2, EntryFields, AgeFacts, PoolsAssumption
      <3>6. QED
        BY <3>1, <3>2, <3>3, <3>4, <3>5
    <2>7. QED
      BY <2>3, <2>4, <2>5, <2>6 DEF AgeInv, ListedLive
  <1>3. QED
    BY <1>1, <1>2

LEMMA AgeStep ==
  OneEntryEach /\ TypeOK /\ TrackInv /\ AgeInv /\ [Next]_vars => AgeInv'
  <1> SUFFICES ASSUME OneEntryEach, TypeOK, TrackInv, AgeInv, [Next]_vars PROVE AgeInv'
    OBVIOUS
  <1>1. ReliableReads /\ ~SyncCache
    BY DEF OneEntryEach, ReliableReads, CanFail, SyncCache
  <1>2. QED
    BY <1>1, AgePass, AgeCluster DEF Next

LEMMA DeletedLongIdle ==
  ASSUME TypeOK, AgeInv, [Next]_vars, NEW p \in Pool, Deletes(p)
  PROVE  sinceUse[p] >= ScaleDownDelay
  <1>1. pc = "delete" /\ left # << >> /\ left \in Seq(Entry)
    BY DEF Deletes, TypeOK, PassOK, ListsOK
  <1>2. Current \in Entry /\ Current.age <= sinceUse[Current.pool]
    BY <1>1, AgeLists, TailEdit, TailExact DEF Current
  <1>3. Current.age >= ScaleDownDelay
    BY <1>1 DEF AgeInv, DoomedIdle
  <1>4. DeletePool
    BY DEF Deletes, Next, vars, passVars, Pass, Begin, ListPending, StartCleanup, EndCleanup,
           SaveStatus, LoseStatus, EndPass, DropMissing, KeepUnread, CountPods, Visit, CreatePool,
           ScalePool, SkipGroup, VisitGroup, SyncCache, PoolStep, RegisterNode, ReportReady,
           FinishDelete, DeleteExternally, PodStep, PodsOnly, Tick
  <1>5. p = Current.pool
    <2>1. \/ UNCHANGED md
          \/ md' = [md EXCEPT ![Current.pool].state = IF @ = "absent" THEN @ ELSE "deleting"]
      BY <1>4 DEF DeletePool
    <2>2. QED
      BY <2>1 DEF Deletes, Live, TypeOK, ObjectsOK
  <1>6. Current.pool \in Pool /\ Current.age \in Int /\ sinceUse[p] \in Int /\ ScaleDownDelay \in Int
    BY <1>2, EntryFields, PoolsAssumption DEF TypeOK, ListsOK, Never
  <1>7. QED
    BY <1>2, <1>3, <1>5, <1>6

\* A pool that some pass created, scaled up or saw with pods within
\* scaleDownDelay is not deleted by cleanupNodePools, if no status write is
\* lost, the informer is up to date, and either nobody else deletes pools or
\* maxPools is 1 (nodepool.go:423-454, 486-496).
THEOREM UsedPoolsStay == OneEntryEach => (Spec => UsedPoolKept)
  <1> SUFFICES ASSUME OneEntryEach PROVE Spec => UsedPoolKept
    OBVIOUS
  <1> DEFINE Inv == TypeOK /\ TrackInv /\ AgeInv
  <1>1. ReliableReads
    BY DEF OneEntryEach
  <1>2. Init => Inv
    BY TypeInit, TrackInit, AgeInit
  <1>3. Inv /\ [Next]_vars => Inv'
    BY <1>1, TypeStep, TrackStep, AgeStep
  <1>4. Inv /\ [Next]_vars => [\A p \in Pool : Deletes(p) => sinceUse[p] >= ScaleDownDelay]_vars
    BY DeletedLongIdle
  <1>5. QED
    BY <1>2, <1>3, <1>4, PTL DEF Spec, UsedPoolKept

-----------------------------------------------------------------------------
(* The satellites keep the promise of Satellites.                          *)
SatelliteHasMachines == \A p \in Live : md[p].replicas >= 1

LEMMA NoneAtFirst == Init => SatelliteHasMachines
  BY DEF Init, SatelliteHasMachines, Live, Absent

LEMMA MachinesStep ==
  ASSUME TypeOK, SatelliteHasMachines, [Next]_vars
  PROVE  SatelliteHasMachines'
  <1>1. md \in [Pool -> Deployment] /\ cache.md \in [Pool -> Deployment]
    BY DEF TypeOK, ObjectsOK
  <1>2. ASSUME NEW p \in Pool, CreatePool(p) PROVE SatelliteHasMachines'
    BY <1>1, <1>2 DEF CreatePool, SatelliteHasMachines, Live
  <1>3. ASSUME NEW p \in Pool, ScalePool(p) PROVE SatelliteHasMachines'
    <2>1. cache.md[p].replicas \in Nat
      BY <1>1 DEF Deployment
    <2>2. UNCHANGED md \/ md' = [md EXCEPT ![p].replicas = cache.md[p].replicas + 1]
      BY <1>3 DEF ScalePool
    <2>3. QED
      BY <1>1, <2>1, <2>2 DEF SatelliteHasMachines, Live, Deployment
  <1>4. ASSUME NEW p \in Pool, ReportReady(p) PROVE SatelliteHasMachines'
    BY <1>1, <1>4 DEF ReportReady, SatelliteHasMachines, Live, Deployment
  <1>5. ASSUME NEW p \in Pool, FinishDelete(p) PROVE SatelliteHasMachines'
    BY <1>1, <1>5 DEF FinishDelete, SatelliteHasMachines, Live, Absent, Deployment
  <1>6. ASSUME NEW p \in Pool, DeleteExternally(p) PROVE SatelliteHasMachines'
    BY <1>1, <1>6 DEF DeleteExternally, SatelliteHasMachines, Live, Deployment
  <1>7. ASSUME DeletePool PROVE SatelliteHasMachines'
    <2>1. \/ UNCHANGED md
          \/ md' = [md EXCEPT ![Current.pool].state = IF @ = "absent" THEN @ ELSE "deleting"]
      BY <1>7 DEF DeletePool
    <2>2. \A q \in Pool : md'[q].state = "live" => md'[q] = md[q]
      BY <1>1, <2>1 DEF Deployment
    <2>3. QED
      BY <2>2 DEF SatelliteHasMachines, Live
  <1>8. ASSUME UNCHANGED md PROVE SatelliteHasMachines'
    BY <1>8 DEF SatelliteHasMachines, Live
  <1>9. QED
    BY <1>2, <1>3, <1>4, <1>5, <1>6, <1>7, <1>8
    DEF Next, vars, Pass, Begin, ListPending, StartCleanup, EndCleanup, SaveStatus, LoseStatus,
        EndPass, DropMissing, KeepUnread, CountPods, SkipGroup, SyncCache, PoolStep, RegisterNode,
        PodStep, PodsOnly, Tick

\* Which step of Satellites a step of the pools is.
LEMMA SizesFollow ==
  ASSUME TypeOK, SatelliteHasMachines
  PROVE  /\ Sizes \in [Pool -> Nat] /\ Promise!Made = Live
         /\ \A p \in Live : Sizes[p] = md[p].replicas
  <1>1. md \in [Pool -> Deployment]
    BY DEF TypeOK, ObjectsOK
  <1>2. Sizes \in [Pool -> Nat] /\ \A p \in Pool : Sizes[p] = IF p \in Live THEN md[p].replicas ELSE 0
    BY <1>1 DEF Sizes, Deployment
  <1>3. Live \subseteq Pool
    BY DEF Live
  <1>4. QED
    BY <1>2, <1>3 DEF Promise!Made, SatelliteHasMachines

\* The instance has a copy of its own of the library's operator.
LEMMA SameCardinality == \A S : Promise!Cardinality(S) = Cardinality(S)
  BY DEF Promise!Cardinality, Cardinality

PromiseStep == [Promise!Next]_<<Sizes, sinceUse>>

LEMMA MakeOrGrow ==
  ASSUME TypeOK, TrackInv, LimitInv, SatelliteHasMachines, ReliableReads,
         NEW p \in Pool, CreatePool(p) \/ ScalePool(p)
  PROVE  PromiseStep
  <1>1. /\ md \in [Pool -> Deployment] /\ cache.md = md
        /\ Sizes \in [Pool -> Nat] /\ Promise!Made = Live
    BY SizesFollow DEF TypeOK, ObjectsOK, TrackInv, CopiesFollow
  <1>2. ASSUME UNCHANGED <<md, sinceUse>> PROVE PromiseStep
    BY <1>2 DEF PromiseStep, Sizes, Live
  <1>3. ASSUME CreatePool(p), ~UNCHANGED <<md, sinceUse>> PROVE PromiseStep
    <2>1. /\ pc = "groups" /\ ~AtLimit /\ md[p].state = "absent" /\ Used(p)
          /\ md' = [md EXCEPT ![p] = [state |-> "live", replicas |-> 1, ready |-> 0]]
      BY <1>1, <1>3 DEF CreatePool, VisitGroup
    <2>2. Live' = Live \cup {p} /\ p \notin Live
      BY <1>1, <2>1 DEF Live
    <2>3. Cardinality(Live) < MaxPools
      <3>1. Cardinality(Live) <= Entries /\ Cardinality(Live) \in Nat /\ Entries \in Nat
        BY LiveWithinList DEF TrackInv
      <3>2. Entries = Len(mem) /\ Len(mem) \in Nat
        BY <2>1, ListLengths DEF Entries, Status
      <3>3. QED
        BY <2>1, <3>1, <3>2, PoolsAssumption DEF AtLimit
    <2>4. Sizes' = [Sizes EXCEPT ![p] = 1]
      BY <1>1, <2>1, <2>2 DEF Sizes
    <2>5. Promise!Make(p)
      BY <1>1, <2>1, <2>2, <2>3, <2>4, SameCardinality
      DEF Promise!Make, Promise!Resize, Promise!UseOf, Used
    <2>6. QED
      BY <2>5 DEF PromiseStep, Promise!Next
  <1>4. ASSUME ScalePool(p), ~UNCHANGED <<md, sinceUse>> PROVE PromiseStep
    <2>1. /\ ~Full(p) /\ Used(p)
          /\ md' = [md EXCEPT ![p].replicas = md[p].replicas + 1]
      BY <1>1, <1>4 DEF ScalePool
    <2>2. Live' = Live
      BY <1>1, <2>1 DEF Live, Deployment
    <2>3. CASE p \in Live
      <3>1. Sizes[p] = md[p].replicas
        BY <2>3, SizesFollow
      <3>2. Sizes' = [Sizes EXCEPT ![p] = Sizes[p] + 1]
        BY <1>1, <2>1, <2>2, <2>3, <3>1 DEF Sizes, Deployment
      <3>3. Sizes[p] < MaxReplicas
        BY <1>1, <2>1, <3>1, PoolsAssumption DEF Full, Deployment
      <3>4. Promise!Grow(p)
        BY <1>1, <2>1, <2>3, <3>2, <3>3 DEF Promise!Grow, Promise!Resize, Promise!UseOf, Used
      <3>5. QED
        BY <3>4 DEF PromiseStep, Promise!Next
    <2>4. CASE p \notin Live
      <3>1. Sizes' = Sizes
        BY <1>1, <2>1, <2>2, <2>4 DEF Sizes
      <3>2. Promise!See(p)
        BY <2>1, <3>1 DEF Promise!See, Promise!UseOf, Used
      <3>3. QED
        BY <3>2 DEF PromiseStep, Promise!Next
    <2>5. QED
      BY <2>3, <2>4
  <1>5. QED
    BY <1>2, <1>3, <1>4

LEMMA SeeOrRemove ==
  ASSUME TypeOK, AgeInv, SatelliteHasMachines, CountPods \/ DeletePool
  PROVE  PromiseStep
  <1>1. /\ left # << >> /\ left \in Seq(Entry) /\ md \in [Pool -> Deployment]
    BY DEF CountPods, Visit, DeletePool, TypeOK, PassOK, ListsOK, ObjectsOK
  <1>2. Current.pool \in Pool
    BY <1>1, TailEdit, EntryFields DEF Current
  <1>3. ASSUME UNCHANGED <<md, sinceUse>> PROVE PromiseStep
    BY <1>3 DEF PromiseStep, Sizes, Live
  <1>4. ASSUME CountPods, ~UNCHANGED <<md, sinceUse>> PROVE PromiseStep
    <2>1. Used(Current.pool) /\ UNCHANGED md
      BY <1>4 DEF CountPods
    <2>2. Promise!See(Current.pool)
      BY <2>1 DEF Promise!See, Promise!UseOf, Used, Sizes, Live
    <2>3. QED
      BY <1>2, <2>2 DEF PromiseStep, Promise!Next
  <1>5. ASSUME DeletePool, ~UNCHANGED <<md, sinceUse>> PROVE PromiseStep
    <2>1. /\ pc = "delete" /\ pc' = "clean" /\ UNCHANGED sinceUse
          /\ md' = [md EXCEPT ![Current.pool].state = IF @ = "absent" THEN @ ELSE "deleting"]
      BY <1>5 DEF DeletePool
    <2>2. Live' = Live \ {Current.pool}
      BY <1>1, <1>2, <2>1 DEF Live, Deployment
    <2>3. Sizes' = [Sizes EXCEPT ![Current.pool] = 0]
      BY <1>1, <1>2, <2>1, <2>2 DEF Sizes, Deployment
    <2>4. CASE Current.pool \in Live
      <3>1. sinceUse[Current.pool] >= ScaleDownDelay
        <4>1. Deletes(Current.pool)
          BY <2>1, <2>2, <2>4 DEF Deletes
        <4>2. Pass
          BY <1>5 DEF Pass
        <4>3. QED
          BY <1>2, <4>1, <4>2, DeletedLongIdle DEF Next
      <3>2. Promise!Remove(Current.pool)
        BY <2>1, <2>3, <2>4, <3>1, SizesFollow DEF Promise!Remove, Promise!Resize
      <3>3. QED
        BY <1>2, <3>2 DEF PromiseStep, Promise!Next
    <2>5. CASE Current.pool \notin Live
      <3>1. Sizes[Current.pool] = 0
        BY <1>2, <2>5 DEF Sizes
      <3>2. Sizes \in [Pool -> Nat]
        BY SizesFollow
      <3>3. Sizes' = Sizes
        BY <1>2, <2>3, <3>1, <3>2
      <3>4. QED
        BY <2>1, <3>3 DEF PromiseStep
    <2>6. QED
      BY <2>4, <2>5
  <1>6. QED
    BY <1>3, <1>4, <1>5

LEMMA LoseOrTick ==
  ASSUME TypeOK, SatelliteHasMachines, PoolStep \/ Tick
  PROVE  PromiseStep
  <1>1. md \in [Pool -> Deployment] /\ Sizes \in [Pool -> Nat] /\ Promise!Made = Live
    BY SizesFollow DEF TypeOK, ObjectsOK
  <1>2. ASSUME UNCHANGED <<Sizes, sinceUse>> PROVE PromiseStep
    BY <1>2 DEF PromiseStep
  <1>3. ASSUME Tick PROVE PromiseStep
    <2>1. Sizes' = Sizes /\ sinceUse' = [p \in Pool |-> Older(sinceUse[p])]
      BY <1>3 DEF Tick, Sizes, Live
    <2>2. Promise!Tick
      BY <2>1 DEF Promise!Tick, Promise!Older, Promise!Never, Older, Never
    <2>3. QED
      BY <2>2 DEF PromiseStep, Promise!Next
  <1>4. ASSUME NEW p \in Pool, RegisterNode(p) PROVE PromiseStep
    BY <1>2, <1>4 DEF RegisterNode, Sizes, Live
  <1>5. ASSUME NEW p \in Pool, ReportReady(p) PROVE PromiseStep
    <2>1. md' = [md EXCEPT ![p].ready = nodes[p]] /\ UNCHANGED sinceUse
      BY <1>5 DEF ReportReady
    <2>2. \A q \in Pool : md'[q].state = md[q].state /\ md'[q].replicas = md[q].replicas
      BY <1>1, <2>1 DEF Deployment
    <2>3. QED
      BY <1>2, <2>1, <2>2 DEF Sizes, Live
  <1>6. ASSUME NEW p \in Pool, FinishDelete(p) PROVE PromiseStep
    <2>1. md[p].state = "deleting" /\ md' = [md EXCEPT ![p] = Absent] /\ UNCHANGED sinceUse
      BY <1>6 DEF FinishDelete
    <2>2. \A q \in Pool : (md'[q].state = "live") = (md[q].state = "live")
                          /\ (md[q].state = "live" => md'[q] = md[q])
      BY <1>1, <2>1 DEF Absent
    <2>3. QED
      BY <1>2, <2>1, <2>2 DEF Sizes, Live
  <1>7. ASSUME NEW p \in Pool, DeleteExternally(p) PROVE PromiseStep
    <2>1. /\ CanFail("external") /\ p \in Live /\ UNCHANGED sinceUse
          /\ md' = [md EXCEPT ![p].state = "deleting"]
      BY <1>7 DEF DeleteExternally
    <2>2. Live' = Live \ {p}
      BY <1>1, <2>1 DEF Live, Deployment
    <2>3. Sizes' = [Sizes EXCEPT ![p] = 0]
      BY <1>1, <2>1, <2>2 DEF Sizes, Deployment
    <2>4. Promise!Lose(p)
      BY <1>1, <2>1, <2>3 DEF Promise!Lose, Promise!Resize
    <2>5. QED
      BY <2>4 DEF PromiseStep, Promise!Next
  <1>8. QED
    BY <1>3, <1>4, <1>5, <1>6, <1>7 DEF PoolStep

LEMMA SatelliteSteps ==
  ASSUME OneEntryEach, TypeOK, TrackInv, LimitInv, AgeInv,
         SatelliteHasMachines, [Next]_vars
  PROVE  PromiseStep
  <1>1. ReliableReads
    BY DEF OneEntryEach
  <1>2. ASSUME UNCHANGED <<md, sinceUse>> PROVE PromiseStep
    BY <1>2 DEF PromiseStep, Sizes, Live
  <1>3. QED
    BY <1>1, <1>2, MakeOrGrow, SeeOrRemove, LoseOrTick
    DEF Next, vars, Pass, Begin, ListPending, StartCleanup, EndCleanup, SaveStatus, LoseStatus,
        EndPass, DropMissing, KeepUnread, SkipGroup, SyncCache, PodStep, PodsOnly

\* While no status write is lost, the informer is up to date, and nobody else
\* deletes pools or maxPools is 1, reconcileNodePools and cleanupNodePools do
\* with the satellites only what Satellites allows (nodepool.go:173-214,
\* 254-288, 423-454).
THEOREM ImplementsSatellites == OneEntryEach => (Spec => RefinesSatellites)
  <1> SUFFICES ASSUME OneEntryEach PROVE Spec => RefinesSatellites
    OBVIOUS
  <1> DEFINE Inv == /\ TypeOK /\ LimitInv /\ TrackInv /\ AgeInv
                    /\ SatelliteHasMachines
  <1>1. ReliableReads
    BY DEF OneEntryEach
  <1>2. Init => Promise!Init
    BY DEF Init, Promise!Init, Promise!Never, Never, Sizes, Live, Absent
  <1>3. Init => Inv
    BY TypeInit, LimitInit, TrackInit, AgeInit, NoneAtFirst
  <1>4. Inv /\ [Next]_vars => Inv'
    BY <1>1, TypeStep, LimitStep, TrackStep, AgeStep, MachinesStep
  <1>5. Inv /\ [Next]_vars => [Promise!Next]_<<Sizes, sinceUse>>
    BY SatelliteSteps DEF PromiseStep
  <1>6. QED
    BY <1>2, <1>3, <1>4, <1>5, PTL DEF Spec, RefinesSatellites, Promise!Spec
=============================================================================
