-------------------------- MODULE ReconcilerProofs --------------------------
(* What holds of Reconciler for every set of nodes, pods and templates,      *)
(* whatever the bounds, the timeouts and the faults.                         *)
EXTENDS Reconciler, FiniteSetTheorems, TLAPS

\* Counting ready machines gives a value readyReplicas can have.
LEMMA ReadyCount == Cardinality(Ready) \in 0 .. Cardinality(Node)
  <1>1. IsFiniteSet(Node) /\ Ready \in SUBSET Node
    BY NamesAssumption DEF Ready
  <1>2. /\ IsFiniteSet(Ready)
        /\ Cardinality(Ready) <= Cardinality(Node)
    BY <1>1, FS_Subset
  <1>3. Cardinality(Ready) \in Nat /\ Cardinality(Node) \in Nat
    BY <1>1, <1>2, FS_CardinalityType
  <1>4. QED
    BY <1>2, <1>3

LEMMA AgedAge ==
  ASSUME NEW age \in Age
  PROVE  /\ Aged(age) \in Age
         /\ Aged(age) = NoTime <=> age = NoTime
  BY TimesAssumption DEF Age, NoTime, Aged

\* The values the pass's copies have between passes.
LEMMA EmptyCopies ==
  /\ NewStatus \in Status /\ DrainFieldsAgree(NewStatus)
  /\ InitMD \in Deployment
  <1>1. Cardinality(Node) \in Nat
    BY NamesAssumption, FS_CardinalityType
  <1>2. QED
    BY <1>1, NamesAssumption, BoundsAssumption, TimesAssumption
    DEF NewStatus, Status, DrainFieldsAgree, InitMD, Deployment, Age, NoTime

(***************************************************************************)
(* Writes to the MachineDeployment and to the status.                      *)
(***************************************************************************)
LEMMA PatchKeepsType ==
  ASSUME DeploymentOK, StatusOK, PassOK, NEW changed \in Deployment,
         PatchMD(changed) \/ PatchFails(changed)
  PROVE  /\ md' \in Deployment /\ memMD' \in Deployment /\ cache'.md \in Deployment
         /\ cache' = [policy |-> cache.policy, latest |-> cache.latest, md |-> cache'.md]
         /\ cache'.latest = cache.latest /\ cache'.policy = cache.policy
  <1>1. MergePatch(changed) \in Deployment
    BY DEF DeploymentOK, Deployment, MergePatch
  <1>2. CASE PatchMD(changed)
    BY <1>1, <1>2 DEF PatchMD, CacheMD, DeploymentOK, StatusOK
  <1>3. CASE PatchFails(changed)
    BY <1>3 DEF PatchFails, DeploymentOK, StatusOK
  <1>4. QED
    BY <1>2, <1>3

(***************************************************************************)
(* Types.                                                                  *)
(***************************************************************************)
LEMMA TypeInit == Init => TypeOK
  <1> SUFFICES ASSUME Init PROVE TypeOK
    OBVIOUS
  <1>1. Cardinality(Node) \in Nat
    BY NamesAssumption, FS_CardinalityType
  <1>2. StatusOK /\ DeploymentOK
    BY <1>1, EmptyCopies, NamesAssumption, BoundsAssumption
    DEF Init, StatusOK, DeploymentOK, Deployment
  <1>3. PassOK
    BY DEF Init, PassOK, Calls
  <1>4. MachinesOK /\ PodsOK
    BY NamesAssumption DEF Init, MachinesOK, PodsOK
  <1>5. HistoryOK
    BY TimesAssumption DEF Init, HistoryOK, Age, NoTime
  <1>6. QED
    BY <1>2, <1>3, <1>4, <1>5 DEF TypeOK

LEMMA BeginType == TypeOK /\ Begin => TypeOK'
  <1> SUFFICES ASSUME TypeOK, Begin PROVE TypeOK'
    OBVIOUS
  <1>1. StatusOK' /\ DeploymentOK'
    BY DEF Begin, TypeOK, StatusOK, DeploymentOK, DrainFieldsAgree
  <1>2. PassOK'
    BY NamesAssumption DEF Begin, TypeOK, DeploymentOK, Deployment, PassOK, Calls, CanFail
  <1>3. MachinesOK' /\ PodsOK' /\ HistoryOK'
    BY DEF Begin, TypeOK, MachinesOK, PodsOK, Ready, HistoryOK, workloadVars, history
  <1>4. QED
    BY <1>1, <1>2, <1>3 DEF TypeOK

LEMMA ObserveType == TypeOK /\ Observe => TypeOK'
  <1> SUFFICES ASSUME TypeOK, Observe PROVE TypeOK'
    OBVIOUS
  <1>1. StatusOK' /\ DeploymentOK'
    BY DEF Observe, TypeOK, StatusOK, DeploymentOK, DrainFieldsAgree
  <1>2. PassOK'
    BY DEF Observe, TypeOK, PassOK, Calls, ListedNodes, LeastUtilized, Ready
  <1>3. MachinesOK' /\ PodsOK' /\ HistoryOK'
    BY DEF Observe, TypeOK, MachinesOK, PodsOK, Ready, HistoryOK, workloadVars, history
  <1>4. QED
    BY <1>1, <1>2, <1>3 DEF TypeOK

\* The changes a pass makes to its copy of the policy's status.
LEMMA StatusEdits ==
  ASSUME mem \in Status, DrainFieldsAgree(mem)
  PROVE  /\ \A t \in Template \cup {NoTemplate} :
              /\ [mem EXCEPT !.prevTemplate = t] \in Status
              /\ DrainFieldsAgree([mem EXCEPT !.prevTemplate = t])
         /\ NotDraining \in Status /\ DrainFieldsAgree(NotDraining)
         /\ [NotDraining EXCEPT !.lastScaleAge = 0] \in Status
         /\ DrainFieldsAgree([NotDraining EXCEPT !.lastScaleAge = 0])
         /\ [RolloutDone EXCEPT !.lastScaleAge = 0] \in Status
         /\ DrainFieldsAgree([RolloutDone EXCEPT !.lastScaleAge = 0])
         /\ \A n \in Node :
              /\ [mem EXCEPT !.drainingNode = n, !.drainingAge = 0] \in Status
              /\ DrainFieldsAgree([mem EXCEPT !.drainingNode = n, !.drainingAge = 0])
  <1>1. NoTime \in Age /\ 0 \in Age /\ 0 # NoTime
    BY TimesAssumption DEF Age, NoTime
  <1>2. \A t \in Template \cup {NoTemplate} :
          /\ [mem EXCEPT !.prevTemplate = t] \in Status
          /\ DrainFieldsAgree([mem EXCEPT !.prevTemplate = t])
    BY DEF Status, DrainFieldsAgree
  <1>3. /\ NotDraining \in Status /\ DrainFieldsAgree(NotDraining)
        /\ [NotDraining EXCEPT !.lastScaleAge = 0] \in Status
        /\ DrainFieldsAgree([NotDraining EXCEPT !.lastScaleAge = 0])
    BY <1>1 DEF Status, DrainFieldsAgree, NotDraining
  <1>4. /\ [RolloutDone EXCEPT !.lastScaleAge = 0] \in Status
        /\ DrainFieldsAgree([RolloutDone EXCEPT !.lastScaleAge = 0])
    BY <1>1 DEF Status, DrainFieldsAgree, RolloutDone
  <1>5. ASSUME NEW n \in Node
        PROVE  /\ [mem EXCEPT !.drainingNode = n, !.drainingAge = 0] \in Status
               /\ DrainFieldsAgree([mem EXCEPT !.drainingNode = n, !.drainingAge = 0])
    BY <1>1, NamesAssumption DEF Status, DrainFieldsAgree
  <1>6. QED
    BY <1>2, <1>3, <1>4, <1>5

LEMMA ListPendingType == TypeOK /\ ListPending => TypeOK'
  <1> SUFFICES ASSUME TypeOK, ListPending PROVE TypeOK'
    OBVIOUS
  <1>1. StatusOK' /\ DeploymentOK'
    BY DEF ListPending, TypeOK, StatusOK, DeploymentOK, DrainFieldsAgree
  <1>2. PassOK'
    BY DEF ListPending, GoTo, TypeOK, PassOK, Calls
  <1>3. MachinesOK' /\ PodsOK' /\ HistoryOK'
    BY DEF ListPending, TypeOK, MachinesOK, PodsOK, Ready, HistoryOK, workloadVars, history
  <1>4. QED
    BY <1>1, <1>2, <1>3 DEF TypeOK

LEMMA DrainTimedOutType == TypeOK /\ DrainTimedOut => TypeOK'
  <1> SUFFICES ASSUME TypeOK, DrainTimedOut PROVE TypeOK'
    OBVIOUS
  <1>1. StatusOK' /\ DeploymentOK'
    BY StatusEdits DEF DrainTimedOut, TypeOK, StatusOK, DeploymentOK, AbandonDrain
  <1>2. PassOK'
    BY DEF DrainTimedOut, GoTo, TypeOK, PassOK, Calls, AbandonDrain
  <1>3. MachinesOK' /\ PodsOK'
    BY DEF DrainTimedOut, AbandonDrain, TypeOK, MachinesOK, PodsOK, Ready
  <1>4. HistoryOK'
    BY DEF DrainTimedOut, AbandonDrain, TypeOK, HistoryOK
  <1>5. QED
    BY <1>1, <1>2, <1>3, <1>4 DEF TypeOK

LEMMA CheckDrainType == TypeOK /\ CheckDrain => TypeOK'
  <1> SUFFICES ASSUME TypeOK, CheckDrain PROVE TypeOK'
    OBVIOUS
  <1>1. StatusOK' /\ DeploymentOK'
    BY DEF CheckDrain, TypeOK, StatusOK, DeploymentOK, DrainFieldsAgree
  <1>2. PassOK'
    BY DEF CheckDrain, GoTo, TypeOK, PassOK, Calls
  <1>3. MachinesOK' /\ PodsOK' /\ HistoryOK'
    BY DEF CheckDrain, TypeOK, MachinesOK, PodsOK, Ready, HistoryOK, workloadVars, history
  <1>4. QED
    BY <1>1, <1>2, <1>3 DEF TypeOK

LEMMA RecheckPendingType == TypeOK /\ RecheckPending => TypeOK'
  <1> SUFFICES ASSUME TypeOK, RecheckPending PROVE TypeOK'
    OBVIOUS
  <1>1. StatusOK' /\ DeploymentOK'
    BY StatusEdits DEF RecheckPending, TypeOK, StatusOK, DeploymentOK, AbandonDrain
  <1>2. PassOK'
    BY DEF RecheckPending, GoTo, TypeOK, PassOK, Calls, AbandonDrain
  <1>3. MachinesOK' /\ PodsOK'
    BY DEF RecheckPending, AbandonDrain, TypeOK, MachinesOK, PodsOK, Ready
  <1>4. HistoryOK'
    BY DEF RecheckPending, AbandonDrain, TypeOK, HistoryOK
  <1>5. QED
    BY <1>1, <1>2, <1>3, <1>4 DEF TypeOK

\* The three changes a pass makes to its copy of the MachineDeployment.
LEMMA EditsTyped ==
  ASSUME memMD \in Deployment
  PROVE  /\ [memMD EXCEPT !.replicas = ClampToMin(@ - 1)] \in Deployment
         /\ [memMD EXCEPT !.replicas = @ + 1] \in Deployment
         /\ \A t \in Template : [memMD EXCEPT !.tmpl = t] \in Deployment
  BY BoundsAssumption DEF Deployment, ClampToMin

LEMMA ReduceReplicasType == TypeOK /\ ReduceReplicas => TypeOK'
  <1> SUFFICES ASSUME TypeOK, ReduceReplicas PROVE TypeOK'
    OBVIOUS
  <1>1. /\ md' \in Deployment /\ memMD' \in Deployment /\ cache'.md \in Deployment
        /\ cache' = [policy |-> cache.policy, latest |-> cache.latest, md |-> cache'.md]
        /\ cache'.latest = cache.latest /\ cache'.policy = cache.policy
    BY EditsTyped, PatchKeepsType DEF ReduceReplicas, TypeOK, DeploymentOK
  <1>2. StatusOK' /\ DeploymentOK'
    BY <1>1, StatusEdits DEF ReduceReplicas, TypeOK, StatusOK, DeploymentOK
  <1>3. PassOK'
    BY <1>1 DEF ReduceReplicas, GoTo, TypeOK, PassOK, Calls
  <1>4. MachinesOK' /\ PodsOK' /\ HistoryOK'
    BY TimesAssumption DEF ReduceReplicas, TypeOK, MachinesOK, PodsOK, Ready, HistoryOK, Age, NoTime,
         workloadVars, history
  <1>5. QED
    BY <1>2, <1>3, <1>4 DEF TypeOK

LEMMA RevertStalledType == TypeOK /\ RevertStalled => TypeOK'
  <1> SUFFICES ASSUME TypeOK, RevertStalled PROVE TypeOK'
    OBVIOUS
  <1>1. /\ md' \in Deployment /\ memMD' \in Deployment /\ cache'.md \in Deployment
        /\ cache' = [policy |-> cache.policy, latest |-> cache.latest, md |-> cache'.md]
        /\ cache'.latest = cache.latest /\ cache'.policy = cache.policy
    BY EditsTyped, PatchKeepsType DEF RevertStalled, TypeOK, DeploymentOK, StatusOK, Status
  <1>2. StatusOK' /\ DeploymentOK'
    BY <1>1, StatusEdits DEF RevertStalled, TypeOK, StatusOK, DeploymentOK
  <1>3. PassOK'
    BY <1>1 DEF RevertStalled, GoTo, TypeOK, PassOK, Calls
  <1>4. MachinesOK' /\ PodsOK' /\ HistoryOK'
    BY TimesAssumption DEF RevertStalled, TypeOK, MachinesOK, PodsOK, Ready, HistoryOK, Age, NoTime,
         workloadVars, history
  <1>5. QED
    BY <1>2, <1>3, <1>4 DEF TypeOK

LEMMA AwaitRolloutType == TypeOK /\ AwaitRollout => TypeOK'
  <1> SUFFICES ASSUME TypeOK, AwaitRollout PROVE TypeOK'
    OBVIOUS
  <1>1. StatusOK' /\ DeploymentOK'
    BY DEF AwaitRollout, TypeOK, StatusOK, DeploymentOK, DrainFieldsAgree
  <1>2. PassOK'
    BY DEF AwaitRollout, GoTo, TypeOK, PassOK, Calls
  <1>3. MachinesOK' /\ PodsOK' /\ HistoryOK'
    BY DEF AwaitRollout, TypeOK, MachinesOK, PodsOK, Ready, HistoryOK, workloadVars, history
  <1>4. QED
    BY <1>1, <1>2, <1>3 DEF TypeOK

LEMMA ScaleUpType == TypeOK /\ ScaleUp => TypeOK'
  <1> SUFFICES ASSUME TypeOK, ScaleUp PROVE TypeOK'
    OBVIOUS
  <1>1. /\ md' \in Deployment /\ memMD' \in Deployment /\ cache'.md \in Deployment
        /\ cache' = [policy |-> cache.policy, latest |-> cache.latest, md |-> cache'.md]
        /\ cache'.latest = cache.latest /\ cache'.policy = cache.policy
    BY EditsTyped, PatchKeepsType DEF ScaleUp, TypeOK, DeploymentOK
  <1>2. StatusOK' /\ DeploymentOK'
    BY <1>1, StatusEdits DEF ScaleUp, TypeOK, StatusOK, DeploymentOK, RolloutDone
  <1>3. PassOK'
    BY <1>1 DEF ScaleUp, GoTo, TypeOK, PassOK, Calls
  <1>4. MachinesOK' /\ PodsOK' /\ HistoryOK'
    BY TimesAssumption DEF ScaleUp, TypeOK, MachinesOK, PodsOK, Ready, HistoryOK, Age, NoTime,
         workloadVars, history
  <1>5. QED
    BY <1>2, <1>3, <1>4 DEF TypeOK

LEMMA KeepReplicasType == TypeOK /\ KeepReplicas => TypeOK'
  <1> SUFFICES ASSUME TypeOK, KeepReplicas PROVE TypeOK'
    OBVIOUS
  <1>1. StatusOK' /\ DeploymentOK'
    BY StatusEdits DEF KeepReplicas, TypeOK, StatusOK, DeploymentOK, RolloutDone
  <1>2. PassOK'
    BY DEF KeepReplicas, GoTo, TypeOK, PassOK, Calls
  <1>3. MachinesOK' /\ PodsOK' /\ HistoryOK'
    BY DEF KeepReplicas, TypeOK, MachinesOK, PodsOK, Ready, HistoryOK, workloadVars, history
  <1>4. QED
    BY <1>1, <1>2, <1>3 DEF TypeOK

LEMMA CordonTargetType == TypeOK /\ CordonTarget => TypeOK'
  <1> SUFFICES ASSUME TypeOK, CordonTarget PROVE TypeOK'
    OBVIOUS
  <1>1. StatusOK' /\ DeploymentOK'
    BY StatusEdits DEF CordonTarget, TypeOK, StatusOK, DeploymentOK, RolloutDone
  <1>2. PassOK'
    BY DEF CordonTarget, GoTo, TypeOK, PassOK, Calls, ScaleDownDue
  <1>3. MachinesOK' /\ PodsOK'
    BY DEF CordonTarget, ScaleDownDue, TypeOK, PassOK, MachinesOK, PodsOK, Ready
  <1>4. HistoryOK'
    BY DEF CordonTarget, TypeOK, HistoryOK
  <1>5. QED
    BY <1>1, <1>2, <1>3, <1>4 DEF TypeOK

LEMMA EvictPodsType == TypeOK /\ EvictPods => TypeOK'
  <1> SUFFICES ASSUME TypeOK, EvictPods PROVE TypeOK'
    OBVIOUS
  <1>1. StatusOK' /\ DeploymentOK'
    BY StatusEdits DEF EvictPods, TypeOK, StatusOK, DeploymentOK, PassOK
  <1>2. PassOK'
    BY DEF EvictPods, GoTo, TypeOK, PassOK, Calls
  <1>3. MachinesOK' /\ PodsOK'
    BY DEF EvictPods, PodsOn, TypeOK, PassOK, MachinesOK, PodsOK, Ready
  <1>4. HistoryOK'
    BY DEF EvictPods, PodsOn, TypeOK, HistoryOK
  <1>5. QED
    BY <1>1, <1>2, <1>3, <1>4 DEF TypeOK

LEMMA SwitchPlanType == TypeOK /\ SwitchPlan => TypeOK'
  <1> SUFFICES ASSUME TypeOK, SwitchPlan PROVE TypeOK'
    OBVIOUS
  <1>1. /\ md' \in Deployment /\ memMD' \in Deployment /\ cache'.md \in Deployment
        /\ cache' = [policy |-> cache.policy, latest |-> cache.latest, md |-> cache'.md]
        /\ cache'.latest = cache.latest /\ cache'.policy = cache.policy
    BY EditsTyped, PatchKeepsType DEF SwitchPlan, TypeOK, DeploymentOK, WorthSwitching
  <1>2. StatusOK' /\ DeploymentOK'
    BY <1>1, StatusEdits DEF SwitchPlan, TypeOK, StatusOK, DeploymentOK, RememberTemplate, WorthSwitching, CreateTemplate, Deployment
  <1>3. PassOK'
    BY <1>1 DEF SwitchPlan, GoTo, TypeOK, PassOK, Calls
  <1>4. MachinesOK' /\ PodsOK' /\ HistoryOK'
    BY TimesAssumption DEF SwitchPlan, TypeOK, MachinesOK, PodsOK, Ready, HistoryOK, Age, NoTime,
         workloadVars, history, WorthSwitching, DeploymentOK, Deployment, PatchMD
  <1>5. QED
    BY <1>2, <1>3, <1>4 DEF TypeOK

LEMMA KeepPlanType == TypeOK /\ KeepPlan => TypeOK'
  <1> SUFFICES ASSUME TypeOK, KeepPlan PROVE TypeOK'
    OBVIOUS
  <1>1. StatusOK' /\ DeploymentOK'
    BY DEF KeepPlan, TypeOK, StatusOK, DeploymentOK, DrainFieldsAgree
  <1>2. PassOK'
    BY DEF KeepPlan, GoTo, TypeOK, PassOK, Calls
  <1>3. MachinesOK' /\ PodsOK' /\ HistoryOK'
    BY DEF KeepPlan, TypeOK, MachinesOK, PodsOK, Ready, HistoryOK, workloadVars, history
  <1>4. QED
    BY <1>1, <1>2, <1>3 DEF TypeOK

LEMMA SaveStatusType == TypeOK /\ SaveStatus => TypeOK'
  <1> SUFFICES ASSUME TypeOK, SaveStatus PROVE TypeOK'
    OBVIOUS
  <1>1. StatusOK' /\ DeploymentOK'
    BY EmptyCopies DEF SaveStatus, EndPass, CachePolicy, TypeOK, StatusOK, DeploymentOK
  <1>2. PassOK'
    BY DEF SaveStatus, EndPass, CachePolicy, TypeOK, StatusOK, PassOK, Calls
  <1>3. MachinesOK' /\ PodsOK' /\ HistoryOK'
    BY DEF SaveStatus, TypeOK, MachinesOK, PodsOK, Ready, HistoryOK, workloadVars, history, EndPass
  <1>4. QED
    BY <1>1, <1>2, <1>3 DEF TypeOK

LEMMA CrashType == TypeOK /\ Crash => TypeOK'
  <1> SUFFICES ASSUME TypeOK, Crash PROVE TypeOK'
    OBVIOUS
  <1>1. StatusOK' /\ DeploymentOK'
    BY EmptyCopies DEF Crash, EndPass, TypeOK, StatusOK, DeploymentOK
  <1>2. PassOK'
    BY DEF Crash, EndPass, TypeOK, PassOK, Calls
  <1>3. MachinesOK' /\ PodsOK' /\ HistoryOK'
    BY DEF Crash, TypeOK, MachinesOK, PodsOK, Ready, HistoryOK, workloadVars, history, EndPass
  <1>4. QED
    BY <1>1, <1>2, <1>3 DEF TypeOK

LEMMA ForeignWriteType == TypeOK /\ ForeignWrite => TypeOK'
  <1> SUFFICES ASSUME TypeOK, ForeignWrite PROVE TypeOK'
    OBVIOUS
  <1>1. StatusOK' /\ DeploymentOK' /\ PassOK'
    BY DEF ForeignWrite, CachePolicy, TypeOK, StatusOK, DeploymentOK, PassOK, DrainFieldsAgree
  <1>2. MachinesOK' /\ PodsOK' /\ HistoryOK'
    BY DEF ForeignWrite, TypeOK, MachinesOK, PodsOK, Ready, HistoryOK, workloadVars, history
  <1>3. QED
    BY <1>1, <1>2 DEF TypeOK

LEMMA SyncCacheType == TypeOK /\ SyncCache => TypeOK'
  <1> SUFFICES ASSUME TypeOK, SyncCache PROVE TypeOK'
    OBVIOUS
  <1>1. StatusOK' /\ DeploymentOK' /\ PassOK'
    BY DEF SyncCache, passVars, TypeOK, StatusOK, DeploymentOK, PassOK, DrainFieldsAgree
  <1>2. MachinesOK' /\ PodsOK' /\ HistoryOK'
    BY DEF SyncCache, TypeOK, MachinesOK, PodsOK, Ready, HistoryOK, workloadVars, history
  <1>3. QED
    BY <1>1, <1>2 DEF TypeOK

LEMMA ReportStatusType == TypeOK /\ ReportStatus => TypeOK'
  <1> SUFFICES ASSUME TypeOK, ReportStatus PROVE TypeOK'
    OBVIOUS
  <1>1. md' \in Deployment
    BY ReadyCount DEF ReportStatus, TypeOK, DeploymentOK, Deployment
  <1>2. StatusOK' /\ DeploymentOK' /\ PassOK'
    BY <1>1 DEF ReportStatus, CacheMD, passVars, TypeOK, StatusOK, DeploymentOK, PassOK, DrainFieldsAgree
  <1>3. MachinesOK' /\ PodsOK' /\ HistoryOK'
    BY DEF ReportStatus, TypeOK, MachinesOK, PodsOK, Ready, HistoryOK, workloadVars, history
  <1>4. QED
    BY <1>1, <1>2, <1>3 DEF TypeOK

\* What every step of Cluster API and of the workload cluster leaves alone.
LEMMA ClusterStepType ==
  ASSUME TypeOK, UNCHANGED <<policy, md, templates, cache, passVars>>
  PROVE  StatusOK' /\ DeploymentOK' /\ PassOK'
  BY DEF TypeOK, StatusOK, DeploymentOK, PassOK, DrainFieldsAgree, passVars

LEMMA MachineStepType == TypeOK /\ MachineStep => TypeOK'
  <1> SUFFICES ASSUME TypeOK, NEW n \in Node,
                      CreateMachine(n) \/ BecomeReady(n) \/ DeleteMachine(n)
               PROVE  TypeOK'
    BY DEF MachineStep
  <1>1. StatusOK' /\ DeploymentOK' /\ PassOK'
    BY ClusterStepType DEF CreateMachine, BecomeReady, DeleteMachine
  <1>2. HistoryOK'
    BY DEF CreateMachine, BecomeReady, DeleteMachine, TypeOK, HistoryOK, history
  <1>3. CASE CreateMachine(n)
    <2>1. MachinesOK'
      BY <1>3 DEF CreateMachine, TypeOK, MachinesOK, DeploymentOK, Deployment
    <2>2. PodsOK'
      BY <1>3 DEF CreateMachine, TypeOK, MachinesOK, PodsOK, Ready
    <2>3. QED
      BY <1>1, <1>2, <2>1, <2>2 DEF TypeOK
  <1>4. CASE BecomeReady(n)
    <2>1. MachinesOK' /\ PodsOK'
      BY <1>4 DEF BecomeReady, TypeOK, MachinesOK, PodsOK, Ready
    <2>2. QED
      BY <1>1, <1>2, <2>1 DEF TypeOK
  <1>5. CASE DeleteMachine(n)
    <2>1. MachinesOK'
      BY <1>5, NamesAssumption DEF DeleteMachine, TypeOK, MachinesOK
    <2>2. PodsOK'
      BY <1>5, NamesAssumption DEF DeleteMachine, TypeOK, MachinesOK, PodsOK, Ready
    <2>3. QED
      BY <1>1, <1>2, <2>1, <2>2 DEF TypeOK
  <1>6. QED
    BY <1>3, <1>4, <1>5

LEMMA PodStepType == TypeOK /\ PodStep => TypeOK'
  <1> SUFFICES ASSUME TypeOK, PodsOnly, NEW p \in Pod,
                      \/ CreatePod(p) \/ BindPod(p) \/ RejectPod(p)
                      \/ ReplacePod(p) \/ FinishPod(p)
               PROVE  TypeOK'
    BY DEF PodStep
  <1>1. StatusOK' /\ DeploymentOK' /\ PassOK'
    BY ClusterStepType DEF PodsOnly
  <1>2. MachinesOK' /\ Ready' = Ready
    BY DEF PodsOnly, TypeOK, MachinesOK, Ready
  <1>3. HistoryOK'
    BY DEF PodsOnly, CreatePod, BindPod, RejectPod, ReplacePod, FinishPod, TypeOK, HistoryOK
  <1>4. PodsOK'
    <2>1. CASE BindPod(p)
      <3>1. Schedulable(p) \subseteq Ready
        BY DEF Schedulable
      <3>2. QED
        BY <1>2, <2>1, <3>1 DEF BindPod, TypeOK, PodsOK, Ready
    <2>2. CASE CreatePod(p) \/ RejectPod(p) \/ ReplacePod(p) \/ FinishPod(p)
      BY <1>2, <2>2 DEF CreatePod, RejectPod, ReplacePod, FinishPod, TypeOK, PodsOK
    <2>3. QED
      BY <2>1, <2>2
  <1>5. QED
    BY <1>1, <1>2, <1>3, <1>4 DEF TypeOK

LEMMA TickType == TypeOK /\ Tick => TypeOK'
  <1> SUFFICES ASSUME TypeOK, Tick PROVE TypeOK'
    OBVIOUS
  <1>1. \A s \in Status : DrainFieldsAgree(s) => AgedStatus(s) \in Status /\ DrainFieldsAgree(AgedStatus(s))
    BY AgedAge DEF AgedStatus, Status, DrainFieldsAgree
  <1>2. StatusOK' /\ DeploymentOK' /\ PassOK'
    BY <1>1 DEF Tick, TypeOK, StatusOK, DeploymentOK, PassOK
  <1>3. MachinesOK' /\ PodsOK'
    BY DEF Tick, TypeOK, MachinesOK, PodsOK, Ready, workloadVars
  <1>4. HistoryOK'
    BY AgedAge DEF Tick, TypeOK, HistoryOK
  <1>5. QED
    BY <1>1, <1>2, <1>3, <1>4 DEF TypeOK

LEMMA TypeStep == TypeOK /\ [Next]_vars => TypeOK'
  <1>1. TypeOK /\ UNCHANGED vars => TypeOK'
    <2> SUFFICES ASSUME TypeOK, UNCHANGED vars PROVE TypeOK'
      OBVIOUS
    <2>1. StatusOK' /\ DeploymentOK' /\ PassOK'
      BY ClusterStepType DEF vars
    <2>2. MachinesOK' /\ PodsOK' /\ HistoryOK'
      BY DEF vars, workloadVars, history, TypeOK, MachinesOK, PodsOK, Ready, HistoryOK
    <2>3. QED
      BY <2>1, <2>2 DEF TypeOK
  <1>2. TypeOK /\ Pass => TypeOK'
    BY BeginType, ObserveType, ListPendingType, DrainTimedOutType,
       CheckDrainType, RecheckPendingType, ReduceReplicasType,
       RevertStalledType, AwaitRolloutType, ScaleUpType,
       KeepReplicasType, CordonTargetType, EvictPodsType,
       SwitchPlanType, KeepPlanType, SaveStatusType
    DEF Pass
  <1>3. TypeOK /\ Environment => TypeOK'
    BY ForeignWriteType, SyncCacheType,
       ReportStatusType, MachineStepType, PodStepType, TickType
    DEF Environment
  <1>4. QED
    BY <1>1, <1>2, <1>3, CrashType DEF Next

\* Every reachable state of the reconciler and of the clusters around it is
\* well typed: in particular the two status fields that record a drain never
\* come apart, and pods are only ever bound to nodes that are ready.
THEOREM TypeCorrect == Spec => []TypeOK
  BY TypeInit, TypeStep, PTL DEF Spec

(***************************************************************************)
(* Safety under every fault.                                               *)
(***************************************************************************)
\* A patch sends what the pass's copy says, so both copies must be within
\* the bounds, and the informer's too.
BoundsInv == /\ md.replicas \in MinReplicas .. MaxReplicas
             /\ memMD.replicas \in MinReplicas .. MaxReplicas
             /\ cache.md.replicas \in MinReplicas .. MaxReplicas

LEMMA PatchInBounds ==
  ASSUME TypeOK, BoundsInv, NEW changed \in Deployment,
         changed.replicas \in MinReplicas .. MaxReplicas,
         PatchMD(changed) \/ PatchFails(changed)
  PROVE  BoundsInv'
  <1>1. MergePatch(changed).replicas \in MinReplicas .. MaxReplicas
    BY DEF MergePatch, TypeOK, DeploymentOK, Deployment, BoundsInv
  <1>2. CASE PatchMD(changed)
    BY <1>1, <1>2 DEF PatchMD, CacheMD, BoundsInv, TypeOK, StatusOK
  <1>3. CASE PatchFails(changed)
    BY <1>3 DEF PatchFails, BoundsInv
  <1>4. QED
    BY <1>2, <1>3

LEMMA BoundsStep == TypeOK /\ BoundsInv /\ [Next]_vars => BoundsInv'
  <1> SUFFICES ASSUME TypeOK, BoundsInv, [Next]_vars PROVE BoundsInv'
    OBVIOUS
  <1>1. CASE ReduceReplicas
    <2>1. ClampToMin(memMD.replicas - 1) \in MinReplicas .. MaxReplicas
      BY BoundsAssumption DEF ClampToMin, BoundsInv
    <2>2. QED
      BY <1>1, <2>1, EditsTyped, PatchInBounds
      DEF ReduceReplicas, TypeOK, DeploymentOK, Deployment
  <1>2. CASE ScaleUp
    <2>1. memMD.replicas + 1 \in MinReplicas .. MaxReplicas
      BY <1>2, BoundsAssumption DEF ScaleUp, BoundsInv
    <2>2. QED
      BY <1>2, <2>1, EditsTyped, PatchInBounds DEF ScaleUp, TypeOK, DeploymentOK, Deployment
  <1>3. CASE RevertStalled
    <2>1. mem.prevTemplate \in Template
      BY <1>3 DEF RevertStalled, TypeOK, StatusOK, Status
    <2>2. [memMD EXCEPT !.tmpl = mem.prevTemplate].replicas = memMD.replicas
      BY DEF TypeOK, DeploymentOK, Deployment
    <2>3. QED
      BY <1>3, <2>1, <2>2, EditsTyped, PatchInBounds
      DEF RevertStalled, BoundsInv, TypeOK, DeploymentOK
  <1>4. CASE SwitchPlan
    <2>1. PICK t \in Template : LET switched == [memMD EXCEPT !.tmpl = t] IN
                                 PatchMD(switched) \/ PatchFails(switched)
      BY <1>4 DEF SwitchPlan, WorthSwitching
    <2>2. [memMD EXCEPT !.tmpl = t].replicas = memMD.replicas
      BY DEF TypeOK, DeploymentOK, Deployment
    <2>3. QED
      BY <2>1, <2>2, EditsTyped, PatchInBounds DEF BoundsInv, TypeOK, DeploymentOK
  <1>5. CASE SaveStatus \/ Crash
    BY <1>5, BoundsAssumption
    DEF SaveStatus, Crash, EndPass, CachePolicy, InitMD, BoundsInv, TypeOK, StatusOK
  <1>6. CASE ReportStatus
    BY <1>6 DEF ReportStatus, CacheMD, passVars, BoundsInv, TypeOK, StatusOK, DeploymentOK, Deployment
  <1>7. CASE Begin \/ SyncCache \/ ForeignWrite \/ Tick
    BY <1>7 DEF Begin, SyncCache, ForeignWrite, CachePolicy, Tick, passVars,
         BoundsInv, TypeOK, StatusOK
  <1>8. CASE UNCHANGED <<md, memMD, cache>>
    BY <1>8 DEF BoundsInv
  <1>9. Next => \/ ReduceReplicas \/ ScaleUp \/ RevertStalled \/ SwitchPlan
                \/ SaveStatus \/ Crash \/ ReportStatus
                \/ Begin \/ SyncCache \/ ForeignWrite \/ Tick
                \/ UNCHANGED <<md, memMD, cache>>
    BY DEF Next, Pass, Environment, Observe, ListPending, DrainTimedOut, CheckDrain,
         RecheckPending, AwaitRollout, KeepReplicas, CordonTarget, EvictPods, KeepPlan,
         MachineStep, CreateMachine, BecomeReady, DeleteMachine, PodStep, PodsOnly, passVars
  <1>10. UNCHANGED vars => UNCHANGED <<md, memMD, cache>>
    BY DEF vars, passVars
  <1>11. QED
    BY <1>1, <1>2, <1>3, <1>4, <1>5, <1>6, <1>7, <1>8, <1>9, <1>10

\* However the actors interleave and whatever is lost, stale or refused, the
\* MachineDeployment's replicas never leave the bounds of spec.horizontal.
THEOREM ReplicasStayInBounds == Spec => []ReplicasInBounds
  <1>1. Init => BoundsInv
    BY BoundsAssumption DEF Init, InitMD, BoundsInv
  <1>2. BoundsInv => ReplicasInBounds
    BY DEF BoundsInv, ReplicasInBounds
  <1>3. QED
    BY <1>1, <1>2, BoundsStep, TypeCorrect, PTL DEF Spec

\* Templates are never deleted, so every copy that refers to one is good for ever.
TemplatesInv ==
  {InitTemplate, md.tmpl, memMD.tmpl, cache.md.tmpl, policy.prevTemplate,
   mem.prevTemplate, cache.policy.prevTemplate} \subseteq templates \cup {NoTemplate}

LEMMA TemplatesInit == Init => TemplatesInv
  BY DEF Init, InitMD, NewStatus, TemplatesInv

LEMMA PatchRefersToExisting ==
  ASSUME TypeOK, TemplatesInv, NEW changed \in Deployment,
         changed.tmpl \in templates' \cup {NoTemplate}, templates \subseteq templates',
         PatchMD(changed) \/ PatchFails(changed)
  PROVE  {md'.tmpl, memMD'.tmpl, cache'.md.tmpl} \subseteq templates' \cup {NoTemplate}
  <1>1. MergePatch(changed).tmpl \in templates' \cup {NoTemplate}
    BY DEF MergePatch, TypeOK, DeploymentOK, Deployment, TemplatesInv
  <1>2. CASE PatchMD(changed)
    BY <1>1, <1>2 DEF PatchMD, CacheMD, TemplatesInv, TypeOK, StatusOK
  <1>3. CASE PatchFails(changed)
    BY <1>3 DEF PatchFails, TemplatesInv
  <1>4. QED
    BY <1>2, <1>3

LEMMA TemplatesStep == TypeOK /\ TemplatesInv /\ [Next]_vars => TemplatesInv'
  <1> SUFFICES ASSUME TypeOK, TemplatesInv, [Next]_vars PROVE TemplatesInv'
    OBVIOUS
  <1>1. CASE ReduceReplicas
    <2> DEFINE smaller == [memMD EXCEPT !.replicas = ClampToMin(@ - 1)]
    <2>1. smaller \in Deployment /\ smaller.tmpl = memMD.tmpl
      BY EditsTyped DEF TypeOK, DeploymentOK, Deployment
    <2>2. /\ PatchMD(smaller) \/ PatchFails(smaller)
          /\ mem'.prevTemplate = mem.prevTemplate /\ UNCHANGED <<templates, policy>>
          /\ cache'.policy = cache.policy
      BY <1>1 DEF ReduceReplicas, NotDraining, TypeOK, StatusOK, Status, PatchMD, PatchFails, CacheMD
    <2>3. QED
      BY <2>1, <2>2, PatchRefersToExisting DEF TemplatesInv
  <1>2. CASE ScaleUp
    <2> DEFINE larger == [memMD EXCEPT !.replicas = @ + 1]
    <2>1. larger \in Deployment /\ larger.tmpl = memMD.tmpl
      BY EditsTyped DEF TypeOK, DeploymentOK, Deployment
    <2>2. /\ PatchMD(larger) \/ PatchFails(larger)
          /\ mem'.prevTemplate = NoTemplate /\ UNCHANGED <<templates, policy>>
          /\ cache'.policy = cache.policy
      BY <1>2 DEF ScaleUp, RolloutDone, TypeOK, StatusOK, Status, PatchMD, PatchFails, CacheMD
    <2>3. QED
      BY <2>1, <2>2, PatchRefersToExisting DEF TemplatesInv
  <1>3. CASE RevertStalled
    <2> DEFINE reverted == [memMD EXCEPT !.tmpl = mem.prevTemplate]
    <2>1. reverted \in Deployment /\ reverted.tmpl = mem.prevTemplate
      BY <1>3, EditsTyped DEF RevertStalled, TypeOK, StatusOK, Status, DeploymentOK, Deployment
    <2>2. /\ PatchMD(reverted) \/ PatchFails(reverted)
          /\ mem'.prevTemplate \in {mem.prevTemplate, NoTemplate}
          /\ UNCHANGED <<templates, policy>> /\ cache'.policy = cache.policy
      BY <1>3 DEF RevertStalled, TypeOK, StatusOK, Status, PatchMD, PatchFails, CacheMD
    <2>3. QED
      BY <2>1, <2>2, PatchRefersToExisting DEF TemplatesInv
  <1>4. CASE SwitchPlan
    <2>1. PICK t \in Template : LET switched == [memMD EXCEPT !.tmpl = t] IN
                                 /\ CreateTemplate(t) /\ mem' = RememberTemplate
                                 /\ PatchMD(switched) \/ PatchFails(switched)
      BY <1>4 DEF SwitchPlan, WorthSwitching
    <2> DEFINE switched == [memMD EXCEPT !.tmpl = t]
    <2>2. switched \in Deployment /\ switched.tmpl = t
      BY EditsTyped DEF TypeOK, DeploymentOK, Deployment
    <2>3. templates \subseteq templates' /\ t \in templates'
      BY <2>1 DEF CreateTemplate
    <2>4. /\ mem'.prevTemplate = memMD.tmpl /\ UNCHANGED policy
          /\ cache'.policy = cache.policy
      BY <1>4, <2>1 DEF SwitchPlan, RememberTemplate, TypeOK, StatusOK, Status, PatchMD,
           PatchFails, CacheMD
    <2>5. QED
      BY <2>1, <2>2, <2>3, <2>4, PatchRefersToExisting DEF TemplatesInv
  <1>5. CASE SaveStatus \/ Crash
    BY <1>5 DEF SaveStatus, Crash, EndPass, CachePolicy, NewStatus, InitMD, TemplatesInv,
         TypeOK, StatusOK
  <1>6. CASE ReportStatus
    BY <1>6 DEF ReportStatus, CacheMD, passVars, TemplatesInv, TypeOK, StatusOK, DeploymentOK,
         Deployment
  <1>7. CASE Tick
    BY <1>7 DEF Tick, AgedStatus, TemplatesInv, TypeOK, StatusOK, Status
  <1>8. CASE Begin \/ SyncCache \/ ForeignWrite
    BY <1>8 DEF Begin, SyncCache, ForeignWrite, CachePolicy, passVars, TemplatesInv, TypeOK, StatusOK
  <1>9. CASE DrainTimedOut \/ RecheckPending \/ KeepReplicas \/ CordonTarget \/ EvictPods
    <2>1. mem'.prevTemplate \in {mem.prevTemplate, NoTemplate}
      BY <1>9 DEF DrainTimedOut, RecheckPending, AbandonDrain, NotDraining, KeepReplicas,
           CordonTarget, EvictPods, RolloutDone, TypeOK, StatusOK, Status
    <2>2. UNCHANGED <<policy, md, memMD, cache, templates>>
      BY <1>9 DEF DrainTimedOut, RecheckPending, KeepReplicas, CordonTarget, EvictPods
    <2>3. QED
      BY <2>1, <2>2 DEF TemplatesInv
  <1>10. CASE UNCHANGED <<policy, md, mem, memMD, cache, templates>>
    BY <1>10 DEF TemplatesInv
  <1>11. Next => \/ ReduceReplicas \/ ScaleUp \/ RevertStalled \/ SwitchPlan
                 \/ SaveStatus \/ Crash \/ ReportStatus \/ Tick
                 \/ Begin \/ SyncCache \/ ForeignWrite
                 \/ DrainTimedOut \/ RecheckPending \/ KeepReplicas \/ CordonTarget \/ EvictPods
                 \/ UNCHANGED <<policy, md, mem, memMD, cache, templates>>
    BY DEF Next, Pass, Environment, Observe, ListPending, CheckDrain, AwaitRollout, KeepPlan,
         MachineStep, CreateMachine, BecomeReady, DeleteMachine, PodStep, PodsOnly, passVars
  <1>12. UNCHANGED vars => UNCHANGED <<policy, md, mem, memMD, cache, templates>>
    BY DEF vars, passVars
  <1>13. QED
    BY <1>1, <1>2, <1>3, <1>4, <1>5, <1>6, <1>7, <1>8, <1>9, <1>10, <1>11, <1>12

\* Neither the MachineDeployment nor the template a stalled rollout would be
\* reverted to is ever a template that has not been created.
THEOREM TemplatesAlwaysExist == Spec => []TemplatesExist
  <1>1. TemplatesInv => TemplatesExist
    BY DEF TemplatesInv, TemplatesExist
  <1>2. QED
    BY <1>1, TemplatesInit, TemplatesStep, TypeCorrect, PTL DEF Spec

LEMMA EmptyAtReduceStep == TypeOK /\ EmptyAtReduce /\ [Next]_vars => EmptyAtReduce'
  <1> SUFFICES ASSUME TypeOK, EmptyAtReduce, [Next]_vars,
                      pc' \in {"recheck", "reduce"}, mem'.drainingNode \in cordoned'
               PROVE  \A p \in Pod : podAt'[p] # mem'.drainingNode
    BY DEF EmptyAtReduce, PodsOn
  <1>1. CASE CheckDrain
    BY <1>1 DEF CheckDrain, GoTo, Remaining, PodsOn, workloadVars
  <1>2. CASE RecheckPending
    BY <1>2 DEF RecheckPending, AbandonDrain, GoTo, EmptyAtReduce, PodsOn
  <1>3. CASE DrainTimedOut \/ ReduceReplicas \/ RevertStalled \/ AwaitRollout \/ ScaleUp
             \/ KeepReplicas \/ CordonTarget \/ EvictPods \/ ListPending
    BY <1>3 DEF DrainTimedOut, AbandonDrain, ReduceReplicas, RevertStalled, AwaitRollout, ScaleUp,
         KeepReplicas, CordonTarget, EvictPods, ListPending, GoTo
  <1>4. CASE Begin \/ Observe \/ SwitchPlan \/ KeepPlan \/ SaveStatus \/ Crash
    BY <1>4 DEF Begin, Observe, SwitchPlan, KeepPlan, SaveStatus, Crash, EndPass
  <1>5. CASE Tick
    <2>1. mem'.drainingNode = mem.drainingNode
      BY <1>5 DEF Tick, AgedStatus, TypeOK, StatusOK, Status
    <2>2. QED
      BY <1>5, <2>1 DEF Tick, EmptyAtReduce, PodsOn, workloadVars
  <1>6. CASE MachineStep
    <2>1. PICK n \in Node : CreateMachine(n) \/ BecomeReady(n) \/ DeleteMachine(n)
      BY <1>6 DEF MachineStep
    <2>2. UNCHANGED <<pc, mem>> /\ cordoned' \subseteq cordoned
      BY <2>1 DEF CreateMachine, BecomeReady, DeleteMachine, passVars
    <2>3. \A p \in Pod : podAt'[p] = podAt[p] \/ podAt'[p] = NoNode
      BY <2>1 DEF CreateMachine, BecomeReady, DeleteMachine, TypeOK, PodsOK
    <2>4. mem'.drainingNode # NoNode
      BY <2>2, NamesAssumption DEF TypeOK, MachinesOK
    <2>5. QED
      BY <2>2, <2>3, <2>4 DEF EmptyAtReduce, PodsOn
  <1>7. CASE PodStep
    <2>1. PICK p \in Pod : \/ CreatePod(p) \/ BindPod(p) \/ RejectPod(p)
                           \/ ReplacePod(p) \/ FinishPod(p)
      BY <1>7 DEF PodStep
    <2>2. UNCHANGED <<pc, mem, cordoned>>
      BY <1>7 DEF PodStep, PodsOnly, passVars
    <2>3. podAt'[p] = podAt[p] \/ podAt'[p] \notin cordoned
      BY <2>1, NamesAssumption DEF CreatePod, BindPod, Schedulable, RejectPod, ReplacePod, FinishPod,
           TypeOK, PodsOK, MachinesOK
    <2>4. \A q \in Pod \ {p} : podAt'[q] = podAt[q]
      BY <2>1 DEF CreatePod, BindPod, RejectPod, ReplacePod, FinishPod, TypeOK, PodsOK
    <2>5. QED
      BY <2>2, <2>3, <2>4 DEF EmptyAtReduce, PodsOn
  <1>8. CASE UNCHANGED <<pc, mem, cordoned, podAt>>
    BY <1>8 DEF EmptyAtReduce, PodsOn
  <1>9. Environment => Tick \/ MachineStep \/ PodStep \/ UNCHANGED <<pc, mem, cordoned, podAt>>
    BY DEF Environment, ForeignWrite, SyncCache, ReportStatus, passVars, workloadVars
  <1>10. UNCHANGED vars => UNCHANGED <<pc, mem, cordoned, podAt>>
    BY DEF vars, passVars, workloadVars
  <1>11. QED
    BY <1>1, <1>2, <1>3, <1>4, <1>5, <1>6, <1>7, <1>8, <1>9, <1>10 DEF Next, Pass

\* From the call that counted no pods on the drained node to the call that
\* takes its replica away, the scheduler puts none on it: every step of the
\* interleaving is covered, for any number of nodes and pods.
THEOREM NodeStaysEmpty == Spec => []EmptyAtReduce
  <1>1. Init => EmptyAtReduce
    BY DEF Init, EmptyAtReduce
  <1>2. QED
    BY <1>1, EmptyAtReduceStep, TypeCorrect, PTL DEF Spec

=============================================================================
