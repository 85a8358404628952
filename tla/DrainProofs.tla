---------------------------- MODULE DrainProofs ----------------------------
(* The scale-down protocol is sound as long as every pass reads the status   *)
(* the pass before it has written: the informer is up to date, no status     *)
(* write is refused, and the controller does not stop in the middle.  Reads  *)
(* of the workload cluster, evictions, uncordoning and patches may all fail. *)
EXTENDS ReconcilerProofs

StatusReliable == Faults \cap {"conflict", "crash", "stale"} = {}

\* The copies agree until the pass changes its own.
CopiesAgree ==
  /\ cache.policy = policy /\ cache.md = md
  /\ pc = "idle" \/ fresh
  /\ cache.latest
  /\ pc \in Calls \ {"idle", "switch", "save"} => memMD.replicas = md.replicas

\* A node that is being drained is owed a replica, and there is one to give.
DrainOwed(n) == claim[n] = "owed" /\ md.replicas > MinReplicas
DrainTracked ==
  /\ Victim # NoNode => DrainOwed(Victim)
  /\ pc = "evict" => DrainOwed(target)
  /\ pc \in {"drain", "recheck", "reduce"} => mem.drainingNode # NoNode
  /\ pc \in {"scale", "evict"} => mem.drainingNode = NoNode

\* lastScaleTime is no older than the last scale-up.
LastScale == IF pc = "idle" THEN policy.lastScaleAge ELSE mem.lastScaleAge
ScaleUpRemembered ==
  sinceUp # NoTime => LastScale # NoTime /\ LastScale <= sinceUp

DrainInv == CopiesAgree /\ DrainTracked /\ ScaleUpRemembered

LEMMA DrainInit == Init => DrainInv
  BY BoundsAssumption
  DEF Init, DrainInv, CopiesAgree, DrainTracked, ScaleUpRemembered, Victim, LastScale,
      NewStatus, InitMD, Calls

\* Without lost writes a patch reaches the informer at once and changes
\* nothing but what the pass meant to change.
LEMMA PatchIsExact ==
  ASSUME StatusReliable, TypeOK, CopiesAgree, NEW changed \in Deployment,
         PatchMD(changed) \/ PatchFails(changed)
  PROVE  /\ cache'.md = md' /\ cache'.policy = cache.policy /\ cache'.latest = cache.latest
         /\ memMD.replicas = md.replicas =>
              \/ PatchMD(changed) /\ md'.replicas = changed.replicas
              \/ PatchFails(changed) /\ md' = md
         /\ changed.replicas = memMD.replicas => md'.replicas = md.replicas
  <1>1. ~CanFail("stale")
    BY DEF StatusReliable, CanFail
  <1>2. CASE PatchMD(changed)
    BY <1>1, <1>2 DEF PatchMD, CacheMD, MergePatch, TypeOK, StatusOK, DeploymentOK, Deployment
  <1>3. CASE PatchFails(changed)
    BY <1>3 DEF PatchFails, CopiesAgree
  <1>4. QED
    BY <1>2, <1>3

LEMMA DrainStep == StatusReliable /\ TypeOK /\ DrainInv /\ [Next]_vars => DrainInv'
  <1> SUFFICES ASSUME StatusReliable, TypeOK, DrainInv, [Next]_vars PROVE DrainInv'
    OBVIOUS
  <1> USE DEF DrainInv
  <1>a. ~CanFail("stale") /\ ~CanFail("conflict") /\ ~CanFail("crash")
    BY DEF StatusReliable, CanFail
  <1>1. CASE Begin
    BY <1>1 DEF Begin, CopiesAgree, DrainTracked, DrainOwed, ScaleUpRemembered, Victim, LastScale,
         workloadVars, history, Calls
  <1>2. CASE Observe \/ ListPending \/ CheckDrain \/ AwaitRollout \/ KeepPlan
    BY <1>2 DEF Observe, ListPending, CheckDrain, AwaitRollout, KeepPlan, GoTo,
         CopiesAgree, DrainTracked, DrainOwed, ScaleUpRemembered, Victim, LastScale,
         workloadVars, history, Calls
  <1>3. CASE DrainTimedOut \/ RecheckPending
    <2>1. /\ pc \in {"drain", "recheck"} /\ pc' \in {"reduce", "switch"}
          /\ UNCHANGED <<policy, md, cache, memMD, fresh, sinceUp>>
          /\ mem'.lastScaleAge = mem.lastScaleAge
          /\ \/ mem'.drainingNode = NoNode /\ pc' = "switch"
             \/ mem' = mem /\ claim' = claim
      BY <1>3 DEF DrainTimedOut, RecheckPending, AbandonDrain, NotDraining, GoTo, TypeOK, StatusOK,
           Status
    <2>2. QED
      BY <2>1 DEF CopiesAgree, DrainTracked, DrainOwed, ScaleUpRemembered, Victim, LastScale, Calls
  <1>4. CASE ReduceReplicas
    <2> DEFINE smaller == [memMD EXCEPT !.replicas = ClampToMin(@ - 1)]
    <2>1. smaller \in Deployment /\ (PatchMD(smaller) \/ PatchFails(smaller))
      BY <1>4, EditsTyped DEF ReduceReplicas, TypeOK, DeploymentOK
    <2>2. /\ pc = "reduce" /\ pc' = "switch" /\ UNCHANGED <<policy, fresh, sinceUp>>
          /\ \/ mem'.drainingNode = NoNode /\ mem'.lastScaleAge = 0
             \/ mem' = mem /\ claim' = claim /\ md' = md
      BY <1>4 DEF ReduceReplicas, PatchFails, GoTo, NotDraining, TypeOK, StatusOK, Status
    <2>3. CopiesAgree'
      BY <2>1, <2>2, PatchIsExact DEF CopiesAgree
    <2>4. DrainTracked'
      BY <2>2 DEF DrainTracked, DrainOwed, Victim
    <2>5. ScaleUpRemembered'
      BY <2>2 DEF ScaleUpRemembered, LastScale, TypeOK, HistoryOK, Age, NoTime
    <2>6. QED
      BY <2>3, <2>4, <2>5
  <1>5. CASE RevertStalled
    <2> DEFINE reverted == [memMD EXCEPT !.tmpl = mem.prevTemplate]
    <2>1. /\ reverted \in Deployment /\ (PatchMD(reverted) \/ PatchFails(reverted))
          /\ reverted.replicas = memMD.replicas
      BY <1>5, EditsTyped DEF RevertStalled, TypeOK, StatusOK, Status, DeploymentOK, Deployment
    <2>2. /\ pc = "scale" /\ pc' = "switch" /\ UNCHANGED <<policy, fresh, claim, sinceUp>>
          /\ mem'.drainingNode = mem.drainingNode /\ mem'.lastScaleAge = mem.lastScaleAge
      BY <1>5 DEF RevertStalled, GoTo, history, TypeOK, StatusOK, Status
    <2>3. CopiesAgree'
      BY <2>1, <2>2, PatchIsExact DEF CopiesAgree
    <2>4. DrainTracked' /\ ScaleUpRemembered'
      BY <2>2 DEF DrainTracked, DrainOwed, ScaleUpRemembered, Victim, LastScale
    <2>5. QED
      BY <2>3, <2>4
  <1>6. CASE ScaleUp
    <2> DEFINE larger == [memMD EXCEPT !.replicas = @ + 1]
    <2>1. larger \in Deployment /\ (PatchMD(larger) \/ PatchFails(larger))
      BY <1>6, EditsTyped DEF ScaleUp, TypeOK, DeploymentOK
    <2>2. /\ pc = "scale" /\ pc' = "switch" /\ UNCHANGED <<policy, fresh, claim>>
          /\ mem'.drainingNode = mem.drainingNode
          /\ \/ mem'.lastScaleAge = 0
             \/ mem'.lastScaleAge = mem.lastScaleAge /\ UNCHANGED sinceUp
      BY <1>6 DEF ScaleUp, GoTo, RolloutDone, TypeOK, StatusOK, Status
    <2>3. CopiesAgree'
      BY <2>1, <2>2, PatchIsExact DEF CopiesAgree
    <2>4. DrainTracked'
      BY <2>2 DEF DrainTracked, Victim
    <2>5. sinceUp' \in Age
      BY <1>6, TimesAssumption DEF ScaleUp, TypeOK, HistoryOK, Age, NoTime
    <2>6. ScaleUpRemembered'
      BY <2>2, <2>5 DEF ScaleUpRemembered, LastScale, Age, NoTime
    <2>7. QED
      BY <2>3, <2>4, <2>6
  <1>7. CASE KeepReplicas
    BY <1>7 DEF KeepReplicas, RolloutDone, GoTo, history, TypeOK, StatusOK, Status,
         CopiesAgree, DrainTracked, DrainOwed, ScaleUpRemembered, Victim, LastScale, Calls
  <1>8. CASE CordonTarget
    <2>1. target \in Node /\ md.replicas > MinReplicas
      BY <1>8 DEF CordonTarget, ScaleDownDue, CopiesAgree, Calls, TypeOK, PassOK
    <2>2. QED
      BY <1>8, <2>1 DEF CordonTarget, RolloutDone, GoTo, TypeOK, StatusOK, Status, HistoryOK,
           CopiesAgree, DrainTracked, DrainOwed, ScaleUpRemembered, Victim, LastScale, Calls
  <1>9. CASE EvictPods
    BY <1>9 DEF EvictPods, GoTo, TypeOK, StatusOK, Status, CopiesAgree, DrainTracked, DrainOwed,
         ScaleUpRemembered, Victim, LastScale, Calls
  <1>10. CASE SwitchPlan
    <2>1. PICK t \in Template : LET switched == [memMD EXCEPT !.tmpl = t] IN
                                 /\ mem' = RememberTemplate
                                 /\ PatchMD(switched) \/ PatchFails(switched)
      BY <1>10 DEF SwitchPlan, WorthSwitching
    <2> DEFINE switched == [memMD EXCEPT !.tmpl = t]
    <2>2. switched \in Deployment /\ switched.replicas = memMD.replicas
      BY EditsTyped DEF TypeOK, DeploymentOK, Deployment
    <2>3. /\ pc = "switch" /\ pc' = "save" /\ UNCHANGED <<policy, fresh, claim, sinceUp>>
          /\ mem'.drainingNode = mem.drainingNode /\ mem'.lastScaleAge = mem.lastScaleAge
      BY <1>10, <2>1 DEF SwitchPlan, RememberTemplate, TypeOK, StatusOK, Status
    <2>4. CopiesAgree' /\ md'.replicas = md.replicas
      BY <2>1, <2>2, <2>3, PatchIsExact DEF CopiesAgree
    <2>5. DrainTracked' /\ ScaleUpRemembered'
      BY <2>3, <2>4 DEF DrainTracked, DrainOwed, ScaleUpRemembered, Victim, LastScale
    <2>6. QED
      BY <2>4, <2>5
  <1>11. CASE SaveStatus
    BY <1>11, <1>a DEF SaveStatus, Accepted, EndPass, CachePolicy, workloadVars, history, TypeOK, StatusOK,
         CopiesAgree, DrainTracked, DrainOwed, ScaleUpRemembered, Victim, LastScale, Calls
  <1>12. CASE ReportStatus
    <2>1. cache'.md = md' /\ cache'.policy = cache.policy /\ cache'.latest = cache.latest
      BY <1>12, <1>a DEF ReportStatus, CacheMD, TypeOK, StatusOK
    <2>2. md'.replicas = md.replicas
      BY <1>12 DEF ReportStatus, TypeOK, DeploymentOK, Deployment
    <2>3. UNCHANGED <<policy, passVars, history>>
      BY <1>12 DEF ReportStatus
    <2>4. QED
      BY <2>1, <2>2, <2>3 DEF passVars, history, CopiesAgree, DrainTracked, DrainOwed,
           ScaleUpRemembered, Victim, LastScale
  <1>13. CASE Tick
    <2>1. \A s \in Status : /\ AgedStatus(s).drainingNode = s.drainingNode
                            /\ AgedStatus(s).lastScaleAge = Aged(s.lastScaleAge)
      BY DEF AgedStatus, Status
    <2>2. CopiesAgree'
      BY <1>13 DEF Tick, CopiesAgree, TypeOK, StatusOK
    <2>3. DrainTracked'
      BY <1>13, <2>1 DEF Tick, DrainTracked, DrainOwed, Victim, TypeOK, StatusOK
    <2>4. LastScale' = Aged(LastScale) /\ LastScale \in Age
      BY <1>13, <2>1 DEF Tick, LastScale, TypeOK, StatusOK, Status
    <2>5. ScaleUpRemembered'
      BY <1>13, <2>4, TimesAssumption
      DEF Tick, ScaleUpRemembered, Aged, Age, NoTime, TypeOK, HistoryOK
    <2>6. QED
      BY <2>2, <2>3, <2>5
  <1>14. CASE MachineStep
    <2>1. PICK n \in Node : CreateMachine(n) \/ BecomeReady(n) \/ DeleteMachine(n)
      BY <1>14 DEF MachineStep
    <2>2. UNCHANGED <<policy, md, cache, passVars, sinceUp>>
      BY <2>1 DEF CreateMachine, BecomeReady, DeleteMachine, history
    <2>3. \A m \in Node : Referenced(m) => claim'[m] = claim[m]
      BY <2>1 DEF CreateMachine, BecomeReady, DeleteMachine, history, TypeOK, HistoryOK
    <2>4. /\ Victim # NoNode => Victim \in Node /\ Referenced(Victim)
          /\ pc = "evict" => target \in Node /\ Referenced(target)
      BY DEF Victim, Referenced, TypeOK, StatusOK, Status, PassOK
    <2>5. CopiesAgree' /\ ScaleUpRemembered'
      BY <2>2 DEF passVars, CopiesAgree, ScaleUpRemembered, LastScale
    <2>6. DrainTracked'
      BY <2>2, <2>3, <2>4 DEF passVars, DrainTracked, DrainOwed, Victim
    <2>7. QED
      BY <2>5, <2>6
  <1>15. CASE SyncCache \/ ForeignWrite \/ Crash
    BY <1>15, <1>a DEF SyncCache, ForeignWrite, Crash
  <1>16. CASE UNCHANGED <<policy, md, cache, passVars, claim, sinceUp>>
    BY <1>16 DEF passVars, CopiesAgree, DrainTracked, DrainOwed, ScaleUpRemembered, Victim, LastScale
  <1>17. PodStep \/ UNCHANGED vars => UNCHANGED <<policy, md, cache, passVars, claim, sinceUp>>
    BY DEF PodStep, PodsOnly, vars, history
  <1>18. QED
    BY <1>1, <1>2, <1>3, <1>4, <1>5, <1>6, <1>7, <1>8, <1>9, <1>10, <1>11, <1>12, <1>13,
       <1>14, <1>15, <1>16, <1>17 DEF Next, Pass, Environment
LEMMA DrainInvariant == StatusReliable => (Spec => [](TypeOK /\ DrainInv))
  <1> SUFFICES ASSUME StatusReliable PROVE Spec => [](TypeOK /\ DrainInv)
    OBVIOUS
  <1>1. TypeOK /\ DrainInv /\ [Next]_vars => DrainInv'
    BY DrainStep
  <1>2. QED
    BY <1>1, DrainInit, TypeCorrect, PTL DEF Spec

\* What one step does to the replicas and to the drain, seen from outside.
LEMMA ReplicaSteps ==
  ASSUME StatusReliable, TypeOK, DrainInv, [Next]_vars
  PROVE  \/ UNCHANGED <<md.replicas, Victim>>
         \/ ScaleUp /\ md'.replicas = md.replicas + 1 /\ UNCHANGED Victim
         \/ EvictPods /\ Victim' = target /\ UNCHANGED md.replicas
         \/ (DrainTimedOut \/ RecheckPending) /\ Victim' = NoNode /\ UNCHANGED md.replicas
         \/ /\ ReduceReplicas /\ Victim' = NoNode
            /\ md'.replicas = md.replicas - 1
  <1> USE DEF DrainInv
  <1>a. ~CanFail("stale") /\ ~CanFail("conflict") /\ ~CanFail("crash")
    BY DEF StatusReliable, CanFail
  <1>1. CASE Begin
    BY <1>1 DEF Begin, CopiesAgree, Victim
  <1>2. CASE Observe \/ ListPending \/ CheckDrain \/ AwaitRollout \/ KeepPlan
    BY <1>2 DEF Observe, ListPending, CheckDrain, AwaitRollout, KeepPlan, GoTo, Victim
  <1>3. CASE DrainTimedOut \/ RecheckPending
    BY <1>3 DEF DrainTimedOut, RecheckPending, AbandonDrain, NotDraining, GoTo, Victim, TypeOK,
         StatusOK, Status
  <1>4. CASE ReduceReplicas
    <2> DEFINE smaller == [memMD EXCEPT !.replicas = ClampToMin(@ - 1)]
    <2>1. smaller \in Deployment
      BY EditsTyped DEF TypeOK, DeploymentOK
    <2>2. /\ pc = "reduce" /\ pc' = "switch"
          /\ \/ PatchMD(smaller) /\ mem'.drainingNode = NoNode
             \/ PatchFails(smaller) /\ mem' = mem
      BY <1>4 DEF ReduceReplicas, NotDraining, GoTo, TypeOK, StatusOK, Status
    <2>3. /\ memMD.replicas = md.replicas /\ md.replicas > MinReplicas
          /\ memMD.replicas \in Nat
      BY <2>2 DEF CopiesAgree, DrainTracked, DrainOwed, Victim, Calls, TypeOK, DeploymentOK, Deployment
    <2>4. smaller.replicas = memMD.replicas - 1 /\ smaller.replicas # memMD.replicas
      BY <2>3, BoundsAssumption DEF ClampToMin, TypeOK, DeploymentOK, Deployment
    <2>5. CASE PatchMD(smaller) /\ mem'.drainingNode = NoNode
      <3>1. md'.replicas = smaller.replicas
        BY <2>4, <2>5 DEF PatchMD, MergePatch, TypeOK, DeploymentOK, Deployment
      <3>2. QED
        BY <1>4, <2>2, <2>3, <2>4, <2>5, <3>1 DEF Victim
    <2>6. CASE PatchFails(smaller) /\ mem' = mem
      BY <2>2, <2>6 DEF PatchFails, Victim
    <2>7. QED
      BY <2>2, <2>5, <2>6
  <1>5. CASE RevertStalled
    <2> DEFINE reverted == [memMD EXCEPT !.tmpl = mem.prevTemplate]
    <2>1. /\ reverted \in Deployment /\ (PatchMD(reverted) \/ PatchFails(reverted))
          /\ reverted.replicas = memMD.replicas
      BY <1>5, EditsTyped DEF RevertStalled, TypeOK, StatusOK, Status, DeploymentOK, Deployment
    <2>2. pc = "scale" /\ pc' = "switch" /\ mem'.drainingNode = mem.drainingNode
      BY <1>5 DEF RevertStalled, GoTo, TypeOK, StatusOK, Status
    <2>3. QED
      BY <2>1, <2>2, PatchIsExact DEF Victim
  <1>6. CASE ScaleUp
    <2> DEFINE larger == [memMD EXCEPT !.replicas = @ + 1]
    <2>1. /\ larger \in Deployment /\ (PatchMD(larger) \/ PatchFails(larger))
          /\ larger.replicas = memMD.replicas + 1
      BY <1>6, EditsTyped DEF ScaleUp, TypeOK, DeploymentOK, Deployment
    <2>2. pc = "scale" /\ pc' = "switch" /\ mem'.drainingNode = mem.drainingNode
      BY <1>6 DEF ScaleUp, GoTo, RolloutDone, TypeOK, StatusOK, Status
    <2>3. memMD.replicas = md.replicas
      BY <2>2 DEF CopiesAgree, Calls
    <2>4. QED
      BY <1>6, <2>1, <2>2, <2>3, PatchIsExact DEF Victim
  <1>7. CASE KeepReplicas \/ CordonTarget
    BY <1>7 DEF KeepReplicas, CordonTarget, RolloutDone, GoTo, Victim, TypeOK, StatusOK, Status
  <1>8. CASE EvictPods
    BY <1>8 DEF EvictPods, GoTo, Victim, TypeOK, StatusOK, Status
  <1>9. CASE SwitchPlan
    <2>1. PICK t \in Template : LET switched == [memMD EXCEPT !.tmpl = t] IN
                                 /\ mem' = RememberTemplate
                                 /\ PatchMD(switched) \/ PatchFails(switched)
      BY <1>9 DEF SwitchPlan, WorthSwitching
    <2>2. /\ [memMD EXCEPT !.tmpl = t] \in Deployment
          /\ [memMD EXCEPT !.tmpl = t].replicas = memMD.replicas
      BY EditsTyped DEF TypeOK, DeploymentOK, Deployment
    <2>3. pc = "switch" /\ pc' = "save" /\ mem'.drainingNode = mem.drainingNode
      BY <1>9, <2>1 DEF SwitchPlan, RememberTemplate, TypeOK, StatusOK, Status
    <2>4. QED
      BY <2>1, <2>2, <2>3, PatchIsExact DEF Victim
  <1>10. CASE SaveStatus
    BY <1>10 DEF SaveStatus, Accepted, EndPass, Victim, CopiesAgree
  <1>11. CASE Environment \/ Crash
    <2>1. CASE ReportStatus
      BY <2>1 DEF ReportStatus, passVars, Victim, TypeOK, DeploymentOK, Deployment
    <2>2. CASE Tick
      BY <2>2 DEF Tick, AgedStatus, Victim, TypeOK, StatusOK, Status
    <2>3. CASE MachineStep \/ PodStep
      BY <2>3 DEF MachineStep, CreateMachine, BecomeReady, DeleteMachine, PodStep, PodsOnly,
           passVars, Victim
    <2>4. QED
      BY <1>11, <1>a, <2>1, <2>2, <2>3
      DEF Environment, Crash, ForeignWrite, SyncCache
  <1>12. CASE UNCHANGED vars
    BY <1>12 DEF vars, passVars, Victim
  <1>13. QED
    BY <1>1, <1>2, <1>3, <1>4, <1>5, <1>6, <1>7, <1>8, <1>9, <1>10, <1>11, <1>12
    DEF Next, Pass

\* Every replica taken away was paid for by cordoning and draining one node,
\* and that node never pays again, provided no status write is lost.
THEOREM EachReductionPaidOnce == StatusReliable => (Spec => OneDrainPerReduction)
  <1> SUFFICES ASSUME StatusReliable PROVE Spec => OneDrainPerReduction
    OBVIOUS
  <1>1. TypeOK /\ DrainInv /\ [Next]_vars
          => [md'.replicas < md.replicas => claim[mem.drainingNode] = "owed"]_vars
    <2> SUFFICES ASSUME TypeOK, DrainInv, [Next]_vars, md'.replicas < md.replicas
                 PROVE  claim[mem.drainingNode] = "owed"
      OBVIOUS
    <2>1. md.replicas \in Nat
      BY DEF TypeOK, DeploymentOK, Deployment
    <2>2. ReduceReplicas
      BY <2>1, ReplicaSteps
    <2>3. QED
      BY <2>2 DEF ReduceReplicas, DrainInv, DrainTracked, DrainOwed, Victim
  <1>2. QED
    BY <1>1, DrainInvariant, PTL DEF Spec, OneDrainPerReduction

\* A scale-up is followed by no cordoning until the stabilization window is
\* over, whichever pass did it.
THEOREM ScaleDownWaits == StatusReliable => (Spec => StabilizationHonoured)
  <1> SUFFICES ASSUME StatusReliable PROVE Spec => StabilizationHonoured
    OBVIOUS
  <1>1. TypeOK /\ DrainInv /\ [Next]_vars
          => [pc = "scale" /\ pc' = "evict" => ~Within(sinceUp, Stabilization)]_vars
    <2> SUFFICES ASSUME TypeOK, DrainInv, Next, pc = "scale", pc' = "evict"
                 PROVE  ~Within(sinceUp, Stabilization)
      BY DEF vars, passVars
    <2>1. CordonTarget
      BY DEF Next, Pass, Environment, Begin, Observe, ListPending, DrainTimedOut, CheckDrain,
             RecheckPending, ReduceReplicas, RevertStalled, AwaitRollout, ScaleUp, KeepReplicas,
             EvictPods, SwitchPlan, KeepPlan, SaveStatus, Crash, EndPass, GoTo,
             ForeignWrite, SyncCache, ReportStatus, Tick, MachineStep,
             CreateMachine, BecomeReady, DeleteMachine, PodStep, PodsOnly, passVars
    <2>2. ~Within(mem.lastScaleAge, Stabilization)
      BY <2>1 DEF CordonTarget, ScaleDownDue
    <2>3. sinceUp # NoTime => mem.lastScaleAge # NoTime /\ mem.lastScaleAge <= sinceUp
      BY DEF DrainInv, ScaleUpRemembered, LastScale
    <2>4. mem.lastScaleAge \in Age /\ sinceUp \in Age
      BY DEF TypeOK, StatusOK, Status, HistoryOK
    <2>5. QED
      BY <2>2, <2>3, <2>4, TimesAssumption DEF Within, Age, NoTime
  <1>2. QED
    BY <1>1, DrainInvariant, PTL DEF Spec, StabilizationHonoured

\* Provided no status write is lost, the pass with all its calls does what
\* ScaleDown promises: it moves replicas by one, down only by giving up the
\* node being drained, up only while none is.
THEOREM ImplementsScaleDown == StatusReliable => (Spec => RefinesScaleDown)
  <1> SUFFICES ASSUME StatusReliable PROVE Spec => RefinesScaleDown
    OBVIOUS
  <1>1. Init => Promise!Init
    BY BoundsAssumption DEF Init, Promise!Init, Victim, NewStatus
  <1>2. TypeOK /\ DrainInv /\ BoundsInv /\ [Next]_vars => [Promise!Next]_<<md.replicas, Victim>>
    <2> SUFFICES ASSUME TypeOK, DrainInv, BoundsInv, [Next]_vars
                 PROVE  [Promise!Next]_<<md.replicas, Victim>>
      OBVIOUS
    <2>1. CASE ScaleUp /\ md'.replicas = md.replicas + 1 /\ UNCHANGED Victim
      <3>1. Victim = NoNode /\ md.replicas < MaxReplicas
        BY <2>1 DEF ScaleUp, DrainInv, DrainTracked, CopiesAgree, Victim, Calls
      <3>2. QED
        BY <2>1, <3>1 DEF Promise!Next, Promise!Grow
    <2>2. CASE EvictPods /\ Victim' = target /\ UNCHANGED md.replicas
      <3>1. Victim = NoNode /\ md.replicas > MinReplicas /\ target \in Node
        BY <2>2 DEF EvictPods, DrainInv, DrainTracked, DrainOwed, Victim, TypeOK, PassOK
      <3>2. QED
        BY <2>2, <3>1 DEF Promise!Next, Promise!StartDrain
    <2>3. CASE /\ DrainTimedOut \/ RecheckPending
               /\ Victim' = NoNode /\ UNCHANGED md.replicas
      <3>1. Victim # NoNode
        BY <2>3 DEF DrainTimedOut, RecheckPending, DrainInv, DrainTracked, Victim
      <3>2. QED
        BY <2>3, <3>1 DEF Promise!Next, Promise!AbandonDrain
    <2>4. CASE ReduceReplicas /\ Victim' = NoNode /\ md'.replicas = md.replicas - 1
      <3>1. Victim # NoNode /\ md.replicas > MinReplicas
        BY <2>4 DEF ReduceReplicas, DrainInv, DrainTracked, DrainOwed, Victim
      <3>2. QED
        BY <2>4, <3>1 DEF Promise!Next, Promise!Shrink
    <2>5. CASE UNCHANGED <<md.replicas, Victim>>
      BY <2>5
    <2>6. QED
      BY <2>1, <2>2, <2>3, <2>4, <2>5, ReplicaSteps
  <1>3. Init => BoundsInv
    BY BoundsAssumption DEF Init, InitMD, BoundsInv
  <1>4. QED
    BY <1>1, <1>2, <1>3, BoundsStep, DrainInvariant, PTL DEF Spec, RefinesScaleDown, Promise!Spec

-----------------------------------------------------------------------------
(* A cordon is as good as the calls that surround it: besides the status     *)
(* write, uncordoning and draining must not fail.                            *)
CordonReliable ==
  StatusReliable /\ Faults \cap {"workload", "uncordon"} = {}

\* A cordoned node exists, and if its replica is not given up yet, the current
\* copy of the status remembers it.
CordonRemembered ==
  \A n \in cordoned : /\ machine[n] # "absent"
                      /\ \/ claim[n] = "settled" \/ n = Victim
                         \/ pc = "evict" /\ n = target

LEMMA CordonStep ==
  ASSUME CordonReliable, TypeOK, DrainInv, CordonRemembered, [Next]_vars
  PROVE  CordonRemembered'
  <1> USE DEF DrainInv
  <1>a. ~CanFail("stale") /\ ~CanFail("conflict") /\ ~CanFail("crash")
        /\ ~CanFail("workload") /\ ~CanFail("uncordon")
    BY DEF CordonReliable, StatusReliable, CanFail
  <1>1. CASE Begin
    BY <1>1 DEF Begin, CopiesAgree, CordonRemembered, Victim, workloadVars, history
  <1>2. CASE Observe \/ ListPending \/ CheckDrain \/ AwaitRollout \/ KeepPlan
    BY <1>2 DEF Observe, ListPending, CheckDrain, AwaitRollout, KeepPlan, GoTo,
         CordonRemembered, Victim, workloadVars, history
  <1>3. CASE DrainTimedOut \/ RecheckPending
    <2>1. /\ pc \in {"drain", "recheck"} /\ pc' \in {"reduce", "switch"}
          /\ UNCHANGED machine
          /\ \/ UNCHANGED <<mem, cordoned, claim>>
             \/ /\ cordoned' = cordoned \ {mem.drainingNode}
                /\ \A n \in Node : n # mem.drainingNode => claim'[n] = claim[n]
      BY <1>3, <1>a DEF DrainTimedOut, RecheckPending, AbandonDrain, GoTo, TypeOK, HistoryOK
    <2>2. QED
      BY <2>1 DEF CordonRemembered, Victim, TypeOK, MachinesOK
  <1>4. CASE ReduceReplicas
    <2>1. /\ pc = "reduce" /\ pc' = "switch" /\ UNCHANGED <<machine, cordoned>>
          /\ \/ UNCHANGED <<mem, claim>>
             \/ claim' = [claim EXCEPT ![mem.drainingNode] = "settled"]
      BY <1>4 DEF ReduceReplicas, GoTo, workloadVars
    <2>2. QED
      BY <2>1 DEF CordonRemembered, Victim, TypeOK, MachinesOK, HistoryOK
  <1>5. CASE RevertStalled \/ ScaleUp \/ KeepReplicas
    <2>1. /\ pc = "scale" /\ pc' = "switch" /\ UNCHANGED <<machine, cordoned, claim>>
          /\ mem'.drainingNode = mem.drainingNode
      BY <1>5 DEF RevertStalled, ScaleUp, KeepReplicas, RolloutDone, GoTo, workloadVars, history,
           TypeOK, StatusOK, Status
    <2>2. QED
      BY <2>1 DEF CordonRemembered, Victim
  <1>6. CASE CordonTarget
    <2>1. /\ pc = "scale" /\ UNCHANGED machine /\ mem.drainingNode = NoNode
          /\ mem'.drainingNode = mem.drainingNode
          /\ \/ /\ pc' = "evict" /\ target' = target /\ machine[target] # "absent"
                /\ cordoned' = cordoned \cup {target}
                /\ \A n \in Node : n # target => claim'[n] = claim[n]
             \/ pc' = "switch" /\ UNCHANGED <<cordoned, claim>>
      BY <1>6, <1>a DEF CordonTarget, RolloutDone, GoTo, DrainTracked, TypeOK, StatusOK, Status,
           HistoryOK
    <2>2. QED
      BY <2>1, NamesAssumption DEF CordonRemembered, Victim, TypeOK, MachinesOK
  <1>7. CASE EvictPods
    <2>1. /\ pc = "evict" /\ pc' = "switch" /\ mem.drainingNode = NoNode
          /\ mem'.drainingNode = target /\ UNCHANGED <<machine, cordoned, claim>>
      BY <1>7, <1>a DEF EvictPods, GoTo, DrainTracked, TypeOK, StatusOK, Status
    <2>2. QED
      BY <2>1, NamesAssumption DEF CordonRemembered, Victim, TypeOK, MachinesOK
  <1>8. CASE SwitchPlan
    <2>1. /\ pc = "switch" /\ pc' = "save" /\ UNCHANGED <<machine, cordoned, claim>>
          /\ mem'.drainingNode = mem.drainingNode
      BY <1>8 DEF SwitchPlan, RememberTemplate, workloadVars, TypeOK, StatusOK, Status
    <2>2. QED
      BY <2>1 DEF CordonRemembered, Victim
  <1>9. CASE SaveStatus
    BY <1>9 DEF SaveStatus, Accepted, EndPass, CopiesAgree, CordonRemembered, Victim,
         workloadVars, history
  <1>10. CASE Crash \/ ForeignWrite \/ SyncCache
    BY <1>10, <1>a DEF Crash, ForeignWrite, SyncCache
  <1>11. CASE ReportStatus
    BY <1>11 DEF ReportStatus, CordonRemembered, Victim, workloadVars, history, passVars
  <1>12. CASE MachineStep
    <2>1. PICK n \in Node : CreateMachine(n) \/ BecomeReady(n) \/ DeleteMachine(n)
      BY <1>12 DEF MachineStep
    <2>2. /\ UNCHANGED <<policy, passVars>> /\ cordoned' \subseteq cordoned
          /\ \A m \in cordoned' : machine'[m] # "absent" /\ claim'[m] = claim[m]
      BY <2>1 DEF CreateMachine, BecomeReady, DeleteMachine, history, CordonRemembered,
           TypeOK, MachinesOK, HistoryOK
    <2>3. QED
      BY <2>2 DEF CordonRemembered, Victim, passVars
  <1>13. CASE PodStep \/ UNCHANGED vars
    BY <1>13 DEF PodStep, PodsOnly, vars, passVars, workloadVars, history, CordonRemembered, Victim
  <1>14. CASE Tick
    <2>1. /\ UNCHANGED <<pc, target, machine, cordoned, claim>>
          /\ mem'.drainingNode = mem.drainingNode /\ policy'.drainingNode = policy.drainingNode
      BY <1>14 DEF Tick, AgedStatus, workloadVars, TypeOK, StatusOK, Status
    <2>2. QED
      BY <2>1 DEF CordonRemembered, Victim
  <1>15. QED
    BY <1>1, <1>2, <1>3, <1>4, <1>5, <1>6, <1>7, <1>8, <1>9, <1>10, <1>11, <1>12, <1>13,
       <1>14 DEF Next, Pass, Environment

\* Under these assumptions no node stays unschedulable for nothing.
THEOREM NoCordonForgotten == CordonReliable => (Spec => []NoOrphanCordon)
  <1> SUFFICES ASSUME CordonReliable PROVE Spec => []NoOrphanCordon
    OBVIOUS
  <1>1. Init => CordonRemembered
    BY DEF Init, CordonRemembered
  <1>2. TypeOK /\ DrainInv /\ CordonRemembered /\ [Next]_vars => CordonRemembered'
    BY CordonStep
  <1>3. CordonRemembered => NoOrphanCordon
    BY DEF CordonRemembered, NoOrphanCordon, Victim
  <1>4. Spec => [](TypeOK /\ DrainInv)
    BY DrainInvariant DEF CordonReliable
  <1>5. QED
    BY <1>1, <1>2, <1>3, <1>4, PTL DEF Spec

-----------------------------------------------------------------------------
(* The rollback.  With no status write lost and no patch failing, the       *)
(* current copy of the status names what the last switch replaced, or       *)
(* nothing.                                                                 *)
SwitchReliable == StatusReliable /\ ~CanFail("patch")

\* What a step does with the plan: leave it, go back, or switch to one that is
\* cheaper than the plan the pass found at its start.
PlanKept ==
  /\ UNCHANGED <<md.tmpl, switchedFrom>>
  /\ LastPrev' \in {LastPrev, NoTemplate}
  /\ basePlan' \in {basePlan, md.tmpl, NoTemplate}
  /\ pc = "save" => basePlan' = NoTemplate \/ (pc' = "save" /\ UNCHANGED basePlan)
PlanReverted ==
  /\ pc = "scale" /\ pc' = "switch" /\ LastPrev # NoTemplate
  /\ md'.tmpl = LastPrev /\ LastPrev' = NoTemplate
  /\ UNCHANGED <<switchedFrom, basePlan>>
PlanSwitched ==
  /\ pc = "switch" /\ pc' = "save"
  /\ basePlan # NoTemplate /\ Price[md'.tmpl] < Price[basePlan]
  /\ LastPrev' = md.tmpl /\ switchedFrom' = md.tmpl

\* The pass's own copy of the deployment names the plan it has.
CopyNamesPlan == pc \in Calls \ {"idle", "save"} => memMD.tmpl = md.tmpl
RollbackInv == CopyNamesPlan /\ (LastPrev # NoTemplate => LastPrev = switchedFrom)

\* A patch that cannot fail, from a copy that is up to date, does what it says.
LEMMA PatchTemplate ==
  ASSUME SwitchReliable, TypeOK, memMD.tmpl = md.tmpl, NEW changed \in Deployment,
         PatchMD(changed) \/ PatchFails(changed)
  PROVE  memMD'.tmpl = md'.tmpl /\ md'.tmpl = changed.tmpl
  BY DEF SwitchReliable, PatchFails, PatchMD, MergePatch, TypeOK, DeploymentOK, Deployment

\* Every step is of one of the three kinds and keeps the copy.
LEMMA PlanSteps ==
  ASSUME SwitchReliable, TypeOK, DrainInv, CopyNamesPlan, [Next]_vars
  PROVE  CopyNamesPlan' /\ (PlanKept \/ PlanReverted \/ PlanSwitched)
  <1> USE DEF CopyNamesPlan, DrainInv
  <1>a. ~CanFail("stale") /\ ~CanFail("conflict") /\ ~CanFail("crash") /\ ~CanFail("patch")
    BY DEF SwitchReliable, StatusReliable, CanFail
  <1>1. CASE Begin
    BY <1>1 DEF Begin, CopiesAgree, LastPrev, history, PlanKept
  <1>2. CASE Observe \/ ListPending \/ CheckDrain \/ AwaitRollout \/ KeepPlan
    BY <1>2 DEF Observe, ListPending, CheckDrain, AwaitRollout, KeepPlan, GoTo, LastPrev, history,
         Calls, PlanKept
  <1>3. CASE DrainTimedOut \/ RecheckPending \/ KeepReplicas \/ CordonTarget \/ EvictPods
    <2>1. /\ pc \in {"drain", "recheck", "scale", "evict"}
          /\ UNCHANGED <<md, memMD, switchedFrom, basePlan>> /\ pc' # "idle"
          /\ mem'.prevTemplate \in {mem.prevTemplate, NoTemplate}
      BY <1>3 DEF DrainTimedOut, RecheckPending, AbandonDrain, KeepReplicas, CordonTarget, EvictPods,
           NotDraining, RolloutDone, GoTo, history, TypeOK, StatusOK, Status
    <2>2. QED
      BY <2>1 DEF LastPrev, Calls, PlanKept
  <1>4. CASE ReduceReplicas \/ ScaleUp
    <2>1. PICK n \in Nat : LET resized == [memMD EXCEPT !.replicas = n]
                           IN resized \in Deployment /\ (PatchMD(resized) \/ PatchFails(resized))
      BY <1>4, EditsTyped, BoundsAssumption DEF ReduceReplicas, ScaleUp, ClampToMin, TypeOK,
           DeploymentOK, Deployment
    <2>2. /\ pc \in {"reduce", "scale"} /\ pc' = "switch" /\ UNCHANGED <<switchedFrom, basePlan>>
          /\ mem'.prevTemplate \in {mem.prevTemplate, NoTemplate}
      BY <1>4, <1>a DEF ReduceReplicas, ScaleUp, NotDraining, RolloutDone, PatchFails, GoTo, TypeOK,
           StatusOK, Status
    <2>3. memMD'.tmpl = md'.tmpl /\ md'.tmpl = md.tmpl
      BY <2>1, <2>2, PatchTemplate DEF Calls, TypeOK, DeploymentOK, Deployment
    <2>4. QED
      BY <2>2, <2>3 DEF LastPrev, PlanKept
  <1>5. CASE RevertStalled
    <2> DEFINE reverted == [memMD EXCEPT !.tmpl = mem.prevTemplate]
    <2>1. reverted \in Deployment /\ (PatchMD(reverted) \/ PatchFails(reverted))
      BY <1>5, EditsTyped DEF RevertStalled, TypeOK, StatusOK, Status, DeploymentOK
    <2>2. /\ pc = "scale" /\ pc' = "switch" /\ UNCHANGED <<switchedFrom, basePlan>>
          /\ mem.prevTemplate # NoTemplate /\ mem'.prevTemplate = NoTemplate
      BY <1>5, <1>a DEF RevertStalled, PatchFails, GoTo, history, TypeOK, StatusOK, Status
    <2>3. memMD'.tmpl = md'.tmpl /\ md'.tmpl = mem.prevTemplate
      BY <2>1, <2>2, PatchTemplate DEF Calls, TypeOK, DeploymentOK, Deployment
    <2>4. QED
      BY <2>2, <2>3 DEF LastPrev, PlanReverted
  <1>6. CASE SwitchPlan
    <2>1. PICK t \in WorthSwitching :
             LET switched == [memMD EXCEPT !.tmpl = t]
             IN switched \in Deployment /\ (PatchMD(switched) \/ PatchFails(switched))
      BY <1>6, EditsTyped DEF SwitchPlan, WorthSwitching, TypeOK, DeploymentOK
    <2>2. /\ pc = "switch" /\ pc' = "save" /\ switchedFrom' = md.tmpl
          /\ mem'.prevTemplate = memMD.tmpl
      BY <1>6, <1>a DEF SwitchPlan, PatchFails, RememberTemplate, TypeOK, StatusOK, Status
    <2>3. md'.tmpl = t
      BY <2>1, <2>2, PatchTemplate DEF Calls, TypeOK, DeploymentOK, Deployment
    <2>4. QED
      BY <2>1, <2>2, <2>3 DEF LastPrev, Calls, PlanSwitched, WorthSwitching
  <1>7. CASE SaveStatus
    BY <1>7 DEF SaveStatus, Accepted, EndPass, CopiesAgree, LastPrev, history, PlanKept
  <1>8. CASE Crash \/ ForeignWrite \/ SyncCache
    BY <1>8, <1>a DEF Crash, ForeignWrite, SyncCache
  <1>9. CASE ReportStatus
    BY <1>9 DEF ReportStatus, LastPrev, passVars, history, TypeOK, DeploymentOK, Deployment, PlanKept
  <1>10. CASE Tick
    <2>1. /\ UNCHANGED <<pc, md, memMD, switchedFrom, basePlan>>
          /\ mem'.prevTemplate = mem.prevTemplate /\ policy'.prevTemplate = policy.prevTemplate
      BY <1>10 DEF Tick, AgedStatus, TypeOK, StatusOK, Status
    <2>2. QED
      BY <2>1 DEF LastPrev, PlanKept
  <1>11. CASE MachineStep \/ PodStep \/ UNCHANGED vars
    BY <1>11 DEF MachineStep, CreateMachine, BecomeReady, DeleteMachine, PodStep, PodsOnly, vars,
         passVars, history, LastPrev, PlanKept
  <1>12. QED
    BY <1>1, <1>2, <1>3, <1>4, <1>5, <1>6, <1>7, <1>8, <1>9, <1>10, <1>11
    DEF Next, Pass, Environment

\* Every step keeps the pointer, and a revert goes where it points.
LEMMA RollbackStep ==
  ASSUME SwitchReliable, TypeOK, DrainInv, RollbackInv, [Next]_vars
  PROVE  /\ RollbackInv'
         /\ pc = "scale" /\ md'.tmpl # md.tmpl => md'.tmpl = switchedFrom
  <1>1. CopyNamesPlan' /\ (PlanKept \/ PlanReverted \/ PlanSwitched)
    BY PlanSteps DEF RollbackInv
  <1>2. QED
    BY <1>1 DEF RollbackInv, PlanKept, PlanReverted, PlanSwitched

\* Under these assumptions a revert undoes the last switch and no other.
THEOREM RevertGoesBack == SwitchReliable => (Spec => RevertUndoesLastSwitch)
  <1> SUFFICES ASSUME SwitchReliable PROVE Spec => RevertUndoesLastSwitch
    OBVIOUS
  <1>0. StatusReliable
    BY DEF SwitchReliable
  <1>1. Init => RollbackInv
    BY DEF Init, RollbackInv, CopyNamesPlan, LastPrev, NewStatus
  <1>2. TypeOK /\ DrainInv /\ RollbackInv /\ [Next]_vars => RollbackInv'
    BY RollbackStep
  <1>3. TypeOK /\ DrainInv /\ RollbackInv /\ [Next]_vars
          => [pc = "scale" /\ md'.tmpl # md.tmpl => md'.tmpl = switchedFrom]_vars
    BY RollbackStep
  <1>4. QED
    BY <1>0, <1>1, <1>2, <1>3, DrainInvariant, PTL DEF Spec, RevertUndoesLastSwitch

\* The plan to go back to costs more than the present one, and so does not
\* the plan the pass found at its start: a switch goes down from both.
CheaperInv ==
  /\ LastPrev # NoTemplate => Price[md.tmpl] < Price[LastPrev]
  /\ pc # "save" /\ basePlan # NoTemplate => Price[basePlan] <= Price[md.tmpl]

LEMMA CheaperStep ==
  ASSUME SwitchReliable, TypeOK, DrainInv, RollbackInv, CheaperInv, [Next]_vars
  PROVE  CheaperInv' /\ [Plans!Next]_<<md.tmpl, LastPrev>>
  <1>1. /\ md.tmpl \in Template /\ md'.tmpl \in Template
        /\ LastPrev \in Template \cup {NoTemplate} /\ basePlan \in Template \cup {NoTemplate}
    BY TypeStep DEF TypeOK, DeploymentOK, Deployment, StatusOK, Status, PassOK, LastPrev
  <1>2. \A t \in Template : Price[t] \in Nat /\ t # NoTemplate
    BY NamesAssumption
  <1>3. CASE PlanKept
    <2>1. CheaperInv'
      BY <1>1, <1>2, <1>3 DEF CheaperInv, PlanKept
    <2>2. QED
      BY <1>3, <2>1 DEF PlanKept, Plans!Next, Plans!Settle
  <1>4. CASE PlanReverted
    BY <1>1, <1>2, <1>4 DEF CheaperInv, PlanReverted, Plans!Next, Plans!Revert
  <1>5. CASE PlanSwitched
    <2>1. Price[md'.tmpl] < Price[md.tmpl]
      BY <1>1, <1>2, <1>5 DEF CheaperInv, PlanSwitched
    <2>2. Plans!Switch(md'.tmpl)
      BY <1>5, <2>1 DEF PlanSwitched, Plans!Switch
    <2>3. QED
      BY <1>1, <1>5, <2>1, <2>2 DEF CheaperInv, PlanSwitched, Plans!Next
  <1>6. QED
    BY <1>3, <1>4, <1>5, PlanSteps DEF RollbackInv

\* Under the same assumptions the pass implements Rollout: a plan that costs
\* more only ever comes back from the last switch, at most once.
THEOREM ImplementsRollout == SwitchReliable => (Spec => RefinesRollout)
  <1> SUFFICES ASSUME SwitchReliable PROVE Spec => RefinesRollout
    OBVIOUS
  <1>0. StatusReliable
    BY DEF SwitchReliable
  <1>1. Init => RollbackInv /\ CheaperInv /\ Plans!Init
    BY DEF Init, RollbackInv, CopyNamesPlan, CheaperInv, Plans!Init, LastPrev, NewStatus
  <1>2. TypeOK /\ DrainInv /\ RollbackInv /\ [Next]_vars => RollbackInv'
    BY RollbackStep
  <1>3. TypeOK /\ DrainInv /\ RollbackInv /\ CheaperInv /\ [Next]_vars
          => CheaperInv' /\ [Plans!Next]_<<md.tmpl, LastPrev>>
    BY CheaperStep
  <1>4. QED
    BY <1>0, <1>1, <1>2, <1>3, DrainInvariant, PTL DEF Spec, RefinesRollout, Plans!Spec
=============================================================================
