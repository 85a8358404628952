-------------------------- MODULE RebalancerProofs --------------------------
(* What holds of the policy and the MachineDeployment when the rebalancer   *)
(* writes them too, for every cluster size and any number of plans.         *)
EXTENDS Rebalancer, ReconcilerProofs

\* A step of anybody but the rebalancer is a step of the reconciler's module,
\* or none at all.
OthersMove ==
  \/ PassBegins \/ PassMoves \/ PassSaves \/ PassCrashes
  \/ OtherWriter \/ RolloutReported \/ RTick
  \/ (MachineStep \/ PodStep) /\ UNCHANGED rebalancerVars

LEMMA OthersAreNext == OthersMove => [Next]_vars
  BY DEF OthersMove, PassBegins, PassMoves, PassSaves, PassCrashes, OtherWriter, RolloutReported,
     RTick, Next, Pass, Environment

\* A step of the rebalancer that is neither a switch nor a status write.
RebalancerReads == RList \/ RSkip \/ RInspect \/ RGiveUp \/ RKeepPlan \/ RCrash

LEMMA RNextSplit == [RNext]_allVars => \/ OthersMove \/ RebalancerReads \/ RSwitch \/ RSave
                                       \/ UNCHANGED allVars
  BY DEF RNext, RCycle, OthersMove, RebalancerReads

LEMMA ReadsTouchNothing == RebalancerReads => UNCHANGED vars
  BY DEF RebalancerReads, RList, RSkip, RInspect, RGiveUp, RKeepPlan, RCrash

-----------------------------------------------------------------------------
\* The informer's copy of the policy is the API server's while it is said to be.
CacheFollows == cache.latest => cache.policy = policy

LEMMA SwitchIsPatch ==
  ASSUME TypeOK, RTypeOK, RSwitch
  PROVE  /\ md' \in Deployment /\ md'.replicas = md.replicas
         /\ cache' \in {cache, [cache EXCEPT !.md = md']}
         /\ rmd' \in Deployment
         /\ UNCHANGED <<policy, passVars, workloadVars, claim, sinceUp>>
  <1>1. PICK t \in Template :
          /\ rmem' = Replaced(rmd.tmpl)
          /\ \/ md' = RPatched(t) /\ rmd' = md' /\ CacheMD(md')
             \/ rmd' = [rmd EXCEPT !.tmpl = t] /\ UNCHANGED <<md, cache>>
    BY DEF RSwitch
  <1>2. RPatched(t) \in Deployment /\ RPatched(t).replicas = md.replicas
    BY DEF RPatched, TypeOK, DeploymentOK, Deployment
  <1>3. [rmd EXCEPT !.tmpl = t] \in Deployment
    BY DEF RTypeOK, Deployment
  <1>4. md \in Deployment
    BY DEF TypeOK, DeploymentOK
  <1>5. QED
    BY <1>1, <1>2, <1>3, <1>4 DEF CacheMD, RSwitch

LEMMA RebalancerKeepsType ==
  ASSUME TypeOK, RTypeOK, RSwitch \/ RSave
  PROVE  TypeOK'
  <1>1. CASE RSwitch
    <2>1. StatusOK'
      BY <1>1, SwitchIsPatch DEF passVars, TypeOK, StatusOK, DrainFieldsAgree
    <2>2. cache'.md \in Deployment /\ cache'.latest = cache.latest
      BY <1>1, SwitchIsPatch DEF TypeOK, StatusOK, DeploymentOK
    <2>3. templates' \subseteq Template
      BY <1>1 DEF RSwitch, CreateTemplate, TypeOK, DeploymentOK
    <2>4. DeploymentOK' /\ PassOK'
      BY <1>1, <2>2, <2>3, SwitchIsPatch DEF passVars, TypeOK, DeploymentOK, PassOK
    <2>5. MachinesOK' /\ PodsOK'
      BY <1>1, SwitchIsPatch DEF workloadVars, TypeOK, MachinesOK, PodsOK, Ready
    <2>6. sinceSwitch' \in Age /\ switchedFrom' \in Template \cup {NoTemplate}
      BY <1>1, TimesAssumption DEF RSwitch, TypeOK, HistoryOK, DeploymentOK, Deployment, Age, NoTime
    <2>7. HistoryOK'
      BY <1>1, <2>6, SwitchIsPatch DEF TypeOK, HistoryOK
    <2>8. QED
      BY <2>1, <2>4, <2>5, <2>7 DEF TypeOK
  <1>2. CASE RSave
    <2>1. /\ policy' \in {policy, rmem}
          /\ cache' \in {cache, [cache EXCEPT !.policy = rmem], [cache EXCEPT !.latest = FALSE]}
          /\ fresh' \in {fresh, FALSE}
          /\ UNCHANGED <<md, templates, pc, mem, memMD, dryRun, basePlan, target, pending,
                         workloadVars, history>>
      BY <1>2 DEF RSave, CachePolicy
    <2>2. StatusOK' /\ DeploymentOK' /\ PassOK'
      BY <2>1 DEF RTypeOK, TypeOK, StatusOK, DeploymentOK, PassOK, DrainFieldsAgree
    <2>3. MachinesOK' /\ PodsOK' /\ HistoryOK'
      BY <2>1 DEF workloadVars, history, TypeOK, MachinesOK, PodsOK, HistoryOK, Ready
    <2>4. QED
      BY <2>2, <2>3 DEF TypeOK
  <1>3. QED
    BY <1>1, <1>2

LEMMA RTypeStep == TypeOK /\ RTypeOK /\ [RNext]_allVars => TypeOK'
  <1> SUFFICES ASSUME TypeOK, RTypeOK, [RNext]_allVars PROVE TypeOK'
    OBVIOUS
  <1>1. CASE [Next]_vars
    BY <1>1, TypeStep
  <1>2. RebalancerReads \/ UNCHANGED allVars => [Next]_vars
    BY ReadsTouchNothing DEF allVars
  <1>3. QED
    BY <1>1, <1>2, OthersAreNext, RebalancerKeepsType, RNextSplit

-----------------------------------------------------------------------------
(* The rebalancer's copy.                                                  *)
LEMMA PassMovesKeepPolicy ==
  ASSUME TypeOK, PassMoves
  PROVE  UNCHANGED <<policy, fresh>> /\ cache'.policy = cache.policy /\ cache'.latest = cache.latest
  <1>1. CASE ReduceReplicas \/ RevertStalled \/ ScaleUp \/ SwitchPlan
    <2>1. cache' = cache \/ cache' = [cache EXCEPT !.md = md']
      BY <1>1 DEF ReduceReplicas, RevertStalled, ScaleUp, SwitchPlan, PatchMD, PatchFails, CacheMD
    <2>2. cache'.policy = cache.policy /\ cache'.latest = cache.latest
      BY <2>1 DEF TypeOK, StatusOK
    <2>3. QED
      BY <1>1, <2>2 DEF ReduceReplicas, RevertStalled, ScaleUp, SwitchPlan
  <1>2. CASE Observe \/ ListPending \/ DrainTimedOut \/ CheckDrain \/ RecheckPending
             \/ AwaitRollout \/ KeepReplicas \/ CordonTarget \/ EvictPods \/ KeepPlan
    BY <1>2 DEF Observe, ListPending, DrainTimedOut, CheckDrain, RecheckPending,
         AwaitRollout, KeepReplicas, CordonTarget, EvictPods, KeepPlan
  <1>3. QED
    BY <1>1, <1>2 DEF PassMoves

LEMMA AgedTyped ==
  ASSUME NEW s \in Status, DrainFieldsAgree(s)
  PROVE  /\ AgedStatus(s) \in Status /\ DrainFieldsAgree(AgedStatus(s))
         /\ AgedStatus(s).prevTemplate = s.prevTemplate
  BY AgedAge DEF AgedStatus, Status, DrainFieldsAgree

LEMMA AgedCommutes ==
  ASSUME NEW s \in Status, NEW r \in Status, r = [s EXCEPT !.prevTemplate = r.prevTemplate]
  PROVE  AgedStatus(r) = [AgedStatus(s) EXCEPT !.prevTemplate = AgedStatus(r).prevTemplate]
  BY DEF AgedStatus, Status

LEMMA NoTimeIsAge == NoTime \in Age /\ 0 \in Age
  BY TimesAssumption DEF Age, NoTime

LEMMA RTypeInit == RInit => RTypeOK
  <1> SUFFICES ASSUME RInit PROVE RTypeOK
    OBVIOUS
  <1>1. stamp \in Stamp /\ sinceRecorded \in Age
    BY NoTimeIsAge DEF RInit, Stamp
  <1>2. QED
    BY <1>1, EmptyCopies DEF RInit, RTypeOK

LEMMA EndCycleTyped ==
  ASSUME RTypeOK, REndCycle, stamp' \in Stamp, sinceRecorded' \in Age
  PROVE  RTypeOK'
  BY EmptyCopies DEF REndCycle, RTypeOK, DrainFieldsAgree

LEMMA StampEdits ==
  ASSUME stamp \in Stamp
  PROVE  /\ \A a \in Age : /\ [stamp EXCEPT !.mine = a] \in Stamp
                            /\ [stamp EXCEPT !.pass = a] \in Stamp
                            /\ \A b \in Age : /\ [stamp EXCEPT !.api = a, !.mine = b] \in Stamp
                                             /\ [stamp EXCEPT !.api = a, !.pass = b] \in Stamp
         /\ stamp.api \in Age /\ stamp.pass \in Age /\ stamp.mine \in Age
         /\ DOMAIN stamp = {"api", "pass", "mine"}
  BY DEF Stamp

LEMMA ReadsKeepType ==
  ASSUME TypeOK, RTypeOK, CacheFollows, RebalancerReads
  PROVE  RTypeOK' /\ CacheFollows'
  <1>1. CacheFollows' /\ policy' = policy
    BY ReadsTouchNothing DEF vars, CacheFollows
  <1>2. CASE RList
    <2>1. /\ cache.policy \in Status /\ DrainFieldsAgree(cache.policy)
          /\ cache.latest \in BOOLEAN
      BY DEF TypeOK, StatusOK, PassOK
    <2>2. stamp' \in Stamp
      BY <1>2, StampEdits DEF RList, RTypeOK
    <2>3. cache.latest => cache.policy = [policy EXCEPT !.prevTemplate = cache.policy.prevTemplate]
      BY DEF CacheFollows, TypeOK, StatusOK, Status
    <2>4. QED
      BY <1>1, <1>2, <2>1, <2>2, <2>3 DEF RList, RTypeOK, DrainFieldsAgree
  <1>3. CASE RSkip \/ RGiveUp \/ RCrash
    <2>1. stamp' \in Stamp /\ sinceRecorded' \in Age /\ REndCycle
      BY <1>3, StampEdits, NoTimeIsAge DEF RSkip, RGiveUp, RCrash, RTypeOK
    <2>2. QED
      BY <1>1, <2>1, EndCycleTyped
  <1>4. CASE RInspect
    BY <1>1, <1>4 DEF RInspect, RTypeOK, TypeOK, DeploymentOK, DrainFieldsAgree
  <1>5. CASE RKeepPlan
    BY <1>1, <1>5 DEF RKeepPlan, RTypeOK, DrainFieldsAgree
  <1>6. QED
    BY <1>2, <1>3, <1>4, <1>5 DEF RebalancerReads

LEMMA SwitchKeepsType ==
  ASSUME TypeOK, RTypeOK, CacheFollows, RSwitch
  PROVE  RTypeOK' /\ CacheFollows'
  <1>1. rmem' = Replaced(rmd.tmpl) /\ UNCHANGED <<rolling, rfresh, sinceRecorded>>
        /\ rpc' = "save" /\ stamp' \in {stamp, [stamp EXCEPT !.mine = 0]}
    BY DEF RSwitch
  <1>2. stamp' \in Stamp
    BY <1>1, StampEdits, NoTimeIsAge DEF RTypeOK
  <1>3. rmem' \in Status /\ DrainFieldsAgree(rmem')
        /\ rmem'.prevTemplate = rmd.tmpl
    BY <1>1 DEF Replaced, RTypeOK, Status, Deployment, DrainFieldsAgree
  <1>4. rfresh => rmem' = [policy EXCEPT !.prevTemplate = rmem'.prevTemplate]
    BY <1>1, <1>3 DEF Replaced, RTypeOK, Status, TypeOK, StatusOK
  <1>5. policy' = policy /\ cache'.policy = cache.policy /\ cache'.latest = cache.latest
    BY SwitchIsPatch DEF TypeOK, StatusOK
  <1>6. QED
    BY <1>1, <1>2, <1>3, <1>4, <1>5, SwitchIsPatch DEF RTypeOK, DrainFieldsAgree, CacheFollows

LEMMA SaveKeepsType ==
  ASSUME TypeOK, RTypeOK, CacheFollows, RSave
  PROVE  RTypeOK' /\ CacheFollows'
  <1>1. stamp' \in Stamp /\ sinceRecorded' \in Age
    BY StampEdits, NoTimeIsAge DEF RSave, RTypeOK
  <1>2. CacheFollows'
    BY InformerAssumption DEF RSave, CachePolicy, CacheFollows, TypeOK, StatusOK
  <1>3. QED
    BY <1>1, <1>2, EndCycleTyped DEF RSave

LEMMA OthersKeepType ==
  ASSUME TypeOK, RTypeOK, CacheFollows, OthersMove
  PROVE  RTypeOK' /\ CacheFollows'
  <1>1. CASE PassBegins
    <2>1. stamp' \in Stamp
      BY <1>1, StampEdits DEF PassBegins, RTypeOK
    <2>2. QED
      BY <1>1, <2>1 DEF PassBegins, Begin, others, RTypeOK, CacheFollows, DrainFieldsAgree
  <1>2. CASE PassMoves
    BY <1>2, PassMovesKeepPolicy DEF PassMoves, rebalancerVars, RTypeOK, CacheFollows,
       DrainFieldsAgree
  <1>3. CASE PassSaves
    <2>1. stamp' \in Stamp /\ rfresh' \in BOOLEAN
      BY <1>3, StampEdits, NoTimeIsAge DEF PassSaves, RTypeOK
    <2>2. rfresh' => rfresh /\ policy' = policy
      BY <1>3 DEF PassSaves, SaveStatus
    <2>3. CacheFollows'
      BY <1>3, InformerAssumption DEF PassSaves, SaveStatus, CachePolicy, CacheFollows, TypeOK, StatusOK
    <2>4. QED
      BY <1>3, <2>1, <2>2, <2>3 DEF PassSaves, RTypeOK, DrainFieldsAgree
  <1>4. CASE PassCrashes
    <2>1. stamp' \in Stamp
      BY <1>4, StampEdits, NoTimeIsAge DEF PassCrashes, RTypeOK
    <2>2. QED
      BY <1>4, <2>1 DEF PassCrashes, Crash, EndPass, others, RTypeOK, CacheFollows, DrainFieldsAgree
  <1>5. CASE OtherWriter
    <2>1. policy' = policy /\ CacheFollows'
      BY <1>5, InformerAssumption DEF OtherWriter, ForeignWrite, CachePolicy, CacheFollows, vars,
         TypeOK, StatusOK
    <2>2. QED
      BY <1>5, <2>1 DEF OtherWriter, RTypeOK, DrainFieldsAgree
  <1>6. CASE RolloutReported
    <2>1. policy' = policy /\ cache'.policy = cache.policy /\ cache'.latest = cache.latest
      BY <1>6 DEF RolloutReported, ReportStatus, CacheMD, vars, TypeOK, StatusOK
    <2>2. QED
      BY <1>6, <2>1 DEF RolloutReported, RTypeOK, CacheFollows, DrainFieldsAgree
  <1>7. CASE RTick
    <2>1. stamp' \in Stamp /\ sinceRecorded' \in Age
      BY <1>7, StampEdits, AgedAge DEF RTick, RTypeOK, Stamp
    <2>2. rmem' \in Status /\ DrainFieldsAgree(rmem') /\ rmem'.prevTemplate = rmem.prevTemplate
      BY <1>7, AgedTyped DEF RTick, RTypeOK
    <2>3. rfresh => rmem' = [policy' EXCEPT !.prevTemplate = rmem'.prevTemplate]
      <3>1. rmem \in Status /\ policy \in Status
        BY DEF RTypeOK, TypeOK, StatusOK
      <3>2. policy' = AgedStatus(policy) /\ rmem' = AgedStatus(rmem)
        BY <1>7 DEF RTick, Tick
      <3>3. QED
        BY <3>1, <3>2, AgedCommutes DEF RTypeOK
    <2>4. CacheFollows'
      BY <1>7 DEF RTick, Tick, CacheFollows, TypeOK, StatusOK
    <2>5. QED
      BY <1>7, <2>1, <2>2, <2>3, <2>4 DEF RTick, RTypeOK
  <1>8. CASE (MachineStep \/ PodStep) /\ UNCHANGED rebalancerVars
    <2>1. UNCHANGED <<policy, cache>>
      BY <1>8 DEF MachineStep, PodStep, CreateMachine, BecomeReady, DeleteMachine, PodsOnly
    <2>2. QED
      BY <1>8, <2>1 DEF rebalancerVars, RTypeOK, CacheFollows, DrainFieldsAgree
  <1>9. QED
    BY <1>1, <1>2, <1>3, <1>4, <1>5, <1>6, <1>7, <1>8 DEF OthersMove

LEMMA RTypeInvariant == RSpec => [](TypeOK /\ RTypeOK /\ CacheFollows)
  <1>1. RInit => TypeOK /\ RTypeOK /\ CacheFollows
    BY TypeInit, RTypeInit DEF RInit, Init, CacheFollows
  <1>2. TypeOK /\ RTypeOK /\ CacheFollows /\ [RNext]_allVars
          => (TypeOK /\ RTypeOK /\ CacheFollows)'
    <2> SUFFICES ASSUME TypeOK, RTypeOK, CacheFollows, [RNext]_allVars
                 PROVE  RTypeOK' /\ CacheFollows'
      BY RTypeStep
    <2>1. CASE UNCHANGED allVars
      BY <2>1 DEF allVars, vars, rebalancerVars, RTypeOK, CacheFollows, DrainFieldsAgree
    <2>2. QED
      BY <2>1, RNextSplit, ReadsKeepType, SwitchKeepsType, SaveKeepsType, OthersKeepType
  <1>3. QED
    BY <1>1, <1>2, PTL DEF RSpec

\* The rebalancer's copy of a status is, as long as its resourceVersion is
\* current, what the API server holds but for the rollback template.
THEOREM RTypeCorrect == RSpec => []RTypeOK
  BY RTypeInvariant, PTL

\* What the pass works with is well-formed whatever the rebalancer wrote
\* beside it.
THEOREM TypeCorrectBoth == RSpec => []TypeOK
  BY RTypeInvariant, PTL

\* A switch or a status write of the rebalancer between the recheck of the
\* drained node and the reduction touches neither the cordon nor the pods
\* (rebalancer.go:225-278; scalingpolicy_controller.go:802-849).
THEOREM NodeStaysEmptyBoth == RSpec => []EmptyAtReduce
  <1>1. RInit => EmptyAtReduce
    BY DEF RInit, Init, EmptyAtReduce
  <1>2. TypeOK /\ RTypeOK /\ EmptyAtReduce /\ [RNext]_allVars => EmptyAtReduce'
    <2> SUFFICES ASSUME TypeOK, RTypeOK, EmptyAtReduce, [RNext]_allVars PROVE EmptyAtReduce'
      OBVIOUS
    <2>1. CASE RSwitch \/ RSave
      <3>1. UNCHANGED <<pc, mem, cordoned, podAt>>
        BY <2>1 DEF RSwitch, RSave, passVars, workloadVars
      <3>2. QED
        BY <3>1 DEF EmptyAtReduce, PodsOn
    <2>2. OthersMove \/ RebalancerReads \/ UNCHANGED allVars => [Next]_vars
      BY OthersAreNext, ReadsTouchNothing DEF allVars
    <2>3. QED
      BY <2>1, <2>2, RNextSplit, EmptyAtReduceStep
  <1>3. QED
    BY <1>1, <1>2, RTypeInvariant, PTL DEF RSpec

\* An accepted status write of the rebalancer leaves the drain in progress and
\* the time of the last scaling as the pass recorded them.
THEOREM DrainSurvivesRebalancer == RSpec => RebalancerKeepsDrain
  <1>1. TypeOK /\ RTypeOK /\ [RNext]_allVars =>
          [rpc = "save" /\ rpc' = "wait"
             => /\ policy'.drainingNode = policy.drainingNode
                /\ policy'.drainingAge = policy.drainingAge
                /\ policy'.lastScaleAge = policy.lastScaleAge]_allVars
    <2> SUFFICES ASSUME TypeOK, RTypeOK, [RNext]_allVars, rpc = "save", rpc' = "wait"
                 PROVE  /\ policy'.drainingNode = policy.drainingNode
                        /\ policy'.drainingAge = policy.drainingAge
                        /\ policy'.lastScaleAge = policy.lastScaleAge
      OBVIOUS
    <2>1. CASE RSave
      BY <2>1 DEF RSave, RAccepted, RTypeOK, TypeOK, StatusOK, Status
    <2>2. CASE RebalancerReads \/ UNCHANGED allVars
      BY <2>2, ReadsTouchNothing DEF allVars, vars
    <2>3. CASE RSwitch
      BY <2>3 DEF RSwitch
    <2>4. ~OthersMove
      BY DEF OthersMove, PassBegins, PassMoves, PassSaves, PassCrashes, OtherWriter,
         RolloutReported, RTick, others, rebalancerVars
    <2>5. QED
      BY <2>1, <2>2, <2>3, <2>4, RNextSplit
  <1>2. QED
    BY <1>1, RTypeInvariant, PTL DEF RSpec, RebalancerKeepsDrain

-----------------------------------------------------------------------------
(* The MachineDeployment.                                                  *)
\* The rebalancer never changes spec.replicas, and what it does to a template
\* does not let the pass leave the bounds.
THEOREM ReplicasStayInBoundsBoth == RSpec => []ReplicasInBounds
  <1>1. RInit => BoundsInv
    BY BoundsAssumption DEF RInit, Init, InitMD, BoundsInv
  <1>2. TypeOK /\ RTypeOK /\ BoundsInv /\ [RNext]_allVars => BoundsInv'
    <2> SUFFICES ASSUME TypeOK, RTypeOK, BoundsInv, [RNext]_allVars PROVE BoundsInv'
      OBVIOUS
    <2>1. CASE RSwitch
      BY <2>1, SwitchIsPatch DEF passVars, BoundsInv, TypeOK, StatusOK
    <2>2. CASE RSave
      BY <2>2 DEF RSave, CachePolicy, BoundsInv, TypeOK, StatusOK
    <2>3. OthersMove \/ RebalancerReads \/ UNCHANGED allVars => [Next]_vars
      BY OthersAreNext, ReadsTouchNothing DEF allVars
    <2>4. QED
      BY <2>1, <2>2, <2>3, RNextSplit, BoundsStep
  <1>3. BoundsInv => ReplicasInBounds
    BY DEF BoundsInv, ReplicasInBounds
  <1>4. QED
    BY <1>1, <1>2, <1>3, RTypeInvariant, PTL DEF RSpec

\* The rebalancer's copies refer to templates that exist.
RTemplatesInv ==
  TemplatesInv /\ {rmd.tmpl, rmem.prevTemplate} \subseteq templates \cup {NoTemplate}

LEMMA TemplatesGrow == TypeOK /\ [Next]_vars => templates \subseteq templates'
  BY DEF Next, Pass, Environment, Begin, Observe, ListPending, DrainTimedOut, CheckDrain,
     RecheckPending, ReduceReplicas, RevertStalled, AwaitRollout, ScaleUp, KeepReplicas,
     CordonTarget, EvictPods, SwitchPlan, CreateTemplate, KeepPlan, SaveStatus, Crash, EndPass,
     ForeignWrite, SyncCache, ReportStatus, MachineStep, CreateMachine, BecomeReady,
     DeleteMachine, PodStep, PodsOnly, Tick, vars

\* Two writers create templates and refer to them; neither ever refers to one
\* before it exists.
THEOREM TemplatesAlwaysExistBoth == RSpec => []TemplatesExist
  <1>1. RInit => RTemplatesInv
    BY TemplatesInit DEF RInit, Init, RTemplatesInv, InitMD, NewStatus
  <1>2. TypeOK /\ RTypeOK /\ RTemplatesInv /\ [RNext]_allVars => RTemplatesInv'
    <2> SUFFICES ASSUME TypeOK, RTypeOK, RTemplatesInv, [RNext]_allVars PROVE RTemplatesInv'
      OBVIOUS
    <2>1. CASE RSwitch
      <3>1. PICK t \in Template :
              /\ CreateTemplate(t) /\ rmem' = Replaced(rmd.tmpl)
              /\ \/ md' = RPatched(t) /\ rmd' = md'
                 \/ rmd' = [rmd EXCEPT !.tmpl = t] /\ md' = md
        BY <2>1 DEF RSwitch
      <3>2. t \in templates' /\ templates \subseteq templates'
        BY <3>1 DEF CreateTemplate
      <3>3. md'.tmpl \in {md.tmpl, t} /\ rmd'.tmpl = t /\ rmem'.prevTemplate = rmd.tmpl
        BY <3>1 DEF RPatched, Replaced, TypeOK, DeploymentOK, Deployment, RTypeOK, Status
      <3>4. cache'.md.tmpl \in {cache.md.tmpl, md'.tmpl} /\ cache'.policy = cache.policy
            /\ UNCHANGED <<policy, mem, memMD>>
        BY <2>1, SwitchIsPatch DEF TypeOK, StatusOK, passVars
      <3>5. QED
        BY <3>2, <3>3, <3>4 DEF RTemplatesInv, TemplatesInv
    <2>2. CASE RSave
      <3>1. /\ policy' \in {policy, rmem} /\ cache'.policy \in {cache.policy, rmem}
            /\ cache'.md = cache.md
            /\ UNCHANGED <<md, templates, mem, memMD>>
            /\ rmem' = NewStatus /\ rmd' = InitMD
        BY <2>2 DEF RSave, CachePolicy, REndCycle, TypeOK, StatusOK
      <3>2. QED
        BY <3>1 DEF RTemplatesInv, TemplatesInv, NewStatus, InitMD
    <2>3. CASE RebalancerReads
      <3>1. rmem' \in {rmem, cache.policy, NewStatus} /\ rmd' \in {rmd, cache.md, InitMD}
        BY <2>3 DEF RebalancerReads, RList, RSkip, RInspect, RGiveUp, RKeepPlan, RCrash, REndCycle
      <3>2. QED
        BY <2>3, <3>1, ReadsTouchNothing DEF vars, passVars, RTemplatesInv, TemplatesInv, NewStatus,
           InitMD
    <2>4. CASE OthersMove
      <3>1. rmd' = rmd /\ rmem'.prevTemplate = rmem.prevTemplate
        BY <2>4, AgedTyped DEF OthersMove, PassBegins, PassMoves, PassSaves, PassCrashes, OtherWriter,
           RolloutReported, RTick, others, rebalancerVars, RTypeOK
      <3>2. QED
        BY <2>4, <3>1, OthersAreNext, TemplatesStep, TemplatesGrow DEF RTemplatesInv
    <2>5. CASE UNCHANGED allVars
      BY <2>5 DEF allVars, vars, passVars, rebalancerVars, RTemplatesInv, TemplatesInv
    <2>6. QED
      BY <2>1, <2>2, <2>3, <2>4, <2>5, RNextSplit
  <1>3. RTemplatesInv => TemplatesExist
    BY DEF RTemplatesInv, TemplatesInv, TemplatesExist
  <1>4. QED
    BY <1>1, <1>2, <1>3, RTypeInvariant, PTL DEF RSpec

\* A change of size and a change of plan never undo each other: a merge patch
\* names one field, whatever its author's copy says of the other.
THEOREM PatchesAlwaysCompose == RSpec => PatchesCompose
  <1>1. TypeOK /\ RTypeOK /\ [RNext]_allVars => [md'.replicas # md.replicas => md'.tmpl = md.tmpl]_allVars
    <2> SUFFICES ASSUME TypeOK, RTypeOK, [RNext]_allVars PROVE md'.replicas = md.replicas \/ md'.tmpl = md.tmpl
      OBVIOUS
    <2> USE DEF TypeOK, DeploymentOK, Deployment
    <2>1. CASE RSwitch
      BY <2>1, SwitchIsPatch
    <2>2. CASE RSave \/ RebalancerReads \/ UNCHANGED allVars
      BY <2>2, ReadsTouchNothing DEF RSave, allVars, vars
    <2>3. CASE ReduceReplicas \/ ScaleUp
      BY <2>3 DEF ReduceReplicas, ScaleUp, PatchMD, PatchFails, MergePatch
    <2>4. CASE RevertStalled
      BY <2>4 DEF RevertStalled, PatchMD, PatchFails, MergePatch
    <2>5. CASE SwitchPlan
      <3>1. PICK t \in Template : PatchMD([memMD EXCEPT !.tmpl = t]) \/ PatchFails([memMD EXCEPT !.tmpl = t])
        BY <2>5 DEF SwitchPlan, WorthSwitching
      <3>2. QED
        BY <3>1 DEF PatchMD, PatchFails, MergePatch
    <2>6. CASE ReportStatus
      BY <2>6 DEF ReportStatus
    <2>7. CASE UNCHANGED md
      BY <2>7
    <2>8. OthersMove => ReduceReplicas \/ ScaleUp \/ RevertStalled \/ SwitchPlan \/ ReportStatus \/ UNCHANGED md
      BY DEF OthersMove, PassBegins, Begin, PassMoves, Observe, ListPending, DrainTimedOut, CheckDrain,
         RecheckPending, AwaitRollout, KeepReplicas, CordonTarget, EvictPods, KeepPlan, PassSaves,
         SaveStatus, PassCrashes, Crash, EndPass, OtherWriter, ForeignWrite, vars, RolloutReported,
         RTick, Tick, MachineStep, CreateMachine, BecomeReady, DeleteMachine, PodStep, PodsOnly
    <2>9. QED
      BY <2>1, <2>2, <2>3, <2>4, <2>5, <2>6, <2>7, <2>8, RNextSplit
  <1>2. QED
    BY <1>1, RTypeInvariant, PTL DEF RSpec, PatchesCompose

-----------------------------------------------------------------------------
(* The cooldown.  Three copies of lastRebalanceTime exist; the rebalancer's *)
(* own is the API server's whenever it decides, because the pass can only   *)
(* write back, over an unchanged object, the value it read from it.         *)
CooldownInv ==
  /\ sinceRecorded = stamp.api
  /\ fresh => stamp.pass = stamp.api
  /\ rpc \in {"get", "select"} => stamp.mine = stamp.api
  /\ rpc = "select" => ~Within(stamp.mine, Cooldown)

LEMMA CooledStaysCooled ==
  ASSUME NEW age \in Age, ~Within(age, Cooldown)
  PROVE  ~Within(Aged(age), Cooldown)
  BY TimesAssumption, CooldownAssumption DEF Within, Aged, Age, NoTime

LEMMA CooldownStep ==
  ASSUME TypeOK, RTypeOK, CooldownInv, [RNext]_allVars
  PROVE  CooldownInv'
  <1> USE DEF CooldownInv
  <1>t. stamp \in Stamp
    BY DEF RTypeOK
  <1>1. CASE RList \/ RSkip \/ RGiveUp \/ RCrash
    BY <1>1, <1>t DEF Stamp, RList, RSkip, RGiveUp, RCrash, REndCycle, vars, passVars
  <1>2. CASE RInspect \/ RKeepPlan
    BY <1>2 DEF RInspect, RKeepPlan, CoolingDown, vars, passVars
  <1>3. CASE RSwitch
    BY <1>3, <1>t DEF Stamp, RSwitch, passVars
  <1>4. CASE RSave
    <2>1. rpc' = "wait"
      BY <1>4 DEF RSave, REndCycle
    <2>2. CASE RAccepted
      <3>1. fresh' = FALSE /\ stamp' = [stamp EXCEPT !.api = stamp.mine, !.mine = NoTime]
            /\ sinceRecorded' = IF stamp.mine # stamp.api THEN stamp.mine ELSE sinceRecorded
        BY <1>4, <2>2 DEF RSave
      <3>2. stamp'.api = stamp.mine
        BY <3>1, <1>t DEF Stamp
      <3>3. QED
        BY <2>1, <3>1, <3>2
    <2>3. CASE ~RAccepted
      <3>1. fresh' = fresh /\ stamp' = [stamp EXCEPT !.mine = NoTime] /\ sinceRecorded' = sinceRecorded
        BY <1>4, <2>3 DEF RSave
      <3>2. stamp'.api = stamp.api /\ stamp'.pass = stamp.pass
        BY <3>1, <1>t DEF Stamp
      <3>3. QED
        BY <2>1, <3>1, <3>2
    <2>4. QED
      BY <2>2, <2>3
  <1>5. CASE PassBegins \/ PassCrashes
    BY <1>5, <1>t DEF Stamp, PassBegins, PassCrashes, Crash, EndPass, others
  <1>6. CASE PassMoves
    BY <1>6, PassMovesKeepPolicy DEF PassMoves, rebalancerVars
  <1>7. CASE PassSaves
    BY <1>7, <1>t DEF Stamp, PassSaves, SaveStatus, Accepted, EndPass
  <1>8. CASE OtherWriter
    BY <1>8 DEF OtherWriter, ForeignWrite, vars, passVars
  <1>9. CASE RolloutReported
    BY <1>9 DEF RolloutReported, ReportStatus, vars, passVars
  <1>10. CASE RTick
    <2>1. stamp' = [c \in {"api", "pass", "mine"} |-> Aged(stamp[c])] /\ UNCHANGED <<fresh, rpc>>
          /\ sinceRecorded' = Aged(sinceRecorded)
      BY <1>10, <1>t, StampEdits DEF RTick, Tick
    <2>2. rpc = "select" => ~Within(Aged(stamp.mine), Cooldown)
      BY <1>t, StampEdits, CooledStaysCooled
    <2>3. QED
      BY <2>1, <2>2
  <1>11. CASE (MachineStep \/ PodStep) /\ UNCHANGED rebalancerVars
    BY <1>11 DEF rebalancerVars, MachineStep, CreateMachine, BecomeReady, DeleteMachine, PodStep,
       PodsOnly, passVars
  <1>12. CASE UNCHANGED allVars
    BY <1>12 DEF allVars, vars, passVars, rebalancerVars
  <1>13. QED
    BY <1>1, <1>2, <1>3, <1>4, <1>5, <1>6, <1>7, <1>8, <1>9, <1>10, <1>11, <1>12, RNextSplit
       DEF OthersMove, RebalancerReads

\* Once a switch of the rebalancer is recorded, the rebalancer does not switch
\* again within the cooldown: no write of the pass takes the record back.
THEOREM CooldownAlwaysHonoured == RSpec => CooldownHonoured
  <1>1. RInit => CooldownInv
    BY DEF RInit, Init, CooldownInv
  <1>2. CooldownInv => [rpc = "select" /\ md'.tmpl # md.tmpl /\ UNCHANGED pc
                          => ~Within(sinceRecorded, Cooldown)]_allVars
    BY DEF CooldownInv
  <1>3. QED
    BY <1>1, <1>2, CooldownStep, RTypeInvariant, PTL DEF RSpec, CooldownHonoured
=============================================================================
