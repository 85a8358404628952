----------------------------- MODULE Rebalancer -----------------------------
(***************************************************************************)
(* Rebalancer: the goroutine that looks for cheaper plans on a ticker,     *)
(* beside the reconciler.  The two share one process and nothing else that *)
(* orders them: both switch the plan of the same MachineDeployment with    *)
(* switchPlan, and both write the whole status of the same policy, each    *)
(* from a copy of its own that the other may have outdated.                *)
(*                                                                         *)
(* The reconciler is the module extended here, step by step as it is; this *)
(* module adds the rebalancer's cycle, the one status field only it sets,  *)
(* and what either writer does to the other's copy.  The policy is one with *)
(* spec.rebalancing.enabled; of any other List returns nothing, and        *)
(* Reconciler alone is its model.  The informer is taken to follow the API *)
(* server: what the rebalancer reads grows old while its cycle is under    *)
(* way, not before.                                                        *)
(***************************************************************************)
EXTENDS Reconciler

CONSTANT Cooldown   \* spec.rebalancing.cooldownPeriod, in ticks

ASSUME CooldownAssumption == Cooldown \in Nat /\ Cooldown <= AgeCap
ASSUME InformerAssumption == ~CanFail("stale")

VARIABLES
  rolling,     \* status.upToDateReplicas differs from status.replicas
  rpc,         \* the call the rebalancer is at; "wait" between cycles
  rmem, rmd,   \* its copies of the policy and of the MachineDeployment
  rfresh,      \* the resourceVersion of rmem is still the current one
  stamp,       \* status.lastRebalanceTime, as an age, in each copy of the status:
               \* the API server's, the pass's and the rebalancer's
  sinceRecorded \* history: the age of the rebalancer's last switch whose
                \* status write was accepted

rebalancerVars == <<rolling, rpc, rmem, rmd, rfresh, stamp, sinceRecorded>>
allVars == <<vars, rebalancerVars>>

Stamp == [api : Age, pass : Age, mine : Age]
MinReplicasForRebalance == 2

RInit ==
  /\ Init
  /\ rolling = FALSE
  /\ rpc = "wait" /\ rmem = NewStatus /\ rmd = InitMD /\ rfresh = FALSE
  /\ stamp = [api |-> NoTime, pass |-> NoTime, mine |-> NoTime]
  /\ sinceRecorded = NoTime

(***************************************************************************)
(* One cycle.                                                              *)
(***************************************************************************)
\* List returns the informer's copies of the policies.
RList ==
  /\ rpc = "wait" /\ rpc' = "get"
  /\ rmem' = cache.policy /\ rfresh' = cache.latest
  /\ stamp' = [stamp EXCEPT !.mine = stamp.api]
  /\ UNCHANGED <<vars, rolling, rmd, sinceRecorded>>

CoolingDown == Within(stamp.mine, Cooldown)

REndCycle ==
  /\ rpc' = "wait" /\ rmem' = NewStatus /\ rmd' = InitMD /\ rfresh' = FALSE
  /\ UNCHANGED rolling

\* Nothing is written while the cooldown lasts.
RSkip ==
  /\ rpc = "get" /\ CoolingDown
  /\ REndCycle /\ stamp' = [stamp EXCEPT !.mine = NoTime]
  /\ UNCHANGED <<vars, sinceRecorded>>

\* Get the MachineDeployment; with too few replicas, or in a rollout, only a
\* condition is written.
RInspect ==
  /\ rpc = "get" /\ ~CoolingDown
  /\ rmd' = cache.md
  /\ rpc' = IF cache.md.replicas < MinReplicasForRebalance \/ rolling
              THEN "save" ELSE "select"
  /\ UNCHANGED <<vars, rolling, rmem, rfresh, stamp, sinceRecorded>>

\* No pricing cache yet, prices or plan not available, or a dry run: the cycle
\* ends without a write.
RGiveUp ==
  /\ rpc = "select"
  /\ REndCycle /\ stamp' = [stamp EXCEPT !.mine = NoTime]
  /\ UNCHANGED <<vars, sinceRecorded>>

\* No better plan, or creating its template fails.
RKeepPlan ==
  /\ rpc = "select" /\ rpc' = "save"
  /\ UNCHANGED <<vars, rolling, rmem, rmd, rfresh, stamp, sinceRecorded>>

WholeObject(t) == [rmd EXCEPT !.tmpl = t, !.ready = md.ready]   \* mutant: Update for Patch
\* switchPlan's merge patch names the infrastructureRef and nothing else.
RPatched(t) == [md EXCEPT !.tmpl = t]

StatusAnew(t) == [NewStatus EXCEPT !.prevTemplate = t]   \* mutant
Replaced(t) == [rmem EXCEPT !.prevTemplate = t]

\* switchPlan; lastRebalanceTime is set only if it succeeds.
RSwitch ==
  /\ rpc = "select" /\ rpc' = "save"
  /\ \E t \in Template :
       /\ Price[t] < Price[rmd.tmpl]
       /\ CreateTemplate(t)
       /\ rmem' = Replaced(rmd.tmpl)
       /\ \/ /\ md' = RPatched(t) /\ rmd' = md' /\ CacheMD(md')
             /\ stamp' = [stamp EXCEPT !.mine = 0]
             /\ sinceSwitch' = 0 /\ switchedFrom' = md.tmpl
          \/ /\ CanFail("patch") /\ rmd' = [rmd EXCEPT !.tmpl = t]
             /\ UNCHANGED <<md, cache, stamp, sinceSwitch, switchedFrom>>
  /\ UNCHANGED <<policy, passVars, workloadVars, claim, sinceUp,
                 rolling, rfresh, sinceRecorded>>

Overwrites == TRUE   \* mutant: no optimistic locking
RAccepted == rfresh
\* Status().Update.  A write the API server accepts outdates the pass's copy.
RSave ==
  /\ rpc = "save" /\ REndCycle
  /\ \/ /\ RAccepted
        /\ policy' = rmem /\ CachePolicy(rmem) /\ fresh' = FALSE
        /\ stamp' = [stamp EXCEPT !.api = stamp.mine, !.mine = NoTime]
        /\ sinceRecorded' = IF stamp.mine # stamp.api THEN stamp.mine ELSE sinceRecorded
     \/ /\ ~RAccepted
        /\ stamp' = [stamp EXCEPT !.mine = NoTime]
        /\ UNCHANGED <<policy, cache, fresh, sinceRecorded>>
  /\ UNCHANGED <<md, templates, pc, mem, memMD, dryRun, basePlan, target, pending,
                 workloadVars, history>>

\* The process stops, or the API server fails the write.
RCrash ==
  /\ rpc # "wait" /\ CanFail("crash")
  /\ REndCycle /\ stamp' = [stamp EXCEPT !.mine = NoTime]
  /\ UNCHANGED <<vars, sinceRecorded>>

RCycle == RList \/ RSkip \/ RInspect \/ RGiveUp \/ RKeepPlan \/ RSwitch \/ RSave

(***************************************************************************)
(* The reconciler and the environment, with what they do to the state here. *)
(***************************************************************************)
others == <<rolling, rpc, rmem, rmd, rfresh, sinceRecorded>>

PassBegins == /\ Begin /\ stamp' = [stamp EXCEPT !.pass = stamp.api]
              /\ UNCHANGED others
\* A status write of the pass outdates the rebalancer's copy and carries the
\* lastRebalanceTime that the pass read.
PassSaves ==
  /\ SaveStatus
  /\ IF Accepted
       THEN /\ rfresh' = FALSE
            /\ stamp' = [stamp EXCEPT !.api = stamp.pass, !.pass = NoTime]
       ELSE stamp' = [stamp EXCEPT !.pass = NoTime] /\ UNCHANGED rfresh
  /\ UNCHANGED <<rolling, rpc, rmem, rmd, sinceRecorded>>
PassCrashes == Crash /\ stamp' = [stamp EXCEPT !.pass = NoTime] /\ UNCHANGED others
PassMoves ==
  /\ \/ Observe \/ ListPending \/ DrainTimedOut \/ CheckDrain \/ RecheckPending
     \/ ReduceReplicas \/ RevertStalled \/ AwaitRollout \/ ScaleUp \/ KeepReplicas
     \/ CordonTarget \/ EvictPods \/ SwitchPlan \/ KeepPlan
  /\ UNCHANGED rebalancerVars

\* Another client's write outdates both copies.
OtherWriter ==
  /\ \/ ForeignWrite
     \/ CanFail("conflict") /\ rfresh /\ UNCHANGED vars
  /\ rfresh' = FALSE
  /\ UNCHANGED <<rolling, rpc, rmem, rmd, stamp, sinceRecorded>>
\* The MachineDeployment controller writes its replica counts together.
RolloutReported ==
  /\ rolling' = (Outdated # {})
  /\ \/ ReportStatus
     \/ rolling # rolling' /\ md.ready = Cardinality(Ready) /\ UNCHANGED vars
  /\ UNCHANGED <<rpc, rmem, rmd, rfresh, stamp, sinceRecorded>>
RTick ==
  /\ Tick /\ rmem' = AgedStatus(rmem)
  /\ stamp' = [c \in DOMAIN stamp |-> Aged(stamp[c])]
  /\ sinceRecorded' = Aged(sinceRecorded)
  /\ UNCHANGED <<rolling, rpc, rmd, rfresh>>

RNext ==
  \/ PassBegins \/ PassMoves \/ PassSaves \/ PassCrashes
  \/ RCycle \/ RCrash
  \/ OtherWriter \/ RolloutReported \/ RTick
  \/ (MachineStep \/ PodStep) /\ UNCHANGED rebalancerVars
RSpec == RInit /\ [][RNext]_allVars

-----------------------------------------------------------------------------
(***************************************************************************)
(* Properties.                                                             *)
(***************************************************************************)
\* The rebalancer's variables hold values of their kind, and a copy whose
\* resourceVersion is current is the API server's status in every field but
\* the two that a switch sets in it.
RTypeOK ==
  /\ rolling \in BOOLEAN /\ rfresh \in BOOLEAN
  /\ rpc \in {"wait", "get", "select", "save"}
  /\ rmem \in Status /\ DrainFieldsAgree(rmem) /\ rmd \in Deployment
  /\ stamp \in Stamp /\ sinceRecorded \in Age
  /\ rfresh => rmem = [policy EXCEPT !.prevTemplate = rmem.prevTemplate]

\* The rebalancer does not switch plans again within the cooldown of a switch
\* that it has recorded, although the pass writes the same status object in
\* the meantime from an older copy (rebalancer.go:98-107, 264-278).
CooldownHonoured ==
  [][rpc = "select" /\ md'.tmpl # md.tmpl /\ UNCHANGED pc
       => ~Within(sinceRecorded, Cooldown)]_allVars

\* Whichever of the two wrote last, no accepted status write of the rebalancer
\* undoes what the pass recorded of its drain and of its scaling
\* (rebalancer.go:156, 278; scalingpolicy_controller.go:406).
RebalancerKeepsDrain ==
  [][rpc = "save" /\ rpc' = "wait"
       => /\ policy'.drainingNode = policy.drainingNode
          /\ policy'.drainingAge = policy.drainingAge
          /\ policy'.lastScaleAge = policy.lastScaleAge]_allVars

\* A change of size never undoes a change of plan, nor the other way round:
\* both writers patch the same object from copies of different ages
\* (scalingpolicy_controller.go:577-579, 847-849, 973-975).
PatchesCompose ==
  [][md'.replicas # md.replicas => md'.tmpl = md.tmpl]_allVars
=============================================================================
