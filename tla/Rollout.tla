------------------------------ MODULE Rollout ------------------------------
(***************************************************************************)
(* What the reconciler promises of the plan of its machines: it changes to *)
(* a cheaper one, the plan left by the last change is kept for as long as  *)
(* the new one may yet fail, and going back to that plan is the only way   *)
(* to one that costs more, at most once for each change.                   *)
(***************************************************************************)
EXTENDS Integers

CONSTANTS Template, InitTemplate, NoTemplate, Price

VARIABLES
  plan,   \* the plan the machines are being brought to
  undo    \* the plan to go back to, or NoTemplate

Init == plan = InitTemplate /\ undo = NoTemplate

Switch(t) == Price[t] < Price[plan] /\ plan' = t /\ undo' = plan
Settle == undo' = NoTemplate /\ UNCHANGED plan
Revert == undo # NoTemplate /\ plan' = undo /\ undo' = NoTemplate

Next == Settle \/ Revert \/ \E t \in Template : Switch(t)
Spec == Init /\ [][Next]_<<plan, undo>>
=============================================================================
