--------------------------- MODULE MCRebalancer ---------------------------
(* The model values of MCReconciler serve the rebalancer as well.          *)
EXTENDS Rebalancer, MCReconciler

\* What is not read any more: history variables, the copies of a
\* MachineDeployment after the last patch, and of what is in a status whose
\* write will be refused the parts that decide nothing.
WithoutUnread ==
  <<policy, md, templates, cache, workloadVars,
    pc, mem, IF pc = "save" THEN InitMD ELSE memMD, fresh, dryRun, basePlan, target, pending,
    rolling, rpc, IF rfresh THEN rmem ELSE NewStatus, IF rpc = "select" THEN rmd ELSE InitMD,
    rfresh, stamp.api, IF fresh THEN stamp.pass ELSE NoTime,
    IF rfresh \/ rpc = "get" THEN stamp.mine ELSE NoTime, sinceRecorded>>
===========================================================================
