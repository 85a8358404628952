SPECIFICATION Spec
CONSTANTS
  big = big  wide = wide  plain = plain  picky = picky  daemon = daemon
  small = small  tall = tall  old = old  spot = spot
  n1 = n1  n2 = n2  n3 = n3
  SimPod = {big, wide, plain, picky, daemon}
  PodSpec <- Specs
  Requested <- Totals
  NodeLabels <- Labels
  NodeTaints <- Taints
  Quantity <- Quantities
  Core = 10
  KubeletCPU = 1
  MB = 2
  KubeletRAM = 1
  Plan = {small, tall, old, spot}
  Offered = {small, tall, spot}
  PlanSpec <- Catalogue
  Allocatable <- Reported
  InitPlan = old
  NoPlan = NoPlan
  NodeName = {n1, n2, n3}
  NoNode = NoNode
  MinReplicas = 1
  MaxReplicas = 2
  Constraints <- Limits
  MinSavingsPercent = 15
  ScaleUpThreshold = 75
  ScaleDownThreshold = 60
  Usage <- Loads
  Unknowns = {"workload", "metrics", "plan", "switch"}
INVARIANTS VTypeOK SafeMeansFit BlockedMeansNoFit BestIsChosen
PROPERTIES SwitchHoldsTotal SwitchSaves
SYMMETRY SameNodes
