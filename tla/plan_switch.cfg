SPECIFICATION Spec
CONSTANTS
  n1 = n1  n2 = n2  n3 = n3
  p1 = p1  p2 = p2  p3 = p3
  t1 = t1  t2 = t2  t3 = t3
  Node = {n1, n2}
  Pod = {p1}
  Template = {t1, t2, t3}
  InitTemplate = t1
  Broken = {t3}
  Price <- ThreePrices
  Oversized = {}
  NodePoolsEnabled = FALSE
  NoNode = NoNode
  NoTemplate = NoTemplate
  MinReplicas = 1
  MaxReplicas = 2
  MaxUnavailable = 1
  NodeCapacity = 1
  ScaleDownThreshold = 75
  DrainTimeout = 0
  RolloutStallTimeout = 0
  Stabilization = 1
  AgeCap = 1
  Faults = {"evict", "plan", "dryrun"}
SYMMETRY Workloads
PROPERTIES RevertUndoesLastSwitch RefinesRollout
