SPECIFICATION Spec
CONSTANTS
  n1 = n1  n2 = n2  n3 = n3
  p1 = p1  p2 = p2  p3 = p3
  t1 = t1  t2 = t2  t3 = t3
  Node = {n1, n2, n3}
  Pod = {p1, p2, p3}
  Template = {t1}
  InitTemplate = t1
  Broken = {}
  Price <- OnePrice
  Oversized = {p3}
  NodePoolsEnabled = TRUE
  NoNode = NoNode
  NoTemplate = NoTemplate
  MinReplicas = 1
  MaxReplicas = 3
  MaxUnavailable = 0
  NodeCapacity = 1
  ScaleDownThreshold = 75
  DrainTimeout = 1
  RolloutStallTimeout = 1
  Stabilization = 2
  AgeCap = 2
  Faults = {"evict", "patch"}
SYMMETRY Workloads
INVARIANTS EmptyAtReduce NoOrphanCordon
PROPERTIES OneDrainPerReduction StabilizationHonoured RefinesScaleDown
