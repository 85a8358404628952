SPECIFICATION Spec
CONSTANTS
  q1 = q1  q2 = q2  ordinary = ordinary  a = a  b = b
  Pool = {a}
  Pod = {q1, q2, ordinary}
  Oversized = {q1, q2}
  Fits <- OnePool
  Price <- OnePrice
  NoPool = NoPool
  MaxPools = 2
  MaxReplicas = 2
  ScaleDownDelay = 1
  AgeCap = 1
  Faults = {"lag", "lost", "workload", "count", "write", "external", "dryrun"}
INVARIANTS TypeOK PoolReplicasBounded ListWithinLimit
