SPECIFICATION FairSpec
CONSTANTS
  q1 = q1  q2 = q2  ordinary = ordinary  a = a  b = b
  Pool = {a, b}
  Pod = {q1, q2, ordinary}
  Oversized = {q1, q2}
  Fits <- CheapAndLarge
  Price <- Prices
  NoPool = NoPool
  MaxPools = 1
  MaxReplicas = 2
  ScaleDownDelay = 1
  AgeCap = 1
  Faults = {"count", "external"}
INVARIANTS EveryPoolListed PoolLimit PoolHasTemplate
PROPERTIES UsedPoolKept RefinesSatellites IdlePoolRemoved
