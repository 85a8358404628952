SPECIFICATION FairSpec
CONSTANTS
  k1 = k1  k2 = k2
  s1 = s1  s2 = s2
  std = std  gpu = gpu
  rec = rec  reb = reb
  Caller = {rec, reb}
  Rebalancer = reb
  Plan = {s1, s2}
  Category = {k1, k2}
  Name = {std, gpu}
  CategoryOf <- PlanCategories
  NameOf <- CategoryNames
  Listed <- PriceLists
  LastEdition = 1
  Allowed = {std}
  Interval = 1
  AgeCap = 1
  NoCaller = NoCaller
INVARIANTS PTypeOK
PROPERTIES RefinesPriceList OldPricesOnlyByOverlap PublishedPricesArrive 
