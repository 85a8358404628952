--------------------------- MODULE MCPricingCache ---------------------------
(* Two plans of two categories; the later edition adds a category.         *)
EXTENDS PricingCache, TLC

CONSTANTS k1, k2, s1, s2, std, gpu, rec, reb

PlanCategories == (s1 :> k1) @@ (s2 :> k2)
CategoryNames == (k1 :> std) @@ (k2 :> gpu)
PriceLists == (0 :> {s1}) @@ (1 :> {s1, s2})
=============================================================================
