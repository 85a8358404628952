---------------------------- MODULE PricingCache ----------------------------
(***************************************************************************)
(* pricing.Cache: the plans and prices of one policy, shared by the        *)
(* reconciler and the rebalancer's goroutine.  The freshness test, the     *)
(* fetches and the store are three separate sections, so two refreshes may *)
(* overlap; only the store and each read are under the RWMutex, here field *)
(* by field.                                                               *)
(*                                                                         *)
(* VPSie publishes editions of its price list, numbered as they appear; a  *)
(* fetched offer is a plan with the edition its price is of.               *)
(***************************************************************************)
EXTENDS Integers, FiniteSets

CONSTANTS
  Caller, Rebalancer,  \* goroutines; Rebalancer is one of them
  Plan, Category, Name,
  CategoryOf, NameOf,  \* of a plan; of a category, in lower case
  Listed,              \* Listed[e]: the plans of edition e
  LastEdition,
  Allowed,             \* spec.allowedCategories, none for all
  Interval,            \* refreshInterval, in ticks
  AgeCap,
  NoCaller

Edition == 0 .. LastEdition
NoTime == -1
Offer == [plan : Plan, edition : Edition]

ASSUME PricingAssumption ==
  /\ Rebalancer \in Caller /\ NoCaller \notin Caller
  /\ CategoryOf \in [Plan -> Category] /\ NameOf \in [Category -> Name]
  /\ LastEdition \in Nat /\ Listed \in [Edition -> SUBSET Plan]
  /\ Allowed \subseteq Name
  /\ AgeCap \in Nat /\ Interval \in 1 .. AgeCap

VARIABLES
  published,   \* the edition VPSie answers with
  categories, plans, nameMap,  \* the cache's fields
  age,         \* time since lastRefresh; NoTime while it is zero
  writer,      \* who holds the lock for writing, or NoCaller
  readers,     \* who holds it for reading
  pc,          \* pc[c]: the call c is at
  cats, todo, draft, names,  \* the local variables of c's Refresh
  seen,        \* seen[c]: the answer c got last in its pass
  overtaken    \* history: another refresh was stored while c was fetching

cacheVars == <<categories, plans, nameMap, age>>
lockVars == <<writer, readers>>
refreshVars == <<cats, todo, draft, names>>
vars == <<published, cacheVars, lockVars, pc, refreshVars, seen, overtaken>>

Calls == {"idle", "categories", "plans", "storeCategories", "storePlans", "storeNames",
          "storeTime", "find", "list", "lookup", "filter"}
NoAnswer == [kind |-> "none", found |-> {}]

Init ==
  /\ published = 0
  /\ categories = {} /\ plans = {} /\ nameMap = {} /\ age = NoTime
  /\ writer = NoCaller /\ readers = {}
  /\ pc = [c \in Caller |-> "idle"]
  /\ cats = [c \in Caller |-> {}] /\ todo = [c \in Caller |-> {}]
  /\ draft = [c \in Caller |-> {}] /\ names = [c \in Caller |-> {}]
  /\ seen = [c \in Caller |-> NoAnswer]
  /\ overtaken = [c \in Caller |-> FALSE]

GoTo(c, call) == pc' = [pc EXCEPT ![c] = call]

Unlocked == TRUE   \* mutant
MayRead == writer = NoCaller
MayWrite == writer = NoCaller /\ readers = {}

(***************************************************************************)
(* Refreshing.                                                             *)
(***************************************************************************)
NeverStale == TRUE   \* mutant
Fresh == age # NoTime /\ age < Interval

EnsureFresh(c) ==
  /\ pc[c] = "idle" /\ MayRead
  /\ GoTo(c, IF Fresh THEN "find" ELSE "categories")
  /\ seen' = [seen EXCEPT ![c] = NoAnswer]
  /\ UNCHANGED <<published, cacheVars, lockVars, refreshVars, overtaken>>

CategoriesOf(edition) == {CategoryOf[p] : p \in Listed[edition]}
\* Of two categories whose names differ in case only, the later one counts.
NameMaps(cs) ==
  {m \in SUBSET {<<NameOf[k], k>> : k \in cs} :
     \A k \in cs : Cardinality({e \in m : e[1] = NameOf[k]}) = 1}

AppendToCached == plans   \* mutant: the refresh does not start from nothing
NoPlans == {}

FetchCategories(c) ==
  /\ pc[c] = "categories" /\ GoTo(c, "plans")
  /\ cats' = [cats EXCEPT ![c] = CategoriesOf(published)]
  /\ todo' = [todo EXCEPT ![c] = CategoriesOf(published)]
  /\ draft' = [draft EXCEPT ![c] = NoPlans]
  /\ \E m \in NameMaps(CategoriesOf(published)) : names' = [names EXCEPT ![c] = m]
  /\ overtaken' = [overtaken EXCEPT ![c] = FALSE]
  /\ UNCHANGED <<published, cacheVars, lockVars, seen>>

\* The pass ends with FetchCategories' error.
FetchFails(c) ==
  /\ pc[c] = "categories" /\ GoTo(c, "idle")
  /\ UNCHANGED <<published, cacheVars, lockVars, refreshVars, seen, overtaken>>

Offers(k) == {[plan |-> p, edition |-> published] :
               p \in {q \in Listed[published] : CategoryOf[q] = k}}
Fetched(c, k) == draft' = [draft EXCEPT ![c] = @ \cup Offers(k)]

FetchPlans(c, k) ==
  /\ pc[c] = "plans" /\ k \in todo[c]
  /\ todo' = [todo EXCEPT ![c] = @ \ {k}] /\ Fetched(c, k)
  /\ UNCHANGED <<published, cacheVars, lockVars, pc, cats, names, seen, overtaken>>
\* A category whose plans cannot be fetched is left out.
SkipCategory(c, k) ==
  /\ pc[c] = "plans" /\ k \in todo[c]
  /\ todo' = [todo EXCEPT ![c] = @ \ {k}]
  /\ UNCHANGED <<published, cacheVars, lockVars, pc, cats, draft, names, seen, overtaken>>

Lock(c) ==
  /\ pc[c] = "plans" /\ todo[c] = {} /\ MayWrite
  /\ writer' = c /\ GoTo(c, "storeCategories")
  /\ UNCHANGED <<published, cacheVars, readers, refreshVars, seen, overtaken>>
StoreCategories(c) ==
  /\ pc[c] = "storeCategories" /\ categories' = cats[c] /\ GoTo(c, "storePlans")
  /\ UNCHANGED <<published, plans, nameMap, age, lockVars, refreshVars, seen, overtaken>>
StorePlans(c) ==
  /\ pc[c] = "storePlans" /\ plans' = draft[c] /\ GoTo(c, "storeNames")
  /\ overtaken' = [d \in Caller |-> overtaken[d] \/ (pc[d] = "plans")]
  /\ UNCHANGED <<published, categories, nameMap, age, lockVars, refreshVars, seen>>
StoreNames(c) ==
  /\ pc[c] = "storeNames" /\ nameMap' = names[c] /\ GoTo(c, "storeTime")
  /\ UNCHANGED <<published, categories, plans, age, lockVars, refreshVars, seen, overtaken>>
StoreTime(c) ==
  /\ pc[c] = "storeTime" /\ age' = 0 /\ writer' = NoCaller /\ GoTo(c, "find")
  /\ cats' = [cats EXCEPT ![c] = {}] /\ draft' = [draft EXCEPT ![c] = {}]
  /\ names' = [names EXCEPT ![c] = {}] /\ overtaken' = [overtaken EXCEPT ![c] = FALSE]
  /\ UNCHANGED <<published, categories, plans, nameMap, readers, todo, seen>>

(***************************************************************************)
(* Reading.                                                                *)
(***************************************************************************)
Answer(c, kind, found) == seen' = [seen EXCEPT ![c] = [kind |-> kind, found |-> found]]

\* The rebalancer gives up if the current plan is not found.
FindPlanByID(c) ==
  /\ pc[c] = "find" /\ MayRead
  /\ \E p \in Plan :
       LET found == {o \in plans : o.plan = p} IN
       /\ Answer(c, "plan", found)
       /\ GoTo(c, IF c # Rebalancer THEN "list" ELSE IF found = {} THEN "idle" ELSE "lookup")
  /\ UNCHANGED <<published, cacheVars, lockVars, refreshVars, overtaken>>

\* Categories and LastRefreshTime, for the policy's status.
ReadCategories(c) ==
  /\ pc[c] = "list" /\ MayRead
  /\ Answer(c, "categories", categories) /\ GoTo(c, "lookup")
  /\ UNCHANGED <<published, cacheVars, lockVars, refreshVars, overtaken>>

\* Plans reads the name map first and then the plans, in one read section; the
\* local `names` of a refresh is free to hold what it read.
LookUpNames(c) ==
  /\ pc[c] = "lookup" /\ MayRead
  /\ readers' = readers \cup {c} /\ names' = [names EXCEPT ![c] = nameMap]
  /\ GoTo(c, "filter")
  /\ UNCHANGED <<published, cacheVars, writer, cats, todo, draft, seen, overtaken>>

Shown(nms, offers) ==
  IF Allowed = {} THEN offers
  ELSE {o \in offers : \E n \in Allowed : <<n, CategoryOf[o.plan]>> \in nms}
FilterPlans(c) ==
  /\ pc[c] = "filter" /\ GoTo(c, "idle") /\ readers' = readers \ {c}
  /\ Answer(c, "plans", Shown(names[c], plans)) /\ names' = [names EXCEPT ![c] = {}]
  /\ UNCHANGED <<published, cacheVars, writer, cats, todo, draft, overtaken>>

(***************************************************************************)
(* VPSie and the clock.                                                    *)
(***************************************************************************)
Publish == /\ published < LastEdition /\ published' = published + 1
           /\ UNCHANGED <<cacheVars, lockVars, pc, refreshVars, seen, overtaken>>
Tick == /\ age \in 0 .. AgeCap - 1 /\ age' = age + 1
        /\ UNCHANGED <<published, categories, plans, nameMap, lockVars, pc, refreshVars,
                       seen, overtaken>>

Refresh(c) ==
  \/ EnsureFresh(c) \/ FetchCategories(c) \/ FetchFails(c)
  \/ \E k \in Category : FetchPlans(c, k) \/ SkipCategory(c, k)
  \/ Lock(c) \/ StoreCategories(c) \/ StorePlans(c) \/ StoreNames(c) \/ StoreTime(c)
Read(c) == FindPlanByID(c) \/ ReadCategories(c) \/ LookUpNames(c) \/ FilterPlans(c)

Next == Publish \/ Tick \/ \E c \in Caller : Refresh(c) \/ Read(c)
Spec == Init /\ [][Next]_vars

(* Both callers run for ever, the clock advances, and VPSie answers a       *)
(* request that is repeated for ever, whoever makes it, now and then.       *)
Fairness ==
  /\ WF_vars(Tick) /\ \A c \in Caller : WF_vars(Refresh(c) \/ Read(c))
  /\ SF_vars(\E c \in Caller : EnsureFresh(c)) /\ SF_vars(\E c \in Caller : Lock(c))
  /\ SF_vars(\E c \in Caller : FetchCategories(c))
  /\ \A k \in Category : SF_vars(\E c \in Caller : FetchPlans(c, k))
FairSpec == Spec /\ Fairness

-----------------------------------------------------------------------------
(***************************************************************************)
(* Properties.                                                             *)
(***************************************************************************)
Storing == {"storeCategories", "storePlans", "storeNames", "storeTime"}
NameMap == SUBSET (Name \X Category)

\* Every variable holds a value of its kind, the lock is held by one writer or
\* by readers, and a caller is in a critical section only with the lock.
PTypeOK ==
  /\ published \in Edition
  /\ categories \subseteq Category /\ plans \subseteq Offer /\ nameMap \in NameMap
  /\ age \in NoTime .. AgeCap
  /\ writer \in Caller \cup {NoCaller} /\ readers \subseteq Caller
  /\ pc \in [Caller -> Calls]
  /\ cats \in [Caller -> SUBSET Category] /\ todo \in [Caller -> SUBSET Category]
  /\ draft \in [Caller -> SUBSET Offer] /\ names \in [Caller -> NameMap]
  /\ DOMAIN seen = Caller /\ overtaken \in [Caller -> BOOLEAN]
  /\ writer # NoCaller => readers = {}
  /\ \A c \in Caller : /\ pc[c] \in Storing <=> writer = c
                       /\ pc[c] = "filter" <=> c \in readers

\* Whatever the two goroutines do at the same time, the cache behaves as one
\* price list that is replaced as a whole (cache.go:83-88, 95-161): while it is
\* being stored, the list is already the new one.
TheList ==
  IF writer = NoCaller THEN [cats |-> categories, names |-> nameMap, plans |-> plans]
  ELSE [cats |-> cats[writer], names |-> names[writer], plans |-> draft[writer]]
Promise == INSTANCE PriceList WITH list <- TheList
RefinesPriceList == Promise!Spec

\* A refresh puts an older price in the place of a newer one only if another
\* refresh was stored while it was fetching (cache.go:60-88).
OldPricesOnlyByOverlap ==
  [][\A c \in Caller :
       pc[c] = "storePlans" /\ pc'[c] = "storeNames" /\ ~overtaken[c]
         => \A new \in plans', old \in plans : new.plan = old.plan => new.edition >= old.edition]_vars

\* The prices that VPSie publishes for a category are used in the end, although
\* a failed fetch leaves the category out until the next refresh and an older
\* refresh may be stored later (cache.go:44-92).  Nothing makes two categories
\* arrive together: each may fail whenever the other succeeds.
PublishedPricesArrive ==
  \A k \in Category : published = LastEdition ~> Offers(k) \subseteq plans /\ published = LastEdition
=============================================================================
