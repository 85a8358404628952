--------------------------- MODULE PricingProofs ---------------------------
(* The pricing cache for any number of goroutines, plans and editions.      *)
EXTENDS PricingCache, TLAPS

\* A call of c's that reads, fetches or waits: the fields and the lock stay.
Outside(c) ==
  \/ EnsureFresh(c) \/ FetchCategories(c) \/ FetchFails(c)
  \/ \E k \in Category : FetchPlans(c, k) \/ SkipCategory(c, k)
  \/ FindPlanByID(c) \/ ReadCategories(c)
Store(c) == StoreCategories(c) \/ StorePlans(c) \/ StoreNames(c) \/ StoreTime(c)

LEMMA Steps ==
  [Next]_vars => \/ \E c \in Caller : Outside(c) \/ Lock(c) \/ Store(c) \/ LookUpNames(c) \/ FilterPlans(c)
                 \/ Publish \/ Tick \/ UNCHANGED vars
  BY DEF Next, Refresh, Read, Outside, Store

LEMMA PTypeInit == Init => PTypeOK
  BY PricingAssumption DEF Init, PTypeOK, Edition, NameMap, NoTime, Calls, Storing

LEMMA CategoriesTyped ==
  ASSUME published \in Edition
  PROVE  /\ CategoriesOf(published) \subseteq Category
         /\ \A m \in NameMaps(CategoriesOf(published)) : m \subseteq Name \X CategoriesOf(published)
         /\ \A k : Offers(k) \subseteq Offer
         /\ \A k : \A o \in Offers(k) : CategoryOf[o.plan] = k /\ o.edition = published
  <1>1. Listed[published] \subseteq Plan
    BY PricingAssumption
  <1>2. CategoriesOf(published) \subseteq Category
    BY <1>1, PricingAssumption DEF CategoriesOf
  <1>3. \A m \in NameMaps(CategoriesOf(published)) : m \subseteq Name \X CategoriesOf(published)
    BY <1>2, PricingAssumption DEF NameMaps
  <1>4. \A k : Offers(k) \subseteq Offer
    BY <1>1 DEF Offers, Offer
  <1>5. \A k : \A o \in Offers(k) : CategoryOf[o.plan] = k /\ o.edition = published
    BY <1>1 DEF Offers
  <1>6. QED
    BY <1>2, <1>3, <1>4, <1>5

LEMMA OutsideKeepsType ==
  ASSUME PTypeOK, NEW c \in Caller, Outside(c)
  PROVE  PTypeOK'
  <1> USE DEF PTypeOK
  <1>1. CASE EnsureFresh(c) \/ FetchFails(c)
    BY <1>1 DEF EnsureFresh, FetchFails, GoTo, cacheVars, lockVars, refreshVars, Calls, Storing
  <1>2. CASE FetchCategories(c)
    <2>1. PICK m \in NameMaps(CategoriesOf(published)) : names' = [names EXCEPT ![c] = m]
      BY <1>2 DEF FetchCategories
    <2>2. CategoriesOf(published) \in SUBSET Category /\ m \in NameMap
      BY <2>1, CategoriesTyped DEF NameMap
    <2>3. NoPlans \in SUBSET Offer
      BY DEF NoPlans
    <2>4. QED
      BY <1>2, <2>1, <2>2, <2>3 DEF FetchCategories, GoTo, cacheVars, lockVars, Calls, Storing
  <1>3. ASSUME NEW k \in Category, FetchPlans(c, k) \/ SkipCategory(c, k) PROVE PTypeOK'
    <2>1. todo' \in [Caller -> SUBSET Category]
      BY <1>3 DEF FetchPlans, SkipCategory
    <2>2. draft' \in [Caller -> SUBSET Offer]
      BY <1>3, CategoriesTyped DEF FetchPlans, SkipCategory, Fetched
    <2>3. QED
      BY <1>3, <2>1, <2>2 DEF FetchPlans, SkipCategory, cacheVars, lockVars
  <1>4. CASE FindPlanByID(c) \/ ReadCategories(c)
    <2>1. DOMAIN seen' = Caller /\ UNCHANGED <<published, cacheVars, lockVars, refreshVars, overtaken>>
          /\ \E call \in {"idle", "list", "lookup"} : pc' = [pc EXCEPT ![c] = call]
          /\ pc[c] \in {"find", "list"}
      BY <1>4 DEF FindPlanByID, ReadCategories, Answer, GoTo
    <2>2. QED
      BY <2>1 DEF cacheVars, lockVars, refreshVars, Calls, Storing
  <1>5. QED
    BY <1>1, <1>2, <1>3, <1>4 DEF Outside

LEMMA PTypeStep == PTypeOK /\ [Next]_vars => PTypeOK'
  <1> SUFFICES ASSUME PTypeOK, [Next]_vars PROVE PTypeOK'
    OBVIOUS
  <1> USE DEF PTypeOK
  <1>1. ASSUME NEW c \in Caller, Lock(c) PROVE PTypeOK'
    BY <1>1, PricingAssumption DEF Lock, MayWrite, GoTo, cacheVars, refreshVars, Calls, Storing
  <1>2. ASSUME NEW c \in Caller, StoreCategories(c) \/ StorePlans(c) \/ StoreNames(c) PROVE PTypeOK'
    <2>1. /\ \E call \in Storing : pc' = [pc EXCEPT ![c] = call]
          /\ pc[c] \in Storing /\ UNCHANGED <<published, age, lockVars, refreshVars, seen>>
      BY <1>2 DEF StoreCategories, StorePlans, StoreNames, GoTo, Storing
    <2>2. categories' \subseteq Category /\ plans' \subseteq Offer /\ nameMap' \in NameMap
      BY <1>2 DEF StoreCategories, StorePlans, StoreNames
    <2>3. overtaken' \in [Caller -> BOOLEAN]
      BY <1>2 DEF StoreCategories, StorePlans, StoreNames
    <2>4. QED
      BY <2>1, <2>2, <2>3 DEF lockVars, refreshVars, Calls, Storing
  <1>3. ASSUME NEW c \in Caller, StoreTime(c) PROVE PTypeOK'
    <2>1. pc' = [pc EXCEPT ![c] = "find"] /\ writer' = NoCaller /\ readers' = readers /\ writer = c
      BY <1>3 DEF StoreTime, GoTo, Storing
    <2>2. \A d \in Caller : (pc'[d] \in Storing <=> writer' = d) /\ (pc'[d] = "filter" <=> d \in readers')
      BY <2>1, PricingAssumption DEF Storing
    <2>3. age' \in NoTime .. AgeCap
      BY <1>3, PricingAssumption DEF StoreTime, NoTime
    <2>4. QED
      BY <1>3, <2>1, <2>2, <2>3 DEF StoreTime, Calls, NameMap
  <1>4. ASSUME NEW c \in Caller, LookUpNames(c) PROVE PTypeOK'
    BY <1>4 DEF LookUpNames, MayRead, GoTo, cacheVars, Calls, Storing
  <1>5. ASSUME NEW c \in Caller, FilterPlans(c) PROVE PTypeOK'
    BY <1>5 DEF FilterPlans, Answer, GoTo, cacheVars, Calls, Storing, NameMap
  <1>6. CASE Publish
    BY <1>6, PricingAssumption DEF Publish, Edition, cacheVars, lockVars, refreshVars
  <1>7. CASE Tick
    BY <1>7, PricingAssumption DEF Tick, NoTime, lockVars, refreshVars
  <1>8. CASE UNCHANGED vars
    BY <1>8 DEF vars, cacheVars, lockVars, refreshVars
  <1>9. QED
    BY <1>1, <1>2, <1>3, <1>4, <1>5, <1>6, <1>7, <1>8, OutsideKeepsType, Steps DEF Store

\* The lock protects: one writer and no readers, or readers only; and nobody
\* is in a critical section without it.
THEOREM PricesTypeCorrect == Spec => []PTypeOK
  BY PTypeInit, PTypeStep, PTL DEF Spec

-----------------------------------------------------------------------------
(* The refinement of PriceList.                                            *)
List(c, n, p) == [cats |-> c, names |-> n, plans |-> p]
Coherent(c, n, p) ==
  /\ c \subseteq Category /\ n \subseteq Name \X c
  /\ p \subseteq Offer /\ \A o \in p : CategoryOf[o.plan] \in c

\* A caller at work on a refresh has a list that fits together, as far as it is
\* fetched; what the writer has stored so far is its own; a reader has looked up
\* the names that are there.
DraftsFit ==
  \A c \in Caller : pc[c] \in {"plans"} \cup Storing
                       => Coherent(cats[c], names[c], draft[c]) /\ todo[c] \subseteq cats[c]
StoredSoFar ==
  \A c \in Caller :
    /\ pc[c] \in {"storePlans", "storeNames", "storeTime"} => categories = cats[c]
    /\ pc[c] \in {"storeNames", "storeTime"} => plans = draft[c]
    /\ pc[c] = "storeTime" => nameMap = names[c]
NamesLookedUp == \A c \in Caller : pc[c] = "filter" => names[c] = nameMap
ListInv == DraftsFit /\ StoredSoFar /\ NamesLookedUp

LEMMA OutsideKeepsList ==
  ASSUME PTypeOK, ListInv, NEW c \in Caller, Outside(c)
  PROVE  ListInv' /\ UNCHANGED TheList
  <1> USE DEF PTypeOK, ListInv
  <1>0. UNCHANGED <<cacheVars, lockVars>>
    BY DEF Outside, EnsureFresh, FetchCategories, FetchFails, FetchPlans, SkipCategory,
       FindPlanByID, ReadCategories
  <1>1. pc[c] \notin Storing /\ pc[c] # "filter" /\ pc'[c] \notin Storing /\ pc'[c] # "filter"
        /\ \A d \in Caller \ {c} : /\ pc'[d] = pc[d] /\ cats'[d] = cats[d] /\ todo'[d] = todo[d]
                                   /\ draft'[d] = draft[d] /\ names'[d] = names[d]
    BY DEF Outside, EnsureFresh, FetchCategories, FetchFails, FetchPlans, SkipCategory, Fetched,
       FindPlanByID, ReadCategories, GoTo, Storing, refreshVars
  <1>2. StoredSoFar' /\ NamesLookedUp'
    BY <1>0, <1>1 DEF StoredSoFar, NamesLookedUp, cacheVars, Storing
  <1>3. TheList' = TheList
    BY <1>0, <1>1 DEF TheList, cacheVars, lockVars
  <1>4. pc'[c] = "plans" => Coherent(cats'[c], names'[c], draft'[c]) /\ todo'[c] \subseteq cats'[c]
    <2>1. CASE FetchCategories(c)
      <3>1. PICK m \in NameMaps(CategoriesOf(published)) : names' = [names EXCEPT ![c] = m]
        BY <2>1 DEF FetchCategories
      <3>2. names'[c] = m /\ cats'[c] = CategoriesOf(published) /\ draft'[c] = {}
            /\ todo'[c] = CategoriesOf(published)
        BY <2>1, <3>1 DEF FetchCategories, NoPlans
      <3>3. QED
        BY <3>1, <3>2, CategoriesTyped DEF Coherent
    <2>2. ASSUME NEW k \in Category, FetchPlans(c, k) \/ SkipCategory(c, k)
          PROVE  Coherent(cats'[c], names'[c], draft'[c]) /\ todo'[c] \subseteq cats'[c]
      <3>1. /\ pc[c] = "plans" /\ k \in todo[c] /\ cats' = cats /\ names' = names
            /\ todo'[c] = todo[c] \ {k} /\ draft'[c] \subseteq draft[c] \cup Offers(k)
        BY <2>2 DEF FetchPlans, SkipCategory, Fetched
      <3>2. Coherent(cats[c], names[c], draft[c]) /\ todo[c] \subseteq cats[c]
        BY <3>1 DEF DraftsFit
      <3>3. QED
        BY <3>1, <3>2, CategoriesTyped DEF Coherent
    <2>3. QED
      BY <2>1, <2>2 DEF Outside, EnsureFresh, FetchFails, FindPlanByID, ReadCategories, GoTo
  <1>5. QED
    BY <1>1, <1>2, <1>3, <1>4 DEF DraftsFit

LEMMA OutsideRefines ==
  ASSUME PTypeOK, ListInv, NEW c \in Caller, Outside(c)
  PROVE  [Promise!Next]_<<TheList, seen>>
  <1>0. UNCHANGED TheList
    BY OutsideKeepsList
  <1>1. CASE EnsureFresh(c)
    BY <1>0, <1>1 DEF EnsureFresh, Promise!Next, Promise!Forget, Promise!NoAnswer, NoAnswer
  <1>2. CASE FindPlanByID(c)
    <2>1. PICK p \in Plan : seen' = [seen EXCEPT ![c] = [kind |-> "plan", found |-> {o \in plans : o.plan = p}]]
      BY <1>2 DEF FindPlanByID, Answer
    <2>2. TheList.plans = plans
      BY <1>2 DEF FindPlanByID, MayRead, TheList
    <2>3. Promise!Ask(c)
      BY <1>0, <2>1, <2>2 DEF Promise!Ask, Promise!Answers
    <2>4. QED
      BY <2>3 DEF Promise!Next
  <1>3. CASE ReadCategories(c)
    <2>1. TheList.cats = categories
      BY <1>3 DEF ReadCategories, MayRead, TheList
    <2>2. Promise!Ask(c)
      BY <1>0, <1>3, <2>1 DEF ReadCategories, Answer, Promise!Ask, Promise!Answers
    <2>3. QED
      BY <2>2 DEF Promise!Next
  <1>4. CASE FetchCategories(c) \/ FetchFails(c) \/ \E k \in Category : FetchPlans(c, k) \/ SkipCategory(c, k)
    BY <1>0, <1>4 DEF FetchCategories, FetchFails, FetchPlans, SkipCategory
  <1>5. QED
    BY <1>1, <1>2, <1>3, <1>4 DEF Outside

LEMMA ListStep ==
  ASSUME PTypeOK, ListInv, [Next]_vars
  PROVE  ListInv' /\ [Promise!Next]_<<TheList, seen>>
  <1> USE DEF PTypeOK, ListInv
  <1>1. ASSUME NEW c \in Caller, Lock(c)
        PROVE  ListInv' /\ [Promise!Next]_<<TheList, seen>>
    <2>1. /\ writer' = c /\ pc' = [pc EXCEPT ![c] = "storeCategories"] /\ pc[c] = "plans"
          /\ UNCHANGED <<cacheVars, refreshVars, seen>>
      BY <1>1 DEF Lock, GoTo
    <2>2. TheList' = List(cats[c], names[c], draft[c])
      BY <2>1, PricingAssumption DEF TheList, List, refreshVars
    <2>3. Promise!Replace
      BY <2>1, <2>2 DEF DraftsFit, Coherent, List, Promise!Replace, Promise!Refreshed, Promise!Offer, Offer
    <2>4. ListInv'
      BY <2>1 DEF DraftsFit, StoredSoFar, NamesLookedUp, Storing, cacheVars, refreshVars
    <2>5. QED
      BY <2>3, <2>4 DEF Promise!Next
  <1>2. ASSUME NEW c \in Caller, StoreCategories(c) \/ StorePlans(c) \/ StoreNames(c)
        PROVE  ListInv' /\ UNCHANGED <<TheList, seen>>
    <2>1. /\ pc[c] \in Storing /\ \E call \in Storing : pc' = [pc EXCEPT ![c] = call]
          /\ UNCHANGED <<lockVars, refreshVars, seen>>
      BY <1>2 DEF StoreCategories, StorePlans, StoreNames, GoTo, Storing
    <2>2. writer = c /\ readers = {} /\ \A d \in Caller \ {c} : pc'[d] \notin Storing /\ pc'[d] = pc[d]
      BY <2>1, PricingAssumption DEF Storing
    <2>3. UNCHANGED TheList
      BY <2>1, <2>2, PricingAssumption DEF TheList, lockVars, refreshVars
    <2>4. DraftsFit'
      BY <2>1, <2>2 DEF DraftsFit, refreshVars
    <2>5. /\ pc'[c] \in {"storePlans", "storeNames", "storeTime"} => categories' = cats[c]
          /\ pc'[c] \in {"storeNames", "storeTime"} => plans' = draft[c]
          /\ pc'[c] = "storeTime" => nameMap' = names[c]
      BY <1>2 DEF StoreCategories, StorePlans, StoreNames, GoTo, StoredSoFar
    <2>6. StoredSoFar'
      BY <2>1, <2>2, <2>5 DEF StoredSoFar, Storing, refreshVars
    <2>7. NamesLookedUp'
      BY <2>1, <2>2 DEF NamesLookedUp, Storing
    <2>8. QED
      BY <2>1, <2>3, <2>4, <2>6, <2>7
  <1>3. ASSUME NEW c \in Caller, StoreTime(c)
        PROVE  ListInv' /\ UNCHANGED <<TheList, seen>>
    <2>1. /\ pc[c] = "storeTime" /\ pc' = [pc EXCEPT ![c] = "find"] /\ writer' = NoCaller
          /\ UNCHANGED <<categories, plans, nameMap, readers, seen>>
          /\ \A d \in Caller \ {c} : UNCHANGED <<cats[d], names[d], draft[d], todo[d]>>
      BY <1>3 DEF StoreTime, GoTo
    <2>2. writer = c /\ readers = {} /\ \A d \in Caller \ {c} : pc'[d] \notin Storing /\ pc'[d] = pc[d]
      BY <2>1, PricingAssumption DEF Storing
    <2>3. TheList = List(categories, nameMap, plans)
      BY <2>1, <2>2, PricingAssumption DEF TheList, List, StoredSoFar
    <2>4. UNCHANGED TheList
      BY <2>1, <2>3 DEF TheList, List
    <2>5. ListInv'
      BY <2>1, <2>2 DEF DraftsFit, StoredSoFar, NamesLookedUp, Storing
    <2>6. QED
      BY <2>1, <2>4, <2>5
  <1>4. ASSUME NEW c \in Caller, LookUpNames(c)
        PROVE  ListInv' /\ UNCHANGED <<TheList, seen>>
    <2>1. /\ pc[c] = "lookup" /\ pc' = [pc EXCEPT ![c] = "filter"] /\ writer = NoCaller
          /\ names' = [names EXCEPT ![c] = nameMap]
          /\ UNCHANGED <<cacheVars, writer, cats, todo, draft, seen>>
      BY <1>4 DEF LookUpNames, MayRead, GoTo
    <2>2. QED
      BY <2>1 DEF TheList, DraftsFit, StoredSoFar, NamesLookedUp, Storing, cacheVars
  <1>5. ASSUME NEW c \in Caller, FilterPlans(c)
        PROVE  ListInv' /\ [Promise!Next]_<<TheList, seen>>
    <2>1. /\ pc[c] = "filter" /\ pc' = [pc EXCEPT ![c] = "idle"] /\ c \in readers
          /\ names' = [names EXCEPT ![c] = {}]
          /\ UNCHANGED <<cacheVars, writer, cats, todo, draft>>
      BY <1>5 DEF FilterPlans, GoTo
    <2>2. TheList = List(categories, nameMap, plans) /\ UNCHANGED TheList
      BY <2>1 DEF TheList, List, cacheVars
    <2>3. ListInv'
      BY <2>1 DEF DraftsFit, StoredSoFar, NamesLookedUp, Storing, cacheVars
    <2>4. seen' = [seen EXCEPT ![c] = [kind |-> "plans", found |-> Shown(nameMap, plans)]]
      BY <1>5, <2>1 DEF FilterPlans, Answer, NamesLookedUp
    <2>5. Promise!Ask(c)
      BY <2>2, <2>4 DEF List, Promise!Ask, Promise!Answers, Promise!Shown, Shown
    <2>6. QED
      BY <2>3, <2>5 DEF Promise!Next
  <1>6. CASE Publish \/ Tick \/ UNCHANGED vars
    BY <1>6 DEF Publish, Tick, vars, TheList, DraftsFit, StoredSoFar, NamesLookedUp, cacheVars,
       lockVars, refreshVars
  <1>7. QED
    BY <1>1, <1>2, <1>3, <1>4, <1>5, <1>6, OutsideKeepsList, OutsideRefines, Steps DEF Store

\* The cache, stored field by field by one goroutine while others ask, is to all
\* of them one price list that a refresh replaces in a single step.
THEOREM CacheIsOneList == Spec => RefinesPriceList
  <1>1. Init => ListInv /\ Promise!Init
    BY DEF Init, ListInv, DraftsFit, StoredSoFar, NamesLookedUp, Storing, TheList, Promise!Init,
       Promise!EmptyList, Promise!NoAnswer, NoAnswer
  <1>2. QED
    BY <1>1, ListStep, PricesTypeCorrect, PTL DEF Spec, RefinesPriceList, Promise!Spec

-----------------------------------------------------------------------------
(* Older prices.  VPSie's editions only grow, so what a refresh fetches is   *)
(* at least as new as all that was stored before it began.                  *)
NotFromTheFuture ==
  /\ \A o \in plans : o.edition <= published
  /\ \A c \in Caller : \A o \in draft[c] : o.edition <= published
NewerUnlessOvertaken ==
  \A c \in Caller :
    pc[c] \in {"plans", "storeCategories", "storePlans"} /\ ~overtaken[c]
      => \A new \in draft[c], old \in plans : new.edition >= old.edition
AgesInv == NotFromTheFuture /\ NewerUnlessOvertaken

LEMMA AgesStep ==
  ASSUME PTypeOK, AgesInv, [Next]_vars
  PROVE  AgesInv'
  <1> USE DEF PTypeOK, AgesInv
  <1>e. /\ published \in Int /\ \A o \in plans : o.edition \in Int
        /\ \A c \in Caller : \A o \in draft[c] : o.edition \in Int
    BY DEF Offer, Edition
  <1>1. ASSUME NEW c \in Caller, NEW k \in Category, FetchPlans(c, k) \/ SkipCategory(c, k) PROVE AgesInv'
    <2>1. /\ UNCHANGED <<published, plans, pc, overtaken>>
          /\ draft'[c] \subseteq draft[c] \cup Offers(k)
          /\ \A d \in Caller \ {c} : draft'[d] = draft[d]
      BY <1>1 DEF FetchPlans, SkipCategory, Fetched, cacheVars
    <2>2. \A o \in Offers(k) : o.edition = published
      BY CategoriesTyped
    <2>3. NotFromTheFuture'
      BY <1>e, <2>1, <2>2 DEF NotFromTheFuture
    <2>4. NewerUnlessOvertaken'
      BY <1>e, <2>1, <2>2 DEF NewerUnlessOvertaken, NotFromTheFuture
    <2>5. QED
      BY <2>3, <2>4
  <1>2. ASSUME NEW c \in Caller, FetchCategories(c) PROVE AgesInv'
    BY <1>2 DEF FetchCategories, NoPlans, GoTo, cacheVars, NotFromTheFuture, NewerUnlessOvertaken
  <1>3. ASSUME NEW c \in Caller, StorePlans(c) PROVE AgesInv'
    <2>1. /\ plans' = draft[c] /\ UNCHANGED <<published, refreshVars>> /\ writer = c
          /\ pc' = [pc EXCEPT ![c] = "storeNames"]
          /\ \A d \in Caller : pc[d] = "plans" => overtaken'[d]
      BY <1>3 DEF StorePlans, GoTo, Storing
    <2>2. \A d \in Caller \ {c} : pc[d] \notin Storing
      BY <2>1
    <2>3. NewerUnlessOvertaken'
      BY <2>1, <2>2 DEF NewerUnlessOvertaken, Storing
    <2>4. NotFromTheFuture'
      BY <2>1 DEF NotFromTheFuture, refreshVars
    <2>5. QED
      BY <2>3, <2>4
  <1>4. ASSUME NEW c \in Caller, StoreTime(c) PROVE AgesInv'
    <2>1. /\ pc' = [pc EXCEPT ![c] = "find"] /\ UNCHANGED <<published, plans>>
          /\ draft' = [draft EXCEPT ![c] = {}]
          /\ \A d \in Caller \ {c} : overtaken'[d] = overtaken[d]
      BY <1>4 DEF StoreTime, GoTo
    <2>2. QED
      BY <2>1 DEF NotFromTheFuture, NewerUnlessOvertaken
  <1>5. ASSUME NEW c \in Caller, Lock(c) \/ StoreCategories(c) \/ StoreNames(c) PROVE AgesInv'
    <2>1. /\ UNCHANGED <<published, plans, draft, overtaken>>
          /\ \A d \in Caller : pc'[d] \in {"plans", "storeCategories", "storePlans"}
                               => pc[d] \in {"plans", "storeCategories", "storePlans"}
      BY <1>5 DEF Lock, StoreCategories, StoreNames, GoTo, cacheVars, refreshVars
    <2>2. QED
      BY <2>1 DEF NotFromTheFuture, NewerUnlessOvertaken
  <1>6. ASSUME NEW c \in Caller, \/ EnsureFresh(c) \/ FetchFails(c) \/ FindPlanByID(c)
                                \/ ReadCategories(c) \/ LookUpNames(c) \/ FilterPlans(c)
        PROVE AgesInv'
    <2>1. /\ UNCHANGED <<published, plans, draft, overtaken>>
          /\ \A d \in Caller : pc'[d] \in {"plans", "storeCategories", "storePlans"} => pc'[d] = pc[d]
      BY <1>6 DEF EnsureFresh, FetchFails, FindPlanByID, ReadCategories, LookUpNames, FilterPlans,
         GoTo, cacheVars, refreshVars
    <2>2. QED
      BY <2>1 DEF NotFromTheFuture, NewerUnlessOvertaken
  <1>7. CASE Publish
    <2>1. published' = published + 1 /\ UNCHANGED <<plans, draft, pc, overtaken>>
      BY <1>7 DEF Publish, cacheVars, refreshVars
    <2>2. QED
      BY <1>e, <2>1 DEF NotFromTheFuture, NewerUnlessOvertaken
  <1>8. CASE Tick \/ UNCHANGED vars
    BY <1>8 DEF Tick, vars, cacheVars, refreshVars, NotFromTheFuture, NewerUnlessOvertaken
  <1>9. QED
    BY <1>1, <1>2, <1>3, <1>4, <1>5, <1>6, <1>7, <1>8, Steps DEF Outside, Store

\* An older price takes the place of a newer one only if the refresh that stores
\* it was overtaken by another while it fetched.
THEOREM OnlyOverlapBringsOldPrices == Spec => OldPricesOnlyByOverlap
  <1>1. Init => AgesInv
    BY DEF Init, AgesInv, NotFromTheFuture, NewerUnlessOvertaken
  <1>2. PTypeOK /\ AgesInv /\ [Next]_vars =>
          [\A c \in Caller :
             pc[c] = "storePlans" /\ pc'[c] = "storeNames" /\ ~overtaken[c]
               => \A new \in plans', old \in plans : new.plan = old.plan => new.edition >= old.edition]_vars
    <2> SUFFICES ASSUME PTypeOK, AgesInv, [Next]_vars, NEW c \in Caller,
                        pc[c] = "storePlans", pc'[c] = "storeNames", ~overtaken[c]
                 PROVE  \A new \in plans', old \in plans : new.edition >= old.edition
      OBVIOUS
    <2>1. StorePlans(c)
      <3>1. ASSUME NEW d \in Caller, Outside(d) \/ Lock(d) \/ Store(d) \/ LookUpNames(d) \/ FilterPlans(d)
            PROVE  StorePlans(c)
        <4>1. d = c
          BY <3>1 DEF Outside, EnsureFresh, FetchCategories, FetchFails, FetchPlans, SkipCategory,
             FindPlanByID, ReadCategories, Lock, Store, StoreCategories, StorePlans, StoreNames,
             StoreTime, LookUpNames, FilterPlans, GoTo, PTypeOK
        <4>2. QED
          BY <3>1, <4>1 DEF Outside, EnsureFresh, FetchCategories, FetchFails, FetchPlans, SkipCategory,
             FindPlanByID, ReadCategories, Lock, Store, StoreCategories, StoreNames,
             StoreTime, LookUpNames, FilterPlans
      <3>2. ~(Publish \/ Tick \/ UNCHANGED vars)
        BY DEF Publish, Tick, vars
      <3>3. QED
        BY <3>1, <3>2, Steps
    <2>2. QED
      BY <2>1 DEF StorePlans, AgesInv, NewerUnlessOvertaken
  <1>3. QED
    BY <1>1, <1>2, AgesStep, PricesTypeCorrect, PTL DEF Spec, OldPricesOnlyByOverlap
=============================================================================
