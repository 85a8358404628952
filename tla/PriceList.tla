----------------------------- MODULE PriceList -----------------------------
(***************************************************************************)
(* What the pricing cache promises its callers: at any time there is one   *)
(* price list, put together by one refresh and replaced as a whole, and    *)
(* every question is answered from the list of that moment.                *)
(***************************************************************************)
EXTENDS FiniteSets

CONSTANTS
  Caller,        \* the goroutines that ask
  Plan, Category, Name, Edition,
  CategoryOf,    \* CategoryOf[p]: the category of plan p
  Allowed        \* spec.allowedCategories, as names; none means all

VARIABLES list, seen

Offer == [plan : Plan, edition : Edition]
NoAnswer == [kind |-> "none", found |-> {}]
EmptyList == [cats |-> {}, names |-> {}, plans |-> {}]

\* names: which category a name stands for; a refresh offers plans of the
\* categories it has read only.
Refreshed(l) ==
  /\ l.cats \subseteq Category
  /\ l.names \subseteq Name \X l.cats
  /\ l.plans \subseteq Offer /\ \A o \in l.plans : CategoryOf[o.plan] \in l.cats

Shown(names, plans) ==
  IF Allowed = {} THEN plans
  ELSE {o \in plans : \E n \in Allowed : <<n, CategoryOf[o.plan]>> \in names}

Answers(l) ==
  {[kind |-> "categories", found |-> l.cats], [kind |-> "plans", found |-> Shown(l.names, l.plans)]}
  \cup {[kind |-> "plan", found |-> {o \in l.plans : o.plan = p}] : p \in Plan}

Init == list = EmptyList /\ seen = [c \in Caller |-> NoAnswer]

Replace == Refreshed(list') /\ UNCHANGED seen
Ask(c) == (\E a \in Answers(list) : seen' = [seen EXCEPT ![c] = a]) /\ UNCHANGED list
Forget(c) == seen' = [seen EXCEPT ![c] = NoAnswer] /\ UNCHANGED list

Next == Replace \/ \E c \in Caller : Ask(c) \/ Forget(c)
Spec == Init /\ [][Next]_<<list, seen>>
=============================================================================
