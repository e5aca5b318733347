--------------------------- MODULE MCLineageRunner ---------------------------
(***************************************************************************)
(* Model values of LineageRunner for TLC.                                  *)
(***************************************************************************)
EXTENDS LineageRunner

MCAxes == {"generations", "carrier_bytes", "steps"}

Cost(steps) == [ZeroCost EXCEPT !["steps"] = steps]

MCCosts(amounts) == {Cost(n) : n \in amounts}

Corpse(cause, plan, qa, steps) ==
  [cause |-> cause, plan |-> plan, qa |-> qa, spend |-> Cost(steps)]

MCCorpses(amounts) ==
  {Corpse(cause, FALSE, "absent", n) :
     cause \in {"stalled", "budget_exhausted", "complete", "unsafe_scope"}, n \in amounts}
  \cup {Corpse("complete", TRUE, "absent", n) : n \in amounts}
  \cup {Corpse("complete", FALSE, "accepted", n) : n \in amounts}
  \cup {Corpse("blocked", FALSE, "rejected", n) : n \in amounts}
  \cup {Corpse("complete", FALSE, "broken", n) : n \in amounts}

\* Three generations, and steps and carrier bytes that may run out first.
BudgetConfigured == [generations |-> 3, steps |-> 5, carrier_bytes |-> 4]
BudgetAllocations == MCCosts({1, 3})
BudgetSpends == MCCosts({0, 2, 4})
BudgetCorpses == MCCorpses({0, 2, 4})

\* No limit at all: only the emergency ceiling ends the lineage.
NoLimits == [x \in {} |-> 0]
CeilingAllocations == MCCosts({1})
CeilingSpends == MCCosts({1})
CeilingCorpses == MCCorpses({1})

KnownPolicies == [contract : {"plan.v0", "software.create.v0"}, recovery : {TRUE}]
AllPolicies ==
  [contract : {"plan.v0", "software.create.v0", "other"}, recovery : BOOLEAN]

\* A limit of no step at all.
ZeroConfigured == [generations |-> 2, steps |-> 0]

=============================================================================
