SPECIFICATION RunnerSpec
CONSTANTS
  LineageAxes <- MCAxes
  Configured <- BudgetConfigured
  Allocations <- BudgetAllocations
  Spends <- BudgetSpends
  CarrierSizes = {1, 3}
  PacketIds = {1, 2, 3, 4}
  Policies <- KnownPolicies
  Ceiling = {}
  Corpses <- BudgetCorpses
INVARIANTS
  
  OverdrawBounded
  BirthsAccounted
  LedgerReplays
  PredecessorsSettled
  LineageOutcomeTruthful
PROPERTIES
  LineageSpec
  LineageEnds
