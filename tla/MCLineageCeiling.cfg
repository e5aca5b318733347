SPECIFICATION RunnerSpec
CONSTANTS
  LineageAxes <- MCAxes
  Configured <- NoLimits
  Allocations <- CeilingAllocations
  Spends <- CeilingSpends
  CarrierSizes = {1}
  PacketIds = {1, 2, 3, 4}
  Policies <- AllPolicies
  Ceiling = {3}
  Corpses <- CeilingCorpses
INVARIANTS
  SessionMirror
PROPERTIES
  FinishedForGood
