SPECIFICATION RunnerSpec
CONSTANTS
  LineageAxes <- MCAxes
  Configured <- ZeroConfigured
  Allocations <- CeilingAllocations
  Spends <- CeilingSpends
  CarrierSizes = {1}
  PacketIds = {1, 2, 3}
  Policies <- KnownPolicies
  Ceiling = {}
  Corpses <- CeilingCorpses
PROPERTIES
  AllocationWithinRemaining
