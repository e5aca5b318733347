SPECIFICATION Spec
CONSTANTS
  Inodes <- MCInodes
  Host = 1
  Names <- MCNames
  Sites <- MCSites
  KindsAt <- MCKindsAt
  Contents <- MCContents
  Trees0 <- MCTrees0
  NewAt <- MCNewAt
  Reach <- MCReach
  MaxTampers = 2
  ProjectBase <- MCBase
  Repository = "d"
  Parent <- MCParent
  Final = "f"
  Content <- MCContent
  Temps = {"t"}
  MaxRead = 3
  Bounds <- MCBounds
  MaxEintr = 1
  MaxCalls = 2
  MaxFaults = 1
INVARIANTS
  CrashSafe
  RootGenuine
PROPERTIES
  
  
  CallEnds
CHECK_DEADLOCK FALSE
