SPECIFICATION QaRunSpec
CONSTANTS
  OutputLimit = 0
  MaxOutput = 1
  MaxFaults = 1
INVARIANTS
  ReasonTrue
  NothingLeftAlive
  NotStartedTrue
PROPERTY
  RunEnds
