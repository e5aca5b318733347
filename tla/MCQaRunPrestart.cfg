SPECIFICATION QaRunSpec
CONSTANTS
  OutputLimit = 0
  MaxOutput = 0
  MaxFaults = 1
INVARIANT
  CleanPrestartTrue
