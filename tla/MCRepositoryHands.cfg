SPECIFICATION HandsSpec
CONSTANTS
  Roots = {r1}
  Owners = {o1}
  Generations = {1}
  Grants = {g1, g2}
  Actions = {a1, a2}
  Seals = {s1, s2}
  Transactions = {body, witness}
  Body = body
  Witness = witness
  MaxEffects = 2
  MaxTampers = 3
  None = None
SYMMETRY Symmetry
CHECK_DEADLOCK FALSE
INVARIANTS
  CheckTruth
  CandidateRunsOnce
  OutcomeJoined

  
