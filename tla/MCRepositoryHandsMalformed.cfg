SPECIFICATION HandsSpec
CONSTANTS
  Roots = {r1}
  Owners = {o1}
  Generations = {1}
  Grants = {g1}
  Actions = {a1}
  Seals = {s1}
  Transactions = {body, witness}
  Body = body
  Witness = witness
  MaxEffects = 2
  MaxTampers = 0
  None = None
SYMMETRY Symmetry
CHECK_DEADLOCK FALSE
INVARIANTS
  MalformedClosesRoot
