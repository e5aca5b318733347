SPECIFICATION RegistrySpec
CONSTANTS
  Roots = {r1}
  Owners = {o1, o2}
  Generations = {1, 2}
  Grants = {g1, g2}
  Actions = {a1, a2, a3}
  Seals = {s1, s2}
  Transactions = {t1, t2}
  MaxEffects = 2
  None = None
SYMMETRY Symmetry
CHECK_DEADLOCK FALSE
INVARIANTS
  NoEffectUnderSeal
  HandlesOwned
  OneSealAtATime
  WritesOfOneGeneration
PROPERTIES
  FinalForGood
