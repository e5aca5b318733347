SPECIFICATION LifeSpec
CONSTANTS
  OrganTypes <- MCOrganTypes
  BodyTypes <- MCNone
  Causes <- MCCauses
  MaxTrace = 48
  Axes <- MCAxes
  Limit <- MCLimit
  Costs <- MCCosts
  LossMax = 3
  LossAmounts <- MCLossAmounts
  MaxTicks = 5
  MaxFaults = 1
  RouterMode = "tree"
  LegacyShadow = TRUE
  QaIds <- MCQaIds
  QaCost <- MCQaCost
INVARIANTS
  
  FilmComplete
  OutcomeTruthful
  RoutesAccounted
  FreshDerivation
PROPERTIES
  LifeEnds
CHECK_DEADLOCK FALSE
