SPECIFICATION GrownSpec
CONSTANTS
  OrganTypes <- RunnerTypes
  BodyTypes <- QaTypes
  Causes <- MCCauses
  MaxTrace = 40
  Axes <- MCAxes
  Limit <- MCLimitByHand
  Costs <- MCCosts
  LossMax = 3
  LossAmounts <- MCOneLoss
  MaxTicks = 3
  Stations = {"LOGIC", "RUNTIME"}
  MaxHand = 8
  MaxFaults = 0
  RouterMode = "shadow"
  LegacyShadow = FALSE
  QaIds <- MCQaIds
  QaCost <- MCQaCost
INVARIANTS
  SettledOnce
CHECK_DEADLOCK FALSE
