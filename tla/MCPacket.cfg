SPECIFICATION Spec
CONSTANTS
  OrganTypes <- MCOrganTypes
  BodyTypes <- MCBodyTypes
  Causes <- MCCauses
  MaxTrace = 6
INVARIANTS
  TypeOK
  RouteContinuity
  LeaseDiscipline
  TerminalSealed
PROPERTY
  HistoryAppendOnly
CHECK_DEADLOCK FALSE
