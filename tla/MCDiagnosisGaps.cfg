SPECIFICATION Spec
CONSTANTS
  Estates <- MCEstates
  PageSize = 2
  MaxAlerts = 4
INVARIANT GapsNoted
CHECK_DEADLOCK FALSE
