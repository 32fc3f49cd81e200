CONSTANTS
  Threshold = 2
  MaxChecks = 8
  MaxCrashes = 2
SPECIFICATION Spec
CHECK_DEADLOCK FALSE
INVARIANTS
  EveryReturnReported
