CONSTANTS
  r1 = r1
  r2 = r2
  Requests <- MCRequests
  Intervals = {1, 3}
  Retention = 2
  MaxRecords = 2
  MaxNow = 4
  MaxCrashes = 1
SPECIFICATION Spec
SYMMETRY Symmetry
CHECK_DEADLOCK FALSE
INVARIANTS
  ExplicitCheckRuns
