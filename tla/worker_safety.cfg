CONSTANTS
  e1 = e1
  e2 = e2
  e3 = e3
  c1 = c1
  c2 = c2
  Endpoints <- MCTwo
  Copies <- MCCopies
  Concurrency = 2
  Intervals = {2}
  MaxNow = 2
  MaxApi = 1
  MaxFaults = 1
SPECIFICATION Spec
SYMMETRY Symmetry
INVARIANTS
  TypeOK
  ScheduledAreTasks
  SemaphoreNeverBlocks
  IInv
PROPERTIES
  SlotsKept
  NoEarlyCheck
