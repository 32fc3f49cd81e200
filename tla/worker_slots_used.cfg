CONSTANTS
  e1 = e1
  e2 = e2
  e3 = e3
  c1 = c1
  c2 = c2
  Endpoints <- MCThree
  Copies <- MCCopies
  Concurrency = 3
  Intervals = {1}
  MaxNow = 1
  MaxApi = 0
  MaxFaults = 0
SPECIFICATION Spec
PROPERTIES
  SlotsUsed
