CONSTANTS
  e1 = e1
  e2 = e2
  e3 = e3
  c1 = c1
  c2 = c2
  Endpoints <- MCTwo
  Copies <- MCCopies
  Concurrency = 1
  Intervals = {1}
  MaxNow = 1
  MaxApi = 1
  MaxFaults = 1
SPECIFICATION FairSpec
PROPERTIES
  DueServed
  StopsWhenTold
