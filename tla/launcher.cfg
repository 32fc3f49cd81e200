CONSTANTS
  Children = 3
  OwnCodes = {0, 7}
  MaxSignals = 2
SPECIFICATION FairSpec
CHECK_DEADLOCK FALSE
INVARIANTS
  TypeOK
  NoneLeftBehind
  AskedBeforeKilled
  UnexpectedExitReported
PROPERTIES
  ShutdownEnds
