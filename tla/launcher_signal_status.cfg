CONSTANTS
  Children = 3
  OwnCodes = {0, 7}
  MaxSignals = 2
SPECIFICATION Spec
CHECK_DEADLOCK FALSE
INVARIANTS
  SignalIsSuccess
