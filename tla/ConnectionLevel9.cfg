SPECIFICATION Spec
CONSTANTS
  Levels = {9}
  ServerWait = 3
  MaxFaults = 0
INVARIANTS UnderstandsEveryLevel
CHECK_DEADLOCK FALSE
