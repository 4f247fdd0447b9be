SPECIFICATION Spec
CONSTANTS
  Levels = {0, 6, 9}
  ServerWait = 3
  MaxFaults = 2
INVARIANTS TypeOK Understands ByeOnce
PROPERTIES NoFalseAlarm GivesUp JoinsOrStops
CHECK_DEADLOCK FALSE
