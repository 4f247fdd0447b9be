CONSTANTS
  SynchModes = {TRUE}
  FaultKinds = {}
  MaxFaults = 0
  MaxOverruns = 0
SPECIFICATION Spec
PROPERTIES
  StoppedUnsynchedIsNarrowLow
