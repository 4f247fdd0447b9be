CONSTANTS
  SynchModes = {FALSE}
  FaultKinds = {"play_on"}
  MaxFaults = 1
  MaxOverruns = 0
SPECIFICATION Spec
PROPERTIES
  SynchChanceIsTime000
