CONSTANTS
  SynchModes = {FALSE, TRUE}
  FaultKinds = {"see", "sense_body", "change_view", "late", "overrun", "play_on", "restart"}
  MaxFaults = 1
  MaxOverruns = 2
SPECIFICATION FairSpec
INVARIANTS TypeOK PhaseAgreement CyclesAgreement
PROPERTIES SynchKept Resynchronises
