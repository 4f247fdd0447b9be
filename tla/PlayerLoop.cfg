SPECIFICATION Spec
CONSTANTS
    SynchModes = {FALSE, TRUE}
    FaultKinds = {"loss", "overrun", "mid_step"}
    MaxFaults = 2
    MaxStep = 6
    MaxFaultStep = 4
    MaxInbox = 3
INVARIANTS TypeOK DecidedOnce NoIntentionAcrossStop
PROPERTIES EveryStepDecided DecidesOnOwnBody MovingStepDecided
CHECK_DEADLOCK FALSE
