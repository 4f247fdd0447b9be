SPECIFICATION Spec
CONSTANTS
    MaxOpponent = 3
    MaxType = 1
    PtMax = 2
    Allowed = 0
    MaxChanges = 4
    FaultKinds = {}
    MaxFaults = 0
    MaxQueue = 2
INVARIANTS OnlyCandidateIsRight
