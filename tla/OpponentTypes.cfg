SPECIFICATION FairSpec
CONSTANTS
    MaxOpponent = 2
    MaxType = 2
    PtMax = 1
    Allowed = 2
    MaxChanges = 2
    FaultKinds = {"change", "told", "say", "hear", "late"}
    MaxFaults = 2
    MaxQueue = 2
INVARIANTS TypeOK IdentifiedRight BelievesRight
PROPERTIES Told
