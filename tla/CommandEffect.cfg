SPECIFICATION Spec
CONSTANTS
    BodyTypes = {"dash", "turn"}
    FaultKinds = {"command", "sense_body", "late", "overrun"}
    MaxFaults = 3
    MaxStep = 5
INVARIANTS TypeOK EffectMatchesServer TypeMatchesServer
CHECK_DEADLOCK FALSE
