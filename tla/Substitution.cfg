SPECIFICATION FairSpec
CONSTANTS
    Players = {1, 2, 3}
    PlayerTypes = 3
    PtMax = 1
    SubsMax = 1
    AllowMultDefaultType = TRUE
    FaultKinds = {"request", "message", "late"}
    MaxFaults = 1
    MaxInbox = 2
INVARIANTS TypeOK AvailableIsSubstitutable BookkeepingAgrees NoneRefused
PROPERTIES OnlyTiredReplaced TiredReplaced
