SPECIFICATION Spec
CONSTANTS
    TeamSize = 3
    Goalie = 1
    OurSide = "right"
    MaxKicks = 7
    MaxGoals = 2
    FaultKinds = {"loss", "restart"}
    MaxFaults = 1
    MaxInbox = 2
INVARIANTS TypeOK KnowsShootout RightSide FacesGoal
PROPERTIES KeepsOrder
CHECK_DEADLOCK FALSE
