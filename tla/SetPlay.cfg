SPECIFICATION Spec
CONSTANTS
    DropBallTime = 22
    GoalieHold = 6
    MaxLost = 1
INVARIANTS TypeOK WaitsEnd KnowsSetPlay
PROPERTIES WaitsForTeam
