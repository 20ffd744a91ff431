SPECIFICATION Spec
CONSTANTS
    MaxSpeed = 60
    StayRadius = 3
    StayMinDuration = 6
    MinTripDistance = 6
    WalkMaxSpeed = 2
    WalkLegMaxSpeed = 3
    ArrivalMinDuration = 2
    Legs <- BriskWalk
    MaxFixes = 10
    LateSteps = {0, 100}
    MaxLate = 0
    MaxTagged = 0
    MaxEdits = 1
INVARIANTS
    FullReprocessChangesNothing
CHECK_DEADLOCK FALSE
