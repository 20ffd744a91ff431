SPECIFICATION Spec
CONSTANTS
    MaxSpeed = 60
    StayRadius = 3
    StayMinDuration = 6
    MinTripDistance = 6
    WalkMaxSpeed = 2
    WalkLegMaxSpeed = 3
    ArrivalMinDuration = 2
    Legs <- TwoDrives
    MaxFixes = 5
    LateSteps = {0, 100}
    MaxLate = 0
    MaxTagged = 0
    MaxEdits = 2
INVARIANTS
    TripFixesRecovered
CHECK_DEADLOCK FALSE
