SPECIFICATION MCSpec
CONSTANTS
    MaxSpeed = 60
    StayRadius = 3
    StayMinDuration = 6
    MinTripDistance = 6
    WalkMaxSpeed = 2
    WalkLegMaxSpeed = 3
    ArrivalMinDuration = 2
    Legs <- TwoDrives
    MaxFixes = 8
    LateSteps = {0, 100}
    MaxLate = 1
    MaxTagged = 1
    MaxEdits = 1
    Offset = 1
    Accounts <- AllBooks
    Orders <- AllOrders
    Edits <- EditsOf
    Todays = {70, 100}
    MaxChanges = 1
INVARIANTS
    UnsplitWindowsAgree
    TripsOwnTheirFixes
    EditsLast
    ReportsAgree
PROPERTIES
    SettledTripsStay
CHECK_DEADLOCK FALSE
