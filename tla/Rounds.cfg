SPECIFICATION MCSpec
CONSTANTS
    f1 = f1
    f2 = f2
    Fix = {f1, f2}
    Session = {"turn", "operator"}
    Device = {1, 2}
    StreamOf <- TwoPhones
    Margin = 2
    MaxIngest = 1
    TurnMaxPoints = 1
    MaxClock = 3
    MaxEdits = 0
    MaxUpgrades = 0
    MaxRestarts = 0
    Server = {r1}
    Trips = {1, 2}
    Manual = {2}
    Coord = {c1, c2}
    Page = 1
    MaxChanges = 3
    MaxCrashes = 0
    Worker = {w}
    Searcher = {s1, s2}
INVARIANTS
    TicketsKeepOrder
PROPERTIES
    NothingStarves
CHECK_DEADLOCK FALSE
