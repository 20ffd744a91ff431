SPECIFICATION MCSpec
CONSTANTS
    f1 = f1
    f2 = f2
    Fix = {f1, f2}
    Session = {"turn", "operator", "editor"}
    Device = {1}
    StreamOf <- OnePhone
    Margin = 2
    MaxIngest = 1
    TurnMaxPoints = 1
    MaxClock = 4
    MaxEdits = 1
    MaxUpgrades = 1
    MaxRestarts = 1
    o1 = o1
    o2 = o2
    o3 = o3
    p1 = p1
    p2 = p2
    r1 = r1
    r2 = r2
    a1 = a1
    a2 = a2
    Op = {o1, o2, o3}
    Process = {p1, p2}
    HostOf <- Hosts
    Dir = {1, 2, 3}
    MaxDirs = 2
    NoDir = 0
    NoOp = NoOp
    Replica = {r1, r2}
    Kinds <- TwoKinds
    Address = {a1, a2}
    NoAddress = NoAddress
    Length = 2
    MaxHours = 1
    MaxSettings = 3
    MaxFaults = 1
    NoReplica = NoReplica
    Server = {r1, r2}
    Trips = {1, 2}
    Manual = {2}
    Coord = {c1, c2}
    Page = 1
    MaxChanges = 3
    MaxCrashes = 1
SYMMETRY Symmetry
INVARIANTS
    FilesOutliveTheirUsers
    DigestsOncePerPeriod
    NoFixLost
    EditsSurvive
    OneWriter
PROPERTIES
    AddressesFollowTrips
CHECK_DEADLOCK FALSE
