SPECIFICATION MCSpec
CONSTANTS
    t1 = t1
    t2 = t2
    t3 = t3
    d1 = d1
    d2 = d2
    o1 = o1
    o2 = o2
    p1 = p1
    p2 = p2
    r1 = r1
    a1 = a1
    a2 = a2
    Trip = {t1, t2, t3}
    NoTrip = NoTrip
    Device = {d1, d2}
    DeviceOf <- Owner
    Sparse = {t3}
    Snapped = {"low_confidence"}
    Split = {t1}
    Size <- Bytes
    MinSize = 1
    Allowance = 2
    MaxEdits = 2
    Op = {o1, o2}
    Process = {p1, p2}
    HostOf <- Hosts
    Dir = {1, 2}
    MaxDirs = 2
    NoDir = 0
    NoOp = NoOp
    Replica = {r1}
    Kinds <- TwoKinds
    Address = {a1, a2}
    NoAddress = NoAddress
    Length = 2
    MaxHours = 1
    MaxSettings = 2
    MaxFaults = 1
    NoReplica = NoReplica
INVARIANTS
    PathMatchesFixes
PROPERTIES
    RevokedDeviceUntouched
    EveryTripTried
    NothingHangs
