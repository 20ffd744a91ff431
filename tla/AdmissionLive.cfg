SPECIFICATION FairSpec
CONSTANTS
    o1 = o1
    o2 = o2
    o3 = o3
    o4 = o4
    a = a
    b = b
    c = c
    d = d
    Op = {o1, o2, o3}
    NoOp = NoOp
    Account = {a, b, c}
    NoAccount = NoAccount
    Lane <- OneLane
    NoLane = NoLane
    Limit <- OneLimit
    MaxPending <- OnePending
    SharedLanes = {}
    AccountLanes <- OneLane
    RuntimeLanes <- OneLane
    ControlLanes = {}
    LeaseLanes <- OneLane
    DetachedLanes <- OneLane
    MaxLeases = 1
    RuntimeConnections = 1
    ControlConnections = 0
PROPERTIES
    NoBarging
    WaitsEnd
CHECK_DEADLOCK FALSE
