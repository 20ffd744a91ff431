SPECIFICATION MCSpec
CONSTANTS
    o1 = o1
    o2 = o2
    o3 = o3
    o4 = o4
    a = a
    b = b
    c = c
    d = d
    Op = {o1, o2, o3, o4}
    NoOp = NoOp
    Account = {a, b}
    NoAccount = NoAccount
    Lane <- RequestLanes
    NoLane = NoLane
    Limit <- RequestLimit
    MaxPending <- RequestPending
    SharedLanes <- BrowserLanes
    AccountLanes <- BrowserLanes
    RuntimeLanes <- BrowserLanes
    ControlLanes = {"identity"}
    LeaseLanes = {"foreground"}
    DetachedLanes <- BrowserLanes
    MaxLeases = 1
    RuntimeConnections = 2
    ControlConnections = 1
    MaxRevisions = 2
    MaxImports = 2
    Here <- Furnished
SYMMETRY Symmetry
INVARIANTS
    SlotsMatchOwners
    OneOperationPerAccount
    NoIdleSlotWhileWaiting
    PoolsSuffice
    StoppedMeansQuiet
    FilesComeBack
    StoredWritesStand
    OnlyValuesSlipThrough
CHECK_DEADLOCK FALSE
