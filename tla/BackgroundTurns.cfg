SPECIFICATION Spec
CONSTANTS
    detector = detector
    snap = snap
    geocode = geocode
    None = None
    Worker = {detector, snap}
    MaxAccount = 2
    Toggled = {}
    RefreshDeferred = {geocode}
    Downstream <- Feeds
    Faults = {"turn"}
    MaxBacklog <- Uneven
    MaxRestarts = 1
INVARIANTS
    WorkIsRemembered
    BoundedBypass
CHECK_DEADLOCK FALSE
