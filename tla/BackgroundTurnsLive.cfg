SPECIFICATION PokeSpec
CONSTANTS
    detector = detector
    snap = snap
    geocode = geocode
    None = None
    Worker = {geocode}
    MaxAccount = 2
    Toggled = {2}
    RefreshDeferred = {geocode}
    Downstream <- Feeds
    Faults = {"turn", "before_turn", "enumeration"}
    MaxBacklog <- Even
    MaxRestarts = 0
PROPERTIES
    AccountsGetTurns
CHECK_DEADLOCK FALSE
