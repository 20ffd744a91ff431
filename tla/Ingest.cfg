SPECIFICATION MCSpec
CONSTANTS
    own = own
    old = old
    ownCred = ownCred
    newCred = newCred
    oldCred = oldCred
    d1 = d1
    d2 = d2
    m1 = m1
    m2 = m2
    m3 = m3
    m4 = m4
    m5 = m5
    track = track
    tid = tid
    r1 = r1
    r2 = r2
    None = None
    Req = {r1, r2}
    Phone = {own, old, track}
    RouteOf <- Routes
    Msg = {m1, m2, m3, m4, m5}
    SenderOf <- Senders
    KindOf <- KindsOf
    LabelOf <- Labels
    TimeOf <- Times
    Label = {tid}
    Cred = {ownCred, newCred, oldCred}
    Dev = {d1, d2}
    LegacyCred = oldCred
    FirstCred <- FirstCreds
    Batch = 1
    MaxSends = 3
    MaxChanges = 1
    MaxCrashes = 1
    c1 = c1
    c2 = c2
    c3 = c3
    ip1 = ip1
    ip2 = ip2
    Caller = {c1, c2, c3}
    Address = {ip1, ip2}
    MaxFailures = 2
    Window = 1
    MaxAuth = 2
    MaxKeys = 1
    PruneInterval = 1
    MaxNow = 2
    MaxTries = 4
    w1 = w1
    w2 = w2
    h1 = h1
    n1 = n1
    p1 = p1
    Null = Null
    Drive = {w1, w2}
    Manual = {h1}
    Imported = {n1}
    Place = {p1}
    Kind = {"home", "work"}
    Ends <- TripEnds
    Neighbours <- TripNeighbours
    Rule <- RuleTexts
    Seeded <- SeededRules
    MaxRules = 2
SYMMETRY Symmetry
INVARIANTS
    StoredExactlyOnce
    GuessesBounded
    CategoriesAgree
PROPERTIES
    CredentialsDecide
CHECK_DEADLOCK FALSE
