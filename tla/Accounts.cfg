SPECIFICATION MCSpec
CONSTANTS
    a1 = a1
    a2 = a2
    s1 = s1
    s2 = s2
    e1 = e1
    e2 = e2
    e3 = e3
    u1 = u1
    b1 = b1
    b2 = b2
    h1 = h1
    h2 = h2
    q1 = q1
    q2 = q2
    k1 = k1
    k2 = k2
    g1 = g1
    g2 = g2
    i1 = i1
    i2 = i2
    i3 = i3
    r1 = r1
    r2 = r2
    r3 = r3
    r4 = r4
    v1 = v1
    v2 = v2
    v3 = v3
    c1 = c1
    c2 = c2
    x1 = x1
    x2 = x2
    Nil = Nil
    Nobody = Nobody
    None = None
    Account = {a1, a2}
    First = a1
    Secret = {s1, s2}
    Email = {e1, e2, e3}
    Unit = {u1}
    MaxVersion = 3
    MaxChanges = 3
    Browser = {b1, b2}
    App = {h1, h2}
    Req = {q1, q2}
    Code = {k1, k2}
    Grant = {g1, g2}
    PendingCap = 1
    Limit = 1
    MaxPairs = 4
    MaxAccountEnds = 1
    Item = {i1, i2, i3}
    Request = {r1, r2, r3, r4}
    Asks <- ClientAsks
    Vehicle = {v1, v2, v3}
    Setter = {c1, c2}
    Attempts = 2
SYMMETRY Symmetry
INVARIANTS
    AdministratorRemains
    WorkHasItsAccount
    GrantsContained
    RecordsStand
PROPERTIES
    SecretsAreOneShot
    SessionsEndForGood
CHECK_DEADLOCK FALSE
