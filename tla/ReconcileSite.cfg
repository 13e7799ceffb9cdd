SPECIFICATION MCSpec
CONSTANTS
    m1 = m1
    m2 = m2
    h1 = h1
    h2 = h2
    h3 = h3
    k1 = k1
    k2 = k2
    k3 = k3
    Managers = {m1, m2}
    Uuids = {u1, u2}
    Addresses = {h1, h2, h3}
    Keys = {k1, k2, k3}
    Ops <- SomeOps
    InitialPeers <- OneInitial
    Nobody = Nobody
    Timeouts = TRUE
    Drops = TRUE
    MaxQueue = 2
    q1 = q1
    q2 = q2
    e3 = e3
    Admins = {m1}
    Sites = {s1, s2}
    TunnelIps = {a1, a2}
    PubKeys = {k1, k2, k3}
    Psks = {q1, q2}
    Endpoints = {e1, e2, e3}
    NoPsk = NoPsk
    NoEndpoint = NoEndpoint
    InitialHub <- HubPeers
    InitialSites <- Drifted
    PreferHub = FALSE
    Expected = e2
    Old = e1
    New = e2
    u1 = u1
    u2 = u2
    c1 = c1
    n1 = n1
    n2 = n2
    x1 = x1
    x2 = x2
    p1 = p1
    p2 = p2
    a1 = a1
    a2 = a2
    plain = plain
    grouped = grouped
    e1 = e1
    e2 = e2
    wan1 = wan1
    wan2 = wan2
    b1 = b1
    b2 = b2
    s1 = s1
    s2 = s2
    Incomplete = Incomplete
    NoCall = NoCall
    Gone = Gone
    NoPlan = NoPlan
    NoPatch = NoPatch
    NoWan = NoWan
    Policies = {u1, u2}
    Confs = {c1}
    Nets = {n1, n2}
    Extras = {x1, x2}
    Gateways = {g1, g2}
    g1 = g1
    g2 = g2
    Mine = g1
    OtherRows <- MCRows
    MaxPosted = 1
    Ids = {p1, p2}
    Apps = {a1, a2}
    Scopes = {plain, grouped}
    Explicit = {plain}
    Effects = {e1, e2}
    OtherPolicies <- MCPolicies
    BuggyCaller = TRUE
    Lines = {wan1, wan2}
    Bands = {b1, b2}
    Settings = {s1, s2}
    OtherWans <- MCWans
    MaxPushed = 2
INVARIANT PeersSurvive
