SPECIFICATION OnboardSpec
CONSTANTS
    a1 = a1
    a2 = a2
    a3 = a3
    k1 = k1
    k2 = k2
    k3 = k3
    m1 = m1
    u1 = u1
    Managers = {m1}
    Uuids = {u1}
    Addresses = {a1, a2, a3}
    Keys = {k1, k2, k3}
    Ops <- AddsOnly
    InitialPeers <- OneInitial
    Nobody = Nobody
    Requests <- SerialRequests
    Timeouts = FALSE
    Drops = FALSE
    Hasty = FALSE
    MaxQueue = 2
    NewUuid = u1
    Pool <- AddressPool
    Jobs <- FullJobs
    NoIp = NoIp
INVARIANT MatchingPolicy
