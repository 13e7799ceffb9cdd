SPECIFICATION MCSpec
CONSTANTS
    d1 = d1
    d2 = d2
    d3 = d3
    g1 = g1
    g2 = g2
    g3 = g3
    s1 = s1
    s2 = s2
    n1 = n1
    n2 = n2
    i1 = i1
    i2 = i2
    t1 = t1
    t2 = t2
    m1 = m1
    m2 = m2
    v1 = v1
    v2 = v2
    a1 = a1
    a2 = a2
    a3 = a3
    Unset = Unset
    Unbound = Unbound
    NoId = NoId
    NoTarget = NoTarget
    Absent = Absent
    Devices = {d1, d2, d3}
    Groups <- MCGroups
    Indexed = {g1, g2}
    PerPage = 1
    MaxPages = 2
    MaxChanges = 2
    HierarchyMoves = TRUE
    ListPerPage = 2
    ListMaxPages = 3
    MayStick = TRUE
    Sections = 5
    Deadline = 6
    Cap = 2
    WanDeadline = 3
    Pieces = 2
    Default = 30
    Sns = {s1, s2}
    Names = {n1, n2}
    MaxNodes = 4
    GroupIds = {i1, i2}
    Models = {m1, m2}
    Versions = {v1, v2}
    ArtifactIds = {a1, a2, a3}
    Catalogs <- MCCatalogs
    Targets <- MCTargets
    Pages <- MCPages
    Workers = 1
    TimeLimit = 3
    Hops = 1
    Chunks = 1
    Drips = 2
INVARIANTS
    ReadsTypeOK
    StableDevicesListed
    ExactAtRest
    OnlyDeparturesHide
    OverrunBounded
    Accounted
    OnlyLateSkipped
    NamesWereBound
    HierarchyRead
    AdviceConverges
    JudgedByWholePages
    ProbeBounded
PROPERTIES
    CollectionEnds
    ScanEnds
