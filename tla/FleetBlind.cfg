SPECIFICATION Spec
CONSTANTS
    d1 = d1
    d2 = d2
    d3 = d3
    g1 = g1
    g2 = g2
    g3 = g3
    Devices = {d1, d2, d3}
    Groups <- TwoGroups
    Indexed = {g1, g2}
    PerPage = 1
    MaxPages = 3
    MaxChanges = 1
    Unset = Unset
    HierarchyMoves = TRUE
INVARIANT InconsistentPagesRejected
