SPECIFICATION Spec
CONSTANTS
    CPUs = {c1}
    Envs = {e1, e2}
    Pages = {p1, p2, p3, p4, p5, p6}
    v1 = v1
    v2 = v2
    v3 = v3
    d1 = d1
    d2 = d2
    VAs = {v1, v2, v3}
    PDEs = {d1, d2}
    PDX <- TwoTables
    RefMod = 16
    NULL = NULL
INVARIANTS
    RefsExact
    FreeExact
    TablesPrivate
    TlbCoherent
SYMMETRY Symmetry
CHECK_DEADLOCK FALSE
