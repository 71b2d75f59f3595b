CONSTANTS
    r1 = r1
    r2 = r2
    none = none
    t1 = t1
    t2 = t2
    e1 = e1
    Repos = {r1, r2}
    None = none
    Refreshers = {t1, t2}
    Editors = {e1}
    StaleReads = FALSE
    EditsOverlap = TRUE
SPECIFICATION Spec
CHECK_DEADLOCK FALSE
SYMMETRY Interchangeable
INVARIANT SnapshotDescribesProject
