\* Three versions of a resume and two requests about them; two profiles, two
\* portraits, one medium and two editors.
CONSTANTS
    v1 = v1
    v2 = v2
    v3 = v3
    None = None
    q1 = q1
    q2 = q2
    Versions = {v1, v2, v3}
    Requests = {q1, q2}
    StaleReads = FALSE
    f1 = f1
    f2 = f2
    p1 = p1
    p2 = p2
    m1 = m1
    e1 = e1
    e2 = e2
    Profiles = {f1, f2}
    Portraits = {p1, p2}
    Media = {m1}
    Editors = {e1, e2}
    Nobody = Nobody
SPECIFICATION AssetsSpec
SYMMETRY AssetsSymmetry

    
PROPERTIES
    CurrentIsOnlyReplaced
    PrimariesAreSound
CHECK_DEADLOCK FALSE
