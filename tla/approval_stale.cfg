CONSTANTS
    None = None
    q1 = q1
    q2 = q2
    Requests = {q1, q2}
    t1 = t1
    t2 = t2
    Texts = {t1, t2}
    url = url
    asset = asset
    Sources = {url, asset}
    Asset = asset
    MaxRevision = 3
    MaxRows = 2
    StaleReads = TRUE
SPECIFICATION Spec
SYMMETRY ApprovalSymmetry
INVARIANT ShownIsReviewed
