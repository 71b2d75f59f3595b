\* Two requests on one subject and its evidence; two replacements of an order
\* of two projects; two edits of at most two sections.
CONSTANTS
    None = None
    q1 = q1
    q2 = q2
    Requests = {q1, q2}
    t1 = t1
    t2 = t2
    Texts = {t1, t2}
    url = url
    asset = asset
    Sources = {url, asset}
    Asset = asset
    MaxRevision = 3
    MaxRows = 2
    StaleReads = FALSE
    NoOne = NoOne
    o1 = o1
    o2 = o2
    Replacements = {o1, o2}
    p1 = p1
    p2 = p2
    Projects = {p1, p2}
    Limit = 2
    Ranks = {1, 2}
    a = a
    b = b
    Types = {a, b}
    Compositions <- Orderings
    Positions = {2}
    MaxSections = 2
    e1 = e1
    e2 = e2
    Editors = {e1, e2}
    Idle = Idle
SPECIFICATION EditsSpec
SYMMETRY EditsSymmetry
INVARIANTS
    ShownIsReviewed
    TextIsReviewed
    
    CompositionsFit
PROPERTIES
    RevisionMovesOn
    FeaturedAsAsked
    CompositionAsAsked
