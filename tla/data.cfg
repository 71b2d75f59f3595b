\* Documents and archives of three entries or members; two or three rows of
\* every table; two runs of four manifests.
CONSTANTS
    None = None
    k1 = k1
    k2 = k2
    k3 = k3
    n1 = n1
    n2 = n2
    first = first
    before = before
    after = after
    Keys = {k1, k2, k3}
    Names = {n1, n2}
    Ranks = {first}
    Contents = {before, after}
    Groups = 2
    Manifests <- Applied
    r1 = r1
    r2 = r2
    Runs = {r1, r2}
    NoName = NoName
    NoSlug = NoSlug
    Texts <- SomeNames
    Folded <- Folds
    Slug <- Slugs
    Pictures = {"go"}
    Papers = {"go"}
    MaxRecords = 3
    MaxMembers = 3
    MaxMemberSize = 2
    MaxTotalSize = 4
    MaxRatio = 2
    MaxLength = 3
    Entries <- SomeEntries
    Members <- SomeMembers
    Null = Null
    Contacts = {c1, c2}
    Metrics = {m1}
    Projects = {p1, p2, p3}
    Buttons = {b1, b2}
    Items = {i1}
    MaxRank = 2
    MaxUpdated = 1
SPECIFICATION DataSpec
SYMMETRY SeedingSymmetry
CHECK_DEADLOCK FALSE
INVARIANTS
    FilesMatchRows
    ImportsAreSound
    GrowthKeepsKeys
    
PROPERTIES
    RepeatsCreateNothing
    
    
