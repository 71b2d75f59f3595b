SPECIFICATION Spec
CONSTANTS
    profile = profile
    project = project
    skill = skill
    sector = sector
    metric = metric

    Items <- MCItems
    KindOf <- MCKindOf
    Links <- MCLinks
    Facts <- MCFacts
    Score <- MCScore
    Marked = {}
    Matching = {project}
    Readers = {r1, r2}
    Drafts = {}
    Hushed = {sector}
    Editable = {profile, project, skill}
    ReadTime = 1
    StaleIfError = 1
    MaxClock = 3
    MaxEdits = 1
    MaxSources = 3
    MaxContext = 4
    Provider = TRUE
    MaxClaims = 1
SYMMETRY Symmetry
CHECK_DEADLOCK FALSE
INVARIANTS
    CrawlersAreCurrent
    SourcesWereIndexable
    AnswersHold
    ContextIsBounded
