\* Two requests race for one key while the outbox delivers and fails.
CONSTANTS
    s1 = s1
    s2 = s2
    w1 = w1
    h1 = h1
    h2 = h2
    k1 = k1
    none = none
    p1 = p1
    p2 = p2
    a1 = a1
    Submissions = {s1, s2}
    Workers = {w1}
    Handlers = {h1, h2}
    EmailModes = {TRUE}
    BatchLimit = 1
    MaxAttempts = 1
    Lease = 1
    BaseDelay = 0
    MaxDelay = 0
    MaxClaims = 1
    MaxFaults = 1
    Keys = {k1}
    NoKey = none
    Payloads = {p1, p2}
    Addresses = {a1}
    AddressLimit = 1
    PayloadLimit = 1
    Window = 1
    MaxClock = 1
SPECIFICATION IntakeSpec
SYMMETRY Interchangeable
CHECK_DEADLOCK FALSE
INVARIANTS
    ReceiptsAgree
    ReceiptsAreStored
    KnownIsNeverDenied
    QuotaIsKept
