\* A poller and a request share two rows; the request may be the administrator's.
CONSTANTS
    s1 = s1
    s2 = s2
    w1 = w1
    h1 = h1
    Submissions = {s1, s2}
    Workers = {w1}
    Handlers = {h1}
    EmailModes = {TRUE, FALSE}
    BatchLimit = 1
    MaxAttempts = 2
    Lease = 2
    BaseDelay = 1
    MaxDelay = 2
    MaxClaims = 4
    MaxFaults = 2
SPECIFICATION FairSpec
CHECK_DEADLOCK FALSE
INVARIANTS
    TypeOK
    AttemptsAreExclusive
    SettledIsTrue
    NoticeMirrorsOutbox
    MailedOnceUnlessFaulty
PROPERTIES
    OnlyAStaleResetReopensSent
    EventuallySettled
    KeepsPromise
