CONSTANTS
    s1 = s1
    w1 = w1
    h1 = h1
    Submissions = {s1}
    Workers = {w1}
    Handlers = {h1}
    EmailModes = {TRUE}
    BatchLimit = 1
    MaxAttempts = 2
    Lease = 2
    BaseDelay = 1
    MaxDelay = 2
    MaxClaims = 3
    MaxFaults = 1
SPECIFICATION Spec
CHECK_DEADLOCK FALSE
INVARIANT MailedAtMostOnce
