\* Two buckets and two callers whose clock readings may lag by half a window.
\* Two failing logins from one client for one account over two windows; one
\* administrator, one login and two commands at a time.
CONSTANTS
    ip = ip
    email = email
    c1 = c1
    c2 = c2
    Buckets = {ip, email}
    Callers = {c1, c2}
    Resettable = {email}
    Limit = 2
    Window = 2
    MaxLag = 1
    MaxTime = 5
    Accounts = {account}
    Clients = {client}
    Attempts = {l1, l2}
    account = account
    client = client
    l1 = l1
    l2 = l2
    MaxFailures = 2
    Threshold = 2
    FailureWindow = 2
    LastInstant = 3
    Admins = {admin}
    Emails = {e1, e2}
    Secrets = {s1, s2}
    Tokens = {t1}
    Logins = {login}
    Operators = {o1, o2}
    None = None
    admin = admin
    e1 = e1
    e2 = e2
    s1 = s1
    s2 = s2
    t1 = t1
    login = login
    o1 = o1
    o2 = o2
SPECIFICATION LimitsSpec
SYMMETRY LimitsSymmetry
CHECK_DEADLOCK FALSE
INVARIANTS
    WithinLimit
    BurstsAreBounded
    CredentialsHold
PROPERTIES
    WindowsDoNotOverlap
    AllOrNothing
