CONSTANTS
    r1 = r1
    r2 = r2
    r3 = r3
    alice = alice
    bob = bob
    ip1 = ip1
    ip2 = ip2
    ip3 = ip3
    t1 = t1
    t2 = t2
    Req = {r1, r2}
    Kinds = {"login", "logout_all", "me"}
    Emails = {alice}
    InitialAccounts = {alice}
    IPs = {ip1}
    Trusted = {}
    Callers = {ip1}
    Claims = {Blank}
    Forged <- Nothing
    Relays <- Nothing
    Blank = Blank
    Garbage = Garbage
    IPv6Prefix <- OneAddressPerPrefix
    Guesses = {TRUE}
    TokenIds = {t1}
    SessionTTL = 1
    mobileTokenTTL = 1
    RateLimitWindow = 1
    maxAttemptsPerIP = 2
    maxAttemptsPerAccount = 2
    ReadsFail = TRUE
    WritesFail = TRUE
    None = None
    NoRow = NoRow
    NoLock = NoLock
    MaxLag = 2
    MaxTime = 2
    MaxEpoch = 2
    MaxCookies = 2
    MaxRows = 9
SPECIFICATION Spec
SYMMETRY ConcurrencySymmetry

PROPERTY SupersededCookieRejected
