CONSTANTS
    r1 = r1
    r2 = r2
    r3 = r3
    alice = alice
    bob = bob
    ip1 = ip1
    ip2 = ip2
    ip3 = ip3
    t1 = t1
    t2 = t2
    Req = {r1, r2}
    Kinds = {"login"}
    Emails = {alice}
    InitialAccounts = {alice}
    IPs = {ip1}
    Trusted = {}
    Callers = {ip1}
    Claims = {Blank}
    Forged <- Nothing
    Relays <- Nothing
    Blank = Blank
    Garbage = Garbage
    IPv6Prefix <- OneAddressPerPrefix
    Guesses = {FALSE}
    TokenIds = {t1}
    SessionTTL = 1
    mobileTokenTTL = 1
    RateLimitWindow = 1
    maxAttemptsPerIP = 2
    maxAttemptsPerAccount = 2
    ReadsFail = FALSE
    WritesFail = FALSE
    None = None
    NoRow = NoRow
    NoLock = NoLock
    MaxLag = 2
    MaxTime = 1
    MaxEpoch = 0
    MaxCookies = 2
    MaxRows = 9
SPECIFICATION Spec
SYMMETRY ConcurrencySymmetry
INVARIANT AttemptsWithinBudget
