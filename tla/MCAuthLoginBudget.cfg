CONSTANTS
    r1 = r1
    r2 = r2
    r3 = r3
    alice = alice
    bob = bob
    ip1 = ip1
    ip2 = ip2
    ip3 = ip3
    t1 = t1
    t2 = t2
    Req = {r1, r2}
    Kinds = {"login", "me"}
    Emails = {alice}
    InitialAccounts = {alice}
    IPs = {ip1}
    Trusted = {}
    Callers = {ip1}
    Claims = {Blank}
    Forged <- Nothing
    Relays <- Nothing
    Blank = Blank
    Garbage = Garbage
    IPv6Prefix <- OneAddressPerPrefix
    Guesses = {TRUE, FALSE}
    TokenIds = {t1}
    SessionTTL = 0
    mobileTokenTTL = 0
    RateLimitWindow = 2
    maxAttemptsPerIP = 2
    maxAttemptsPerAccount = 3
    ReadsFail = FALSE
    WritesFail = FALSE
    None = None
    NoRow = NoRow
    NoLock = NoLock
    MaxTime = 3
    MaxLag = 1
    MaxEpoch = 0
    MaxCookies = 3
    MaxRows = 9
SPECIFICATION SpecHistory
SYMMETRY ConcurrencySymmetry
INVARIANTS WindowBudget LocksMatchCounts LocksAreEarned
PROPERTIES OnlyProofClears
