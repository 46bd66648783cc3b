CONSTANTS
    r1 = r1
    r2 = r2
    r3 = r3
    alice = alice
    bob = bob
    ip1 = ip1
    ip2 = ip2
    ip3 = ip3
    t1 = t1
    t2 = t2
    Req = {r1, r2}
    Kinds = {"register", "me", "logout_all", "login_token", "logout_token"}
    Emails = {alice}
    InitialAccounts = {}
    IPs = {ip1, ip2, ip3}
    Trusted = {ip2}
    Callers = {ip1}
    Claims = {Blank, ip3}
    Forged <- Forgeries
    Relays <- OneHop
    Blank = Blank
    Garbage = Garbage
    IPv6Prefix <- OneAddressPerPrefix
    Guesses = {TRUE, FALSE}
    TokenIds = {t1}
    SessionTTL = 0
    mobileTokenTTL = 1
    RateLimitWindow = 1
    maxAttemptsPerIP = 2
    maxAttemptsPerAccount = 2
    ReadsFail = TRUE
    WritesFail = TRUE
    None = None
    NoRow = NoRow
    NoLock = NoLock
    MaxLag = 1
    MaxTime = 1
    MaxEpoch = 2
    MaxCookies = 2
    MaxRows = 1
SPECIFICATION Spec
SYMMETRY ConcurrencySymmetry
INVARIANTS TypeOK OnlyProvenGetCredentials
PROPERTIES CountedWhereFrom ImplementsLedger
