CONSTANTS
    t1 = t1
    t2 = t2
    Tab = {t1}
    Tokens = {1, 2, 3}
    TTL = 2
    Cuts = FALSE
    Rejects = TRUE
    None = None
    MaxFetches = 2
SPECIFICATION SpecHistory
INVARIANT NeverStuck
