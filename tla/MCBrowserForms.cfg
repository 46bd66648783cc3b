CONSTANTS
    t1 = t1
    t2 = t2
    Tab = {t1, t2}
    Tokens = {1, 2, 3}
    TTL = 1
    Cuts = TRUE
    Rejects = TRUE
    None = None
    MaxFetches = 2
SPECIFICATION FairSpecHistory
INVARIANTS TypeOK StrayRefused RefusedOnlyAfterUnrest
PROPERTIES OnlyThrowsFreeze PressedButtonsComeBack
