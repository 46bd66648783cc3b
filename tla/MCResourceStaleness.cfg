CONSTANTS
    r1 = r1
    r2 = r2
    r3 = r3
    alice = alice
    bob = bob
    todo = todo
    done = done
    Req = {r1, r2}
    Kinds = {"list", "create", "update", "delete"}
    Users = {alice}
    Owned = FALSE
    Values = {todo, done}
    Refs = TRUE
    Queries = {done}
    TTL = 2
    Fails = TRUE
    None = None
    MaxRows = 1
SPECIFICATION FairSpecHistory
INVARIANTS OnlyOvertakenPagesAreStale
PROPERTIES EventuallyFresh
