CONSTANTS
    r1 = r1
    r2 = r2
    r3 = r3
    alice = alice
    bob = bob
    todo = todo
    done = done
    Req = {r1, r2}
    Kinds = {"list", "detail", "create", "update", "delete"}
    Users = {alice, bob}
    Owned = TRUE
    Values = {todo, done}
    Refs = TRUE
    Queries = {None}
    TTL = 0
    Fails = TRUE
    None = None
    MaxRows = 1
SPECIFICATION Spec
SYMMETRY ResourceSymmetry
INVARIANTS TypeOK OwnPagesOnly
PROPERTIES OwnersWriteOwn
