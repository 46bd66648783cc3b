CONSTANTS
    p1 = p1
    p2 = p2
    p3 = p3
    item = item
    part = part
    Proc = {p1, p2, p3}
    Names = {item, part}
    Ops = {"get", "post"}
    Absent = Absent
    ColumnNames <- GivenColumns
    Credentials = {}
    Declarations <- GivenFields
    Commands <- Crashing
    InitialTables <- OrphanItemOnly
    Kills = TRUE
    WritesFail = TRUE
SPECIFICATION FairSpecHistory
INVARIANTS TypeOK SnapshotCurrent ManifestGrounded RegisteredHaveFiles MountedAreRegistered SomebodyCanMove
PROPERTIES SuccessMeansMounted MountedForGood CommandsRunOut EveryCommandEnds
