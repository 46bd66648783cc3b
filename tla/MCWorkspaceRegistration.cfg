CONSTANTS
    p1 = p1
    p2 = p2
    p3 = p3
    item = item
    part = part
    Proc = {p1, p2, p3}
    Names = {item, part}
    Ops = {"get", "post"}
    Absent = Absent
    ColumnNames <- AllColumns
    Credentials = {"password_hash"}
    Declarations <- AllFields
    Commands <- Registering
    InitialTables <- BothTables
    Kills = FALSE
    WritesFail = FALSE
SPECIFICATION SpecHistory
SYMMETRY ProcSymmetry
INVARIANTS ManifestGrounded MutualExclusion NoFalseAlarm
PROPERTIES ImplementsRegistry SuccessMeansMounted
