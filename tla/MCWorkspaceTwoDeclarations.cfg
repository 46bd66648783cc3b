CONSTANTS
    p1 = p1
    p2 = p2
    p3 = p3
    item = item
    part = part
    Proc = {p1, p2}
    Names = {item, part}
    Ops = {"get", "post"}
    Absent = Absent
    ColumnNames <- GivenColumns
    Credentials = {}
    Declarations <- GivenFields
    Commands <- TwoDeclarations
    InitialTables <- BothTables
    Kills = FALSE
    WritesFail = FALSE
SPECIFICATION SpecHistory
SYMMETRY ProcSymmetry
INVARIANT ScaffoldsAreWhole
