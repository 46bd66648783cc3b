-------------------------- MODULE WorkspaceHistory --------------------------
(***************************************************************************)
(* Workspace with two history variables: which commands, and which models  *)
(* of api.json, were checked against a table that gova sql has changed     *)
(* since.  The check is made before the lock is taken and is never made    *)
(* again, and a table may be altered or dropped at any moment.  The        *)
(* variables only watch: no action of Workspace reads them.                *)
(***************************************************************************)
EXTENDS WorkspaceProperties

VARIABLES
    stale_checks,   \* the processes that carry such a check
    stale_rows      \* the models whose row such a check has let in, or outlived

historyVars == <<vars, stale_checks, stale_rows>>

DeclaresModel(c) == c.kind \in {"resource", "model"}

\* Where a command of a model stands once its table, and its reference, are
\* checked, until its row is written.
AfterRefs   == {"render", "lock", "read", "write_api"}
AfterSchema == {"refs"} \cup AfterRefs

Changed == {n \in Names : tables[n] # Absent /\ tables'[n] # tables[n]}

\* Who writes the row of n in this step.
Landing(n) == {p \in Proc : /\ pc[p] = "write_api" /\ pc'[p] = "write_routes"
                            /\ DeclaresModel(cmd[p]) /\ cmd[p].name = n}

Watch ==
    /\ stale_checks' = stale_checks \cup
          {p \in Proc : /\ pc[p] \in AfterSchema /\ DeclaresModel(cmd[p])
                        /\ cmd[p].name \in Changed}
    /\ stale_rows' = {n \in Names : IF Landing(n) = {} THEN n \in stale_rows \cup Changed
                                    ELSE Landing(n) \subseteq stale_checks}

InitHistory == Init /\ stale_checks = {} /\ stale_rows = {}

NextHistory == Next /\ Watch

SpecHistory == InitHistory /\ [][NextHistory]_historyVars

FairSpecHistory == SpecHistory /\ \A p \in Proc : WF_vars(Step(p))

----------------------------------------------------------------------------
\* What a generated model of each field type reads without an error.
Readable == [int |-> {"INTEGER"}, boolean |-> {"INTEGER", "BOOLEAN"},
             float |-> {"REAL"}, string |-> {"VARCHAR", "TEXT"},
             timestamp |-> {"DATETIME", "DATE", "VARCHAR", "TEXT"}]

\* A column a model of this type can read; or the one that passes for such a
\* column: normalizeSQLType makes an INTEGER of BOOLEAN, for which the driver
\* hands out a bool that an int64 does not take.
Suits(column, type) == column.type \in Readable[type] \/ (type = "int" /\ column.type = "BOOLEAN")

\* What a model's row asks of a table.
GroundedRow(table, row) ==
    /\ table # Absent
    /\ table["id"] # Absent /\ Suits(table["id"], "int")
    /\ table["created_at"] # Absent /\ Suits(table["created_at"], "timestamp")
    /\ row.owned => /\ table["user_id"] # Absent /\ Suits(table["user_id"], "int")
                    /\ table["user_id"].notnull /\ table["user_id"].references = "users"
    /\ \A f \in row.fields :
          /\ f.name \notin {"id", "created_at", "user_id"} \cup Credentials
          /\ table[f.name] # Absent /\ Suits(table[f.name], f.type)
          /\ f.nullable = ~table[f.name].notnull

\* Every model in api.json has a table its generated code was made for, unless
\* that table has been altered or dropped since it was looked at, before or after
\* the row was written: the columns the code selects are there, of a type that
\* suits, with a NULL expected exactly where one can be, an owned row's key never
\* NULL and a user's, and no secret and none of the code's own columns among those
\* a client writes.  And it references only models that are in api.json.  Both are
\* checked before the lock is taken, while others change tables and register
\* (tools.go prepareModel, schema.go 281-333, manifest.go validateRefsAt).
\* Nothing is said of what becomes of an owned row when its user is deleted: no
\* check looks at ON DELETE.
ManifestGrounded ==
    \A n \in Names : api.models[n] # Absent =>
        /\ n \notin stale_rows => GroundedRow(tables[n], api.models[n])
        /\ \A f \in api.models[n].fields : f.ref # Absent => api.models[f.ref] # Absent
=============================================================================
