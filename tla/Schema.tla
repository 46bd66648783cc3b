------------------------------- MODULE Schema -------------------------------
(***************************************************************************)
(* A declaration against a table: pure operators (builder/schema.go,       *)
(* builder/fields.go).                                                     *)
(*                                                                         *)
(* A table is what PRAGMA table_info and foreign_key_list say of it: for   *)
(* each column it has the declared type, NOT NULL, the table a foreign key *)
(* of it points at, and what becomes of the row when the row it points at  *)
(* is deleted.  A declaration is a set of -fields arguments, each          *)
(* the sequence its colons split it into.  Left out: format hints, which   *)
(* only choose a form control, the order of fields, and the characters of  *)
(* names, so Credentials stands for what credentialColumn recognises and   *)
(* every name is a safe identifier.                                        *)
(***************************************************************************)
EXTENDS Integers, Sequences

CONSTANTS
    Names,          \* snake_case names of models, tables, handlers and page files
    ColumnNames,    \* names a column, or a field, may have
    Credentials,    \* the ones that look like a secret
    Declarations,   \* the -fields arguments given to commands
    Absent          \* no column, no row, no file, no reference

\* What generated code writes and reads on its own.
implicitColumns == {"id", "created_at", "user_id"}
OwnerColumn     == "user_id"

\* Types a CREATE TABLE may spell, some for each family.
DeclaredTypes == {"INTEGER", "BOOLEAN", "REAL", "VARCHAR", "TEXT", "DATETIME", "DATE", "BLOB"}

Columns == [type : DeclaredTypes, notnull : BOOLEAN,
            references : Names \cup {"users", Absent}, ondelete : {"CASCADE", "NO ACTION"}]
Tables  == [ColumnNames -> Columns \cup {Absent}]

Fields == [name : ColumnNames, type : STRING, nullable : BOOLEAN, ref : Names \cup {Absent}]

----------------------------------------------------------------------------
\* The -fields argument: name, name:type, name:ref:model.

knownFieldTypes == {"string", "int", "boolean", "float", "timestamp"}

\* Stored as text, told apart only by the form.
semanticFormats == {"datetime", "date", "time", "json", "email"}

parseField(parts) ==
    LET field(type, ref) == [name |-> parts[1], type |-> type, nullable |-> FALSE, ref |-> ref]
    IN  CASE Len(parts) >= 3 /\ parts[2] = "ref" -> field("int", parts[3])
          [] Len(parts) = 2 /\ parts[2] \notin semanticFormats -> field(parts[2], Absent)
          [] OTHER -> field("string", Absent)

parseFields(raw) == {parseField(parts) : parts \in raw}

\* The fields, the ones in S nullable.
WithNullable(fields, S) ==
    {[name |-> f.name, type |-> f.type, nullable |-> f.name \in S, ref |-> f.ref] : f \in fields}

\* What a declaration is before and after a table has said which are nullable.
FieldLists == {WithNullable(parseFields(d), S) : d \in Declarations, S \in SUBSET ColumnNames}

ASSUME ColumnsAssumption == implicitColumns \cup Credentials \subseteq ColumnNames
ASSUME DeclarationsAssumption == \A d \in Declarations : parseFields(d) \subseteq Fields

----------------------------------------------------------------------------
\* The checks of applySchemaAt.

\* VARCHAR(255) and varchar are TEXT, BOOLEAN is INTEGER.
normalizeSQLType(type) ==
    CASE type \in {"INTEGER", "BOOLEAN"} -> "INTEGER"
      [] type \in {"VARCHAR", "TEXT"}    -> "TEXT"
      [] OTHER -> type

acceptedSQLTypes(type) ==
    CASE type \in {"int", "boolean"} -> {"INTEGER"}
      [] type = "float"     -> {"REAL"}
      [] type = "timestamp" -> {"DATETIME", "DATE", "TIMESTAMP", "TEXT"}
      [] OTHER              -> {"TEXT"}

\* The column is there, and a value declared so may sit on it.
Accepts(table, column, type) ==
    /\ table[column] # Absent
    /\ normalizeSQLType(table[column].type) \in acceptedSQLTypes(type)

requireImplicitColumns(table) ==
    Accepts(table, "id", "int") /\ Accepts(table, "created_at", "timestamp")

\* The foreign key's ON DELETE action is read, and dropped.
requireOwnerColumn(table) ==
    /\ Accepts(table, OwnerColumn, "int")
    /\ table[OwnerColumn].notnull
    /\ table[OwnerColumn].references = "users"

\* validateFieldTypes, checkNoCredentialColumns, and the loop over the fields.
FieldFits(table, f) ==
    /\ f.type \in knownFieldTypes
    /\ f.name \notin Credentials \cup implicitColumns
    /\ Accepts(table, f.name, f.type)

\* Regression: Nullable is taken from the caller.
applySchemaTrusting(table, fields) == fields

\* The table says which fields are nullable.
applySchema(table, fields) ==
    WithNullable(fields, {n \in ColumnNames : table[n] # Absent /\ ~table[n].notnull})
=============================================================================
