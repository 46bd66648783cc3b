---------------------------- MODULE MCWorkspace ----------------------------
(* Finite instances of Workspace for TLC. *)
EXTENDS WorkspaceHistory, TLC

CONSTANTS p1, p2, p3, item, part

ProcSymmetry == Permutations({p1, p2, p3})

\* The -fields arguments, the last one never accepted.
Title  == {<<"title", "email">>}
Link   == {<<"link", "ref", item>>, <<"due", "timestamp">>}
Secret == {<<"title">>, <<"password_hash", "string">>}

Implicit == {"id", "created_at", "user_id"}
GivenColumns == Implicit \cup {"title", "due", "link"}
AllColumns   == GivenColumns \cup {"password_hash"}

Resource(n, owned, auth, raw) ==
    [kind |-> "resource", name |-> n, owned |-> owned, auth |-> auth, fields |-> parseFields(raw)]
ModelCmd(n, owned, raw) ==
    [kind |-> "model", name |-> n, owned |-> owned, fields |-> parseFields(raw)]
PageCmd(n, path, auth)  == [kind |-> "page", name |-> n, path |-> path, auth |-> auth]
HandlerCmd(n, r, auth)  == [kind |-> "handler", name |-> n, route |-> r, auth |-> auth]
Create(n, columns) == [kind |-> "sql", name |-> n, there |-> FALSE, columns |-> columns]
Alter(n, columns)  == [kind |-> "sql", name |-> n, there |-> TRUE, columns |-> columns]
Drop(n)            == [kind |-> "sql", name |-> n, there |-> TRUE, columns |-> Absent]

Column(type, notnull, ref) ==
    [type |-> type, notnull |-> notnull, references |-> ref, ondelete |-> "NO ACTION"]

\* Nobody's rows; the same with an owner, and dying with the owner or not; and
\* with an owner who may be missing.
Plain ==
    [c \in ColumnNames |->
        CASE c = "id"         -> Column("INTEGER", FALSE, Absent)
          [] c = "created_at" -> Column("DATETIME", FALSE, Absent)
          [] c = "title"      -> Column("VARCHAR", FALSE, Absent)
          [] c = "due"        -> Column("TEXT", TRUE, Absent)
          [] c = "link"       -> Column("INTEGER", TRUE, item)
          [] c = "password_hash" -> Column("TEXT", FALSE, Absent)
          [] OTHER            -> Absent]
Owned  == [Plain EXCEPT !["user_id"] = [Column("INTEGER", TRUE, "users") EXCEPT !.ondelete = "CASCADE"]]
Kept   == [Plain EXCEPT !["user_id"] = Column("INTEGER", TRUE, "users")]
Orphan == [Plain EXCEPT !["user_id"] = Column("INTEGER", FALSE, "users")]

GivenFields == {Title, Link}
AllFields   == {Title, Link, Secret}

BothTables == [n \in Names |-> IF n = item THEN Owned ELSE Kept]

\* Registrations that share routes, pages, files and references, a reader, and
\* statements that change a table under them.
Registering == {Resource(item, FALSE, TRUE, Title), Resource(item, TRUE, TRUE, Title),
                Resource(part, FALSE, FALSE, Link), ModelCmd(part, FALSE, Link),
                ModelCmd(item, FALSE, Secret),
                PageCmd(part, item, TRUE), PageCmd(item, item, FALSE),
                HandlerCmd(item, <<item, "post">>, FALSE), RegenCmd, InspectCmd,
                Alter(item, Orphan), Drop(part)}

\* ... with a table that does not fit, or is not there yet.
Crashing == {Create(part, Owned), Resource(item, FALSE, TRUE, Title),
             Resource(item, TRUE, TRUE, Title), ModelCmd(part, TRUE, Link),
             HandlerCmd(item, <<item, "post">>, FALSE), RegenCmd}

OrphanItemOnly == [n \in Names |-> IF n = item THEN Orphan ELSE Absent]

\* One resource declared in two ways.
TwoDeclarations == {Resource(item, FALSE, TRUE, Title), Resource(item, TRUE, TRUE, Title)}
=============================================================================
