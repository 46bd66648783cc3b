----------------------------- MODULE Workspace -----------------------------
(***************************************************************************)
(* The gova builder at work on one checkout (builder/tools.go, lock.go,    *)
(* manifest.go, inspect.go): several invocations of the CLI at once, each  *)
(* a process that runs one command and ends.                               *)
(*                                                                         *)
(* The processes share api.json, the three generated files, the files they *)
(* scaffold and the tables of the app's database, and an flock.  A command *)
(* that registers something                                                *)
(*   - checks its declaration against the table and its reference against  *)
(*     api.json, and renders its files, holding no lock;                   *)
(*   - then takes the lock, reads api.json, upserts its rows into what it  *)
(*     read, writes api.json and the three generated files, and lets go.   *)
(* Each file is replaced atomically (a temporary file and a rename), so    *)
(* one action is one file; other processes run between any two.  A process *)
(* may be killed anywhere: the kernel drops its lock, what it has written  *)
(* stays.  The _test.go files rendered next to the model and the handlers  *)
(* are left out: nothing reads them.                                       *)
(***************************************************************************)
EXTENDS Manifest, FiniteSets

CONSTANTS
    Proc,           \* invocations of the CLI, one command each
    Commands,       \* the commands they may be given
    InitialTables,  \* the tables of the database they find
    Kills,          \* whether a process may be killed
    WritesFail      \* whether writing a file may fail

\* CREATE TABLE (not there before), ALTER TABLE (there, with other columns after
\* it) and DROP TABLE (there, Absent after it).
SQLCmds    == [kind : {"sql"}, name : Names, there : BOOLEAN, columns : Tables \cup {Absent}]
RegenCmd   == [kind |-> "regen"]
InspectCmd == [kind |-> "inspect"]

AllCommands == Registrations \cup SQLCmds \cup {RegenCmd, InspectCmd}

ASSUME CommandsAssumption == Commands \subseteq AllCommands
ASSUME TablesAssumption   == InitialTables \in [Names -> Tables \cup {Absent}]
ASSUME FaultAssumption    == Kills \in BOOLEAN /\ WritesFail \in BOOLEAN
ASSUME NobodyAssumption   == Absent \notin Proc \cup Manifests \cup AllCommands

VARIABLES
    tables,         \* the tables of the app's database, Absent: not created
    files,          \* each scaffolded file: the command it was rendered from, or Absent
    api,            \* api.json
    routes_gen,     \* the endpoints handlers/routes_gen.go mounts
    pages_gen,      \* the pages handlers/pages_gen.go serves
    pages_gen_test, \* the pages its generated test asks for
    exclusive,      \* who holds the flock with LOCK_EX, or Absent
    shared,         \* who holds it with LOCK_SH
    pc, cmd,        \* where each process is, and its command, fields filled in
    todo,           \* the files it still has to render
    snap,           \* the manifest it has read, its own rows upserted
    seen,           \* inspect: the files its directory scan found
    divergence      \* what the last inspect reported

disk  == <<files, api, routes_gen, pages_gen, pages_gen_test>>
flock == <<exclusive, shared>>
local == <<cmd, todo, snap, seen>>
vars  == <<tables, files, api, routes_gen, pages_gen, pages_gen_test,
           exclusive, shared, pc, cmd, todo, snap, seen, divergence>>

----------------------------------------------------------------------------
\* Values.

\* models/<N>.go, handlers/<n>_resource.go, handlers/<n>.go,
\* static/pages/<n>.html and static/js/<n>.js
FileIds == [dir : {"model", "handlers", "handler", "page", "js"}, of : Names]

File(d, n) == [dir |-> d, of |-> n]

\* The files a command renders, in order.
Renders(c) ==
    CASE c.kind = "resource" -> <<File("model", c.name), File("handlers", c.name),
                                  File("page", c.name), File("js", c.name)>>
      [] c.kind = "model"    -> <<File("model", c.name)>>
      [] c.kind = "page"     -> <<File("page", c.name), File("js", c.name)>>
      [] c.kind = "handler"  -> <<File("handler", c.name)>>

\* The files a manifest's rows rely on.
HandlerFile(h) == File(IF h.by = "resource" THEN "handlers" ELSE "handler", h.name)

ModelFiles(m)   == {File("model", n) : n \in {k \in Names : m.models[k] # Absent}}
PageFiles(m)    == {File("page", m.pages[k].file) :
                      k \in {n \in Names : m.pages[n] # Absent}}
HandlerFiles(m) == {HandlerFile(m.endpoints[r].handler) :
                      r \in {k \in Routes : m.endpoints[k] # Absent}}

OnDisk == {f \in FileIds : files[f] # Absent}

\* applySchemaAt returns no error: there is a table, and the declaration fits it.
SchemaFits(c) ==
    /\ tables[c.name] # Absent /\ c.fields # {}
    /\ requireImplicitColumns(tables[c.name])
    /\ c.owned => requireOwnerColumn(tables[c.name])
    /\ \A f \in c.fields : FieldFits(tables[c.name], f)

\* validateRefsAt.
RefsKnown(c) == \A f \in c.fields : f.ref # Absent => api.models[f.ref] # Absent

Terminal == {"done", "failed", "killed"}

\* Between taking LOCK_EX, or LOCK_SH, and letting go of it.
Updating  == {"read", "write_api", "write_routes", "write_pages", "write_pages_test"}
Exclusive == Updating \cup {"exec"}
Shared    == {"scan", "load", "compare"}

PCs == {"new", "schema", "refs", "render", "lock", "lock_shared"}
          \cup Exclusive \cup Shared \cup Terminal

WriteOutcomes == IF WritesFail THEN BOOLEAN ELSE {TRUE}

Goto(p, l) == pc' = [pc EXCEPT ![p] = l]

\* The process ends, by whatever path: the deferred unlock runs, or the kernel's.
Exit(p, how) ==
    /\ Goto(p, how)
    /\ exclusive' = IF exclusive = p THEN Absent ELSE exclusive
    /\ shared' = shared \ {p}
    /\ todo' = [todo EXCEPT ![p] = <<>>]
    /\ snap' = [snap EXCEPT ![p] = Absent]
    /\ seen' = [seen EXCEPT ![p] = {}]
    /\ UNCHANGED cmd

----------------------------------------------------------------------------
\* Starting.

FirstStep(c) ==
    CASE c.kind \in {"resource", "model"} -> "schema"
      [] c.kind \in {"page", "handler"}   -> "render"
      [] c.kind \in {"regen", "sql"}      -> "lock"
      [] c.kind = "inspect"               -> "lock_shared"

Start(p, c) ==
    /\ pc[p] = "new"
    /\ Goto(p, FirstStep(c))
    /\ cmd' = [cmd EXCEPT ![p] = c]
    /\ todo' = [todo EXCEPT ![p] = IF c \in Registrations THEN Renders(c) ELSE <<>>]
    /\ UNCHANGED <<tables, disk, flock, snap, seen, divergence>>

\* prepareModel, first half: applySchema reads the table's shape, and from here
\* on the fields are as the table has them.
CheckSchema(p) ==
    /\ pc[p] = "schema"
    /\ IF SchemaFits(cmd[p])
       THEN /\ cmd' = [cmd EXCEPT ![p].fields = applySchema(tables[cmd[p].name], @)]
            /\ Goto(p, "refs")
            /\ UNCHANGED <<flock, todo, snap, seen>>
       ELSE Exit(p, "failed")
    /\ UNCHANGED <<tables, disk, divergence>>

\* Regression: the reference is not looked up.
CheckRefsNever(p) ==
    /\ pc[p] = "refs"
    /\ Goto(p, "render")
    /\ UNCHANGED <<tables, disk, flock, local, divergence>>

\* ... second half: validateRefs reads api.json, holding no lock.
CheckRefs(p) ==
    /\ pc[p] = "refs"
    /\ IF RefsKnown(cmd[p])
       THEN Goto(p, "render") /\ UNCHANGED <<flock, local>>
       ELSE Exit(p, "failed")
    /\ UNCHANGED <<tables, disk, divergence>>

\* Regression: renderAll goes on after a file it could not write.
RenderIgnoringErrors(p) ==
    /\ pc[p] = "render"
    /\ \E ok \in WriteOutcomes :
          files' = IF ok THEN [files EXCEPT ![Head(todo[p])] = cmd[p]] ELSE files
    /\ todo' = [todo EXCEPT ![p] = Tail(@)]
    /\ Goto(p, IF Len(todo[p]) = 1 THEN "lock" ELSE "render")
    /\ UNCHANGED <<tables, api, routes_gen, pages_gen, pages_gen_test,
                   flock, cmd, snap, seen, divergence>>

\* renderAll: the next file, replaced whatever it held.
Render(p) ==
    /\ pc[p] = "render"
    /\ \E ok \in WriteOutcomes :
          IF ok
          THEN /\ files' = [files EXCEPT ![Head(todo[p])] = cmd[p]]
               /\ todo' = [todo EXCEPT ![p] = Tail(@)]
               /\ Goto(p, IF Len(todo[p]) = 1 THEN "lock" ELSE "render")
               /\ UNCHANGED <<flock, cmd, snap, seen>>
          ELSE Exit(p, "failed") /\ UNCHANGED files
    /\ UNCHANGED <<tables, api, routes_gen, pages_gen, pages_gen_test, divergence>>

----------------------------------------------------------------------------
\* The flock.

\* Regression: every process locks a file of its own.
LockOfOnesOwn(p) ==
    /\ pc[p] = "lock"
    /\ exclusive' = p
    /\ Goto(p, IF cmd[p].kind = "sql" THEN "exec" ELSE "read")
    /\ UNCHANGED <<tables, disk, shared, local, divergence>>

\* Regression: LOCK_EX does not wait for readers.
LockOverReaders(p) ==
    /\ pc[p] = "lock"
    /\ exclusive = Absent
    /\ exclusive' = p
    /\ Goto(p, IF cmd[p].kind = "sql" THEN "exec" ELSE "read")
    /\ UNCHANGED <<tables, disk, shared, local, divergence>>

Lock(p) ==
    /\ pc[p] = "lock"
    /\ exclusive = Absent /\ shared = {}
    /\ exclusive' = p
    /\ Goto(p, IF cmd[p].kind = "sql" THEN "exec" ELSE "read")
    /\ UNCHANGED <<tables, disk, shared, local, divergence>>

\* Regression: inspect reads without a lock.
LockSharedNever(p) ==
    /\ pc[p] = "lock_shared"
    /\ Goto(p, "scan")
    /\ UNCHANGED <<tables, disk, flock, local, divergence>>

LockShared(p) ==
    /\ pc[p] = "lock_shared"
    /\ exclusive = Absent
    /\ shared' = shared \cup {p}
    /\ Goto(p, "scan")
    /\ UNCHANGED <<tables, disk, exclusive, local, divergence>>

----------------------------------------------------------------------------
\* updateManifestLocked, and regen, which upserts nothing.

\* Regression: a conflict is skipped over and reported as success.
ReadSwallowingConflicts(p) ==
    /\ pc[p] = "read"
    /\ IF cmd[p].kind # "regen" /\ Conflict(api, cmd[p])
       THEN Exit(p, "done")
       ELSE /\ snap' = [snap EXCEPT ![p] =
                          IF cmd[p].kind = "regen" THEN api ELSE Upsert(api, cmd[p])]
            /\ Goto(p, "write_api")
            /\ UNCHANGED <<flock, cmd, todo, seen>>
    /\ UNCHANGED <<tables, disk, divergence>>

\* Regression: no deferred unlock, the conflict's return keeps the lock while the
\* process lives on.
ReadKeepingLock(p) ==
    /\ pc[p] = "read"
    /\ IF cmd[p].kind # "regen" /\ Conflict(api, cmd[p])
       THEN Goto(p, "failed") /\ UNCHANGED snap
       ELSE /\ snap' = [snap EXCEPT ![p] =
                          IF cmd[p].kind = "regen" THEN api ELSE Upsert(api, cmd[p])]
            /\ Goto(p, "write_api")
    /\ UNCHANGED <<tables, disk, flock, cmd, todo, seen, divergence>>

\* Regression: a conflict is waited out; the command lets go and queues again.
ReadRetrying(p) ==
    /\ pc[p] = "read"
    /\ IF cmd[p].kind # "regen" /\ Conflict(api, cmd[p])
       THEN Goto(p, "lock") /\ exclusive' = Absent /\ UNCHANGED <<shared, snap>>
       ELSE /\ snap' = [snap EXCEPT ![p] =
                          IF cmd[p].kind = "regen" THEN api ELSE Upsert(api, cmd[p])]
            /\ Goto(p, "write_api")
            /\ UNCHANGED flock
    /\ UNCHANGED <<tables, disk, cmd, todo, seen, divergence>>

\* readManifestAt and the upserts, in memory; a conflict ends the command.
Read(p) ==
    /\ pc[p] = "read"
    /\ IF cmd[p].kind # "regen" /\ Conflict(api, cmd[p])
       THEN Exit(p, "failed")
       ELSE /\ snap' = [snap EXCEPT ![p] =
                          IF cmd[p].kind = "regen" THEN api ELSE Upsert(api, cmd[p])]
            /\ Goto(p, "write_api")
            /\ UNCHANGED <<flock, cmd, todo, seen>>
    /\ UNCHANGED <<tables, disk, divergence>>

\* Regression: the generated files are written although api.json was not.
WriteApiIgnoringErrors(p) ==
    /\ pc[p] = "write_api"
    /\ \E ok \in WriteOutcomes : api' = IF ok THEN snap[p] ELSE api
    /\ Goto(p, "write_routes")
    /\ UNCHANGED <<tables, files, routes_gen, pages_gen, pages_gen_test,
                   flock, local, divergence>>

\* writeManifestAt.
WriteApi(p) ==
    /\ pc[p] = "write_api"
    /\ \E ok \in WriteOutcomes :
          IF ok
          THEN /\ api' = snap[p]
               /\ Goto(p, "write_routes")
               /\ UNCHANGED <<flock, local>>
          ELSE Exit(p, "failed") /\ UNCHANGED api
    /\ UNCHANGED <<tables, files, routes_gen, pages_gen, pages_gen_test, divergence>>

\* Regression: the command goes on without its router.
WriteRoutesIgnoringErrors(p) ==
    /\ pc[p] = "write_routes"
    /\ \E ok \in WriteOutcomes :
          routes_gen' = IF ok THEN snap[p].endpoints ELSE routes_gen
    /\ Goto(p, "write_pages")
    /\ UNCHANGED <<tables, files, api, pages_gen, pages_gen_test,
                   flock, local, divergence>>

\* regenerateRoutesAt.
WriteRoutes(p) ==
    /\ pc[p] = "write_routes"
    /\ \E ok \in WriteOutcomes :
          IF ok
          THEN /\ routes_gen' = snap[p].endpoints
               /\ Goto(p, "write_pages")
               /\ UNCHANGED <<flock, local>>
          ELSE Exit(p, "failed") /\ UNCHANGED routes_gen
    /\ UNCHANGED <<tables, files, api, pages_gen, pages_gen_test, divergence>>

\* regeneratePagesAt: the pages, then their test.
WritePages(p) ==
    /\ pc[p] = "write_pages"
    /\ \E ok \in WriteOutcomes :
          IF ok
          THEN /\ pages_gen' = snap[p].pages
               /\ Goto(p, "write_pages_test")
               /\ UNCHANGED <<flock, local>>
          ELSE Exit(p, "failed") /\ UNCHANGED pages_gen
    /\ UNCHANGED <<tables, files, api, routes_gen, pages_gen_test, divergence>>

WritePagesTest(p) ==
    /\ pc[p] = "write_pages_test"
    /\ \E ok \in WriteOutcomes :
          IF ok
          THEN pages_gen_test' = snap[p].pages /\ Exit(p, "done")
          ELSE Exit(p, "failed") /\ UNCHANGED pages_gen_test
    /\ UNCHANGED <<tables, files, api, routes_gen, pages_gen, divergence>>

----------------------------------------------------------------------------
\* gova sql and gova inspect.

\* executeSQL: any statement is run.  To the other commands those matter that
\* change a table's columns; one that finds a table where it wants none, or none
\* where it wants one, is an error.
ExecSQL(p) ==
    /\ pc[p] = "exec"
    /\ IF (tables[cmd[p].name] # Absent) = cmd[p].there
       THEN /\ tables' = [tables EXCEPT ![cmd[p].name] = cmd[p].columns]
            /\ Exit(p, "done")
       ELSE Exit(p, "failed") /\ UNCHANGED tables
    /\ UNCHANGED <<disk, divergence>>

\* inspect: the directories first,
Scan(p) ==
    /\ pc[p] = "scan"
    /\ seen' = [seen EXCEPT ![p] = OnDisk]
    /\ Goto(p, "load")
    /\ UNCHANGED <<tables, disk, flock, cmd, todo, snap, divergence>>

\* then api.json,
Load(p) ==
    /\ pc[p] = "load"
    /\ snap' = [snap EXCEPT ![p] = api]
    /\ Goto(p, "compare")
    /\ UNCHANGED <<tables, disk, flock, cmd, todo, seen, divergence>>

\* then buildInspection and generatedDivergence, which reads the generated files.
Compare(p) ==
    /\ pc[p] = "compare"
    /\ divergence' =
          {f.dir : f \in (ModelFiles(snap[p]) \cup PageFiles(snap[p])) \ seen[p]}
             \cup {g \in {"routes_gen", "pages_gen", "pages_gen_test"} :
                     \/ g = "routes_gen" /\ routes_gen # snap[p].endpoints
                     \/ g = "pages_gen" /\ pages_gen # snap[p].pages
                     \/ g = "pages_gen_test" /\ pages_gen_test # snap[p].pages}
    /\ Exit(p, "done")
    /\ UNCHANGED <<tables, disk>>

----------------------------------------------------------------------------
\* The process is killed, or its container is.
Kill(p) ==
    /\ Kills
    /\ pc[p] \notin Terminal \cup {"new"}
    /\ Exit(p, "killed")
    /\ UNCHANGED <<tables, disk, divergence>>

Register(p) == CheckSchema(p) \/ CheckRefs(p) \/ Render(p) \/ Lock(p)

Update(p) == Read(p) \/ WriteApi(p) \/ WriteRoutes(p) \/ WritePages(p) \/ WritePagesTest(p)

Inspect(p) == LockShared(p) \/ Scan(p) \/ Load(p) \/ Compare(p)

\* One more step of the command p runs.
Step(p) == Register(p) \/ Update(p) \/ ExecSQL(p) \/ Inspect(p)

\* Every command given has ended.
Quiet == \A p \in Proc : pc[p] \in Terminal

\* The endpoints and pages the app is shipped with are under names that Names
\* leaves out; the rest of api.json starts empty.
Init ==
    /\ tables = InitialTables
    /\ files = [f \in FileIds |-> Absent]
    /\ api = EmptyManifest
    /\ routes_gen = EmptyManifest.endpoints
    /\ pages_gen = EmptyManifest.pages
    /\ pages_gen_test = EmptyManifest.pages
    /\ exclusive = Absent
    /\ shared = {}
    /\ pc = [p \in Proc |-> "new"]
    /\ cmd = [p \in Proc |-> Absent]
    /\ todo = [p \in Proc |-> <<>>]
    /\ snap = [p \in Proc |-> Absent]
    /\ seen = [p \in Proc |-> {}]
    /\ divergence = {}

Next ==
    \/ \E p \in Proc : (\E c \in Commands : Start(p, c)) \/ Step(p) \/ Kill(p)
    \/ Quiet /\ UNCHANGED vars

Spec == Init /\ [][Next]_vars

\* A process that can run is run: the operating system schedules it, and a file
\* operation returns.  Nothing obliges anybody to start one.  The lock is not
\* fair, so a command is only promised its turn because finitely many are run.
FairSpec == Spec /\ \A p \in Proc : WF_vars(Step(p))
=============================================================================
