------------------------ MODULE WorkspaceProperties ------------------------
(***************************************************************************)
(* What Workspace must get right.                                          *)
(***************************************************************************)
EXTENDS Workspace

\* Type correctness.
TypeOK ==
    /\ tables \in [Names -> Tables \cup {Absent}]
    /\ files \in [FileIds -> Registrations \cup {Absent}]
    /\ api \in Manifests
    /\ routes_gen \in [Routes -> EndpointRows \cup {Absent}]
    /\ pages_gen \in [Names -> PageRows \cup {Absent}]
    /\ pages_gen_test \in [Names -> PageRows \cup {Absent}]
    /\ exclusive \in Proc \cup {Absent}
    /\ shared \subseteq Proc
    /\ pc \in [Proc -> PCs]
    /\ cmd \in [Proc -> AllCommands \cup {Absent}]
    /\ todo \in [Proc -> Seq(FileIds)]
    /\ snap \in [Proc -> Manifests \cup {Absent}]
    /\ seen \in [Proc -> SUBSET FileIds]
    /\ divergence \subseteq {"model", "page", "routes_gen", "pages_gen", "pages_gen_test"}

\* What a command can rely on where it stands: its kind, and its locals.
ProcessLocals ==
    \A p \in Proc :
        /\ pc[p] # "new" => cmd[p] \in AllCommands
        /\ pc[p] \in {"schema", "refs"} => cmd[p].kind \in {"resource", "model"}
        /\ pc[p] \in {"schema", "refs", "render"} =>
              cmd[p] \in Registrations /\ todo[p] # <<>>
        /\ pc[p] = "lock" => cmd[p] \in Registrations \cup SQLCmds \cup {RegenCmd}
        /\ pc[p] = "exec" => cmd[p] \in SQLCmds
        /\ pc[p] \in Updating => cmd[p] \in Registrations \cup {RegenCmd}
        /\ pc[p] \in Updating \ {"read"} => snap[p] \in Manifests
        /\ pc[p] = "compare" => snap[p] \in Manifests

\* The flock is held by exactly the processes that are inside a locked section,
\* in the mode of the section, and never in both modes at once.
LockHeld ==
    /\ \A p \in Proc : exclusive = p <=> pc[p] \in Exclusive
    /\ \A p \in Proc : p \in shared <=> pc[p] \in Shared
    /\ exclusive # Absent => shared = {}

\* What a command has read is still what api.json says when it writes, and what
\* it has written still stands when it writes the next file: nobody else wrote
\* in between (lock.go 16-18, manifest.go updateManifestLocked).
SnapshotCurrent ==
    \A p \in Proc :
        /\ pc[p] = "write_api" =>
              IF cmd[p] = RegenCmd THEN snap[p] = api
              ELSE snap[p] = Upsert(api, cmd[p]) /\ ~Conflict(api, cmd[p])
        /\ pc[p] \in {"write_routes", "write_pages", "write_pages_test"} =>
              /\ snap[p] = api
              /\ cmd[p] # RegenCmd => /\ Holds(api.models, ModelsOf(cmd[p]))
                                      /\ Holds(api.endpoints, EndpointsOf(cmd[p]))
                                      /\ Holds(api.pages, PagesOf(cmd[p]))
        /\ pc[p] \in {"write_pages", "write_pages_test"} => routes_gen = api.endpoints
        /\ pc[p] = "write_pages_test" => pages_gen = api.pages

\* What the lock is for: while one process is inside a LOCK_EX section no other
\* process is inside any section, whoever dies or fails where (lock.go
\* withFlock, its deferred unlock and the kernel's).
MutualExclusion ==
    \A p, q \in Proc :
        pc[p] \in Exclusive /\ pc[q] \in Exclusive \cup Shared => p = q

\* The checkout's api.json and generated files are a Registry: every change of
\* the manifest is one command's whole registration applied to it as it stands at
\* that moment, and every change of a generated file brings it up to date.  No
\* registration is lost, none lands in part, no route changes hands, and no slow
\* writer puts an older router over a newer one (lock.go 16-18, manifest.go
\* updateManifestAt and updateManifestLocked).
Reg == INSTANCE Registry

ImplementsRegistry == Reg!Spec

\* The file behind every model, page and handler that is registered, mounted or
\* served is on disk, at every moment and after every crash: rendering comes
\* before registering (tools.go; inspect.go reports the opposite as divergence).
RegisteredHaveFiles ==
    /\ ModelFiles(api) \cup PageFiles(api) \cup HandlerFiles(api) \subseteq OnDisk
    /\ \A r \in Routes : routes_gen[r] # Absent => HandlerFile(routes_gen[r].handler) \in OnDisk
    /\ \A n \in Names : pages_gen[n] # Absent => File("page", pages_gen[n].file) \in OnDisk

\* The router never mounts what api.json does not list: api.json is written
\* first, so a crash leaves the generated files behind it, never ahead
\* (manifest.go updateManifestLocked).
MountedAreRegistered ==
    /\ \A r \in Routes : routes_gen[r] # Absent =>
          /\ api.endpoints[r] # Absent
          /\ api.endpoints[r].handler = routes_gen[r].handler
    /\ \A n \in Names : pages_gen[n] # Absent =>
          /\ api.pages[n] # Absent
          /\ api.pages[n].file = pages_gen[n].file

\* A command that reports success has its rows in api.json and in the generated
\* files, its own rows and its own guards, and has left the generated files equal
\* to api.json (tools.go "Registered ..."; regen's "Regenerated ...").
SuccessMeansMounted ==
    [][\A p \in Proc :
          (pc[p] \in Updating /\ pc'[p] = "done") =>
             /\ routes_gen' = api'.endpoints
             /\ pages_gen' = api'.pages
             /\ pages_gen_test' = api'.pages
             /\ cmd[p].kind # "regen" =>
                   /\ Holds(api'.models, ModelsOf(cmd[p]))
                   /\ Holds(routes_gen', EndpointsOf(cmd[p]))
                   /\ Holds(pages_gen', PagesOf(cmd[p]))]_vars

\* Once a route is mounted it stays mounted, with the same handler, and a page
\* stays served from the same file, whatever is registered, regenerated, killed or
\* fails afterwards (manifest.go UpsertEndpoint, UpsertPage, the conflict checks
\* before them and the order of the writes after them).
MountedForGood ==
    [][/\ \A r \in Routes : routes_gen[r] # Absent =>
             routes_gen'[r] # Absent /\ routes_gen'[r].handler = routes_gen[r].handler
       /\ \A n \in Names : pages_gen[n] # Absent =>
             pages_gen'[n] # Absent /\ pages_gen'[n].file = pages_gen[n].file]_vars

\* Where nothing dies and no write fails, inspect reports nothing: its shared
\* lock keeps it from seeing half a transaction, and the order of its reads from
\* missing a file (tools.go inspect).
NoFalseAlarm == divergence = {}

\* How many steps a command can still take: the files it has to render, and the
\* way from where it stands to its end.
StepsFrom ==
    [l \in PCs |->
        CASE l = "new"          -> 13
          [] l = "schema"       -> 8
          [] l = "refs"         -> 7
          [] l \in {"render", "lock"}        -> 6
          [] l = "read"         -> 5
          [] l \in {"write_api", "lock_shared"} -> 4
          [] l \in {"write_routes", "scan"}  -> 3
          [] l \in {"write_pages", "load"}   -> 2
          [] l \in {"write_pages_test", "exec", "compare"} -> 1
          [] l \in Terminal     -> 0]

StepsLeft(p) == StepsFrom[pc[p]] + Len(todo[p])

\* Whatever happens is a step of one command, and leaves that command, and no
\* other, with fewer steps to take: no command tries anything again, starts over
\* or is set back by another (tools.go, manifest.go: there is no retry anywhere).
CommandsRunOut ==
    [][\E p \in Proc :
          /\ StepsLeft(p)' < StepsLeft(p)
          /\ \A q \in Proc \ {p} : StepsLeft(q)' = StepsLeft(q)]_vars

\* A process that waits for nobody: it is at work, and not before a lock it
\* cannot have.
AtWork(p) == pc[p] \notin Terminal \cup {"new"}

CanMove(p) ==
    /\ AtWork(p)
    /\ pc[p] = "lock" => exclusive = Absent /\ shared = {}
    /\ pc[p] = "lock_shared" => exclusive = Absent

\* While there is work some process can go on with it: whoever waits for the lock
\* waits for a process inside its section, never for one that has ended, was
\* killed or waits itself (lock.go withFlock, "MUST NOT BE NESTED").
\* With CommandsRunOut this is why commands end.
SomebodyCanMove == (\E p \in Proc : AtWork(p)) => \E p \in Proc : CanMove(p)

\* Every command ends, and lets go of the lock, whoever fails or dies in between
\* (lock.go withFlock: "MUST NOT BE NESTED", and its deferred unlock).
EveryCommandEnds ==
    \A p \in Proc : (pc[p] # "new") ~> (pc[p] \in Terminal)

\* When everything has ended, the files of a resource and its row in api.json
\* come from one command, as they do when commands run one after the other
\* (lock.go 11: "Every workspace mutation -- api.json, the *_gen.go files,
\* model/handler/page files -- is serialized by an flock").  Checked as a claim
\* the code does not meet.
ScaffoldsAreWhole ==
    Quiet => \A n \in Names : api.models[n] # Absent =>
        \E c \in Registrations :
            /\ files[File("model", n)] = c
            /\ files[File("handlers", n)] = c
            /\ Holds(api.models, ModelsOf(c))
=============================================================================
