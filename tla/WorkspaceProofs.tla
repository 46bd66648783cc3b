-------------------------- MODULE WorkspaceProofs --------------------------
(***************************************************************************)
(* Proofs about Workspace, for any processes, names and commands.          *)
(***************************************************************************)
EXTENDS WorkspaceHistory, SequenceTheorems, TLAPS

\* The facts about constants every step may need.
LEMMA Constants ==
    /\ Absent \notin Proc /\ Absent \notin Names
    /\ Absent \notin ModelRows /\ Absent \notin EndpointRows /\ Absent \notin PageRows
    /\ Absent \notin Manifests
    /\ Absent \notin AllCommands /\ Absent \notin Registrations
    /\ Commands \subseteq AllCommands
    /\ Kills \in BOOLEAN /\ WritesFail \in BOOLEAN
BY AbsentAssumption, NobodyAssumption, CommandsAssumption, FaultAssumption DEF AllCommands

\* Filling in which fields are nullable leaves a list of fields one.
LEMMA FilledIn ==
    ASSUME NEW fields \in FieldLists, NEW table
    PROVE  applySchema(table, fields) \in FieldLists
<1>1. PICK d \in Declarations, S \in SUBSET ColumnNames :
         fields = WithNullable(parseFields(d), S)
  BY DEF FieldLists
<1>2. ASSUME NEW T PROVE WithNullable(fields, T) = WithNullable(parseFields(d), T)
  <2> DEFINE Raw == parseFields(d)
             In(f) == [name |-> f.name, type |-> f.type, nullable |-> f.name \in S, ref |-> f.ref]
             Out(f) == [name |-> f.name, type |-> f.type, nullable |-> f.name \in T, ref |-> f.ref]
  <2>1. fields = {In(f) : f \in Raw}
    BY <1>1 DEF WithNullable
  <2>2. \A f : Out(In(f)) = Out(f)
    OBVIOUS
  <2>3. WithNullable(fields, T) = {Out(g) : g \in fields}
    BY DEF WithNullable
  <2>4. WithNullable(Raw, T) = {Out(f) : f \in Raw}
    BY DEF WithNullable
  <2> HIDE DEF Raw, In, Out
  <2>5. {Out(g) : g \in fields} = {Out(f) : f \in Raw}
    BY <2>1, <2>2
  <2> QED BY <2>3, <2>4, <2>5 DEF Raw
<1>3. {n \in ColumnNames : table[n] # Absent /\ ~table[n].notnull} \in SUBSET ColumnNames
  OBVIOUS
<1> QED BY <1>2, <1>3 DEF applySchema, FieldLists

\* What kind of command has which shape.
LEMMA KindsOfCommands ==
    ASSUME NEW c \in AllCommands
    PROVE  /\ c.kind \in {"resource", "model", "page", "handler", "sql", "regen", "inspect"}
           /\ c.kind = "resource" <=> c \in ResourceCmds
           /\ c.kind = "model" <=> c \in ModelCmds
           /\ c.kind = "page" <=> c \in PageCmds
           /\ c.kind = "handler" <=> c \in HandlerCmds
           /\ c.kind = "sql" <=> c \in SQLCmds
           /\ c.kind = "regen" <=> c = RegenCmd
           /\ c.kind = "inspect" <=> c = InspectCmd
BY DEF AllCommands, Registrations, ResourceCmds, ModelCmds, PageCmds, HandlerCmds,
       SQLCmds, RegenCmd, InspectCmd

\* The rows of a registration are rows.
LEMMA RowsOfCommands ==
    ASSUME NEW c \in Registrations
    PROVE  /\ \A n \in DOMAIN ModelsOf(c) : n \in Names /\ ModelsOf(c)[n] \in ModelRows
           /\ \A r \in DOMAIN EndpointsOf(c) : r \in Routes /\ EndpointsOf(c)[r] \in EndpointRows
           /\ \A n \in DOMAIN PagesOf(c) : n \in Names /\ PagesOf(c)[n] \in PageRows
<1>1. CASE c \in ResourceCmds
  <2>1. c.kind = "resource" /\ c.name \in Names /\ c.owned \in BOOLEAN /\ c.auth \in BOOLEAN
          /\ c.fields \in FieldLists
    BY <1>1 DEF ResourceCmds
  <2>2. ModelsOf(c) = [n \in {c.name} |-> [owned |-> c.owned, fields |-> c.fields]]
    BY <2>1 DEF ModelsOf
  <2>3. EndpointsOf(c) =
          [r \in {c.name} \X Ops |->
             [handler |-> [by |-> "resource", name |-> c.name, op |-> r[2]], auth |-> c.auth]]
    BY <2>1 DEF EndpointsOf
  <2>4. PagesOf(c) = [n \in {c.name} |-> [file |-> c.name, auth |-> c.auth]]
    BY <2>1 DEF PagesOf
  <2> QED
    BY <2>1, <2>2, <2>3, <2>4 DEF ModelRows, EndpointRows, Handlers, PageRows, Routes
<1>2. CASE c \in ModelCmds
  <2>1. c.kind = "model" /\ c.name \in Names /\ c.owned \in BOOLEAN
          /\ c.fields \in FieldLists
    BY <1>2 DEF ModelCmds
  <2>2. ModelsOf(c) = [n \in {c.name} |-> [owned |-> c.owned, fields |-> c.fields]]
    BY <2>1 DEF ModelsOf
  <2>3. DOMAIN EndpointsOf(c) = {} /\ DOMAIN PagesOf(c) = {}
    BY <2>1 DEF EndpointsOf, PagesOf
  <2> QED
    BY <2>1, <2>2, <2>3 DEF ModelRows
<1>3. CASE c \in PageCmds
  <2>1. c.kind = "page" /\ c.name \in Names /\ c.path \in Names /\ c.auth \in BOOLEAN
    BY <1>3 DEF PageCmds
  <2>2. PagesOf(c) = [n \in {c.path} |-> [file |-> c.name, auth |-> c.auth]]
    BY <2>1 DEF PagesOf
  <2>3. DOMAIN ModelsOf(c) = {} /\ DOMAIN EndpointsOf(c) = {}
    BY <2>1 DEF ModelsOf, EndpointsOf
  <2> QED
    BY <2>1, <2>2, <2>3 DEF PageRows
<1>4. CASE c \in HandlerCmds
  <2>1. c.kind = "handler" /\ c.name \in Names /\ c.route \in Routes /\ c.auth \in BOOLEAN
    BY <1>4 DEF HandlerCmds
  <2>2. EndpointsOf(c) =
          [r \in {c.route} |->
             [handler |-> [by |-> "handler", name |-> c.name, op |-> r[2]], auth |-> c.auth]]
    BY <2>1 DEF EndpointsOf
  <2>3. DOMAIN ModelsOf(c) = {} /\ DOMAIN PagesOf(c) = {}
    BY <2>1 DEF ModelsOf, PagesOf
  <2> QED
    BY <2>1, <2>2, <2>3 DEF EndpointRows, Handlers, Routes
<1> QED
  BY <1>1, <1>2, <1>3, <1>4 DEF Registrations

\* An upsert makes a manifest of a manifest, and holds the command's rows.
LEMMA UpsertIsManifest ==
    ASSUME NEW m \in Manifests, NEW c \in Registrations
    PROVE  /\ Upsert(m, c) \in Manifests
           /\ Holds(Upsert(m, c).models, ModelsOf(c))
           /\ Holds(Upsert(m, c).endpoints, EndpointsOf(c))
           /\ Holds(Upsert(m, c).pages, PagesOf(c))
<1>1. /\ m.models \in [Names -> ModelRows \cup {Absent}]
      /\ m.endpoints \in [Routes -> EndpointRows \cup {Absent}]
      /\ m.pages \in [Names -> PageRows \cup {Absent}]
  BY DEF Manifests
<1>2. Overlay(m.models, ModelsOf(c)) \in [Names -> ModelRows \cup {Absent}]
  BY <1>1, RowsOfCommands DEF Overlay
<1>3. Overlay(m.endpoints, EndpointsOf(c)) \in [Routes -> EndpointRows \cup {Absent}]
  BY <1>1, RowsOfCommands DEF Overlay
<1>4. Overlay(m.pages, PagesOf(c)) \in [Names -> PageRows \cup {Absent}]
  BY <1>1, RowsOfCommands DEF Overlay
<1>5. Holds(Overlay(m.models, ModelsOf(c)), ModelsOf(c))
  BY <1>1, RowsOfCommands DEF Overlay, Holds
<1>6. Holds(Overlay(m.endpoints, EndpointsOf(c)), EndpointsOf(c))
  BY <1>1, RowsOfCommands DEF Overlay, Holds
<1>7. Holds(Overlay(m.pages, PagesOf(c)), PagesOf(c))
  BY <1>1, RowsOfCommands DEF Overlay, Holds
<1> QED
  BY <1>2, <1>3, <1>4, <1>5, <1>6, <1>7 DEF Upsert, Manifests

LEMMA EmptyIsManifest == EmptyManifest \in Manifests
BY DEF EmptyManifest, Manifests

\* A registration renders at least one file.
LEMMA RendersFiles ==
    ASSUME NEW c \in Registrations
    PROVE  /\ Renders(c) \in Seq(FileIds)
           /\ Renders(c) # <<>>
<1>1. c.name \in Names /\ c.kind \in {"resource", "model", "page", "handler"}
  BY DEF Registrations, ResourceCmds, ModelCmds, PageCmds, HandlerCmds
<1>2. \A d \in {"model", "handlers", "handler", "page", "js"} : File(d, c.name) \in FileIds
  BY <1>1 DEF File, FileIds
<1>3. CASE c.kind = "resource"
  <2>1. Renders(c) = <<File("model", c.name), File("handlers", c.name),
                       File("page", c.name), File("js", c.name)>>
    BY <1>3 DEF Renders
  <2> QED BY <2>1, <1>2
<1>4. CASE c.kind = "model"
  <2>1. Renders(c) = <<File("model", c.name)>>
    BY <1>4 DEF Renders
  <2> QED BY <2>1, <1>2
<1>5. CASE c.kind = "page"
  <2>1. Renders(c) = <<File("page", c.name), File("js", c.name)>>
    BY <1>5 DEF Renders
  <2> QED BY <2>1, <1>2
<1>6. CASE c.kind = "handler"
  <2>1. Renders(c) = <<File("handler", c.name)>>
    BY <1>6 DEF Renders
  <2> QED BY <2>1, <1>2
<1> QED BY <1>1, <1>3, <1>4, <1>5, <1>6

----------------------------------------------------------------------------
\* Type correctness, together with what a command knows where it stands.

Typed == TypeOK /\ ProcessLocals

\* The parts of Typed that speak of processes and of the flock.
ProcessTypes ==
    /\ exclusive \in Proc \cup {Absent}
    /\ shared \subseteq Proc
    /\ pc \in [Proc -> PCs]
    /\ cmd \in [Proc -> AllCommands \cup {Absent}]
    /\ todo \in [Proc -> Seq(FileIds)]
    /\ snap \in [Proc -> Manifests \cup {Absent}]
    /\ seen \in [Proc -> SUBSET FileIds]

\* The end of a command, however it comes about.
LEMMA ExitTyped ==
    ASSUME Typed, NEW p \in Proc, NEW how \in Terminal, Exit(p, how), pc[p] # "new"
    PROVE  ProcessTypes' /\ ProcessLocals'
<1>1. pc' = [pc EXCEPT ![p] = how] /\ cmd' = cmd
  BY DEF Exit, Goto
<1>2. todo' = [todo EXCEPT ![p] = <<>>] /\ snap' = [snap EXCEPT ![p] = Absent]
        /\ seen' = [seen EXCEPT ![p] = {}]
  BY DEF Exit
<1>3. ProcessTypes'
  <2>1. exclusive' \in Proc \cup {Absent} /\ shared' \subseteq Proc
    BY DEF Exit, Typed, TypeOK
  <2> QED
    BY <1>1, <1>2, <2>1 DEF ProcessTypes, Typed, TypeOK, PCs
<1>4. ProcessLocals'
  <2>1. pc'[p] = how /\ how \in {"done", "failed", "killed"}
    BY <1>1 DEF Typed, TypeOK, Terminal
  <2>2. \A q \in Proc : q # p => /\ pc'[q] = pc[q] /\ cmd'[q] = cmd[q]
                                 /\ todo'[q] = todo[q] /\ snap'[q] = snap[q]
    BY <1>1, <1>2 DEF Typed, TypeOK
  <2>3. cmd'[p] \in AllCommands
    BY <1>1 DEF Typed, ProcessLocals
  <2> QED
    BY <2>1, <2>2, <2>3 DEF Typed, ProcessLocals, Updating
<1> QED BY <1>3, <1>4

\* A step that only moves on to another program counter.
LEMMA GotoTyped ==
    ASSUME Typed, NEW p \in Proc, NEW l \in PCs, Goto(p, l), UNCHANGED <<flock, local>>
    PROVE  ProcessTypes'
BY DEF Goto, Typed, TypeOK, ProcessTypes, flock, local

LEMMA FirstSteps ==
    ASSUME NEW c \in AllCommands
    PROVE  /\ FirstStep(c) \in {"schema", "render", "lock", "lock_shared"}
           /\ FirstStep(c) = "schema" => c \in Registrations /\ c.kind \in {"resource", "model"}
           /\ FirstStep(c) = "render" => c \in Registrations
           /\ FirstStep(c) = "lock" => c \in SQLCmds \cup {RegenCmd}
BY KindsOfCommands DEF FirstStep, Registrations

LEMMA StartTyped ==
    ASSUME Typed, NEW p \in Proc, NEW c \in Commands, Start(p, c)
    PROVE  Typed'
<1>1. c \in AllCommands
  BY Constants
<1>2. pc' = [pc EXCEPT ![p] = FirstStep(c)] /\ cmd' = [cmd EXCEPT ![p] = c]
        /\ todo' = [todo EXCEPT ![p] = IF c \in Registrations THEN Renders(c) ELSE <<>>]
  BY DEF Start, Goto
<1>3. UNCHANGED <<tables, disk, flock, snap, seen, divergence>>
  BY DEF Start
<1>4. (IF c \in Registrations THEN Renders(c) ELSE <<>>) \in Seq(FileIds)
  BY RendersFiles
<1>5. TypeOK'
  BY <1>1, <1>2, <1>3, <1>4, FirstSteps DEF Typed, TypeOK, disk, flock, PCs
<1>6. ProcessLocals'
  <2>1. pc'[p] = FirstStep(c) /\ cmd'[p] = c
          /\ (c \in Registrations => todo'[p] # <<>>)
    BY <1>2, RendersFiles DEF Typed, TypeOK
  <2>2. \A q \in Proc : q # p => /\ pc'[q] = pc[q] /\ cmd'[q] = cmd[q]
                                 /\ todo'[q] = todo[q] /\ snap'[q] = snap[q]
    BY <1>2, <1>3 DEF Typed, TypeOK
  <2> QED
    BY <1>1, <2>1, <2>2, FirstSteps DEF Typed, ProcessLocals, Updating
<1> QED BY <1>5, <1>6 DEF Typed

\* The schema check: the command is the same but for its fields.
LEMMA SchemaChecked ==
    ASSUME Typed, NEW p \in Proc, CheckSchema(p), ~Exit(p, "failed")
    PROVE  /\ Goto(p, "refs") /\ UNCHANGED <<flock, todo, snap, seen>>
           /\ SchemaFits(cmd[p]) /\ DeclaresModel(cmd'[p])
           /\ cmd' = [cmd EXCEPT ![p] = cmd'[p]]
           /\ cmd'[p].name = cmd[p].name /\ cmd[p].name \in Names
           /\ cmd'[p].owned = cmd[p].owned
           /\ cmd'[p].fields = applySchema(tables[cmd[p].name], cmd[p].fields)
           /\ cmd[p].fields \in FieldLists
           /\ cmd[p] \in Registrations /\ cmd'[p] \in Registrations
           /\ Renders(cmd'[p]) = Renders(cmd[p])
<1>1. /\ Goto(p, "refs") /\ UNCHANGED <<flock, todo, snap, seen>> /\ SchemaFits(cmd[p])
      /\ pc[p] = "schema"
      /\ cmd' = [cmd EXCEPT ![p].fields = applySchema(tables[cmd[p].name], @)]
  BY DEF CheckSchema
<1>2. cmd[p] \in AllCommands /\ cmd[p].kind \in {"resource", "model"}
  BY <1>1 DEF Typed, ProcessLocals
<1>3. cmd[p] \in ResourceCmds \cup ModelCmds
  BY <1>2, KindsOfCommands
<1>4. cmd[p].fields \in FieldLists /\ cmd[p].name \in Names
  BY <1>3 DEF ResourceCmds, ModelCmds
<1>5. DEFINE filled == applySchema(tables[cmd[p].name], cmd[p].fields)
<1>6. filled \in FieldLists
  BY <1>4, FilledIn
<1>7. cmd'[p] = [cmd[p] EXCEPT !.fields = filled] /\ cmd' = [cmd EXCEPT ![p] = cmd'[p]]
  BY <1>1 DEF Typed, TypeOK
<1> HIDE DEF filled
<1>8. CASE cmd[p] \in ResourceCmds
  <2>1. /\ cmd'[p] \in ResourceCmds /\ cmd'[p].fields = filled /\ cmd'[p].name = cmd[p].name
        /\ cmd'[p].owned = cmd[p].owned /\ cmd'[p].kind = cmd[p].kind
    BY <1>6, <1>7, <1>8 DEF ResourceCmds
  <2> QED BY <1>1, <1>4, <1>7, <1>8, <2>1, KindsOfCommands
       DEF Registrations, Renders, DeclaresModel, filled, ResourceCmds
<1>9. CASE cmd[p] \in ModelCmds
  <2>1. /\ cmd'[p] \in ModelCmds /\ cmd'[p].fields = filled /\ cmd'[p].name = cmd[p].name
        /\ cmd'[p].owned = cmd[p].owned /\ cmd'[p].kind = cmd[p].kind
    BY <1>6, <1>7, <1>9 DEF ModelCmds
  <2> QED BY <1>1, <1>4, <1>7, <1>9, <2>1, KindsOfCommands
       DEF Registrations, Renders, DeclaresModel, filled, ModelCmds
<1> QED BY <1>3, <1>8, <1>9

LEMMA CheckSchemaTyped ==
    ASSUME Typed, NEW p \in Proc, CheckSchema(p)
    PROVE  Typed'
<1>1. UNCHANGED <<tables, disk, divergence>> /\ pc[p] = "schema"
  BY DEF CheckSchema
<1>2. CASE Exit(p, "failed")
  BY <1>1, <1>2, ExitTyped DEF Terminal, ProcessTypes, Typed, TypeOK, disk
<1>3. CASE ~Exit(p, "failed")
  <2>1. /\ Goto(p, "refs") /\ UNCHANGED <<flock, todo, snap, seen>>
        /\ cmd' = [cmd EXCEPT ![p] = cmd'[p]] /\ DeclaresModel(cmd'[p])
        /\ cmd'[p] \in Registrations /\ cmd'[p] \in AllCommands
    BY <1>3, SchemaChecked DEF AllCommands
  <2>2. TypeOK'
    BY <1>1, <2>1 DEF Goto, PCs, Typed, TypeOK, disk, flock
  <2>3. ProcessLocals'
    BY <1>1, <2>1 DEF Goto, Typed, TypeOK, ProcessLocals, Updating, DeclaresModel
  <2> QED BY <2>2, <2>3 DEF Typed
<1> QED BY <1>2, <1>3

LEMMA CheckRefsTyped ==
    ASSUME Typed, NEW p \in Proc, CheckRefs(p)
    PROVE  Typed'
<1>1. UNCHANGED <<tables, disk, divergence>> /\ pc[p] = "refs"
  BY DEF CheckRefs
<1>2. CASE Exit(p, "failed")
  BY <1>1, <1>2, ExitTyped DEF Terminal, ProcessTypes, Typed, TypeOK, disk
<1>3. CASE Goto(p, "render") /\ UNCHANGED <<flock, local>>
  <2>1. TypeOK'
    BY <1>1, <1>3, GotoTyped DEF PCs, ProcessTypes, Typed, TypeOK, disk
  <2>2. ProcessLocals'
    BY <1>1, <1>3 DEF Goto, local, Typed, TypeOK, ProcessLocals, Updating
  <2> QED BY <2>1, <2>2 DEF Typed
<1> QED BY <1>2, <1>3 DEF CheckRefs

LEMMA RenderTyped ==
    ASSUME Typed, NEW p \in Proc, Render(p)
    PROVE  Typed'
<1>1. UNCHANGED <<tables, api, routes_gen, pages_gen, pages_gen_test, divergence>>
        /\ pc[p] = "render"
  BY DEF Render
<1>2. CASE Exit(p, "failed") /\ UNCHANGED files
  BY <1>1, <1>2, ExitTyped DEF Terminal, ProcessTypes, Typed, TypeOK
<1>3. CASE /\ files' = [files EXCEPT ![Head(todo[p])] = cmd[p]]
           /\ todo' = [todo EXCEPT ![p] = Tail(@)]
           /\ Goto(p, IF Len(todo[p]) = 1 THEN "lock" ELSE "render")
           /\ UNCHANGED <<flock, cmd, snap, seen>>
  <2>1. todo[p] \in Seq(FileIds) /\ todo[p] # <<>> /\ cmd[p] \in Registrations
          /\ cmd[p] \in AllCommands
    BY <1>1 DEF Typed, TypeOK, ProcessLocals
  <2>2. Tail(todo[p]) \in Seq(FileIds) /\ (Len(todo[p]) # 1 => Tail(todo[p]) # <<>>)
    <3>1. Tail(todo[p]) \in Seq(FileIds) /\ Len(Tail(todo[p])) = Len(todo[p]) - 1
      BY <2>1, HeadTailProperties
    <3>2. ASSUME Tail(todo[p]) = <<>> PROVE Len(todo[p]) = 1
      <4>1. Len(Tail(todo[p])) = 0
        BY <3>1, <3>2, EmptySeq
      <4> QED BY <2>1, <3>1, <4>1
    <3> QED BY <3>1, <3>2
  <2>3. files' \in [FileIds -> Registrations \cup {Absent}]
    BY <1>3, <2>1 DEF Typed, TypeOK
  <2>4. TypeOK'
    BY <1>1, <1>3, <2>2, <2>3 DEF Goto, flock, Typed, TypeOK, PCs
  <2>5. ProcessLocals'
    BY <1>1, <1>3, <2>1, <2>2 DEF Goto, Typed, TypeOK, ProcessLocals, Updating
  <2> QED BY <2>4, <2>5 DEF Typed
<1> QED BY <1>2, <1>3 DEF Render

LEMMA LockTyped ==
    ASSUME Typed, NEW p \in Proc, Lock(p)
    PROVE  Typed'
<1>1. TypeOK'
  BY DEF Lock, Goto, disk, local, Typed, TypeOK, PCs, Exclusive, Updating
<1>2. cmd[p] \in Registrations \cup SQLCmds \cup {RegenCmd} /\ cmd[p] \in AllCommands
  BY DEF Lock, Typed, ProcessLocals, AllCommands
<1>3. IF cmd[p].kind = "sql" THEN cmd[p] \in SQLCmds
      ELSE cmd[p] \in Registrations \cup {RegenCmd}
  BY <1>2, KindsOfCommands
<1>4. ProcessLocals'
  BY <1>3 DEF Lock, Goto, local, Typed, TypeOK, ProcessLocals, Updating
<1> QED BY <1>1, <1>4 DEF Typed

LEMMA InspectTyped ==
    ASSUME Typed, NEW p \in Proc, Inspect(p)
    PROVE  Typed'
<1>1. CASE LockShared(p)
  <2>1. TypeOK'
    BY <1>1 DEF LockShared, Goto, disk, local, Typed, TypeOK, PCs, Shared
  <2>2. ProcessLocals'
    BY <1>1 DEF LockShared, Goto, local, Typed, TypeOK, ProcessLocals, Updating
  <2> QED BY <2>1, <2>2 DEF Typed
<1>2. CASE Scan(p)
  <2>1. TypeOK'
    BY <1>2 DEF Scan, OnDisk, Goto, disk, flock, Typed, TypeOK, PCs, Shared
  <2>2. ProcessLocals'
    BY <1>2 DEF Scan, Goto, Typed, TypeOK, ProcessLocals, Updating
  <2> QED BY <2>1, <2>2 DEF Typed
<1>3. CASE Load(p)
  <2>1. TypeOK'
    BY <1>3 DEF Load, Goto, disk, flock, Typed, TypeOK, PCs, Shared
  <2>2. ProcessLocals'
    BY <1>3 DEF Load, Goto, Typed, TypeOK, ProcessLocals, Updating
  <2> QED BY <2>1, <2>2 DEF Typed
<1>4. CASE Compare(p)
  <2>1. Exit(p, "done") /\ UNCHANGED <<tables, disk>> /\ pc[p] = "compare"
    BY <1>4 DEF Compare
  <2>2. snap[p] \in Manifests
    BY <2>1 DEF Typed, ProcessLocals
  <2>3. \A f \in ModelFiles(snap[p]) : f.dir = "model"
    BY DEF ModelFiles, File
  <2>4. \A f \in PageFiles(snap[p]) : f.dir = "page"
    BY DEF PageFiles, File
  <2>5. divergence' \subseteq {"model", "page", "routes_gen", "pages_gen", "pages_gen_test"}
    BY <1>4, <2>3, <2>4 DEF Compare
  <2> QED
    BY <2>1, <2>5, ExitTyped DEF Terminal, ProcessTypes, Typed, TypeOK, disk
<1> QED BY <1>1, <1>2, <1>3, <1>4 DEF Inspect

LEMMA UpdateTyped ==
    ASSUME Typed, NEW p \in Proc, Update(p)
    PROVE  Typed'
<1> /\ api \in Manifests /\ snap \in [Proc -> Manifests \cup {Absent}]
    /\ pc[p] \in Updating \ {"read"} => snap[p] \in Manifests
  BY DEF Typed, TypeOK, ProcessLocals
<1>1. CASE Read(p)
  <2>1. pc[p] = "read" /\ UNCHANGED <<tables, disk, divergence>>
    BY <1>1 DEF Read
  <2>2. CASE Exit(p, "failed")
    BY <2>1, <2>2, ExitTyped DEF Terminal, ProcessTypes, Typed, TypeOK, disk
  <2>3. CASE /\ snap' = [snap EXCEPT ![p] =
                          IF cmd[p].kind = "regen" THEN api ELSE Upsert(api, cmd[p])]
             /\ Goto(p, "write_api")
             /\ UNCHANGED <<flock, cmd, todo, seen>>
    <3>1. cmd[p] \in Registrations \cup {RegenCmd}
      BY <2>1 DEF Typed, ProcessLocals, Updating
    <3>2. (IF cmd[p].kind = "regen" THEN api ELSE Upsert(api, cmd[p])) \in Manifests
      BY <3>1, UpsertIsManifest DEF RegenCmd
    <3>3. TypeOK'
      BY <2>1, <2>3, <3>2 DEF Goto, disk, flock, Typed, TypeOK, PCs, Exclusive, Updating
    <3>4. ProcessLocals'
      BY <2>1, <2>3, <3>1, <3>2 DEF Goto, Typed, TypeOK, ProcessLocals, Updating
    <3> QED BY <3>3, <3>4 DEF Typed
  <2> QED BY <1>1, <2>2, <2>3 DEF Read
<1>2. CASE WriteApi(p)
  <2>1. pc[p] = "write_api" /\ snap[p] \in Manifests
          /\ UNCHANGED <<tables, files, routes_gen, pages_gen, pages_gen_test, divergence>>
    BY <1>2 DEF WriteApi, Updating
  <2>2. CASE Exit(p, "failed") /\ UNCHANGED api
    BY <2>1, <2>2, ExitTyped DEF Terminal, ProcessTypes, Typed, TypeOK
  <2>3. CASE api' = snap[p] /\ Goto(p, "write_routes") /\ UNCHANGED <<flock, local>>
    <3>1. TypeOK'
      BY <2>1, <2>3, GotoTyped DEF PCs, Exclusive, Updating, ProcessTypes, Typed, TypeOK
    <3>2. ProcessLocals'
      BY <2>1, <2>3 DEF Goto, local, Typed, TypeOK, ProcessLocals, Updating
    <3> QED BY <3>1, <3>2 DEF Typed
  <2> QED BY <1>2, <2>2, <2>3 DEF WriteApi
<1>3. CASE WriteRoutes(p)
  <2>1. pc[p] = "write_routes" /\ snap[p] \in Manifests
          /\ UNCHANGED <<tables, files, api, pages_gen, pages_gen_test, divergence>>
    BY <1>3 DEF WriteRoutes, Updating
  <2>2. CASE Exit(p, "failed") /\ UNCHANGED routes_gen
    BY <2>1, <2>2, ExitTyped DEF Terminal, ProcessTypes, Typed, TypeOK
  <2>3. CASE routes_gen' = snap[p].endpoints /\ Goto(p, "write_pages")
               /\ UNCHANGED <<flock, local>>
    <3>1. TypeOK'
      BY <2>1, <2>3, GotoTyped
      DEF PCs, Exclusive, Updating, ProcessTypes, Typed, TypeOK, Manifests
    <3>2. ProcessLocals'
      BY <2>1, <2>3 DEF Goto, local, Typed, TypeOK, ProcessLocals, Updating
    <3> QED BY <3>1, <3>2 DEF Typed
  <2> QED BY <1>3, <2>2, <2>3 DEF WriteRoutes
<1>4. CASE WritePages(p)
  <2>1. pc[p] = "write_pages" /\ snap[p] \in Manifests
          /\ UNCHANGED <<tables, files, api, routes_gen, pages_gen_test, divergence>>
    BY <1>4 DEF WritePages, Updating
  <2>2. CASE Exit(p, "failed") /\ UNCHANGED pages_gen
    BY <2>1, <2>2, ExitTyped DEF Terminal, ProcessTypes, Typed, TypeOK
  <2>3. CASE pages_gen' = snap[p].pages /\ Goto(p, "write_pages_test")
               /\ UNCHANGED <<flock, local>>
    <3>1. TypeOK'
      BY <2>1, <2>3, GotoTyped
      DEF PCs, Exclusive, Updating, ProcessTypes, Typed, TypeOK, Manifests
    <3>2. ProcessLocals'
      BY <2>1, <2>3 DEF Goto, local, Typed, TypeOK, ProcessLocals, Updating
    <3> QED BY <3>1, <3>2 DEF Typed
  <2> QED BY <1>4, <2>2, <2>3 DEF WritePages
<1>5. CASE WritePagesTest(p)
  <2>1. pc[p] = "write_pages_test" /\ snap[p] \in Manifests
          /\ UNCHANGED <<tables, files, api, routes_gen, pages_gen, divergence>>
    BY <1>5 DEF WritePagesTest, Updating
  <2>2. PICK how \in {"done", "failed"} :
          Exit(p, how) /\ pages_gen_test' \in {snap[p].pages, pages_gen_test}
    BY <1>5 DEF WritePagesTest
  <2> QED
    BY <2>1, <2>2, ExitTyped DEF Terminal, ProcessTypes, Typed, TypeOK, Manifests
<1> QED BY <1>1, <1>2, <1>3, <1>4, <1>5 DEF Update

LEMMA OthersTyped ==
    ASSUME Typed, NEW p \in Proc, ExecSQL(p) \/ Kill(p)
    PROVE  Typed'
<1>1. CASE ExecSQL(p)
  <2>1. pc[p] = "exec" /\ UNCHANGED <<disk, divergence>>
          /\ \E how \in Terminal : Exit(p, how)
    BY <1>1 DEF ExecSQL, Terminal
  <2>2. tables' \in [Names -> Tables \cup {Absent}]
    BY <1>1 DEF ExecSQL, Typed, TypeOK, SQLCmds, ProcessLocals
  <2> QED
    BY <2>1, <2>2, ExitTyped DEF ProcessTypes, Typed, TypeOK, disk
<1>2. CASE Kill(p)
  BY <1>2, ExitTyped DEF Kill, Terminal, ProcessTypes, Typed, TypeOK, disk
<1> QED BY <1>1, <1>2

LEMMA InitTyped == Init => Typed
BY EmptyIsManifest, TablesAssumption
DEF Init, Typed, TypeOK, ProcessLocals, EmptyManifest, Manifests, PCs, Updating

LEMMA NextTyped == Typed /\ [Next]_vars => Typed'
<1> SUFFICES ASSUME Typed, [Next]_vars PROVE Typed'
  OBVIOUS
<1>1. CASE UNCHANGED vars
  BY <1>1 DEF vars, Typed, TypeOK, ProcessLocals
<1>2. ASSUME NEW p \in Proc, (\E c \in Commands : Start(p, c)) \/ Step(p) \/ Kill(p)
      PROVE  Typed'
  BY <1>2, StartTyped, CheckSchemaTyped, CheckRefsTyped, RenderTyped, LockTyped,
     UpdateTyped, InspectTyped, OthersTyped
  DEF Step, Register
<1> QED BY <1>1, <1>2 DEF Next

\* Every variable keeps its type and every command its locals, whatever the
\* commands, the processes and the names.
THEOREM TypeCorrect == Spec => [](TypeOK /\ ProcessLocals)
<1>1. Typed <=> TypeOK /\ ProcessLocals
  BY DEF Typed
<1> QED BY <1>1, InitTyped, NextTyped, PTL DEF Spec

----------------------------------------------------------------------------
\* The lock.

LEMMA ExitLock ==
    ASSUME Typed, LockHeld, NEW p \in Proc, NEW how \in Terminal, Exit(p, how)
    PROVE  LockHeld'
<1>1. pc' = [pc EXCEPT ![p] = how] /\ how \notin Exclusive /\ how \notin Shared
  BY DEF Exit, Goto, Terminal, Exclusive, Updating, Shared
<1>2. \A q \in Proc : exclusive' = q <=> pc'[q] \in Exclusive
  BY <1>1, Constants DEF Exit, LockHeld, Typed, TypeOK
<1>3. \A q \in Proc : q \in shared' <=> pc'[q] \in Shared
  BY <1>1 DEF Exit, LockHeld, Typed, TypeOK
<1>4. exclusive' # Absent => shared' = {}
  BY DEF Exit, LockHeld
<1> QED BY <1>2, <1>3, <1>4 DEF LockHeld

LEMMA InsideLock ==
    ASSUME Typed, LockHeld, NEW p \in Proc, NEW l \in PCs, Goto(p, l), UNCHANGED flock,
           pc[p] \in Exclusive <=> l \in Exclusive, pc[p] \in Shared <=> l \in Shared
    PROVE  LockHeld'
BY DEF Goto, flock, LockHeld, Typed, TypeOK

LEMMA InitLock == Init => LockHeld
BY Constants DEF Init, LockHeld, Exclusive, Updating, Shared

LEMMA NextLock == Typed /\ LockHeld /\ [Next]_vars => LockHeld'
<1> SUFFICES ASSUME Typed, LockHeld, [Next]_vars PROVE LockHeld'
  OBVIOUS
<1> USE DEF PCs, Terminal, Exclusive, Updating, Shared
<1>1. CASE UNCHANGED vars
  BY <1>1 DEF vars, LockHeld
<1>2. ASSUME NEW p \in Proc, NEW c \in Commands, Start(p, c) PROVE LockHeld'
  <2>1. FirstStep(c) \in {"schema", "render", "lock", "lock_shared"}
    BY Constants, FirstSteps
  <2> QED BY <1>2, <2>1, InsideLock DEF Start
<1>3. ASSUME NEW p \in Proc, CheckSchema(p) PROVE LockHeld'
  BY <1>3, ExitLock, InsideLock DEF CheckSchema
<1>4. ASSUME NEW p \in Proc, CheckRefs(p) PROVE LockHeld'
  BY <1>4, ExitLock, InsideLock DEF CheckRefs
<1>5. ASSUME NEW p \in Proc, Render(p) PROVE LockHeld'
  BY <1>5, ExitLock, InsideLock DEF Render
<1>6. ASSUME NEW p \in Proc, Lock(p) PROVE LockHeld'
  BY <1>6, Constants DEF Lock, Goto, LockHeld, Typed, TypeOK
<1>7. ASSUME NEW p \in Proc, LockShared(p) PROVE LockHeld'
  BY <1>7, Constants DEF LockShared, Goto, LockHeld, Typed, TypeOK
<1>8. ASSUME NEW p \in Proc, Read(p) PROVE LockHeld'
  BY <1>8, ExitLock, InsideLock DEF Read
<1>9. ASSUME NEW p \in Proc, WriteApi(p) PROVE LockHeld'
  BY <1>9, ExitLock, InsideLock DEF WriteApi
<1>10. ASSUME NEW p \in Proc, WriteRoutes(p) PROVE LockHeld'
  BY <1>10, ExitLock, InsideLock DEF WriteRoutes
<1>11. ASSUME NEW p \in Proc, WritePages(p) PROVE LockHeld'
  BY <1>11, ExitLock, InsideLock DEF WritePages
<1>12. ASSUME NEW p \in Proc, WritePagesTest(p) PROVE LockHeld'
  BY <1>12, ExitLock DEF WritePagesTest
<1>13. ASSUME NEW p \in Proc, ExecSQL(p) PROVE LockHeld'
  BY <1>13, ExitLock DEF ExecSQL
<1>14. ASSUME NEW p \in Proc, Scan(p) PROVE LockHeld'
  BY <1>14, InsideLock DEF Scan
<1>15. ASSUME NEW p \in Proc, Load(p) PROVE LockHeld'
  BY <1>15, InsideLock DEF Load
<1>16. ASSUME NEW p \in Proc, Compare(p) PROVE LockHeld'
  BY <1>16, ExitLock DEF Compare
<1>17. ASSUME NEW p \in Proc, Kill(p) PROVE LockHeld'
  BY <1>17, ExitLock DEF Kill
<1> QED
  BY <1>1, <1>2, <1>3, <1>4, <1>5, <1>6, <1>7, <1>8, <1>9, <1>10, <1>11, <1>12,
     <1>13, <1>14, <1>15, <1>16, <1>17
  DEF Next, Step, Register, Update, Inspect

LEMMA HoldersExcludeAll == LockHeld => MutualExclusion
BY Constants DEF LockHeld, MutualExclusion

\* Whoever is inside a LOCK_EX section is alone in any section, although
\* processes die and writes fail anywhere.
THEOREM Exclusion == Spec => []MutualExclusion
<1>1. Init => Typed /\ LockHeld
  BY InitTyped, InitLock
<1>2. Typed /\ LockHeld /\ [Next]_vars => Typed' /\ LockHeld'
  BY NextTyped, NextLock
<1> QED BY <1>1, <1>2, HoldersExcludeAll, PTL DEF Spec

----------------------------------------------------------------------------
\* The transaction.

Writing == {"write_api", "write_routes", "write_pages", "write_pages_test"}

\* A step that writes none of the shared files, of a process that is not inside
\* a transaction afterwards.
LEMMA SnapshotFrame ==
    ASSUME Typed, SnapshotCurrent, NEW p \in Proc,
           UNCHANGED <<api, routes_gen, pages_gen>>,
           pc'[p] \notin Writing,
           \A q \in Proc \ {p} : pc'[q] = pc[q] /\ cmd'[q] = cmd[q] /\ snap'[q] = snap[q]
    PROVE  SnapshotCurrent'
BY DEF SnapshotCurrent, Writing

LEMMA SnapshotExit ==
    ASSUME Typed, SnapshotCurrent, NEW p \in Proc, NEW how \in Terminal, Exit(p, how),
           UNCHANGED <<api, routes_gen, pages_gen>>
    PROVE  SnapshotCurrent'
<1>1. pc'[p] \notin Writing
  BY DEF Exit, Goto, Typed, TypeOK, Terminal, Writing
<1>2. \A q \in Proc \ {p} : pc'[q] = pc[q] /\ cmd'[q] = cmd[q] /\ snap'[q] = snap[q]
  BY DEF Exit, Goto, Typed, TypeOK
<1> QED BY <1>1, <1>2, SnapshotFrame

LEMMA SnapshotGoto ==
    ASSUME Typed, SnapshotCurrent, NEW p \in Proc, NEW l \in PCs \ Writing, Goto(p, l),
           UNCHANGED <<cmd, snap, api, routes_gen, pages_gen>>
    PROVE  SnapshotCurrent'
<1>1. pc'[p] \notin Writing
  BY DEF Goto, Typed, TypeOK
<1>2. \A q \in Proc \ {p} : pc'[q] = pc[q] /\ cmd'[q] = cmd[q] /\ snap'[q] = snap[q]
  BY DEF Goto, Typed, TypeOK
<1> QED BY <1>1, <1>2, SnapshotFrame

\* While one process writes, no other one is between its read and its writes.
LEMMA AloneInside ==
    ASSUME LockHeld, NEW p \in Proc, pc[p] \in Updating, NEW q \in Proc \ {p}
    PROVE  pc[q] \notin Writing
BY DEF LockHeld, Exclusive, Updating, Writing

LEMMA ReadSnapshot ==
    ASSUME Typed, LockHeld, SnapshotCurrent, NEW p \in Proc, Read(p)
    PROVE  SnapshotCurrent'
<1>1. pc[p] = "read" /\ UNCHANGED <<api, routes_gen, pages_gen>>
  BY DEF Read, disk
<1>2. cmd[p] \in Registrations \cup {RegenCmd} /\ (cmd[p].kind = "regen" <=> cmd[p] = RegenCmd)
  <2>1. cmd[p] \in Registrations \cup {RegenCmd}
    BY <1>1 DEF Typed, ProcessLocals, Updating
  <2>2. cmd[p] \in AllCommands
    BY <2>1 DEF AllCommands
  <2> QED BY <2>1, <2>2, KindsOfCommands
<1>3. CASE Exit(p, "failed")
  BY <1>1, <1>3, SnapshotExit DEF Terminal
<1>4. CASE /\ ~(cmd[p].kind # "regen" /\ Conflict(api, cmd[p]))
           /\ snap' = [snap EXCEPT ![p] =
                         IF cmd[p].kind = "regen" THEN api ELSE Upsert(api, cmd[p])]
           /\ Goto(p, "write_api")
           /\ UNCHANGED cmd
  <2>1. \A q \in Proc \ {p} : pc'[q] = pc[q] /\ pc[q] \notin Writing
    BY <1>1, <1>4, AloneInside DEF Goto, Typed, TypeOK, Updating
  <2>2. pc'[p] = "write_api"
          /\ snap'[p] = (IF cmd[p] = RegenCmd THEN api ELSE Upsert(api, cmd[p]))
    BY <1>2, <1>4 DEF Goto, Typed, TypeOK
  <2>3. UNCHANGED <<api, cmd>>
    BY <1>1, <1>4
  <2> QED
    BY <1>2, <1>4, <2>1, <2>2, <2>3 DEF SnapshotCurrent, Writing
<1> QED BY <1>3, <1>4 DEF Read

LEMMA WriteSnapshot ==
    ASSUME Typed, LockHeld, SnapshotCurrent, NEW p \in Proc,
           WriteApi(p) \/ WriteRoutes(p) \/ WritePages(p) \/ WritePagesTest(p)
    PROVE  SnapshotCurrent'
<1>0. pc[p] \in Writing /\ pc[p] \in Updating
  BY DEF WriteApi, WriteRoutes, WritePages, WritePagesTest, Writing, Updating
<1>1. \A q \in Proc \ {p} : pc[q] \notin Writing
  BY <1>0, AloneInside
<1>2. CASE WriteApi(p)
  <2>1. CASE Exit(p, "failed") /\ UNCHANGED api
    BY <1>2, <2>1, SnapshotExit DEF WriteApi, Terminal
  <2>2. CASE api' = snap[p] /\ Goto(p, "write_routes") /\ UNCHANGED <<flock, local>>
    <3>1. pc[p] = "write_api" /\ pc'[p] = "write_routes" /\ UNCHANGED <<cmd, snap>>
            /\ \A q \in Proc \ {p} : pc'[q] = pc[q]
      BY <1>2, <2>2 DEF WriteApi, Goto, local, Typed, TypeOK
    <3>2. cmd[p] # RegenCmd => cmd[p] \in Registrations
      BY <3>1 DEF Typed, ProcessLocals, Updating
    <3>3. cmd[p] # RegenCmd => /\ Holds(api'.models, ModelsOf(cmd[p]))
                               /\ Holds(api'.endpoints, EndpointsOf(cmd[p]))
                               /\ Holds(api'.pages, PagesOf(cmd[p]))
      BY <2>2, <3>1, <3>2, UpsertIsManifest DEF SnapshotCurrent, Typed, TypeOK
    <3> QED
      BY <1>1, <2>2, <3>1, <3>3 DEF SnapshotCurrent, Writing
  <2> QED BY <1>2, <2>1, <2>2 DEF WriteApi
<1>3. CASE WriteRoutes(p)
  <2>1. CASE Exit(p, "failed") /\ UNCHANGED routes_gen
    BY <1>3, <2>1, SnapshotExit DEF WriteRoutes, Terminal
  <2>2. CASE routes_gen' = snap[p].endpoints /\ Goto(p, "write_pages")
               /\ UNCHANGED <<flock, local>>
    <3>1. pc[p] = "write_routes" /\ pc'[p] = "write_pages" /\ UNCHANGED <<api, cmd, snap>>
            /\ \A q \in Proc \ {p} : pc'[q] = pc[q]
      BY <1>3, <2>2 DEF WriteRoutes, Goto, local, Typed, TypeOK
    <3> QED
      BY <1>1, <2>2, <3>1 DEF SnapshotCurrent, Writing
  <2> QED BY <1>3, <2>1, <2>2 DEF WriteRoutes
<1>4. CASE WritePages(p)
  <2>1. CASE Exit(p, "failed") /\ UNCHANGED pages_gen
    BY <1>4, <2>1, SnapshotExit DEF WritePages, Terminal
  <2>2. CASE pages_gen' = snap[p].pages /\ Goto(p, "write_pages_test")
               /\ UNCHANGED <<flock, local>>
    <3>1. pc[p] = "write_pages" /\ pc'[p] = "write_pages_test"
            /\ UNCHANGED <<api, routes_gen, cmd, snap>>
            /\ \A q \in Proc \ {p} : pc'[q] = pc[q]
      BY <1>4, <2>2 DEF WritePages, Goto, local, Typed, TypeOK
    <3> QED
      BY <1>1, <2>2, <3>1 DEF SnapshotCurrent, Writing
  <2> QED BY <1>4, <2>1, <2>2 DEF WritePages
<1>5. CASE WritePagesTest(p)
  BY <1>5, SnapshotExit DEF WritePagesTest, Terminal
<1> QED BY <1>2, <1>3, <1>4, <1>5

LEMMA InitSnapshot == Init => SnapshotCurrent
BY DEF Init, SnapshotCurrent

LEMMA NextSnapshot ==
    Typed /\ LockHeld /\ SnapshotCurrent /\ [Next]_vars => SnapshotCurrent'
<1> SUFFICES ASSUME Typed, LockHeld, SnapshotCurrent, [Next]_vars PROVE SnapshotCurrent'
  OBVIOUS
<1>1. CASE UNCHANGED vars
  BY <1>1 DEF vars, SnapshotCurrent
<1>2. ASSUME NEW p \in Proc, NEW c \in Commands, Start(p, c) PROVE SnapshotCurrent'
  <2>1. pc'[p] = FirstStep(c) /\ UNCHANGED <<api, routes_gen, pages_gen, snap>>
          /\ \A q \in Proc \ {p} : pc'[q] = pc[q] /\ cmd'[q] = cmd[q]
    BY <1>2 DEF Start, Goto, disk, Typed, TypeOK
  <2>2. pc'[p] \notin Writing
    BY <2>1, Constants, FirstSteps DEF Writing
  <2> QED BY <2>1, <2>2, SnapshotFrame
<1>3. ASSUME NEW p \in Proc, CheckSchema(p) \/ CheckRefs(p) PROVE SnapshotCurrent'
  <2>1. UNCHANGED <<api, routes_gen, pages_gen>>
    BY <1>3 DEF CheckSchema, CheckRefs, disk
  <2>2. CASE Exit(p, "failed")
    BY <2>1, <2>2, SnapshotExit DEF Terminal
  <2>3. CASE CheckSchema(p) /\ ~Exit(p, "failed")
    <3>1. /\ Goto(p, "refs") /\ UNCHANGED snap
          /\ cmd' = [cmd EXCEPT ![p] = cmd'[p]]
      BY <2>3, SchemaChecked
    <3>2. pc'[p] \notin Writing
      BY <3>1 DEF Goto, Writing, Typed, TypeOK
    <3>3. \A q \in Proc \ {p} : pc'[q] = pc[q] /\ cmd'[q] = cmd[q] /\ snap'[q] = snap[q]
      BY <3>1 DEF Goto, Typed, TypeOK
    <3> QED BY <2>1, <3>2, <3>3, SnapshotFrame
  <2>4. CASE Goto(p, "render") /\ UNCHANGED local
    BY <2>1, <2>4, SnapshotGoto DEF local, PCs, Writing
  <2> QED BY <1>3, <2>2, <2>3, <2>4 DEF CheckRefs
<1>4. ASSUME NEW p \in Proc, Render(p) PROVE SnapshotCurrent'
  <2>1. UNCHANGED <<api, routes_gen, pages_gen>>
    BY <1>4 DEF Render
  <2>2. CASE Exit(p, "failed")
    BY <2>1, <2>2, SnapshotExit DEF Terminal
  <2>3. CASE (Goto(p, "lock") \/ Goto(p, "render")) /\ UNCHANGED <<cmd, snap>>
    BY <2>1, <2>3, SnapshotGoto DEF PCs, Writing
  <2> QED BY <1>4, <2>2, <2>3 DEF Render
<1>5. ASSUME NEW p \in Proc, Lock(p) PROVE SnapshotCurrent'
  <2>1. UNCHANGED <<cmd, snap, api, routes_gen, pages_gen>>
          /\ (Goto(p, "exec") \/ Goto(p, "read"))
    BY <1>5 DEF Lock, disk, local
  <2> QED BY <2>1, SnapshotGoto DEF PCs, Writing, Exclusive, Updating
<1>6. ASSUME NEW p \in Proc, LockShared(p) \/ Scan(p) PROVE SnapshotCurrent'
  <2>1. UNCHANGED <<cmd, snap, api, routes_gen, pages_gen>>
          /\ (Goto(p, "scan") \/ Goto(p, "load"))
    BY <1>6 DEF LockShared, Scan, disk, local
  <2> QED BY <2>1, SnapshotGoto DEF PCs, Writing, Shared
<1>7. ASSUME NEW p \in Proc, Load(p) PROVE SnapshotCurrent'
  <2>1. pc'[p] \notin Writing
    BY <1>7 DEF Load, Goto, Typed, TypeOK, Writing
  <2>2. \A q \in Proc \ {p} : pc'[q] = pc[q] /\ cmd'[q] = cmd[q] /\ snap'[q] = snap[q]
    BY <1>7 DEF Load, Goto, Typed, TypeOK
  <2> QED BY <1>7, <2>1, <2>2, SnapshotFrame DEF Load, disk
<1>8. ASSUME NEW p \in Proc, Compare(p) \/ ExecSQL(p) \/ Kill(p) PROVE SnapshotCurrent'
  <2>1. UNCHANGED <<api, routes_gen, pages_gen>> /\ \E how \in Terminal : Exit(p, how)
    BY <1>8 DEF Compare, ExecSQL, Kill, disk, Terminal
  <2> QED BY <2>1, SnapshotExit
<1>9. ASSUME NEW p \in Proc, Update(p) PROVE SnapshotCurrent'
  BY <1>9, ReadSnapshot, WriteSnapshot DEF Update
<1> QED
  BY <1>1, <1>2, <1>3, <1>4, <1>5, <1>6, <1>7, <1>8, <1>9 DEF Next, Step, Register, Inspect

\* The inductive invariant of the transaction.
TransactionInv == Typed /\ LockHeld /\ SnapshotCurrent

LEMMA Transaction == Spec => []TransactionInv
<1>1. Init => TransactionInv
  BY InitTyped, InitLock, InitSnapshot DEF TransactionInv
<1>2. TransactionInv /\ [Next]_vars => TransactionInv'
  BY NextTyped, NextLock, NextSnapshot DEF TransactionInv
<1> QED BY <1>1, <1>2, PTL DEF Spec

\* What a command has read is still true when it writes.
THEOREM SnapshotsAreCurrent == Spec => []SnapshotCurrent
<1>1. TransactionInv => SnapshotCurrent
  BY DEF TransactionInv
<1> QED BY <1>1, Transaction, PTL

\* Only the four writes change api.json or a generated file.
LEMMA OnlyWritesWrite ==
    ASSUME [Next]_vars, ~UNCHANGED <<api, routes_gen, pages_gen, pages_gen_test>>
    PROVE  \E p \in Proc : WriteApi(p) \/ WriteRoutes(p) \/ WritePages(p) \/ WritePagesTest(p)
BY DEF Next, Start, Step, Register, CheckSchema, CheckRefs, Render, Lock, Update, Read,
       ExecSQL, Inspect, LockShared, Scan, Load, Compare, Kill, vars, disk

\* Only writeManifestAt changes api.json.
LEMMA OnlyWriteApiWrites ==
    ASSUME [Next]_vars, api' # api
    PROVE  \E p \in Proc : WriteApi(p)
BY OnlyWritesWrite DEF WriteRoutes, WritePages, WritePagesTest

\* The registry's operators are the workspace's, on the same names.
LEMMA SameOperators ==
    /\ Reg!EmptyManifest = EmptyManifest
    /\ Reg!Registrations = Registrations
    /\ \A m, c : Reg!Conflict(m, c) <=> Conflict(m, c)
    /\ \A m, c : Reg!Upsert(m, c) = Upsert(m, c)
<1>1. Reg!Routes = Routes
  BY DEF Reg!Routes, Routes
<1>2. Reg!EmptyManifest = EmptyManifest
  BY <1>1 DEF Reg!EmptyManifest, EmptyManifest
<1>0. Reg!FieldLists = FieldLists
  BY DEF Reg!FieldLists, Reg!WithNullable, Reg!parseFields, Reg!parseField, Reg!semanticFormats,
         FieldLists, WithNullable, parseFields, parseField, semanticFormats
<1>3. Reg!Registrations = Registrations
  BY <1>0, <1>1 DEF Reg!Registrations, Reg!ResourceCmds, Reg!ModelCmds, Reg!PageCmds, Reg!HandlerCmds,
              Registrations, ResourceCmds, ModelCmds, PageCmds, HandlerCmds
<1>4. \A c : /\ Reg!ModelsOf(c) = ModelsOf(c)
             /\ Reg!EndpointsOf(c) = EndpointsOf(c)
             /\ Reg!PagesOf(c) = PagesOf(c)
  BY DEF Reg!ModelsOf, Reg!EndpointsOf, Reg!PagesOf, ModelsOf, EndpointsOf, PagesOf
<1>5. \A m, c : Reg!Conflict(m, c) <=> Conflict(m, c)
  BY <1>4 DEF Reg!Conflict, Conflict
<1>6. \A t, rows : Reg!Overlay(t, rows) = Overlay(t, rows)
  BY DEF Reg!Overlay, Overlay
<1>7. \A m, c : Reg!Upsert(m, c) = Upsert(m, c)
  BY <1>4, <1>6 DEF Reg!Upsert, Upsert
<1> QED BY <1>2, <1>3, <1>5, <1>7

\* Every change of api.json is one whole registration applied to the manifest as
\* it stands, and every change of a generated file brings it up to date: the
\* workspace implements the registry.
THEOREM Refinement == Spec => ImplementsRegistry
<1>1. Init => Reg!Init
  BY SameOperators DEF Init, Reg!Init
<1>2. TransactionInv /\ [Next]_vars => [Reg!Next]_(Reg!vars)
  <2> SUFFICES ASSUME TransactionInv, [Next]_vars, ~UNCHANGED Reg!vars PROVE Reg!Next
    OBVIOUS
  <2>1. PICK p \in Proc :
          WriteApi(p) \/ WriteRoutes(p) \/ WritePages(p) \/ WritePagesTest(p)
    BY OnlyWritesWrite DEF Reg!vars
  <2>2. CASE WriteApi(p)
    <3>1. pc[p] = "write_api" /\ UNCHANGED <<routes_gen, pages_gen, pages_gen_test>>
            /\ api' \in {snap[p], api}
      BY <2>2 DEF WriteApi
    <3>2. api' = snap[p] /\ api' # api
      BY <3>1 DEF Reg!vars
    <3>3. cmd[p] # RegenCmd
      BY <3>1, <3>2 DEF TransactionInv, SnapshotCurrent
    <3>4. cmd[p] \in Registrations
      BY <3>1, <3>3 DEF TransactionInv, Typed, ProcessLocals, Updating
    <3>5. ~Conflict(api, cmd[p]) /\ api' = Upsert(api, cmd[p])
      BY <3>1, <3>2, <3>3 DEF TransactionInv, SnapshotCurrent
    <3> QED BY <3>1, <3>4, <3>5, SameOperators DEF Reg!Next, Reg!Register
  <2>3. CASE WriteRoutes(p)
    <3>1. pc[p] = "write_routes" /\ UNCHANGED <<api, pages_gen, pages_gen_test>>
            /\ routes_gen' \in {snap[p].endpoints, routes_gen}
      BY <2>3 DEF WriteRoutes
    <3>2. snap[p] = api
      BY <3>1 DEF TransactionInv, SnapshotCurrent
    <3> QED BY <3>1, <3>2 DEF Reg!vars, Reg!Next, Reg!Generate
  <2>4. CASE WritePages(p)
    <3>1. pc[p] = "write_pages" /\ UNCHANGED <<api, routes_gen, pages_gen_test>>
            /\ pages_gen' \in {snap[p].pages, pages_gen}
      BY <2>4 DEF WritePages
    <3>2. snap[p] = api
      BY <3>1 DEF TransactionInv, SnapshotCurrent
    <3> QED BY <3>1, <3>2 DEF Reg!vars, Reg!Next, Reg!Generate
  <2>5. CASE WritePagesTest(p)
    <3>1. pc[p] = "write_pages_test" /\ UNCHANGED <<api, routes_gen, pages_gen>>
            /\ pages_gen_test' \in {snap[p].pages, pages_gen_test}
      BY <2>5 DEF WritePagesTest
    <3>2. snap[p] = api
      BY <3>1 DEF TransactionInv, SnapshotCurrent
    <3> QED BY <3>1, <3>2 DEF Reg!vars, Reg!Next, Reg!Generate
  <2> QED BY <2>1, <2>2, <2>3, <2>4, <2>5
<1> QED BY <1>1, <1>2, Transaction, PTL DEF Spec, ImplementsRegistry, Reg!Spec

----------------------------------------------------------------------------
\* The way to the end.

\* Whoever waits for the lock waits for somebody who goes on.
LEMMA HoldersMove == Typed /\ LockHeld => SomebodyCanMove
<1> SUFFICES ASSUME Typed, LockHeld, NEW p \in Proc, AtWork(p) PROVE \E q \in Proc : CanMove(q)
  BY DEF SomebodyCanMove
<1> USE DEF AtWork, CanMove, Terminal, Exclusive, Updating, Shared
<1>1. CASE exclusive # Absent
  <2>1. exclusive \in Proc /\ pc[exclusive] \in Exclusive
    BY <1>1 DEF Typed, TypeOK, LockHeld
  <2> QED BY <2>1
<1>2. CASE shared # {}
  <2>1. PICK q \in Proc : q \in shared /\ pc[q] \in Shared
    BY <1>2 DEF Typed, TypeOK, LockHeld
  <2> QED BY <2>1
<1>3. CASE exclusive = Absent /\ shared = {}
  BY <1>3
<1> QED BY <1>1, <1>2, <1>3

\* There is no deadlock, although processes die and writes fail anywhere.
THEOREM NoDeadlock == Spec => []SomebodyCanMove
<1>1. TransactionInv => SomebodyCanMove
  BY HoldersMove DEF TransactionInv
<1> QED BY <1>1, Transaction, PTL

\* One process takes a step of those it has left.
OneStep(p) ==
    /\ StepsLeft(p)' < StepsLeft(p)
    /\ \A q \in Proc \ {p} : StepsLeft(q)' = StepsLeft(q)

LEMMA StepsFromPCs ==
    /\ StepsFrom \in [PCs -> Nat]
    /\ StepsFrom["new"] = 13 /\ StepsFrom["schema"] = 8 /\ StepsFrom["refs"] = 7
    /\ StepsFrom["render"] = 6 /\ StepsFrom["lock"] = 6 /\ StepsFrom["read"] = 5
    /\ StepsFrom["write_api"] = 4 /\ StepsFrom["lock_shared"] = 4
    /\ StepsFrom["write_routes"] = 3 /\ StepsFrom["scan"] = 3
    /\ StepsFrom["write_pages"] = 2 /\ StepsFrom["load"] = 2
    /\ StepsFrom["write_pages_test"] = 1 /\ StepsFrom["exec"] = 1 /\ StepsFrom["compare"] = 1
    /\ \A l \in Terminal : StepsFrom[l] = 0
    /\ \A l \in PCs \ Terminal : StepsFrom[l] > 0
BY DEF StepsFrom, PCs, Exclusive, Updating, Shared, Terminal

\* A command that ends has nothing left.
LEMMA ExitIsOneStep ==
    ASSUME Typed, NEW p \in Proc, NEW how \in Terminal, Exit(p, how), pc[p] \notin Terminal
    PROVE  OneStep(p)
<1>1. pc'[p] = how /\ todo'[p] = <<>>
        /\ \A q \in Proc \ {p} : pc'[q] = pc[q] /\ todo'[q] = todo[q]
  BY DEF Exit, Goto, Typed, TypeOK
<1>2. pc[p] \in PCs \ Terminal /\ Len(todo[p]) \in Nat
  BY DEF Typed, TypeOK
<1>3. StepsFrom[how] = 0 /\ StepsFrom[pc[p]] \in Nat /\ StepsFrom[pc[p]] > 0
  BY <1>2, StepsFromPCs
<1>4. StepsLeft(p)' = 0 /\ StepsLeft(p) > 0
  BY <1>1, <1>2, <1>3, EmptySeq DEF StepsLeft
<1> QED BY <1>1, <1>4 DEF OneStep, StepsLeft

\* Nor does one that moves on leave more, unless it has files to render.
LEMMA GotoIsOneStep ==
    ASSUME Typed, NEW p \in Proc, NEW l \in PCs, Goto(p, l), UNCHANGED todo,
           StepsFrom[l] < StepsFrom[pc[p]]
    PROVE  OneStep(p)
<1>1. pc'[p] = l /\ \A q \in Proc \ {p} : pc'[q] = pc[q]
  BY DEF Goto, Typed, TypeOK
<1>2. pc[p] \in PCs /\ Len(todo[p]) \in Nat
  BY DEF Typed, TypeOK
<1>3. StepsFrom[l] \in Nat /\ StepsFrom[pc[p]] \in Nat
  BY <1>2, StepsFromPCs
<1>4. StepsLeft(p)' < StepsLeft(p)
  BY <1>1, <1>2, <1>3 DEF StepsLeft
<1> QED BY <1>1, <1>4 DEF OneStep, StepsLeft

\* A command renders four files at most.
LEMMA StartIsOneStep ==
    ASSUME Typed, NEW p \in Proc, NEW c \in Commands, Start(p, c)
    PROVE  OneStep(p)
<1> DEFINE given == IF c \in Registrations THEN Renders(c) ELSE <<>>
<1>1. pc[p] = "new" /\ pc'[p] = FirstStep(c) /\ todo'[p] = given
        /\ \A q \in Proc \ {p} : pc'[q] = pc[q] /\ todo'[q] = todo[q]
  BY DEF Start, Goto, Typed, TypeOK
<1>2. Len(todo[p]) \in Nat
  BY DEF Typed, TypeOK
<1>3. Len(given) \in Nat /\ Len(given) <= 4
  <2>1. CASE c \in Registrations
    <3>1. c.kind \in {"resource", "model", "page", "handler"}
      BY <2>1 DEF Registrations, ResourceCmds, ModelCmds, PageCmds, HandlerCmds
    <3> QED BY <2>1, <3>1 DEF Renders
  <2>2. CASE c \notin Registrations
    BY <2>2
  <2> QED BY <2>1, <2>2
<1>4. StepsFrom["new"] = 13 /\ StepsFrom[FirstStep(c)] \in {8, 6, 4}
  <2>1. FirstStep(c) \in {"schema", "render", "lock", "lock_shared"}
    BY Constants, FirstSteps
  <2> QED BY <2>1, StepsFromPCs
<1> HIDE DEF given
<1>5. StepsLeft(p)' < StepsLeft(p)
  BY <1>1, <1>2, <1>3, <1>4 DEF StepsLeft
<1> QED BY <1>1, <1>5 DEF OneStep, StepsLeft

LEMMA RenderIsOneStep ==
    ASSUME Typed, NEW p \in Proc, Render(p)
    PROVE  OneStep(p)
<1>1. pc[p] = "render"
  BY DEF Render
<1>2. CASE Exit(p, "failed")
  BY <1>1, <1>2, ExitIsOneStep DEF Terminal
<1>3. CASE /\ todo' = [todo EXCEPT ![p] = Tail(@)]
           /\ Goto(p, IF Len(todo[p]) = 1 THEN "lock" ELSE "render")
  <2>1. todo[p] \in Seq(FileIds) /\ todo[p] # <<>>
    BY <1>1 DEF Typed, TypeOK, ProcessLocals
  <2>2. Len(Tail(todo[p])) = Len(todo[p]) - 1 /\ Len(todo[p]) \in Nat
    BY <2>1, HeadTailProperties
  <2>3. pc'[p] \in {"lock", "render"} /\ todo'[p] = Tail(todo[p])
          /\ \A q \in Proc \ {p} : pc'[q] = pc[q] /\ todo'[q] = todo[q]
    BY <1>3 DEF Goto, Typed, TypeOK
  <2>4. StepsFrom[pc'[p]] = 6 /\ StepsFrom[pc[p]] = 6
    BY <1>1, <2>3, StepsFromPCs
  <2>5. StepsLeft(p)' < StepsLeft(p)
    BY <2>2, <2>3, <2>4 DEF StepsLeft
  <2> QED BY <2>3, <2>5 DEF OneStep, StepsLeft
<1> QED BY <1>2, <1>3 DEF Render

\* Every step is a step of one command, which has fewer to take after it.
THEOREM CommandsEnd == Spec => CommandsRunOut
<1> USE DEF PCs, Exclusive, Updating, Shared, Terminal
<1>1. ASSUME Typed, Next, ~UNCHANGED vars PROVE \E p \in Proc : OneStep(p)
  <2>1. ASSUME NEW p \in Proc, NEW c \in Commands, Start(p, c) PROVE OneStep(p)
    BY <1>1, <2>1, StartIsOneStep
  <2>2. ASSUME NEW p \in Proc, CheckSchema(p) PROVE OneStep(p)
    BY <1>1, <2>2, ExitIsOneStep, GotoIsOneStep, StepsFromPCs DEF CheckSchema
  <2>3. ASSUME NEW p \in Proc, CheckRefs(p) PROVE OneStep(p)
    BY <1>1, <2>3, ExitIsOneStep, GotoIsOneStep, StepsFromPCs DEF CheckRefs, local
  <2>4. ASSUME NEW p \in Proc, Render(p) PROVE OneStep(p)
    BY <1>1, <2>4, RenderIsOneStep
  <2>5. ASSUME NEW p \in Proc, Lock(p) PROVE OneStep(p)
    BY <1>1, <2>5, GotoIsOneStep, StepsFromPCs DEF Lock, local
  <2>6. ASSUME NEW p \in Proc, LockShared(p) PROVE OneStep(p)
    BY <1>1, <2>6, GotoIsOneStep, StepsFromPCs DEF LockShared, local
  <2>7. ASSUME NEW p \in Proc, Read(p) PROVE OneStep(p)
    BY <1>1, <2>7, ExitIsOneStep, GotoIsOneStep, StepsFromPCs DEF Read
  <2>8. ASSUME NEW p \in Proc, WriteApi(p) PROVE OneStep(p)
    BY <1>1, <2>8, ExitIsOneStep, GotoIsOneStep, StepsFromPCs DEF WriteApi, local
  <2>9. ASSUME NEW p \in Proc, WriteRoutes(p) PROVE OneStep(p)
    BY <1>1, <2>9, ExitIsOneStep, GotoIsOneStep, StepsFromPCs DEF WriteRoutes, local
  <2>10. ASSUME NEW p \in Proc, WritePages(p) PROVE OneStep(p)
    BY <1>1, <2>10, ExitIsOneStep, GotoIsOneStep, StepsFromPCs DEF WritePages, local
  <2>11. ASSUME NEW p \in Proc, WritePagesTest(p) PROVE OneStep(p)
    BY <1>1, <2>11, ExitIsOneStep DEF WritePagesTest
  <2>12. ASSUME NEW p \in Proc, ExecSQL(p) PROVE OneStep(p)
    BY <1>1, <2>12, ExitIsOneStep DEF ExecSQL
  <2>13. ASSUME NEW p \in Proc, Scan(p) PROVE OneStep(p)
    BY <1>1, <2>13, GotoIsOneStep, StepsFromPCs DEF Scan
  <2>14. ASSUME NEW p \in Proc, Load(p) PROVE OneStep(p)
    BY <1>1, <2>14, GotoIsOneStep, StepsFromPCs DEF Load
  <2>15. ASSUME NEW p \in Proc, Compare(p) PROVE OneStep(p)
    BY <1>1, <2>15, ExitIsOneStep DEF Compare
  <2>16. ASSUME NEW p \in Proc, Kill(p) PROVE OneStep(p)
    BY <1>1, <2>16, ExitIsOneStep DEF Kill
  <2> QED
    BY <1>1, <2>1, <2>2, <2>3, <2>4, <2>5, <2>6, <2>7, <2>8, <2>9, <2>10, <2>11, <2>12,
       <2>13, <2>14, <2>15, <2>16
    DEF Next, Step, Register, Update, Inspect
<1>2. TransactionInv /\ [Next]_vars => [\E p \in Proc : OneStep(p)]_vars
  BY <1>1 DEF TransactionInv
<1> QED BY <1>2, Transaction, PTL DEF Spec, CommandsRunOut, OneStep
=============================================================================
