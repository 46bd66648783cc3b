------------------------ MODULE WorkspaceGuarantees ------------------------
(***************************************************************************)
(* What follows from the transaction of WorkspaceProofs: what the builder  *)
(* guarantees of its files, for any processes, names and commands, and     *)
(* whoever is killed or fails where.                                       *)
(***************************************************************************)
EXTENDS WorkspaceProofs

\* Which action writes what.
LEMMA Writers ==
    ASSUME [Next]_vars
    PROVE  /\ routes_gen' # routes_gen => \E p \in Proc : WriteRoutes(p)
           /\ pages_gen' # pages_gen => \E p \in Proc : WritePages(p)
           /\ pages_gen_test' # pages_gen_test => \E p \in Proc : WritePagesTest(p)
           /\ tables' # tables => \E p \in Proc : ExecSQL(p)
           /\ files' # files => \E p \in Proc : Render(p)
BY DEF Next, Start, Step, Register, CheckSchema, CheckRefs, Render, Lock, Update, Read,
       WriteApi, WriteRoutes, WritePages, WritePagesTest, ExecSQL, Inspect, LockShared,
       Scan, Load, Compare, Kill, vars, disk

\* An upsert that is no conflict takes nothing away: a route keeps its handler, a
\* page its file, and a model stays a model.
LEMMA UpsertKeeps ==
    ASSUME NEW m \in Manifests, NEW c \in Registrations, ~Conflict(m, c)
    PROVE  /\ \A r \in Routes : m.endpoints[r] # Absent =>
                 /\ Upsert(m, c).endpoints[r] # Absent
                 /\ Upsert(m, c).endpoints[r].handler = m.endpoints[r].handler
           /\ \A n \in Names : m.pages[n] # Absent =>
                 /\ Upsert(m, c).pages[n] # Absent
                 /\ Upsert(m, c).pages[n].file = m.pages[n].file
           /\ \A n \in Names : m.models[n] # Absent => Upsert(m, c).models[n] # Absent
<1>1. /\ Upsert(m, c).models = [n \in Names |->
                IF n \in DOMAIN ModelsOf(c) THEN ModelsOf(c)[n] ELSE m.models[n]]
      /\ Upsert(m, c).endpoints = [r \in Routes |->
                IF r \in DOMAIN EndpointsOf(c) THEN EndpointsOf(c)[r] ELSE m.endpoints[r]]
      /\ Upsert(m, c).pages = [n \in Names |->
                IF n \in DOMAIN PagesOf(c) THEN PagesOf(c)[n] ELSE m.pages[n]]
  BY DEF Upsert, Overlay, Manifests
<1>2. /\ \A n \in DOMAIN ModelsOf(c) : ModelsOf(c)[n] # Absent
      /\ \A r \in DOMAIN EndpointsOf(c) : EndpointsOf(c)[r] # Absent
      /\ \A n \in DOMAIN PagesOf(c) : PagesOf(c)[n] # Absent
  BY RowsOfCommands, Constants
<1> QED BY <1>1, <1>2 DEF Conflict

\* What WriteApi writes: the manifest as it stands, the command's rows upserted.
LEMMA ApiStep ==
    ASSUME TransactionInv, NEW p \in Proc, WriteApi(p), api' # api
    PROVE  /\ pc[p] = "write_api"
           /\ cmd[p] \in Registrations
           /\ ~Conflict(api, cmd[p])
           /\ api' = Upsert(api, cmd[p])
           /\ UNCHANGED <<tables, files, routes_gen, pages_gen, pages_gen_test>>
<1>1. /\ pc[p] = "write_api" /\ api' = snap[p]
      /\ UNCHANGED <<tables, files, routes_gen, pages_gen, pages_gen_test>>
  BY DEF WriteApi
<1>2. cmd[p] # RegenCmd
  BY <1>1 DEF TransactionInv, SnapshotCurrent
<1>3. cmd[p] \in Registrations
  BY <1>1, <1>2 DEF TransactionInv, Typed, ProcessLocals, Updating
<1> QED BY <1>1, <1>2, <1>3 DEF TransactionInv, SnapshotCurrent

----------------------------------------------------------------------------
\* Mounted is registered.

LEMMA InitMounted == Init => MountedAreRegistered
BY DEF Init, EmptyManifest, MountedAreRegistered

LEMMA NextMounted ==
    ASSUME TransactionInv, MountedAreRegistered, [Next]_vars
    PROVE  MountedAreRegistered'
<1>1. CASE UNCHANGED <<api, routes_gen, pages_gen>>
  BY <1>1 DEF MountedAreRegistered
<1>2. CASE api' # api
  <2>1. PICK p \in Proc : WriteApi(p)
    BY <1>2, OnlyWriteApiWrites
  <2>2. /\ cmd[p] \in Registrations /\ ~Conflict(api, cmd[p]) /\ api \in Manifests
        /\ api' = Upsert(api, cmd[p]) /\ UNCHANGED <<routes_gen, pages_gen>>
    BY <1>2, <2>1, ApiStep DEF TransactionInv, Typed, TypeOK
  <2> QED BY <2>2, UpsertKeeps DEF MountedAreRegistered
<1>3. CASE api' = api /\ routes_gen' # routes_gen
  <2>1. PICK p \in Proc : WriteRoutes(p)
    BY <1>3, Writers
  <2>2. routes_gen' = api.endpoints /\ UNCHANGED pages_gen
    BY <1>3, <2>1 DEF WriteRoutes, TransactionInv, SnapshotCurrent
  <2> QED BY <1>3, <2>2 DEF MountedAreRegistered
<1>4. CASE api' = api /\ pages_gen' # pages_gen
  <2>1. PICK p \in Proc : WritePages(p)
    BY <1>4, Writers
  <2>2. pages_gen' = api.pages /\ UNCHANGED routes_gen
    BY <1>4, <2>1 DEF WritePages, TransactionInv, SnapshotCurrent
  <2> QED BY <1>4, <2>2 DEF MountedAreRegistered
<1> QED BY <1>1, <1>2, <1>3, <1>4

\* The generated files never mount or serve what api.json does not list.
THEOREM MountedRegistered == Spec => []MountedAreRegistered
BY InitMounted, NextMounted, Transaction, PTL DEF Spec

\* What MountedForGood asks of one step.
StayMounted ==
    /\ \A r \in Routes : routes_gen[r] # Absent =>
          routes_gen'[r] # Absent /\ routes_gen'[r].handler = routes_gen[r].handler
    /\ \A n \in Names : pages_gen[n] # Absent =>
          pages_gen'[n] # Absent /\ pages_gen'[n].file = pages_gen[n].file

\* A mounted route stays mounted, and a served page served: a generated file only
\* becomes what api.json says, and that lists whatever is mounted.
THEOREM StaysMounted == Spec => MountedForGood
<1>1. ASSUME TransactionInv, MountedAreRegistered, [Next]_vars PROVE StayMounted
  <2>1. ASSUME routes_gen' # routes_gen PROVE routes_gen' = api.endpoints
    <3>1. PICK p \in Proc : WriteRoutes(p)
      BY <1>1, <2>1, Writers
    <3> QED BY <1>1, <2>1, <3>1 DEF WriteRoutes, TransactionInv, SnapshotCurrent
  <2>2. ASSUME pages_gen' # pages_gen PROVE pages_gen' = api.pages
    <3>1. PICK p \in Proc : WritePages(p)
      BY <1>1, <2>2, Writers
    <3> QED BY <1>1, <2>2, <3>1 DEF WritePages, TransactionInv, SnapshotCurrent
  <2> QED BY <1>1, <2>1, <2>2 DEF StayMounted, MountedAreRegistered
<1>2. TransactionInv /\ MountedAreRegistered /\ [Next]_vars => [StayMounted]_vars
  BY <1>1
<1> QED
  BY <1>2, Transaction, MountedRegistered, PTL DEF Spec, MountedForGood, StayMounted

----------------------------------------------------------------------------
\* Success means mounted.

\* What the action property asks of one step.
MountedStep ==
    \A p \in Proc :
       (pc[p] \in Updating /\ pc'[p] = "done") =>
          /\ routes_gen' = api'.endpoints
          /\ pages_gen' = api'.pages
          /\ pages_gen_test' = api'.pages
          /\ cmd[p].kind # "regen" =>
                /\ Holds(api'.models, ModelsOf(cmd[p]))
                /\ Holds(routes_gen', EndpointsOf(cmd[p]))
                /\ Holds(pages_gen', PagesOf(cmd[p]))

\* Only the last write of a transaction ends it in success.
LEMMA OnlyWritePagesTestSucceeds ==
    ASSUME Typed, [Next]_vars, NEW p \in Proc, pc[p] \in Updating, pc'[p] = "done"
    PROVE  WritePagesTest(p) /\ pages_gen_test' = snap[p].pages
<1> USE DEF Goto, Exit, Typed, TypeOK, Updating, Terminal
<1>1. PICK q \in Proc : Step(q) \/ Kill(q) \/ \E c \in Commands : Start(q, c)
  BY DEF Next, vars
<1>2. ~ Kill(q)
  BY DEF Kill
<1>3. ~ \E c \in Commands : Start(q, c)
  BY Constants, FirstSteps DEF Start
<1>4. ~ Register(q)
  BY DEF Register, CheckSchema, CheckRefs, Render, Lock
<1>5. ~ (ExecSQL(q) \/ Inspect(q))
  BY DEF ExecSQL, Inspect, LockShared, Scan, Load, Compare
<1>6. Update(q)
  BY <1>1, <1>2, <1>3, <1>4, <1>5 DEF Step
<1>7. ~ (Read(q) \/ WriteApi(q) \/ WriteRoutes(q) \/ WritePages(q))
  BY DEF Read, WriteApi, WriteRoutes, WritePages
<1>8. q = p
  BY <1>6, <1>7 DEF Update, WritePagesTest
<1> QED BY <1>6, <1>7, <1>8 DEF Update, WritePagesTest

\* A command that reports success has its rows in api.json and in every generated
\* file, and leaves the generated files equal to api.json.
THEOREM SuccessMounted == Spec => SuccessMeansMounted
<1>1. ASSUME TransactionInv, [Next]_vars PROVE MountedStep
  <2> SUFFICES ASSUME NEW p \in Proc, pc[p] \in Updating, pc'[p] = "done"
               PROVE  /\ routes_gen' = api'.endpoints
                      /\ pages_gen' = api'.pages
                      /\ pages_gen_test' = api'.pages
                      /\ cmd[p].kind # "regen" =>
                            /\ Holds(api'.models, ModelsOf(cmd[p]))
                            /\ Holds(routes_gen', EndpointsOf(cmd[p]))
                            /\ Holds(pages_gen', PagesOf(cmd[p]))
    BY DEF MountedStep
  <2>1. WritePagesTest(p) /\ pages_gen_test' = snap[p].pages
    BY <1>1, OnlyWritePagesTestSucceeds DEF TransactionInv
  <2>2. pc[p] = "write_pages_test" /\ UNCHANGED <<api, routes_gen, pages_gen>>
    BY <2>1 DEF WritePagesTest
  <2>3. /\ snap[p] = api /\ routes_gen = api.endpoints /\ pages_gen = api.pages
        /\ cmd[p] # RegenCmd => /\ Holds(api.models, ModelsOf(cmd[p]))
                                /\ Holds(api.endpoints, EndpointsOf(cmd[p]))
                                /\ Holds(api.pages, PagesOf(cmd[p]))
    BY <1>1, <2>2 DEF TransactionInv, SnapshotCurrent
  <2> QED BY <2>1, <2>2, <2>3 DEF RegenCmd
<1>2. TransactionInv /\ [Next]_vars => [MountedStep]_vars
  BY <1>1
<1> QED BY <1>2, Transaction, PTL DEF Spec, SuccessMeansMounted, MountedStep

----------------------------------------------------------------------------
\* What was checked before the lock still holds at the write, unless the table
\* has been changed in between.

\* Nothing takes a model out of api.json.
LEMMA NothingRemoved ==
    ASSUME TransactionInv, [Next]_vars, NEW n \in Names, api.models[n] # Absent
    PROVE  api'.models[n] # Absent
<1>1. CASE api' # api
  <2>1. PICK p \in Proc : WriteApi(p)
    BY <1>1, OnlyWriteApiWrites
  <2>2. cmd[p] \in Registrations /\ ~Conflict(api, cmd[p]) /\ api \in Manifests
          /\ api' = Upsert(api, cmd[p])
    BY <1>1, <2>1, ApiStep DEF TransactionInv, Typed, TypeOK
  <2> QED BY <2>2, UpsertKeeps
<1> QED BY <1>1

\* The fields say of each column whether it may be NULL.
Filled(c) == \A f \in c.fields : f.nullable = ~tables[c.name][f.name].notnull

Checked ==
    \A p \in Proc :
        /\ pc[p] \in AfterSchema /\ DeclaresModel(cmd[p]) /\ p \notin stale_checks =>
              SchemaFits(cmd[p]) /\ Filled(cmd[p])
        /\ pc[p] \in AfterRefs /\ DeclaresModel(cmd[p]) => RefsKnown(cmd[p])

\* The lists of fields commands carry are of fields.
LEMMA FieldsOfLists ==
    ASSUME NEW fields \in FieldLists, NEW f \in fields
    PROVE  f.name \in ColumnNames /\ f.ref \in Names \cup {Absent}
<1>1. PICK d \in Declarations, S \in SUBSET ColumnNames :
         fields = WithNullable(parseFields(d), S)
  BY DEF FieldLists
<1>2. PICK g \in parseFields(d) :
         f = [name |-> g.name, type |-> g.type, nullable |-> g.name \in S, ref |-> g.ref]
  BY <1>1 DEF WithNullable
<1>3. g \in Fields
  BY <1>2, DeclarationsAssumption
<1> QED BY <1>2, <1>3 DEF Fields

\* A declaration that fits a table fits it when it has been filled in.
LEMMA FilledFits ==
    ASSUME NEW c, NEW d, SchemaFits(c), c.fields \in FieldLists,
           d.name = c.name, d.owned = c.owned,
           d.fields = applySchema(tables[c.name], c.fields)
    PROVE  SchemaFits(d) /\ Filled(d)
<1> DEFINE table == tables[c.name]
           nullables == {n \in ColumnNames : table[n] # Absent /\ ~table[n].notnull}
<1>1. d.fields = WithNullable(c.fields, nullables)
  BY DEF applySchema
<1>2. \A f \in c.fields : FieldFits(table, f)
  BY DEF SchemaFits
<1> HIDE DEF table, nullables
<1>3. ASSUME NEW f \in d.fields
      PROVE  FieldFits(table, f) /\ f.nullable = ~table[f.name].notnull
  <2>1. PICK g \in c.fields :
           f = [name |-> g.name, type |-> g.type, nullable |-> g.name \in nullables, ref |-> g.ref]
    BY <1>1 DEF WithNullable
  <2>2. f.name = g.name /\ f.type = g.type /\ f.nullable = (g.name \in nullables)
    BY <2>1
  <2>3. FieldFits(table, g) /\ g.name \in ColumnNames
    BY <1>2, FieldsOfLists
  <2>4. FieldFits(table, f)
    BY <2>2, <2>3 DEF FieldFits
  <2>5. (g.name \in nullables) = ~table[g.name].notnull
    BY <2>3 DEF nullables, FieldFits, Accepts
  <2> QED BY <2>2, <2>4, <2>5
<1>4. d.fields # {}
  BY <1>1 DEF WithNullable, SchemaFits
<1> QED BY <1>3, <1>4 DEF SchemaFits, Filled, table

\* How a process that declares a model comes to stand where it does.
LEMMA ComesFrom ==
    ASSUME Typed, [Next]_vars, NEW p \in Proc,
           pc'[p] \in AfterSchema, DeclaresModel(cmd'[p])
    PROVE  \/ CheckSchema(p) /\ ~Exit(p, "failed") /\ pc'[p] = "refs"
           \/ /\ cmd'[p] = cmd[p] /\ pc[p] \in AfterSchema
              /\ pc'[p] \in AfterRefs =>
                    pc[p] \in AfterRefs \/ (CheckRefs(p) /\ ~Exit(p, "failed"))
<1> USE DEF AfterSchema, AfterRefs, Typed, TypeOK, Goto
<1>1. CASE UNCHANGED <<pc, cmd>>
  BY <1>1
<1>2. ASSUME NEW q \in Proc, NEW c \in Commands, Start(q, c)
      PROVE  q # p /\ UNCHANGED <<pc[p], cmd[p]>>
  <2>1. q # p
    BY <1>2, Constants, FirstSteps, KindsOfCommands DEF Start, DeclaresModel, FirstStep
  <2> QED BY <1>2, <2>1 DEF Start
<1>3. ASSUME NEW q \in Proc, NEW how \in Terminal, Exit(q, how)
      PROVE  q # p /\ UNCHANGED <<pc[p], cmd[p]>>
  BY <1>3 DEF Exit, Terminal
<1>4. ASSUME NEW q \in Proc, Kill(q) \/ ExecSQL(q) \/ Inspect(q)
      PROVE  UNCHANGED <<pc[p], cmd[p]>>
  BY <1>3, <1>4 DEF Kill, ExecSQL, Inspect, LockShared, Scan, Load, Compare, local, Terminal
<1>5. ASSUME NEW q \in Proc, Update(q)
      PROVE  /\ cmd'[p] = cmd[p] /\ (pc'[p] = pc[p] \/ pc[p] = "read")
  BY <1>3, <1>5 DEF Update, Read, WriteApi, WriteRoutes, WritePages, WritePagesTest,
                    local, Terminal
<1>6. ASSUME NEW q \in Proc, CheckSchema(q)
      PROVE  \/ UNCHANGED <<pc[p], cmd[p]>>
             \/ q = p /\ ~Exit(p, "failed") /\ pc'[p] = "refs"
  <2>1. CASE Exit(q, "failed")
    BY <1>3, <2>1 DEF Terminal
  <2>2. CASE ~Exit(q, "failed")
    BY <1>6, <2>2, SchemaChecked
  <2> QED BY <2>1, <2>2
<1>7. ASSUME NEW q \in Proc, CheckRefs(q) \/ Render(q) \/ Lock(q)
      PROVE  /\ cmd'[p] = cmd[p]
             /\ \/ pc'[p] = pc[p]
                \/ CheckRefs(p) /\ ~Exit(p, "failed") /\ pc[p] = "refs"
                \/ pc[p] \in {"render", "lock"}
  BY <1>3, <1>7 DEF CheckRefs, Render, Lock, local, Terminal
<1> QED BY <1>1, <1>2, <1>4, <1>5, <1>6, <1>7 DEF Next, Step, Register, vars

LEMMA InitChecked == Init => Checked
BY DEF Init, Checked, AfterSchema, AfterRefs

LEMMA NextChecked ==
    ASSUME TransactionInv, Checked, [Next]_vars, Watch
    PROVE  Checked'
<1>1. ASSUME NEW p \in Proc, pc'[p] \in AfterSchema, DeclaresModel(cmd'[p])
      PROVE  /\ p \notin stale_checks' => SchemaFits(cmd[p])' /\ Filled(cmd[p])'
             /\ pc'[p] \in AfterRefs => RefsKnown(cmd[p])'
  <2>1. CASE CheckSchema(p) /\ ~Exit(p, "failed") /\ pc'[p] = "refs"
    <3>1. /\ SchemaFits(cmd[p]) /\ cmd'[p].name = cmd[p].name /\ cmd'[p].owned = cmd[p].owned
          /\ cmd'[p].fields = applySchema(tables[cmd[p].name], cmd[p].fields)
          /\ cmd[p].fields \in FieldLists
      BY <2>1, SchemaChecked DEF TransactionInv
    <3>2. SchemaFits(cmd'[p]) /\ Filled(cmd'[p])
      BY <3>1, FilledFits
    <3>3. UNCHANGED tables
      BY <2>1 DEF CheckSchema
    <3> QED BY <2>1, <3>2, <3>3 DEF SchemaFits, Filled, AfterRefs
  <2>2. CASE /\ cmd'[p] = cmd[p] /\ pc[p] \in AfterSchema
             /\ pc'[p] \in AfterRefs =>
                   pc[p] \in AfterRefs \/ (CheckRefs(p) /\ ~Exit(p, "failed"))
    <3>1. cmd[p] \in ResourceCmds \cup ModelCmds
      <4>1. cmd[p] \in AllCommands
        BY <2>2 DEF TransactionInv, Typed, ProcessLocals, AfterSchema, AfterRefs
      <4> QED BY <1>1, <2>2, <4>1, KindsOfCommands DEF DeclaresModel
    <3>2. cmd[p].name \in Names /\ cmd[p].fields \in FieldLists
      BY <3>1 DEF ResourceCmds, ModelCmds
    <3>3. ASSUME p \notin stale_checks' PROVE SchemaFits(cmd[p])' /\ Filled(cmd[p])'
      <4>1. p \notin stale_checks /\ cmd[p].name \notin Changed
        BY <1>1, <2>2, <3>3 DEF Watch
      <4>2. SchemaFits(cmd[p]) /\ Filled(cmd[p])
        BY <1>1, <2>2, <4>1 DEF Checked
      <4>3. tables'[cmd[p].name] = tables[cmd[p].name]
        BY <3>2, <4>1, <4>2 DEF SchemaFits, Changed
      <4> QED BY <2>2, <4>2, <4>3 DEF SchemaFits, Filled
    <3>4. pc'[p] \in AfterRefs => RefsKnown(cmd[p])
      BY <1>1, <2>2 DEF Checked, CheckRefs
    <3>5. RefsKnown(cmd[p]) => RefsKnown(cmd[p])'
      BY <2>2, <3>2, FieldsOfLists, NothingRemoved DEF RefsKnown
    <3> QED BY <3>3, <3>4, <3>5
  <2> QED BY <1>1, <2>1, <2>2, ComesFrom DEF TransactionInv
<1> QED BY <1>1 DEF Checked, SchemaFits, Filled, RefsKnown, DeclaresModel, AfterSchema

\* The rows a command declares are its own name's.
LEMMA ModelRowsOf ==
    ASSUME NEW c \in Registrations, NEW n \in DOMAIN ModelsOf(c)
    PROVE  /\ DeclaresModel(c) /\ n = c.name
           /\ ModelsOf(c)[n].owned = c.owned /\ ModelsOf(c)[n].fields = c.fields
           /\ c.fields \in FieldLists
<1>1. DeclaresModel(c)
  BY DEF ModelsOf, DeclaresModel
<1>2. c \in ResourceCmds \cup ModelCmds
  BY <1>1 DEF DeclaresModel, Registrations, ResourceCmds, ModelCmds, PageCmds, HandlerCmds
<1>3. c.fields \in FieldLists
  BY <1>2 DEF ResourceCmds, ModelCmds
<1> QED BY <1>1, <1>3 DEF ModelsOf, DeclaresModel

\* A column that is accepted for a type of field suits it.
LEMMA AcceptedSuits ==
    ASSUME NEW table \in Tables, NEW column \in ColumnNames, NEW type \in knownFieldTypes,
           Accepts(table, column, type)
    PROVE  table[column] # Absent /\ Suits(table[column], type)
<1>1. table[column] # Absent /\ table[column].type \in DeclaredTypes
  BY DEF Accepts, Tables, Columns
<1> DEFINE t == table[column].type
<1>2. normalizeSQLType(t) \in acceptedSQLTypes(type) /\ t \in DeclaredTypes
  BY <1>1 DEF Accepts
<1> HIDE DEF t
<1>3. t \in Readable[type] \/ (type = "int" /\ t = "BOOLEAN")
  BY <1>2 DEF normalizeSQLType, acceptedSQLTypes, DeclaredTypes, knownFieldTypes, Readable
<1> QED BY <1>1, <1>3 DEF t, Suits

\* What the checks accept is grounded.
LEMMA FitsIsGrounded ==
    ASSUME NEW c, c.name \in Names, c.fields \in FieldLists, TypeOK, SchemaFits(c), Filled(c),
           NEW row, row.owned = c.owned, row.fields = c.fields
    PROVE  GroundedRow(tables[c.name], row)
<1> DEFINE table == tables[c.name]
<1>1. table # Absent /\ table \in Tables
  BY DEF SchemaFits, TypeOK
<1>2. /\ requireImplicitColumns(table)
      /\ c.owned => requireOwnerColumn(table)
      /\ \A f \in c.fields : FieldFits(table, f) /\ f.nullable = ~table[f.name].notnull
  BY DEF SchemaFits, Filled
<1> HIDE DEF table
<1>3. {"id", "created_at", "user_id"} \subseteq ColumnNames
  BY ColumnsAssumption DEF implicitColumns
<1>4. /\ table["id"] # Absent /\ Suits(table["id"], "int")
      /\ table["created_at"] # Absent /\ Suits(table["created_at"], "timestamp")
  <2>1. Accepts(table, "id", "int") /\ Accepts(table, "created_at", "timestamp")
    BY <1>2 DEF requireImplicitColumns
  <2> QED BY <1>1, <1>3, <2>1, AcceptedSuits DEF knownFieldTypes
<1>5. c.owned => /\ table["user_id"] # Absent /\ Suits(table["user_id"], "int")
                 /\ table["user_id"].notnull /\ table["user_id"].references = "users"
  BY <1>1, <1>2, <1>3, AcceptedSuits DEF requireOwnerColumn, OwnerColumn, knownFieldTypes
<1>6. ASSUME NEW f \in c.fields
      PROVE  /\ f.name \notin {"id", "created_at", "user_id"} \cup Credentials
             /\ table[f.name] # Absent /\ Suits(table[f.name], f.type)
             /\ f.nullable = ~table[f.name].notnull
  <2>1. /\ f.type \in knownFieldTypes /\ f.name \notin Credentials \cup implicitColumns
        /\ Accepts(table, f.name, f.type) /\ f.nullable = ~table[f.name].notnull
        /\ f.name \in ColumnNames
    BY <1>2, FieldsOfLists DEF FieldFits
  <2> QED BY <1>1, <2>1, AcceptedSuits DEF implicitColumns
<1> QED BY <1>1, <1>4, <1>5, <1>6 DEF GroundedRow, table

\* The process in whose step a row is written is the one whose WriteApi it is.
LEMMA LandingWrites ==
    ASSUME TransactionInv, [Next]_vars, NEW n \in Names, NEW p \in Landing(n)
    PROVE  /\ p \in Proc /\ pc[p] = "write_api" /\ cmd[p] \in Registrations
           /\ DeclaresModel(cmd[p]) /\ n = cmd[p].name
           /\ api' = Upsert(api, cmd[p]) /\ UNCHANGED tables
<1> USE DEF Typed, TypeOK, Goto, Terminal
<1>1. /\ p \in Proc /\ pc[p] = "write_api" /\ pc'[p] = "write_routes"
      /\ DeclaresModel(cmd[p]) /\ cmd[p].name = n
  BY DEF Landing
<1>2. PICK q \in Proc : Step(q) \/ Kill(q) \/ \E c \in Commands : Start(q, c)
  BY <1>1 DEF Next, vars
<1>3. ASSUME NEW how \in Terminal PROVE ~Exit(q, how)
  BY <1>1, <1>3 DEF Exit, TransactionInv
<1>4. ~ (Kill(q) \/ \E c \in Commands : Start(q, c))
  BY <1>1, <1>3, Constants, FirstSteps DEF Kill, Start, TransactionInv
<1>5. ~ (Register(q) \/ ExecSQL(q) \/ Inspect(q))
  BY <1>1, <1>3 DEF Register, CheckSchema, CheckRefs, Render, Lock, ExecSQL,
                    Inspect, LockShared, Scan, Load, Compare, TransactionInv
<1>6. ~ (Read(q) \/ WriteRoutes(q) \/ WritePages(q) \/ WritePagesTest(q))
  BY <1>1, <1>3 DEF Read, WriteRoutes, WritePages, WritePagesTest, TransactionInv
<1>7. WriteApi(q) /\ ~Exit(q, "failed")
  BY <1>2, <1>3, <1>4, <1>5, <1>6 DEF Step, Update
<1>8. pc' = [pc EXCEPT ![q] = "write_routes"] /\ api' = snap[q] /\ UNCHANGED tables
  BY <1>7 DEF WriteApi
<1>9. q = p
  BY <1>1, <1>8 DEF TransactionInv
<1>10. cmd[p] \in Registrations /\ cmd[p] # RegenCmd
  BY <1>1 DEF TransactionInv, ProcessLocals, Updating, RegenCmd, DeclaresModel
<1> QED BY <1>1, <1>8, <1>9, <1>10 DEF TransactionInv, SnapshotCurrent

\* The row of n changes only in a step that lands it.
LEMMA ChangesLand ==
    ASSUME TransactionInv, [Next]_vars, NEW n \in Names, api'.models[n] # api.models[n]
    PROVE  Landing(n) # {}
<1>1. PICK p \in Proc : WriteApi(p)
  BY OnlyWriteApiWrites
<1>2. /\ pc[p] = "write_api" /\ cmd[p] \in Registrations
      /\ api' = Upsert(api, cmd[p]) /\ api \in Manifests
  BY <1>1, ApiStep DEF TransactionInv, Typed, TypeOK
<1>3. n \in DOMAIN ModelsOf(cmd[p])
  BY <1>2 DEF Upsert, Overlay, Manifests
<1>4. DeclaresModel(cmd[p]) /\ cmd[p].name = n
  BY <1>2, <1>3, ModelRowsOf
<1>5. pc'[p] = "write_routes"
  BY <1>1 DEF WriteApi, Goto, TransactionInv, Typed, TypeOK
<1> QED BY <1>2, <1>4, <1>5 DEF Landing

LEMMA InitGrounded == Init => ManifestGrounded
BY DEF Init, EmptyManifest, ManifestGrounded

LEMMA NextGrounded ==
    ASSUME TransactionInv, Checked, ManifestGrounded, [Next]_vars, Watch
    PROVE  ManifestGrounded'
<1> SUFFICES ASSUME NEW n \in Names, api'.models[n] # Absent
             PROVE  /\ n \notin stale_rows' => GroundedRow(tables'[n], api'.models[n])
                    /\ \A f \in api'.models[n].fields :
                          f.ref # Absent => api'.models[f.ref] # Absent
  BY DEF ManifestGrounded, GroundedRow
<1>1. CASE Landing(n) = {}
  <2>1. api'.models[n] = api.models[n]
    BY <1>1, ChangesLand
  <2>2. api.models[n] \in ModelRows
    BY <2>1 DEF TransactionInv, Typed, TypeOK, Manifests
  <2>3. \A f \in api.models[n].fields :
           f.ref # Absent => f.ref \in Names /\ api.models[f.ref] # Absent
    BY <2>1, <2>2, FieldsOfLists DEF ModelRows, ManifestGrounded
  <2>4. ASSUME n \notin stale_rows' PROVE GroundedRow(tables'[n], api'.models[n])
    <3>1. n \notin stale_rows /\ n \notin Changed
      BY <1>1, <2>4 DEF Watch
    <3>2. GroundedRow(tables[n], api.models[n])
      BY <2>1, <3>1 DEF ManifestGrounded
    <3>3. tables'[n] = tables[n]
      BY <3>1, <3>2 DEF GroundedRow, Changed
    <3> QED BY <2>1, <3>2, <3>3
  <2> QED BY <2>1, <2>3, <2>4, NothingRemoved
<1>2. ASSUME NEW p \in Landing(n)
      PROVE  /\ p \notin stale_checks => GroundedRow(tables'[n], api'.models[n])
             /\ \A f \in api'.models[n].fields :
                   f.ref # Absent => api'.models[f.ref] # Absent
  <2>1. /\ p \in Proc /\ pc[p] = "write_api" /\ cmd[p] \in Registrations
        /\ DeclaresModel(cmd[p]) /\ n = cmd[p].name
        /\ api' = Upsert(api, cmd[p]) /\ UNCHANGED tables
    BY <1>2, LandingWrites
  <2>2. n \in DOMAIN ModelsOf(cmd[p])
    BY <2>1 DEF ModelsOf, DeclaresModel
  <2>3. api'.models[n] = ModelsOf(cmd[p])[n]
    BY <2>1, <2>2 DEF Upsert, Overlay, TransactionInv, Typed, TypeOK, Manifests
  <2>4. /\ api'.models[n].owned = cmd[p].owned /\ api'.models[n].fields = cmd[p].fields
        /\ cmd[p].fields \in FieldLists
    BY <2>1, <2>2, <2>3, ModelRowsOf
  <2>5. RefsKnown(cmd[p])
    BY <2>1 DEF Checked, AfterRefs
  <2>6. \A f \in cmd[p].fields : f.ref # Absent => api.models[f.ref] # Absent /\ f.ref \in Names
    BY <2>4, <2>5, FieldsOfLists DEF RefsKnown
  <2>7. ASSUME p \notin stale_checks PROVE GroundedRow(tables[n], api'.models[n])
    <3>1. SchemaFits(cmd[p]) /\ Filled(cmd[p])
      BY <2>1, <2>7 DEF Checked, AfterSchema, AfterRefs
    <3> QED BY <2>1, <2>4, <3>1, FitsIsGrounded DEF TransactionInv, Typed
  <2> QED BY <2>1, <2>4, <2>6, <2>7, NothingRemoved
<1>3. CASE Landing(n) # {}
  <2>1. n \notin stale_rows' => \E p \in Landing(n) : p \notin stale_checks
    BY <1>3 DEF Watch
  <2> QED BY <1>2, <1>3, <2>1
<1> QED BY <1>1, <1>3

\* Every registered model has a table that it was made for, unless that table has
\* been changed since it was looked at, and references registered models only,
\* although both are checked before the lock is taken.
THEOREM Grounded == SpecHistory => []ManifestGrounded
<1>1. InitHistory => Init /\ Checked /\ ManifestGrounded
  BY InitChecked, InitGrounded DEF InitHistory
<1>2. [NextHistory]_historyVars => [Next]_vars
  BY DEF NextHistory, historyVars
<1>3. SpecHistory => Spec
  BY <1>1, <1>2, PTL DEF SpecHistory, Spec
<1>4. TransactionInv /\ Checked /\ ManifestGrounded /\ [NextHistory]_historyVars
        => Checked' /\ ManifestGrounded'
  <2> SUFFICES ASSUME TransactionInv, Checked, ManifestGrounded, [NextHistory]_historyVars
               PROVE  Checked' /\ ManifestGrounded'
    OBVIOUS
  <2>1. CASE NextHistory
    BY <2>1, NextChecked, NextGrounded DEF NextHistory
  <2>2. CASE UNCHANGED historyVars
    BY <2>2 DEF historyVars, vars, Checked, ManifestGrounded, SchemaFits, Filled, RefsKnown
  <2> QED BY <2>1, <2>2
<1> QED BY <1>1, <1>3, <1>4, Transaction, PTL DEF SpecHistory

----------------------------------------------------------------------------
\* Rendering comes before registering.

WantedBy(c) == {Renders(c)[i] : i \in 1..Len(Renders(c))}
Pending(p)  == {todo[p][i] : i \in 1..Len(todo[p])}

Before == {"schema", "refs", "render"}
After  == {"lock", "read", "write_api"}

\* What a registration renders is on disk or still to come, and on disk by the
\* time it waits for the lock.
Rendered ==
    \A p \in Proc : cmd[p] \in Registrations =>
        /\ pc[p] \in Before => WantedBy(cmd[p]) \subseteq OnDisk \cup Pending(p)
        /\ pc[p] \in After => WantedBy(cmd[p]) \subseteq OnDisk

ApiHasFiles ==
    ModelFiles(api) \cup PageFiles(api) \cup HandlerFiles(api) \subseteq OnDisk

\* The files the rows of a registration rely on are among those it renders.
LEMMA RowsAreRendered ==
    ASSUME NEW c \in Registrations
    PROVE  /\ \A n \in DOMAIN ModelsOf(c) : File("model", n) \in WantedBy(c)
           /\ \A r \in DOMAIN EndpointsOf(c) :
                 HandlerFile(EndpointsOf(c)[r].handler) \in WantedBy(c)
           /\ \A n \in DOMAIN PagesOf(c) : File("page", PagesOf(c)[n].file) \in WantedBy(c)
<1>1. CASE c \in ResourceCmds
  <2>1. c.kind = "resource"
    BY <1>1 DEF ResourceCmds
  <2>2. Renders(c) = <<File("model", c.name), File("handlers", c.name),
                       File("page", c.name), File("js", c.name)>>
    BY <2>1 DEF Renders
  <2>3. /\ File("model", c.name) \in WantedBy(c)
        /\ File("handlers", c.name) \in WantedBy(c)
        /\ File("page", c.name) \in WantedBy(c)
    BY <2>2 DEF WantedBy
  <2> QED BY <2>1, <2>3 DEF ModelsOf, EndpointsOf, PagesOf, HandlerFile
<1>2. CASE c \in ModelCmds
  <2>1. c.kind = "model"
    BY <1>2 DEF ModelCmds
  <2>2. Renders(c) = <<File("model", c.name)>>
    BY <2>1 DEF Renders
  <2> QED BY <2>1, <2>2 DEF WantedBy, ModelsOf, EndpointsOf, PagesOf
<1>3. CASE c \in PageCmds
  <2>1. c.kind = "page"
    BY <1>3 DEF PageCmds
  <2>2. Renders(c) = <<File("page", c.name), File("js", c.name)>>
    BY <2>1 DEF Renders
  <2> QED BY <2>1, <2>2 DEF WantedBy, ModelsOf, EndpointsOf, PagesOf
<1>4. CASE c \in HandlerCmds
  <2>1. c.kind = "handler"
    BY <1>4 DEF HandlerCmds
  <2>2. Renders(c) = <<File("handler", c.name)>>
    BY <2>1 DEF Renders
  <2> QED BY <2>1, <2>2 DEF WantedBy, ModelsOf, EndpointsOf, PagesOf, HandlerFile
<1> QED BY <1>1, <1>2, <1>3, <1>4 DEF Registrations

\* No scaffolded file is ever removed.
LEMMA FilesStay ==
    ASSUME TransactionInv, [Next]_vars
    PROVE  OnDisk \subseteq OnDisk'
<1>1. CASE files' # files
  <2>1. PICK p \in Proc : Render(p)
    BY <1>1, Writers
  <2>2. cmd[p] # Absent
    BY <2>1, Constants DEF Render, TransactionInv, Typed, ProcessLocals
  <2> QED BY <1>1, <2>1, <2>2 DEF Render, OnDisk, TransactionInv, Typed, TypeOK
<1> QED BY <1>1 DEF OnDisk

\* How a process comes to stand before the write of api.json.
LEMMA StandsBefore ==
    ASSUME Typed, [Next]_vars, NEW p \in Proc, pc'[p] \in Before \cup After
    PROVE  \/ \E c \in Commands : Start(p, c)
           \/ Render(p)
           \/ /\ UNCHANGED <<WantedBy(cmd[p]), todo[p]>>
              /\ cmd'[p] \in Registrations => cmd[p] \in Registrations
              /\ pc[p] \in Before /\ pc'[p] \in Before
           \/ UNCHANGED cmd[p] /\ pc[p] \in After /\ pc'[p] \in After
<1> USE DEF Before, After, Typed, TypeOK, Goto
<1>1. CASE UNCHANGED <<pc, cmd, todo>>
  BY <1>1
<1>2. ASSUME NEW q \in Proc, NEW c \in Commands, Start(q, c), q # p
      PROVE  UNCHANGED <<pc[p], cmd[p], todo[p]>>
  BY <1>2 DEF Start
<1>3. ASSUME NEW q \in Proc, NEW how \in Terminal, Exit(q, how)
      PROVE  q # p /\ UNCHANGED <<pc[p], cmd[p], todo[p]>>
  BY <1>3 DEF Exit, Terminal
<1>4. ASSUME NEW q \in Proc, Kill(q) \/ ExecSQL(q) \/ Inspect(q)
      PROVE  UNCHANGED <<pc[p], cmd[p], todo[p]>>
  BY <1>3, <1>4 DEF Kill, ExecSQL, Inspect, LockShared, Scan, Load, Compare, local, Terminal
<1>5. ASSUME NEW q \in Proc, Update(q)
      PROVE  \/ UNCHANGED <<pc[p], cmd[p], todo[p]>>
             \/ UNCHANGED cmd[p] /\ pc[p] \in After /\ pc'[p] \notin Before
  BY <1>3, <1>5 DEF Update, Read, WriteApi, WriteRoutes, WritePages, WritePagesTest,
                    local, Terminal
<1>6. ASSUME NEW q \in Proc, CheckRefs(q) \/ Lock(q)
      PROVE  \/ UNCHANGED <<pc[p], cmd[p], todo[p]>>
             \/ UNCHANGED <<cmd[p], todo[p]>> /\ pc[p] \in Before /\ pc'[p] \in Before
             \/ UNCHANGED cmd[p] /\ pc[p] \in After /\ pc'[p] \notin Before
  BY <1>3, <1>6 DEF CheckRefs, Lock, local, Terminal
<1>8. ASSUME NEW q \in Proc, CheckSchema(q)
      PROVE  \/ UNCHANGED <<pc[p], cmd[p], todo[p]>>
             \/ /\ UNCHANGED <<WantedBy(cmd[p]), todo[p]>> /\ cmd[p] \in Registrations
                /\ pc[p] \in Before /\ pc'[p] \in Before
  <2>1. CASE Exit(q, "failed")
    BY <1>3, <2>1 DEF Terminal
  <2>2. CASE ~Exit(q, "failed")
    <3>1. /\ Goto(q, "refs") /\ UNCHANGED todo /\ pc[q] = "schema"
          /\ cmd' = [cmd EXCEPT ![q] = cmd'[q]] /\ cmd[q] \in Registrations
          /\ Renders(cmd'[q]) = Renders(cmd[q])
      BY <1>8, <2>2, SchemaChecked DEF CheckSchema
    <3>2. CASE q = p
      BY <3>1, <3>2 DEF WantedBy
    <3>3. CASE q # p
      BY <3>1, <3>3
    <3> QED BY <3>2, <3>3
  <2> QED BY <2>1, <2>2
<1>7. ASSUME NEW q \in Proc, Render(q), q # p
      PROVE  UNCHANGED <<pc[p], cmd[p], todo[p]>>
  BY <1>3, <1>7 DEF Render, Terminal
<1> QED
  BY <1>1, <1>2, <1>4, <1>5, <1>6, <1>7, <1>8 DEF Next, Step, Register, vars

\* Starting: everything is still to come.
LEMMA StartRendered ==
    ASSUME TransactionInv, NEW p \in Proc, NEW c \in Commands, Start(p, c),
           cmd'[p] \in Registrations
    PROVE  /\ pc'[p] \notin After
           /\ WantedBy(cmd'[p]) \subseteq Pending(p)'
<1>1. cmd'[p] = c /\ pc'[p] = FirstStep(c) /\ todo'[p] = Renders(c)
  BY DEF Start, Goto, TransactionInv, Typed, TypeOK
<1>2. c \in AllCommands /\ c.kind \notin {"sql", "regen"}
  BY <1>1, Constants, KindsOfCommands DEF Registrations, ResourceCmds, ModelCmds, PageCmds,
     HandlerCmds
<1>3. FirstStep(c) \notin After
  BY <1>2, FirstSteps, KindsOfCommands DEF After
<1> QED BY <1>1, <1>3 DEF WantedBy, Pending

\* The next file: it is on disk and no longer to come; after the last nothing is.
LEMMA RenderRendered ==
    ASSUME TransactionInv, Rendered, NEW p \in Proc, Render(p), OnDisk \subseteq OnDisk'
    PROVE  /\ cmd'[p] = cmd[p]
           /\ pc'[p] \in Before => WantedBy(cmd[p]) \subseteq OnDisk' \cup Pending(p)'
           /\ pc'[p] \in After => WantedBy(cmd[p]) \subseteq OnDisk'
<1>1. /\ pc[p] = "render" /\ cmd[p] \in Registrations
      /\ todo[p] \in Seq(FileIds) /\ todo[p] # <<>>
  BY DEF Render, TransactionInv, Typed, TypeOK, ProcessLocals
<1>2. WantedBy(cmd[p]) \subseteq OnDisk \cup Pending(p)
  BY <1>1 DEF Rendered, Before
<1>3. CASE Exit(p, "failed")
  BY <1>3 DEF Exit, Goto, Before, After, TransactionInv, Typed, TypeOK
<1>4. CASE /\ files' = [files EXCEPT ![Head(todo[p])] = cmd[p]]
           /\ todo' = [todo EXCEPT ![p] = Tail(@)]
           /\ Goto(p, IF Len(todo[p]) = 1 THEN "lock" ELSE "render")
           /\ UNCHANGED cmd
  <2>1. Head(todo[p]) \in FileIds /\ Head(todo[p]) = todo[p][1] /\ cmd[p] # Absent
    BY <1>1, Constants
  <2>2. Head(todo[p]) \in OnDisk'
    BY <1>4, <2>1 DEF OnDisk, TransactionInv, Typed, TypeOK
  <2>3. /\ todo'[p] = Tail(todo[p])
        /\ pc'[p] = IF Len(todo[p]) = 1 THEN "lock" ELSE "render"
    BY <1>4 DEF Goto, TransactionInv, Typed, TypeOK
  <2>4. ASSUME NEW i \in 1..Len(todo[p]), i # 1 PROVE todo[p][i] \in Pending(p)'
    <3>1. i - 1 \in 1..Len(Tail(todo[p])) /\ Tail(todo[p])[i - 1] = todo[p][i]
      BY <1>1, <2>4
    <3> QED BY <2>3, <3>1 DEF Pending
  <2>5. Pending(p) \subseteq OnDisk' \cup Pending(p)'
    BY <2>1, <2>2, <2>4 DEF Pending
  <2>6. Len(todo[p]) = 1 => Pending(p) \subseteq OnDisk'
    BY <2>1, <2>2 DEF Pending
  <2> QED BY <1>2, <1>4, <2>3, <2>5, <2>6 DEF Before, After
<1> QED BY <1>3, <1>4 DEF Render, Exit

LEMMA NextRendered ==
    ASSUME TransactionInv, Rendered, [Next]_vars
    PROVE  Rendered'
<1>1. OnDisk \subseteq OnDisk'
  BY FilesStay
<1>2. ASSUME NEW p \in Proc, cmd'[p] \in Registrations
      PROVE  /\ pc'[p] \in Before => WantedBy(cmd'[p]) \subseteq OnDisk' \cup Pending(p)'
             /\ pc'[p] \in After => WantedBy(cmd'[p]) \subseteq OnDisk'
  <2>1. CASE \E c \in Commands : Start(p, c)
    BY <1>2, <2>1, StartRendered
  <2>2. CASE Render(p)
    BY <1>1, <2>2, RenderRendered
  <2>3. CASE /\ UNCHANGED <<WantedBy(cmd[p]), todo[p]>>
             /\ cmd'[p] \in Registrations => cmd[p] \in Registrations
             /\ pc[p] \in Before /\ pc'[p] \in Before
    BY <1>1, <1>2, <2>3 DEF Rendered, Pending, Before, After
  <2>4. CASE UNCHANGED cmd[p] /\ pc[p] \in After /\ pc'[p] \in After
    BY <1>1, <1>2, <2>4 DEF Rendered, Before, After
  <2>5. CASE pc'[p] \notin Before \cup After
    BY <2>5
  <2> QED
    BY <2>1, <2>2, <2>3, <2>4, <2>5, StandsBefore DEF TransactionInv, Before, After
<1> QED BY <1>2 DEF Rendered

LEMMA InitFiles == Init => Rendered /\ ApiHasFiles
<1> SUFFICES ASSUME Init PROVE Rendered /\ ApiHasFiles
  OBVIOUS
<1>1. Rendered
  BY Constants DEF Init, Rendered
<1>2. ModelFiles(api) = {} /\ PageFiles(api) = {} /\ HandlerFiles(api) = {}
  BY DEF Init, EmptyManifest, ModelFiles, PageFiles, HandlerFiles
<1> QED BY <1>1, <1>2 DEF ApiHasFiles

\* An upsert relies on the files of before and on those the command renders.
LEMMA UpsertRelies ==
    ASSUME NEW m \in Manifests, NEW c \in Registrations
    PROVE  ModelFiles(Upsert(m, c)) \cup PageFiles(Upsert(m, c)) \cup HandlerFiles(Upsert(m, c))
             \subseteq ModelFiles(m) \cup PageFiles(m) \cup HandlerFiles(m) \cup WantedBy(c)
<1>1. /\ Upsert(m, c).models = [n \in Names |->
                IF n \in DOMAIN ModelsOf(c) THEN ModelsOf(c)[n] ELSE m.models[n]]
      /\ Upsert(m, c).endpoints = [r \in Routes |->
                IF r \in DOMAIN EndpointsOf(c) THEN EndpointsOf(c)[r] ELSE m.endpoints[r]]
      /\ Upsert(m, c).pages = [n \in Names |->
                IF n \in DOMAIN PagesOf(c) THEN PagesOf(c)[n] ELSE m.pages[n]]
  BY DEF Upsert, Overlay, Manifests
<1>2. ModelFiles(Upsert(m, c)) \subseteq ModelFiles(m) \cup WantedBy(c)
  BY <1>1, RowsAreRendered DEF ModelFiles
<1>3. PageFiles(Upsert(m, c)) \subseteq PageFiles(m) \cup WantedBy(c)
  <2> SUFFICES ASSUME NEW n \in Names, Upsert(m, c).pages[n] # Absent
               PROVE  File("page", Upsert(m, c).pages[n].file) \in PageFiles(m) \cup WantedBy(c)
    BY DEF PageFiles
  <2>1. CASE n \in DOMAIN PagesOf(c)
    <3>1. Upsert(m, c).pages[n] = PagesOf(c)[n]
      BY <1>1, <2>1
    <3> QED BY <2>1, <3>1, RowsAreRendered
  <2>2. CASE n \notin DOMAIN PagesOf(c)
    <3>1. Upsert(m, c).pages[n] = m.pages[n]
      BY <1>1, <2>2
    <3> QED BY <3>1 DEF PageFiles
  <2> QED BY <2>1, <2>2
<1>4. HandlerFiles(Upsert(m, c)) \subseteq HandlerFiles(m) \cup WantedBy(c)
  BY <1>1, RowsAreRendered DEF HandlerFiles
<1> QED BY <1>2, <1>3, <1>4

LEMMA NextFiles ==
    ASSUME TransactionInv, Rendered, ApiHasFiles, [Next]_vars
    PROVE  ApiHasFiles'
<1>1. OnDisk \subseteq OnDisk'
  BY FilesStay
<1>2. CASE api' = api
  BY <1>1, <1>2 DEF ApiHasFiles, ModelFiles, PageFiles, HandlerFiles
<1>3. CASE api' # api
  <2>1. PICK p \in Proc : WriteApi(p)
    BY <1>3, OnlyWriteApiWrites
  <2>2. /\ pc[p] = "write_api" /\ cmd[p] \in Registrations /\ api \in Manifests
        /\ api' = Upsert(api, cmd[p])
    BY <1>3, <2>1, ApiStep DEF TransactionInv, Typed, TypeOK
  <2>3. WantedBy(cmd[p]) \subseteq OnDisk
    BY <2>2 DEF Rendered, After
  <2>4. ModelFiles(api') \cup PageFiles(api') \cup HandlerFiles(api')
          \subseteq ModelFiles(api) \cup PageFiles(api) \cup HandlerFiles(api)
                      \cup WantedBy(cmd[p])
    BY <2>2, UpsertRelies
  <2>5. ModelFiles(api') \cup PageFiles(api') \cup HandlerFiles(api') \subseteq OnDisk'
    BY <1>1, <2>3, <2>4 DEF ApiHasFiles
  <2> QED BY <2>5 DEF ApiHasFiles, ModelFiles, PageFiles, HandlerFiles
<1> QED BY <1>2, <1>3

\* What api.json registers and the generated files mount or serve is on disk.
THEOREM FilesBehindRegistrations == Spec => []RegisteredHaveFiles
<1>1. TransactionInv /\ Rendered /\ ApiHasFiles /\ [Next]_vars => Rendered' /\ ApiHasFiles'
  BY NextRendered, NextFiles
<1>2. ASSUME ApiHasFiles, MountedAreRegistered PROVE RegisteredHaveFiles
  <2>1. ASSUME NEW r \in Routes, routes_gen[r] # Absent
        PROVE  HandlerFile(routes_gen[r].handler) \in OnDisk
    <3>1. api.endpoints[r] # Absent /\ api.endpoints[r].handler = routes_gen[r].handler
      BY <1>2, <2>1 DEF MountedAreRegistered
    <3>2. HandlerFile(api.endpoints[r].handler) \in HandlerFiles(api)
      BY <3>1 DEF HandlerFiles
    <3> QED BY <1>2, <3>1, <3>2 DEF ApiHasFiles
  <2>2. ASSUME NEW n \in Names, pages_gen[n] # Absent
        PROVE  File("page", pages_gen[n].file) \in OnDisk
    <3>1. api.pages[n] # Absent /\ api.pages[n].file = pages_gen[n].file
      BY <1>2, <2>2 DEF MountedAreRegistered
    <3>2. File("page", api.pages[n].file) \in PageFiles(api)
      BY <3>1 DEF PageFiles
    <3> QED BY <1>2, <3>1, <3>2 DEF ApiHasFiles
  <2> QED BY <1>2, <2>1, <2>2 DEF ApiHasFiles, RegisteredHaveFiles
<1> QED BY <1>1, <1>2, InitFiles, Transaction, MountedRegistered, PTL DEF Spec

----------------------------------------------------------------------------
\* A healthy workspace raises no alarm.

Half == {"write_routes", "write_pages", "write_pages_test"}

InSync == /\ routes_gen = api.endpoints
          /\ pages_gen = api.pages
          /\ pages_gen_test = api.pages

\* The generated files lag behind api.json only while their writer is at work.
SyncedOrAtWork == (\E p \in Proc : pc[p] \in Half) \/ InSync

\* What an inspection has read is still true when it compares.
InspectCurrent ==
    \A p \in Proc :
        /\ pc[p] \in {"load", "compare"} => ModelFiles(api) \cup PageFiles(api) \subseteq seen[p]
        /\ pc[p] = "compare" => snap[p] = api

LEMMA InitHealthy == Init => SyncedOrAtWork /\ InspectCurrent /\ NoFalseAlarm
BY DEF Init, EmptyManifest, SyncedOrAtWork, InSync, InspectCurrent, NoFalseAlarm

\* A process at work stays at work until it acts itself.
LEMMA StaysAtWork ==
    ASSUME Typed, [Next]_vars, ~ Kills, NEW p \in Proc, pc[p] \in Half,
           ~ WriteRoutes(p), ~ WritePages(p), ~ WritePagesTest(p)
    PROVE  pc'[p] = pc[p]
<1> USE DEF Half, Typed, TypeOK, Goto
<1>1. ASSUME NEW q \in Proc, NEW c \in Commands, Start(q, c) PROVE pc'[p] = pc[p]
  BY <1>1 DEF Start
<1>2. ASSUME NEW q \in Proc, Register(q) PROVE pc'[p] = pc[p]
  BY <1>2 DEF Register, CheckSchema, CheckRefs, Render, Lock, Exit
<1>3. ASSUME NEW q \in Proc, ExecSQL(q) \/ Inspect(q) PROVE pc'[p] = pc[p]
  BY <1>3 DEF ExecSQL, Inspect, LockShared, Scan, Load, Compare, Exit
<1>4. ASSUME NEW q \in Proc, Update(q) PROVE pc'[p] = pc[p]
  BY <1>4 DEF Update, Read, WriteApi, WriteRoutes, WritePages, WritePagesTest, Exit
<1> QED BY <1>1, <1>2, <1>3, <1>4 DEF Next, Step, Kill, vars

LEMMA NextSynced ==
    ASSUME TransactionInv, SyncedOrAtWork, [Next]_vars, ~ Kills, ~ WritesFail
    PROVE  SyncedOrAtWork'
<1> USE DEF WriteOutcomes
<1>1. CASE \E p \in Proc : WriteApi(p) \/ WriteRoutes(p) \/ WritePages(p)
  <2>1. PICK p \in Proc : pc'[p] \in Half
    BY <1>1 DEF WriteApi, WriteRoutes, WritePages, Goto, Half, TransactionInv, Typed, TypeOK
  <2> QED BY <2>1 DEF SyncedOrAtWork
<1>2. CASE \E p \in Proc : WritePagesTest(p)
  BY <1>2 DEF WritePagesTest, TransactionInv, SnapshotCurrent, SyncedOrAtWork, InSync
<1>3. CASE ~ \E p \in Proc :
             WriteApi(p) \/ WriteRoutes(p) \/ WritePages(p) \/ WritePagesTest(p)
  <2>1. UNCHANGED <<api, routes_gen, pages_gen, pages_gen_test>>
    BY <1>3, OnlyWriteApiWrites, Writers
  <2>2. ASSUME NEW p \in Proc, pc[p] \in Half PROVE pc'[p] \in Half
    BY <1>3, <2>2, StaysAtWork DEF TransactionInv
  <2> QED BY <2>1, <2>2 DEF SyncedOrAtWork, InSync
<1> QED BY <1>1, <1>2, <1>3

\* How an inspection comes to stand where it does.
LEMMA InspectsFrom ==
    ASSUME Typed, [Next]_vars, NEW p \in Proc, pc'[p] \in {"load", "compare"}
    PROVE  \/ UNCHANGED <<pc[p], seen[p], snap[p]>>
           \/ Scan(p)
           \/ Load(p)
<1> USE DEF Typed, TypeOK, Goto
<1>1. ASSUME NEW q \in Proc, NEW how \in Terminal, Exit(q, how)
      PROVE  UNCHANGED <<pc[p], seen[p], snap[p]>>
  BY <1>1 DEF Exit, Terminal
<1>2. ASSUME NEW q \in Proc, NEW c \in Commands, Start(q, c)
      PROVE  UNCHANGED <<pc[p], seen[p], snap[p]>>
  BY <1>2, Constants, FirstSteps DEF Start
<1>3. ASSUME NEW q \in Proc, Register(q) \/ ExecSQL(q) \/ Kill(q)
      PROVE  UNCHANGED <<pc[p], seen[p], snap[p]>>
  BY <1>1, <1>3 DEF Register, CheckSchema, CheckRefs, Render, Lock, ExecSQL, Kill, local,
                    Terminal
<1>4. ASSUME NEW q \in Proc, Update(q)
      PROVE  UNCHANGED <<pc[p], seen[p], snap[p]>>
  BY <1>1, <1>4 DEF Update, Read, WriteApi, WriteRoutes, WritePages, WritePagesTest, local,
                    Terminal
<1>5. ASSUME NEW q \in Proc, Inspect(q), ~ Scan(p), ~ Load(p)
      PROVE  UNCHANGED <<pc[p], seen[p], snap[p]>>
  BY <1>1, <1>5 DEF Inspect, LockShared, Scan, Load, Compare, local, Terminal
<1> QED BY <1>2, <1>3, <1>4, <1>5 DEF Next, Step, vars

LEMMA NextInspect ==
    ASSUME TransactionInv, ApiHasFiles, InspectCurrent, [Next]_vars
    PROVE  InspectCurrent'
<1>1. ASSUME NEW p \in Proc, pc'[p] \in {"load", "compare"}
      PROVE  /\ ModelFiles(api') \cup PageFiles(api') \subseteq seen'[p]
             /\ pc'[p] = "compare" => snap'[p] = api'
  <2>1. CASE UNCHANGED <<pc[p], seen[p], snap[p]>>
    <3>1. p \in shared
      BY <1>1, <2>1 DEF TransactionInv, LockHeld, Shared
    <3>2. api' = api
      <4> SUFFICES ASSUME api' # api PROVE FALSE
        OBVIOUS
      <4>1. PICK q \in Proc : WriteApi(q)
        BY OnlyWriteApiWrites
      <4>2. exclusive = q
        BY <4>1 DEF WriteApi, TransactionInv, LockHeld, Exclusive, Updating
      <4> QED BY <3>1, <4>2, Constants DEF TransactionInv, LockHeld
    <3>3. /\ ModelFiles(api) \cup PageFiles(api) \subseteq seen[p]
          /\ pc[p] = "compare" => snap[p] = api
      BY <1>1, <2>1 DEF InspectCurrent
    <3> QED BY <2>1, <3>2, <3>3
  <2>2. CASE Scan(p)
    <3>1. seen'[p] = OnDisk /\ api' = api /\ pc'[p] = "load"
      BY <2>2 DEF Scan, disk, Goto, TransactionInv, Typed, TypeOK
    <3> QED BY <3>1 DEF ApiHasFiles
  <2>3. CASE Load(p)
    <3>1. /\ snap'[p] = api /\ api' = api /\ seen'[p] = seen[p] /\ pc[p] = "load"
      BY <2>3 DEF Load, disk, Goto, TransactionInv, Typed, TypeOK
    <3>2. ModelFiles(api) \cup PageFiles(api) \subseteq seen[p]
      BY <3>1 DEF InspectCurrent
    <3> QED BY <3>1, <3>2
  <2> QED BY <1>1, <2>1, <2>2, <2>3, InspectsFrom DEF TransactionInv
<1> QED BY <1>1 DEF InspectCurrent, ModelFiles, PageFiles

\* Only Compare reports.
LEMMA OnlyCompareReports ==
    ASSUME [Next]_vars, divergence' # divergence
    PROVE  \E p \in Proc : Compare(p)
BY DEF Next, Start, Step, Register, CheckSchema, CheckRefs, Render, Lock, Update, Read,
       WriteApi, WriteRoutes, WritePages, WritePagesTest, ExecSQL, Inspect, LockShared,
       Scan, Load, Kill, vars

LEMMA NextAlarm ==
    ASSUME TransactionInv, SyncedOrAtWork, InspectCurrent, NoFalseAlarm, [Next]_vars
    PROVE  NoFalseAlarm'
<1>1. CASE divergence' = divergence
  BY <1>1 DEF NoFalseAlarm
<1>2. CASE divergence' # divergence
  <2>1. PICK p \in Proc : Compare(p)
    BY <1>2, OnlyCompareReports
  <2>2. pc[p] = "compare" /\ p \in shared
    BY <2>1 DEF Compare, TransactionInv, LockHeld, Shared
  <2>3. InSync
    <3>1. ASSUME NEW q \in Proc PROVE pc[q] \notin Half
      <4>1. exclusive # q
        BY <2>2, Constants DEF TransactionInv, LockHeld
      <4> QED BY <4>1 DEF TransactionInv, LockHeld, Exclusive, Updating, Half
    <3> QED BY <3>1 DEF SyncedOrAtWork
  <2>4. snap[p] = api /\ ModelFiles(api) \cup PageFiles(api) \subseteq seen[p]
    BY <2>2 DEF InspectCurrent
  <2>5. {f.dir : f \in (ModelFiles(snap[p]) \cup PageFiles(snap[p])) \ seen[p]} = {}
    BY <2>4
  <2> QED BY <2>1, <2>3, <2>4, <2>5 DEF Compare, InSync, NoFalseAlarm
<1> QED BY <1>1, <1>2

\* Where nothing is killed and no write fails, an inspection that runs at any time
\* beside any commands reports nothing.
THEOREM HealthyIsQuiet ==
    ASSUME ~ Kills, ~ WritesFail
    PROVE  Spec => []NoFalseAlarm
<1> DEFINE Inv == /\ Rendered /\ ApiHasFiles
                  /\ SyncedOrAtWork /\ InspectCurrent /\ NoFalseAlarm
<1>1. Init => Inv
  BY InitFiles, InitHealthy
<1>2. TransactionInv /\ Inv /\ [Next]_vars => Inv'
  BY NextRendered, NextFiles, NextSynced, NextInspect, NextAlarm
<1>3. Inv => NoFalseAlarm
  OBVIOUS
<1> HIDE DEF Inv
<1> QED BY <1>1, <1>2, <1>3, Transaction, PTL DEF Spec
=============================================================================
