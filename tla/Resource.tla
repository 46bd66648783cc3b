------------------------------ MODULE Resource ------------------------------
(***************************************************************************)
(* One generated resource at work: its table, the page cache in front of   *)
(* it (cache/cache.go) and the five handlers and five model methods the    *)
(* builder renders for it (templates/model.go.tmpl,                        *)
(* templates/resource_handlers.go.tmpl), owned or not.                     *)
(*                                                                         *)
(* As in AuthService a request is a goroutine with a program counter and   *)
(* one action is one database statement or one call of the cache; others   *)
(* run in between.  A list reads the cache, then counts, then selects,     *)
(* then fills the cache; a write executes, then busts the cache, then      *)
(* reads its row back.                                                     *)
(*                                                                         *)
(* A page is the whole selection of its query: limit, offset and sort      *)
(* order pick rows and take part in the cache key, as the filter does, and *)
(* add nothing the properties tell apart.  A cache entry keeps the time it *)
(* has left rather than the moment it expires.                             *)
(*                                                                         *)
(* The rows can reference the rows of another resource, whose writes bust  *)
(* the pages of that resource only: with the row of a parent the database  *)
(* deletes the rows that reference it.                                     *)
(***************************************************************************)
EXTENDS Integers, FiniteSets

CONSTANTS
    Req,        \* the requests the server can work on at once
    Kinds,      \* the endpoints called: a subset of AllKinds
    Users,      \* the signed-in callers
    Owned,      \* whether the resource was generated with -owner
    Values,     \* what a row can hold; with Refs, the row it references
    Refs,       \* whether the table has a REFERENCES ... ON DELETE CASCADE
    Queries,    \* the filters asked for: values, and None for no filter
    TTL,        \* how long the cache keeps a page
    Fails,      \* whether database statements may return an error
    None,       \* no row, no entry, no filter, no owner
    MaxRows     \* bound of the exploration: the largest row id

WriteKinds == {"create", "update", "delete"}
AllKinds   == WriteKinds \cup {"list", "detail"}

ASSUME KindsAssumption == Kinds \subseteq AllKinds
ASSUME QueriesAssumption == Queries \subseteq Values \cup {None}
ASSUME OwnedAssumption == {Owned, Fails, Refs} \subseteq BOOLEAN
ASSUME BoundAssumption == TTL \in Nat /\ MaxRows \in Nat

VARIABLES
    rows,       \* the table: for each id its row, or None
    parents,    \* the values a row may hold: with Refs, the rows there are to reference
    cache,      \* cache.items: for each key its entry, or None
    pc, call,   \* where each request is, and what it asks
    id,         \* the row it works on
    total,      \* list: what COUNT(*) returned
    items       \* the rows it has read and will answer with

vars == <<rows, parents, cache, pc, call, id, total, items>>

----------------------------------------------------------------------------
\* Values.

Ids  == 1..MaxRows

\* The owner predicate: user_id = the caller, or no predicate at all.
Scope(u) == IF Owned THEN u ELSE None

Rows    == [owner : Users \cup {None}, val : Values]
Keys    == (Users \cup {None}) \X Queries

\* A row as it is answered, with its id.
Found == Ids \X Rows

Pages   == [items : SUBSET Found, total : Nat]
Entries == [page : Pages, left : -1..TTL]

ASSUME NoneAssumption ==
    None \notin Users \cup Values \cup Rows \cup Entries

\* Regression: the owner is left out of the key.
cacheKeyUnowned(u, q) == <<None, q>>

cacheKey(u, q) == <<Scope(u), q>>

Selected(s, q) == {<<i, rows[i]>> : i \in {j \in Ids : /\ rows[j] # None
                                                       /\ rows[j].owner = s
                                                       /\ q # None => rows[j].val = q}}

\* The rows the predicate "id = ? AND user_id = ?" matches.
Matching(i, s) == {x \in Selected(s, None) : x[1] = i}

\* INTEGER PRIMARY KEY without AUTOINCREMENT: one more than the largest id there
\* is, so the id of a deleted row comes back.
IsNextId(i) ==
    /\ \A j \in Ids : rows[j] # None => j < i
    /\ i > 1 => rows[i - 1] # None

\* An entry is served up to the moment it expires, and kept until the janitor
\* comes.
Valid(e) == e # None /\ e.left >= 0

Outcomes == IF Fails THEN BOOLEAN ELSE {TRUE}

PCs == {"idle", "get", "count", "select", "set", "exec", "bust", "find", "answer"}

Goto(r, l) == pc' = [pc EXCEPT ![r] = l]

Respond(r) ==
    /\ Goto(r, "idle")
    /\ call' = [call EXCEPT ![r] = None]
    /\ id' = [id EXCEPT ![r] = 0]
    /\ total' = [total EXCEPT ![r] = 0]
    /\ items' = [items EXCEPT ![r] = {}]

----------------------------------------------------------------------------
\* Arrivals, past RequireAuth and readJSON.

Calls == [kind : AllKinds, user : Users, filter : Queries \cup {None},
          val : Values \cup {None}]

FirstStep(kind) ==
    CASE kind = "list" -> "get" [] kind = "detail" -> "find" [] OTHER -> "exec"

\* A create finds room: the bound of the exploration.
Creating == {r \in Req : pc[r] = "exec" /\ call[r].kind = "create"}

Room == \E i \in Ids : IsNextId(i) /\ i + Cardinality(Creating) <= MaxRows

Begin(r, c, i) ==
    /\ pc[r] = "idle"
    /\ Goto(r, FirstStep(c.kind))
    /\ call' = [call EXCEPT ![r] = c]
    /\ id' = [id EXCEPT ![r] = i]
    /\ UNCHANGED <<rows, parents, cache, total, items>>

Arrive(r) ==
    \E kind \in Kinds, u \in Users :
        \/ kind = "list" /\ \E q \in Queries :
              Begin(r, [kind |-> kind, user |-> u, filter |-> q, val |-> None], 0)
        \/ kind = "create" /\ Room /\ \E v \in Values :
              Begin(r, [kind |-> kind, user |-> u, filter |-> None, val |-> v], 0)
        \/ kind = "update" /\ \E v \in Values, i \in Ids :
              Begin(r, [kind |-> kind, user |-> u, filter |-> None, val |-> v], i)
        \/ kind \in {"detail", "delete"} /\ \E i \in Ids :
              Begin(r, [kind |-> kind, user |-> u, filter |-> None, val |-> None], i)

----------------------------------------------------------------------------
\* GetPage.

Key(r) == cacheKey(call[r].user, call[r].filter)

\* Regression: a hit starts the entry's time again.
GetSliding(r) ==
    /\ pc[r] = "get"
    /\ IF Valid(cache[Key(r)])
       THEN /\ items' = [items EXCEPT ![r] = cache[Key(r)].page.items]
            /\ total' = [total EXCEPT ![r] = cache[Key(r)].page.total]
            /\ cache' = [cache EXCEPT ![Key(r)].left = TTL]
            /\ Goto(r, "answer")
       ELSE Goto(r, "count") /\ UNCHANGED <<items, total, cache>>
    /\ UNCHANGED <<rows, call, id>>

Get(r) ==
    /\ pc[r] = "get"
    /\ IF Valid(cache[Key(r)])
       THEN /\ items' = [items EXCEPT ![r] = cache[Key(r)].page.items]
            /\ total' = [total EXCEPT ![r] = cache[Key(r)].page.total]
            /\ Goto(r, "answer")
       ELSE Goto(r, "count") /\ UNCHANGED <<items, total>>
    /\ UNCHANGED <<rows, cache, call, id>>

\* SELECT COUNT(*), a snapshot of its own.
Count(r) ==
    /\ pc[r] = "count"
    /\ \E ok \in Outcomes :
          IF ok
          THEN /\ total' = [total EXCEPT ![r] =
                               Cardinality(Selected(Scope(call[r].user), call[r].filter))]
               /\ Goto(r, "select")
               /\ UNCHANGED <<call, id, items>>
          ELSE Respond(r)
    /\ UNCHANGED <<rows, cache>>

\* SELECT ... LIMIT ? OFFSET ?, another one.
Select(r) ==
    /\ pc[r] = "select"
    /\ \E ok \in Outcomes :
          IF ok
          THEN /\ items' = [items EXCEPT ![r] =
                               Selected(Scope(call[r].user), call[r].filter)]
               /\ Goto(r, "set")
               /\ UNCHANGED <<call, id, total>>
          ELSE Respond(r)
    /\ UNCHANGED <<rows, cache>>

\* cache.Set, whatever has been busted since the rows were read.
Set(r) ==
    /\ pc[r] = "set"
    /\ cache' = [cache EXCEPT ![Key(r)] =
                    [page |-> [items |-> items[r], total |-> total[r]], left |-> TTL]]
    /\ Goto(r, "answer")
    /\ UNCHANGED <<rows, call, id, total, items>>

----------------------------------------------------------------------------
\* Create, Update, Delete and Find.

\* A statement that changed a row busts the cache next; one that matched none
\* is a 404, one that failed, as one that references no row does, a 500.
Create(r) ==
    /\ pc[r] = "exec" /\ call[r].kind = "create"
    /\ \E ok \in Outcomes, i \in {j \in Ids : IsNextId(j)} :
          IF ok /\ call[r].val \in parents
          THEN /\ rows' = [rows EXCEPT ![i] =
                              [owner |-> Scope(call[r].user), val |-> call[r].val]]
               /\ id' = [id EXCEPT ![r] = i]
               /\ Goto(r, "bust")
               /\ UNCHANGED <<call, total, items>>
          ELSE Respond(r) /\ UNCHANGED rows
    /\ UNCHANGED cache

\* Regression: UPDATE ... WHERE id = ?, without the owner.
UpdateUnowned(r) ==
    /\ pc[r] = "exec" /\ call[r].kind = "update"
    /\ IF rows[id[r]] # None
       THEN /\ rows' = [rows EXCEPT ![id[r]].val = call[r].val]
            /\ Goto(r, "bust")
            /\ UNCHANGED <<call, id, total, items>>
       ELSE Respond(r) /\ UNCHANGED rows
    /\ UNCHANGED cache

Update(r) ==
    /\ pc[r] = "exec" /\ call[r].kind = "update"
    /\ \E ok \in Outcomes :
          IF ok /\ call[r].val \in parents /\ Matching(id[r], Scope(call[r].user)) # {}
          THEN /\ rows' = [rows EXCEPT ![id[r]].val = call[r].val]
               /\ Goto(r, "bust")
               /\ UNCHANGED <<call, id, total, items>>
          ELSE Respond(r) /\ UNCHANGED rows
    /\ UNCHANGED cache

\* Regression: a delete does not bust.
DeleteNotBusting(r) ==
    /\ pc[r] = "exec" /\ call[r].kind = "delete"
    /\ rows' = IF Matching(id[r], Scope(call[r].user)) # {}
               THEN [rows EXCEPT ![id[r]] = None] ELSE rows
    /\ Respond(r)
    /\ UNCHANGED cache

Delete(r) ==
    /\ pc[r] = "exec" /\ call[r].kind = "delete"
    /\ \E ok \in Outcomes :
          IF ok /\ Matching(id[r], Scope(call[r].user)) # {}
          THEN /\ rows' = [rows EXCEPT ![id[r]] = None]
               /\ Goto(r, "bust")
               /\ UNCHANGED <<call, id, total, items>>
          ELSE Respond(r) /\ UNCHANGED rows
    /\ UNCHANGED cache

\* cache.Bust("<table>:"): every page of this resource, whoever's it is.
Bust(r) ==
    /\ pc[r] = "bust"
    /\ cache' = [k \in Keys |-> None]
    /\ IF call[r].kind = "delete" THEN Respond(r)
       ELSE Goto(r, "find") /\ UNCHANGED <<call, id, total, items>>
    /\ UNCHANGED rows

\* Regression: a missed Scan is not noticed and the zero row is answered.
FindIgnoringErrors(r) ==
    /\ pc[r] = "find"
    /\ LET found == Matching(id[r], Scope(call[r].user))
       IN  items' = [items EXCEPT ![r] = IF found = {} THEN {<<0, None>>} ELSE found]
    /\ Goto(r, "answer")
    /\ UNCHANGED <<rows, cache, call, id, total>>

\* Find: the row as it stands now, or an error (404; "created but failed to load").
Find(r) ==
    /\ pc[r] = "find"
    /\ \E ok \in Outcomes :
          IF ok /\ Matching(id[r], Scope(call[r].user)) # {}
          THEN /\ items' = [items EXCEPT ![r] = Matching(id[r], Scope(call[r].user))]
               /\ Goto(r, "answer")
               /\ UNCHANGED <<call, id, total>>
          ELSE Respond(r)
    /\ UNCHANGED <<rows, cache>>

Answer(r) ==
    /\ pc[r] = "answer"
    /\ Respond(r)
    /\ UNCHANGED <<rows, cache>>

----------------------------------------------------------------------------
\* The environment.

\* The other resource: a row is created, or deleted with all that reference it.
CreateParent(v) ==
    /\ Refs /\ v \notin parents
    /\ parents' = parents \cup {v}
    /\ UNCHANGED <<rows, cache, pc, call, id, total, items>>

DeleteParent(v) ==
    /\ Refs /\ v \in parents
    /\ parents' = parents \ {v}
    /\ rows' = [i \in Ids |-> IF rows[i] # None /\ rows[i].val = v THEN None ELSE rows[i]]
    /\ UNCHANGED <<cache, pc, call, id, total, items>>

\* Time passes for what the cache holds.
Tick ==
    /\ \E k \in Keys : Valid(cache[k])
    /\ cache' = [k \in Keys |-> IF Valid(cache[k]) THEN [cache[k] EXCEPT !.left = @ - 1]
                                ELSE cache[k]]
    /\ UNCHANGED <<rows, parents, pc, call, id, total, items>>

\* janitor: what has expired is dropped.
Janitor ==
    /\ \E k \in Keys : cache[k] # None /\ ~Valid(cache[k])
    /\ cache' = [k \in Keys |-> IF Valid(cache[k]) THEN cache[k] ELSE None]
    /\ UNCHANGED <<rows, parents, pc, call, id, total, items>>

\* The process dies and is started again: cache and requests are gone, the tables
\* are not.
Restart ==
    /\ cache' = [k \in Keys |-> None]
    /\ pc' = [r \in Req |-> "idle"]
    /\ call' = [r \in Req |-> None]
    /\ id' = [r \in Req |-> 0]
    /\ total' = [r \in Req |-> 0]
    /\ items' = [r \in Req |-> {}]
    /\ UNCHANGED <<rows, parents>>

GetPage(r) == Get(r) \/ Count(r) \/ Select(r) \/ Set(r)

Write(r) == Create(r) \/ Update(r) \/ Delete(r) \/ Bust(r)

Step(r) == (GetPage(r) \/ Write(r) \/ Find(r) \/ Answer(r)) /\ UNCHANGED parents

Init ==
    /\ rows = [i \in Ids |-> None]
    /\ parents = IF Refs THEN {} ELSE Values
    /\ cache = [k \in Keys |-> None]
    /\ pc = [r \in Req |-> "idle"]
    /\ call = [r \in Req |-> None]
    /\ id = [r \in Req |-> 0]
    /\ total = [r \in Req |-> 0]
    /\ items = [r \in Req |-> {}]

Next ==
    \/ \E r \in Req : Arrive(r) \/ Step(r)
    \/ \E v \in Values : CreateParent(v) \/ DeleteParent(v)
    \/ Tick
    \/ Janitor
    \/ Restart

Spec == Init /\ [][Next]_vars

\* Goroutines are scheduled, database calls return, and time passes.  Nobody is
\* obliged to send a request.
Fairness == WF_vars(Tick) /\ \A r \in Req : WF_vars(Step(r))

FairSpec == Spec /\ Fairness
=============================================================================
