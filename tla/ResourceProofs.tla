--------------------------- MODULE ResourceProofs ---------------------------
(***************************************************************************)
(* Proofs about Resource, for any number of requests, users and rows, owned*)
(* or not, with a cache that keeps its pages for any time.                 *)
(***************************************************************************)
EXTENDS ResourceHistory, FiniteSetTheorems, TLAPS

\* The inductive invariant: types, locals, and whose the rows in memory are.
IInv == TypeOK /\ RequestLocals /\ OwnPagesOnly

----------------------------------------------------------------------------
\* Operators.

\* What a query selects are found rows of its scope.
LEMMA SelectedRows ==
    ASSUME TypeOK, NEW s, NEW q
    PROVE  /\ Selected(s, q) \in SUBSET Found
           /\ \A x \in Selected(s, q) : x[2].owner = s
BY DEF TypeOK, Selected, Found

\* A selection can be counted.
LEMMA SelectedCount ==
    ASSUME NEW s, NEW q
    PROVE  Cardinality(Selected(s, q)) \in Nat
<1> DEFINE I == {j \in Ids : /\ rows[j] # None
                             /\ rows[j].owner = s
                             /\ q # None => rows[j].val = q}
           T == {<<i, rows[i]>> : i \in I}
           f == [i \in I |-> <<i, rows[i]>>]
<1>1. IsFiniteSet(I)
  <2>1. IsFiniteSet(Ids) BY FS_Interval, BoundAssumption DEF Ids
  <2> QED BY <2>1, FS_Subset
<1>2. f \in Surjection(I, T) BY DEF Surjection
<1>3. IsFiniteSet(T) BY <1>1, <1>2, FS_Surjection
<1> QED BY <1>3, FS_CardinalityType DEF Selected

\* The rows one id matches are among the rows of its scope, and there is one.
LEMMA MatchingRows ==
    ASSUME TypeOK, NEW i, NEW s
    PROVE  /\ Matching(i, s) \in SUBSET Found
           /\ \A x \in Matching(i, s) : x[2].owner = s
           /\ Matching(i, s) # {} => i \in Ids /\ rows[i] \in Rows /\ rows[i].owner = s
<1>1. Matching(i, s) \in SUBSET Found /\ \A x \in Matching(i, s) : x[2].owner = s
  BY SelectedRows DEF Matching
<1>2. ASSUME Matching(i, s) # {} PROVE i \in Ids /\ rows[i] \in Rows /\ rows[i].owner = s
  <2>1. PICK j \in Ids : rows[j] # None /\ rows[j].owner = s /\ <<j, rows[j]>>[1] = i
    BY <1>2 DEF Matching, Selected
  <2>2. j = i BY <2>1
  <2> QED BY <2>1, <2>2 DEF TypeOK
<1> QED BY <1>1, <1>2

\* The key of a list is a key, and begins with its caller's scope.
LEMMA KeyOfList ==
    ASSUME NEW r, call[r] \in Calls, call[r].filter \in Queries
    PROVE  Key(r) \in Keys /\ Key(r)[1] = Scope(call[r].user)
BY DEF Key, cacheKey, Keys, Scope, Calls

LEMMA ScopeType == ASSUME NEW u \in Users PROVE Scope(u) \in Users \cup {None}
BY DEF Scope

----------------------------------------------------------------------------
\* Every request's next step keeps the invariant.

LEMMA InitInv == Init => IInv
BY BoundAssumption, NoneAssumption
   DEF Init, IInv, TypeOK, RequestLocals, OwnPagesOnly, PCs, Ids, Found

\* The end of a request, whatever it leaves alone.
LEMMA RespondInv ==
    ASSUME IInv, NEW r \in Req, Respond(r),
           UNCHANGED <<rows, parents>>,
           cache' \in [Keys -> Entries \cup {None}],
           \A k \in Keys : cache'[k] = cache[k] \/ cache'[k] = None
    PROVE  IInv'
<1> USE DEF IInv, Respond, Goto
<1>1. TypeOK' BY BoundAssumption DEF TypeOK, PCs, Found
<1>2. RequestLocals' BY DEF RequestLocals, TypeOK
<1>3. OwnPagesOnly' BY DEF OwnPagesOnly, TypeOK
<1> QED BY <1>1, <1>2, <1>3

LEMMA BeginInv ==
    ASSUME IInv, NEW r \in Req, NEW c \in Calls, NEW i \in 0..MaxRows, Begin(r, c, i),
           c.kind = "list" => c.filter \in Queries,
           c.kind \in {"create", "update"} => c.val \in Values
    PROVE  IInv'
<1> USE DEF IInv, Begin, Goto
<1>1. FirstStep(c.kind) \in {"get", "find", "exec"} BY DEF FirstStep
<1>2. /\ FirstStep(c.kind) = "get" => c.filter \in Queries
      /\ FirstStep(c.kind) \notin {"count", "select", "set", "idle"}
  BY DEF FirstStep, Calls, AllKinds, WriteKinds
<1>3. TypeOK' BY <1>1 DEF TypeOK, PCs
<1>4. RequestLocals' BY <1>1, <1>2 DEF RequestLocals, TypeOK
<1>5. OwnPagesOnly' BY DEF OwnPagesOnly, TypeOK, RequestLocals
<1> QED BY <1>3, <1>4, <1>5

LEMMA ArriveInv ==
    ASSUME IInv, NEW r \in Req, Arrive(r)
    PROVE  IInv'
<1>1. PICK kind \in Kinds, u \in Users :
        \/ kind = "list" /\ \E q \in Queries :
              Begin(r, [kind |-> kind, user |-> u, filter |-> q, val |-> None], 0)
        \/ kind = "create" /\ Room /\ \E v \in Values :
              Begin(r, [kind |-> kind, user |-> u, filter |-> None, val |-> v], 0)
        \/ kind = "update" /\ \E v \in Values, i \in Ids :
              Begin(r, [kind |-> kind, user |-> u, filter |-> None, val |-> v], i)
        \/ kind \in {"detail", "delete"} /\ \E i \in Ids :
              Begin(r, [kind |-> kind, user |-> u, filter |-> None, val |-> None], i)
  BY DEF Arrive
<1>2. Ids \subseteq 0..MaxRows /\ 0 \in 0..MaxRows BY BoundAssumption DEF Ids
<1>3. kind \in AllKinds BY KindsAssumption
<1>4. CASE kind = "list" /\ \E q \in Queries :
              Begin(r, [kind |-> kind, user |-> u, filter |-> q, val |-> None], 0)
  <2>1. PICK q \in Queries :
          Begin(r, [kind |-> kind, user |-> u, filter |-> q, val |-> None], 0)
    BY <1>4
  <2> DEFINE c == [kind |-> kind, user |-> u, filter |-> q, val |-> None]
  <2>2. c \in Calls /\ c.filter \in Queries /\ c.kind = "list" BY <1>3, <1>4 DEF Calls
  <2>3. Begin(r, c, 0) BY <2>1
  <2> HIDE DEF c
  <2> QED BY <2>2, <2>3, <1>2, BeginInv
<1>5. CASE kind = "create" /\ Room /\ \E v \in Values :
              Begin(r, [kind |-> kind, user |-> u, filter |-> None, val |-> v], 0)
  <2>1. PICK v \in Values :
          Begin(r, [kind |-> kind, user |-> u, filter |-> None, val |-> v], 0)
    BY <1>5
  <2> DEFINE c == [kind |-> kind, user |-> u, filter |-> None, val |-> v]
  <2>2. c \in Calls /\ c.val \in Values /\ c.kind # "list" BY <1>3, <1>5 DEF Calls
  <2>3. Begin(r, c, 0) BY <2>1
  <2> HIDE DEF c
  <2> QED BY <2>2, <2>3, <1>2, BeginInv
<1>6. CASE kind = "update" /\ \E v \in Values, i \in Ids :
              Begin(r, [kind |-> kind, user |-> u, filter |-> None, val |-> v], i)
  <2>1. PICK v \in Values, i \in Ids :
          Begin(r, [kind |-> kind, user |-> u, filter |-> None, val |-> v], i)
    BY <1>6
  <2> DEFINE c == [kind |-> kind, user |-> u, filter |-> None, val |-> v]
  <2>2. c \in Calls /\ c.val \in Values /\ c.kind # "list" BY <1>3, <1>6 DEF Calls
  <2>3. Begin(r, c, i) BY <2>1
  <2> HIDE DEF c
  <2> QED BY <2>2, <2>3, <1>2, BeginInv
<1>7. CASE kind \in {"detail", "delete"} /\ \E i \in Ids :
              Begin(r, [kind |-> kind, user |-> u, filter |-> None, val |-> None], i)
  <2>1. PICK i \in Ids :
          Begin(r, [kind |-> kind, user |-> u, filter |-> None, val |-> None], i)
    BY <1>7
  <2> DEFINE c == [kind |-> kind, user |-> u, filter |-> None, val |-> None]
  <2>2. c \in Calls /\ c.kind \notin {"list", "create", "update"} BY <1>3, <1>7 DEF Calls
  <2>3. Begin(r, c, i) BY <2>1
  <2> HIDE DEF c
  <2> QED BY <2>2, <2>3, <1>2, BeginInv
<1> QED BY <1>1, <1>4, <1>5, <1>6, <1>7

LEMMA GetPageInv ==
    ASSUME IInv, NEW r \in Req, GetPage(r), UNCHANGED parents
    PROVE  IInv'
<1> USE DEF IInv
<1> DEFINE s == Scope(call[r].user)
           q == call[r].filter
<1>0. pc[r] \in {"get", "count", "select", "set"}
  BY DEF GetPage, Get, Count, Select, Set
<1>1. call[r] \in Calls /\ Key(r) \in Keys /\ Key(r)[1] = s
  BY <1>0, KeyOfList DEF RequestLocals
<1>2. CASE Get(r)
  <2> USE <1>2 DEF Get, Goto
  <2>1. CASE Valid(cache[Key(r)])
    <3>1. cache[Key(r)] \in Entries BY <2>1, <1>1 DEF Valid, TypeOK
    <3>2. /\ cache[Key(r)].page.items \in SUBSET Found
          /\ cache[Key(r)].page.total \in Nat
      BY <3>1 DEF Entries, Pages
    <3>3. \A x \in cache[Key(r)].page.items : x[2].owner = s
      BY <2>1, <3>2, <1>1 DEF OwnPagesOnly, Valid
    <3>4. TypeOK' BY <2>1, <3>2 DEF TypeOK, PCs
    <3>5. RequestLocals' BY <2>1, <1>1 DEF RequestLocals, TypeOK
    <3>6. OwnPagesOnly' BY <2>1, <3>3 DEF OwnPagesOnly, TypeOK
    <3> QED BY <3>4, <3>5, <3>6
  <2>2. CASE ~Valid(cache[Key(r)])
    <3>1. TypeOK' BY <2>2 DEF TypeOK, PCs
    <3>2. RequestLocals' BY <2>2, <1>1 DEF RequestLocals, TypeOK
    <3>3. OwnPagesOnly' BY <2>2 DEF OwnPagesOnly, TypeOK
    <3> QED BY <3>1, <3>2, <3>3
  <2> QED BY <2>1, <2>2
<1>3. CASE Count(r)
  <2>1. CASE Respond(r)
    BY <2>1, <1>3, RespondInv DEF Count, TypeOK
  <2>2. CASE ~Respond(r)
    <3>1. /\ pc' = [pc EXCEPT ![r] = "select"]
          /\ total' = [total EXCEPT ![r] = Cardinality(Selected(s, q))]
          /\ UNCHANGED <<rows, cache, call, id, items>>
      BY <1>3, <2>2 DEF Count, Goto
    <3>2. Cardinality(Selected(s, q)) \in Nat BY SelectedCount
    <3>3. TypeOK' BY <3>1, <3>2 DEF TypeOK, PCs
    <3>4. RequestLocals' BY <3>1, <1>1, <1>0 DEF RequestLocals, TypeOK
    <3>5. OwnPagesOnly' BY <3>1 DEF OwnPagesOnly, TypeOK
    <3> QED BY <3>3, <3>4, <3>5
  <2> QED BY <2>1, <2>2
<1>4. CASE Select(r)
  <2>1. CASE Respond(r)
    BY <2>1, <1>4, RespondInv DEF Select, TypeOK
  <2>2. CASE ~Respond(r)
    <3>1. /\ pc' = [pc EXCEPT ![r] = "set"]
          /\ items' = [items EXCEPT ![r] = Selected(s, q)]
          /\ UNCHANGED <<rows, cache, call, id, total>>
      BY <1>4, <2>2 DEF Select, Goto
    <3>2. Selected(s, q) \in SUBSET Found /\ \A x \in Selected(s, q) : x[2].owner = s
      BY SelectedRows
    <3> HIDE DEF s, q
    <3>3. TypeOK' BY <3>1, <3>2 DEF TypeOK, PCs
    <3>4. RequestLocals' BY <3>1, <1>1, <1>0 DEF RequestLocals, TypeOK
    <3>5. OwnPagesOnly' BY <3>1, <3>2 DEF OwnPagesOnly, TypeOK, s
    <3> QED BY <3>3, <3>4, <3>5
  <2> QED BY <2>1, <2>2
<1>5. CASE Set(r)
  <2> DEFINE e == [page |-> [items |-> items[r], total |-> total[r]], left |-> TTL]
  <2>1. /\ pc' = [pc EXCEPT ![r] = "answer"]
        /\ cache' = [cache EXCEPT ![Key(r)] = e]
        /\ UNCHANGED <<rows, call, id, total, items>>
    BY <1>5 DEF Set, Goto
  <2>2. e \in Entries
    BY BoundAssumption DEF TypeOK, Entries, Pages
  <2>3. \A x \in Found : x \in e.page.items => x[2].owner = s
    BY DEF OwnPagesOnly
  <2> HIDE DEF e
  <2>4. TypeOK' BY <2>1, <2>2 DEF TypeOK, PCs
  <2>5. RequestLocals' BY <2>1, <1>1 DEF RequestLocals, TypeOK
  <2>6. OwnPagesOnly' BY <2>1, <2>3, <1>1 DEF OwnPagesOnly, TypeOK
  <2> QED BY <2>4, <2>5, <2>6
<1> QED BY <1>2, <1>3, <1>4, <1>5 DEF GetPage

LEMMA WriteInv ==
    ASSUME IInv, NEW r \in Req, Write(r), UNCHANGED parents
    PROVE  IInv'
<1> USE DEF IInv
<1> DEFINE s == Scope(call[r].user)
<1>0. pc[r] \in {"exec", "bust"} /\ call[r] \in Calls
  BY DEF Write, Create, Update, Delete, Bust, RequestLocals
<1>1. s \in Users \cup {None} BY <1>0, ScopeType DEF Calls
<1>2. \* A statement that changed a row.
      ASSUME rows' \in [Ids -> Rows \cup {None}], id' \in [Req -> 0..MaxRows],
             \A i \in Ids : rows'[i] # None => rows'[i].val \in parents,
             Goto(r, "bust"), UNCHANGED <<cache, call, total, items>>
      PROVE  IInv'
  <2>1. TypeOK' BY <1>2 DEF TypeOK, PCs, Goto
  <2>2. RequestLocals' BY <1>2, <1>0 DEF RequestLocals, TypeOK, Goto
  <2>3. OwnPagesOnly' BY <1>2 DEF OwnPagesOnly, TypeOK, Goto
  <2> QED BY <2>1, <2>2, <2>3
<1>3. ASSUME Respond(r), UNCHANGED <<rows, cache>> PROVE IInv'
  BY <1>3, RespondInv DEF TypeOK
<1>4. CASE Create(r)
  <2>1. CASE Respond(r) /\ UNCHANGED rows BY <2>1, <1>3, <1>4 DEF Create
  <2>2. CASE ~(Respond(r) /\ UNCHANGED rows)
    <3> DEFINE row == [owner |-> s, val |-> call[r].val]
    <3>1. PICK n \in Ids :
             /\ call[r].val \in parents
             /\ rows' = [rows EXCEPT ![n] = row]
             /\ id' = [id EXCEPT ![r] = n]
             /\ Goto(r, "bust")
             /\ UNCHANGED <<cache, call, total, items>>
      BY <1>4, <2>2 DEF Create
    <3>2. row \in Rows /\ row.val \in parents BY <1>1, <1>4, <3>1 DEF Create, RequestLocals, Rows
    <3> HIDE DEF row
    <3>3. /\ rows' \in [Ids -> Rows \cup {None}]
          /\ \A i \in Ids : rows'[i] # None => rows'[i].val \in parents
      BY <3>1, <3>2 DEF TypeOK
    <3>4. id' \in [Req -> 0..MaxRows] BY <3>1, BoundAssumption DEF TypeOK, Ids
    <3> QED BY <3>1, <3>3, <3>4, <1>2
  <2> QED BY <2>1, <2>2
<1>5. CASE Update(r)
  <2>1. CASE Respond(r) /\ UNCHANGED rows BY <2>1, <1>3, <1>5 DEF Update
  <2>2. CASE ~(Respond(r) /\ UNCHANGED rows)
    <3>1. /\ Matching(id[r], s) # {} /\ call[r].val \in parents
          /\ rows' = [rows EXCEPT ![id[r]].val = call[r].val]
          /\ Goto(r, "bust")
          /\ UNCHANGED <<cache, call, id, total, items>>
      BY <1>5, <2>2 DEF Update
    <3>2. id[r] \in Ids /\ rows[id[r]] \in Rows BY <3>1, MatchingRows
    <3>3. call[r].val \in Values BY <1>5 DEF Update, RequestLocals
    <3>4. /\ rows' \in [Ids -> Rows \cup {None}]
          /\ \A i \in Ids : rows'[i] # None => rows'[i].val \in parents
      BY <3>1, <3>2, <3>3 DEF TypeOK, Rows
    <3>5. id' \in [Req -> 0..MaxRows] BY <3>1 DEF TypeOK
    <3> QED BY <3>1, <3>4, <3>5, <1>2
  <2> QED BY <2>1, <2>2
<1>6. CASE Delete(r)
  <2>1. CASE Respond(r) /\ UNCHANGED rows BY <2>1, <1>3, <1>6 DEF Delete
  <2>2. CASE ~(Respond(r) /\ UNCHANGED rows)
    <3>1. /\ rows' = [rows EXCEPT ![id[r]] = None]
          /\ Goto(r, "bust")
          /\ UNCHANGED <<cache, call, id, total, items>>
      BY <1>6, <2>2 DEF Delete
    <3>2. /\ rows' \in [Ids -> Rows \cup {None}]
          /\ \A i \in Ids : rows'[i] # None => rows'[i].val \in parents
      BY <3>1 DEF TypeOK
    <3>3. id' \in [Req -> 0..MaxRows] BY <3>1 DEF TypeOK
    <3> QED BY <3>1, <3>2, <3>3, <1>2
  <2> QED BY <2>1, <2>2
<1>7. CASE Bust(r)
  <2>1. cache' = [k \in Keys |-> None] /\ UNCHANGED rows BY <1>7 DEF Bust
  <2>2. cache' \in [Keys -> Entries \cup {None}] /\ \A k \in Keys : cache'[k] = None
    BY <2>1
  <2>3. CASE Respond(r) BY <2>1, <2>2, <2>3, RespondInv DEF TypeOK
  <2>4. CASE ~Respond(r)
    <3>1. pc' = [pc EXCEPT ![r] = "find"] /\ UNCHANGED <<rows, call, id, total, items>>
      BY <1>7, <2>4 DEF Bust, Goto
    <3>2. TypeOK' BY <3>1, <2>2 DEF TypeOK, PCs
    <3>3. RequestLocals' BY <3>1, <1>0 DEF RequestLocals, TypeOK
    <3>4. OwnPagesOnly' BY <3>1, <2>2 DEF OwnPagesOnly, TypeOK
    <3> QED BY <3>2, <3>3, <3>4
  <2> QED BY <2>3, <2>4
<1> QED BY <1>4, <1>5, <1>6, <1>7 DEF Write

LEMMA FindInv ==
    ASSUME IInv, NEW r \in Req, Find(r), UNCHANGED parents
    PROVE  IInv'
<1> USE DEF IInv
<1> DEFINE s == Scope(call[r].user)
           m == Matching(id[r], s)
<1>1. CASE Respond(r) BY <1>1, RespondInv DEF Find, TypeOK
<1>2. CASE ~Respond(r)
  <2>1. /\ pc[r] = "find"
        /\ pc' = [pc EXCEPT ![r] = "answer"]
        /\ items' = [items EXCEPT ![r] = m]
        /\ UNCHANGED <<rows, cache, call, id, total>>
    BY <1>2 DEF Find, Goto
  <2>2. m \in SUBSET Found /\ \A x \in m : x[2].owner = s BY MatchingRows
  <2> HIDE DEF m
  <2>3. TypeOK' BY <2>1, <2>2 DEF TypeOK, PCs
  <2>4. RequestLocals' BY <2>1 DEF RequestLocals, TypeOK
  <2>5. OwnPagesOnly' BY <2>1, <2>2 DEF OwnPagesOnly, TypeOK
  <2> QED BY <2>3, <2>4, <2>5
<1> QED BY <1>1, <1>2

\* The parents come and go, with the rows that reference them.
LEMMA ParentInv ==
    ASSUME IInv, NEW v \in Values, CreateParent(v) \/ DeleteParent(v)
    PROVE  IInv'
<1> USE DEF IInv
<1>1. CASE CreateParent(v)
  <2>1. TypeOK' BY <1>1 DEF CreateParent, TypeOK
  <2> QED BY <1>1, <2>1 DEF CreateParent, RequestLocals, OwnPagesOnly
<1>2. CASE DeleteParent(v)
  <2>1. \A i \in Ids : /\ rows'[i] \in {rows[i], None}
                       /\ rows'[i] # None => rows[i].val # v
    BY <1>2 DEF DeleteParent
  <2>2. TypeOK' BY <1>2, <2>1 DEF DeleteParent, TypeOK
  <2> QED BY <1>2, <2>2 DEF DeleteParent, RequestLocals, OwnPagesOnly
<1> QED BY <1>1, <1>2

\* Neither time, nor the janitor, nor a restart puts a row where it was not.
LEMMA EnvironmentInv ==
    ASSUME IInv, Tick \/ Janitor \/ Restart
    PROVE  IInv'
<1> USE DEF IInv
<1>1. CASE Tick
  <2>1. \A k \in Keys : Valid(cache[k]) =>
           /\ [cache[k] EXCEPT !.left = @ - 1] \in Entries
           /\ [cache[k] EXCEPT !.left = @ - 1].page = cache[k].page
    <3> SUFFICES ASSUME NEW k \in Keys, Valid(cache[k])
                 PROVE  /\ [cache[k] EXCEPT !.left = @ - 1] \in Entries
                        /\ [cache[k] EXCEPT !.left = @ - 1].page = cache[k].page
      OBVIOUS
    <3>1. cache[k] \in Entries /\ cache[k].left >= 0 BY DEF Valid, TypeOK
    <3>2. cache[k].left - 1 \in -1..TTL BY <3>1, BoundAssumption DEF Entries
    <3> QED BY <3>1, <3>2 DEF Entries
  <2>2. \A k \in Keys : /\ cache'[k] \in Entries \cup {None}
                        /\ cache'[k] # None => cache[k] # None /\ cache'[k].page = cache[k].page
    BY <1>1, <2>1 DEF Tick, TypeOK, Valid
  <2>3. TypeOK' BY <1>1, <2>2 DEF Tick, TypeOK
  <2>4. RequestLocals' BY <1>1 DEF Tick, RequestLocals
  <2>5. OwnPagesOnly' BY <1>1, <2>2 DEF Tick, OwnPagesOnly
  <2> QED BY <2>3, <2>4, <2>5
<1>2. CASE Janitor
  <2>1. TypeOK' BY <1>2 DEF Janitor, TypeOK
  <2>2. RequestLocals' BY <1>2 DEF Janitor, RequestLocals
  <2>3. OwnPagesOnly' BY <1>2 DEF Janitor, OwnPagesOnly
  <2> QED BY <2>1, <2>2, <2>3
<1>3. CASE Restart
  <2>1. TypeOK' BY <1>3, BoundAssumption DEF Restart, TypeOK, PCs, Found
  <2>2. RequestLocals' BY <1>3 DEF Restart, RequestLocals
  <2>3. OwnPagesOnly' BY <1>3 DEF Restart, OwnPagesOnly
  <2> QED BY <2>1, <2>2, <2>3
<1> QED BY <1>1, <1>2, <1>3

LEMMA NextInv == IInv /\ [Next]_vars => IInv'
<1> SUFFICES ASSUME IInv, [Next]_vars PROVE IInv'
  OBVIOUS
<1>1. CASE UNCHANGED vars
  BY <1>1 DEF vars, IInv, TypeOK, RequestLocals, OwnPagesOnly
<1>2. ASSUME NEW r \in Req, Arrive(r) PROVE IInv' BY <1>2, ArriveInv
<1>3. ASSUME NEW r \in Req, Step(r) PROVE IInv'
  <2>1. CASE Answer(r) BY <1>3, <2>1, RespondInv DEF Step, Answer, IInv, TypeOK
  <2> QED BY <1>3, <2>1, GetPageInv, WriteInv, FindInv DEF Step
<1>4. CASE Tick \/ Janitor \/ Restart BY <1>4, EnvironmentInv
<1>5. ASSUME NEW v \in Values, CreateParent(v) \/ DeleteParent(v) PROVE IInv'
  BY <1>5, ParentInv
<1> QED BY <1>1, <1>2, <1>3, <1>4, <1>5 DEF Next

----------------------------------------------------------------------------
\* The theorems.

\* Types and locals, in every reachable state: in particular no request answers
\* with, and nothing caches, anything but rows that were in the table.
THEOREM TypeCorrect == Spec => [](TypeOK /\ RequestLocals)
<1>1. IInv => TypeOK /\ RequestLocals BY DEF IInv
<1> QED BY InitInv, NextInv, <1>1, PTL DEF Spec

\* Nobody is answered with, and the cache keeps under nobody's key, a row of
\* somebody else (DECISIONS.md section 12).
THEOREM OwnPages == Spec => []OwnPagesOnly
<1>1. IInv => OwnPagesOnly BY DEF IInv
<1> QED BY InitInv, NextInv, <1>1, PTL DEF Spec

\* What the action property asks of one step.
OwnRowsStep ==
    \A i \in Ids :
       (rows[i] # None /\ rows'[i] # rows[i]) =>
          /\ rows'[i] # None => rows'[i].owner = rows[i].owner
          /\ \/ rows'[i] = None /\ rows[i].val \in parents \ parents'
             \/ \E r \in Req : /\ pc[r] = "exec" /\ pc'[r] = "bust"
                               /\ rows[i].owner = Scope(call[r].user)

LEMMA OwnRowsHold == IInv /\ [Next]_vars => OwnRowsStep
<1> SUFFICES ASSUME IInv, [Next]_vars PROVE OwnRowsStep
  OBVIOUS
<1> USE DEF IInv
<1>1. CASE UNCHANGED rows BY <1>1 DEF OwnRowsStep
<1>2. ASSUME NEW r \in Req, Create(r), rows' # rows PROVE OwnRowsStep
  <2> DEFINE row == [owner |-> Scope(call[r].user), val |-> call[r].val]
  <2>1. PICK n \in Ids : IsNextId(n) /\ rows' = [rows EXCEPT ![n] = row]
    BY <1>2 DEF Create
  <2>2. rows[n] = None
    BY BoundAssumption, <2>1 DEF IsNextId, Ids
  <2> HIDE DEF row
  <2> QED BY <2>1, <2>2 DEF OwnRowsStep, TypeOK
<1>3. ASSUME NEW r \in Req, Update(r), rows' # rows PROVE OwnRowsStep
  <2>1. /\ pc[r] = "exec" /\ Goto(r, "bust")
        /\ Matching(id[r], Scope(call[r].user)) # {}
        /\ rows' = [rows EXCEPT ![id[r]].val = call[r].val]
    BY <1>3 DEF Update
  <2>2. id[r] \in Ids /\ rows[id[r]] \in Rows /\ rows[id[r]].owner = Scope(call[r].user)
    BY <2>1, MatchingRows
  <2>3. pc'[r] = "bust" BY <2>1 DEF Goto, TypeOK
  <2>4. \A i \in Ids : i # id[r] => rows'[i] = rows[i] BY <2>1 DEF TypeOK
  <2>5. rows'[id[r]].owner = rows[id[r]].owner BY <2>1, <2>2 DEF TypeOK, Rows
  <2> QED BY <2>1, <2>2, <2>3, <2>4, <2>5 DEF OwnRowsStep
<1>4. ASSUME NEW r \in Req, Delete(r), rows' # rows PROVE OwnRowsStep
  <2>1. /\ pc[r] = "exec" /\ Goto(r, "bust")
        /\ Matching(id[r], Scope(call[r].user)) # {}
        /\ rows' = [rows EXCEPT ![id[r]] = None]
    BY <1>4 DEF Delete
  <2>2. id[r] \in Ids /\ rows[id[r]] \in Rows /\ rows[id[r]].owner = Scope(call[r].user)
    BY <2>1, MatchingRows
  <2>3. pc'[r] = "bust" BY <2>1 DEF Goto, TypeOK
  <2> QED BY <2>1, <2>2, <2>3 DEF OwnRowsStep, TypeOK
<1>5. CASE rows' # rows
  <2>1. \/ \E r \in Req : Create(r) \/ Update(r) \/ Delete(r)
        \/ \E v \in Values : DeleteParent(v)
    BY <1>5 DEF Next, vars, Arrive, Begin, Step, GetPage, Get, Count, Select, Set, Write,
                Bust, Find, Answer, CreateParent, Tick, Janitor, Restart
  <2>2. ASSUME NEW v \in Values, DeleteParent(v) PROVE OwnRowsStep
    <3>1. v \in parents \ parents' BY <2>2 DEF DeleteParent
    <3>2. \A i \in Ids : rows'[i] # rows[i] => rows'[i] = None /\ rows[i].val = v
      BY <2>2 DEF DeleteParent
    <3> QED BY <3>1, <3>2 DEF OwnRowsStep
  <2> QED BY <2>1, <2>2, <1>5, <1>2, <1>3, <1>4
<1> QED BY <1>1, <1>5

\* A row is changed and deleted only by its owner, or goes with its parent, and
\* stays its owner's.
THEOREM OwnersWrite == Spec => OwnersWriteOwn
<1>1. IInv /\ [Next]_vars => OwnRowsStep BY OwnRowsHold
<1> QED BY InitInv, NextInv, <1>1, PTL DEF Spec, OwnersWriteOwn, OwnRowsStep

----------------------------------------------------------------------------
\* Stale pages.

\* What a list that no write has overtaken has read is what the table holds.
ReadsCurrent ==
    \A r \in Req, k \in Keys :
       (pc[r] \in {"select", "set"} /\ r \notin overtaken /\ Key(r) = k) =>
          /\ total[r] = Current(k).total
          /\ pc[r] = "set" => items[r] = Current(k).items

\* The time a page has left and the time since a write left it behind are never
\* more than what a page is given; it is what makes the bound of the property
\* inductive, for the time a page has left says nothing of when it went stale.
AgeBounded(k) == cache[k].left + behind[k] <= TTL

\* A page in the cache, expired or not, is the table's, or there is a reason.
PagesCurrent ==
    \A k \in Keys : cache[k] # None =>
       cache[k].page = Current(k) \/ AgeBounded(k) \/ \E r \in Req : pc[r] = "bust"

HInv ==
    /\ behind \in [Keys -> 0..TTL + 1]
    /\ ReadsCurrent
    /\ PagesCurrent

LEMMA CurrentSame ==
    ASSUME rows' = rows
    PROVE  \A k \in Keys : Current(k)' = Current(k)
BY DEF Current, Selected

\* A step of one request leaves the others where they are.
LEMMA OthersSame ==
    ASSUME IInv, NEW u \in Req, NEW r \in Req, r # u, Arrive(u) \/ Step(u)
    PROVE  /\ pc'[r] = pc[r] /\ call'[r] = call[r]
           /\ total'[r] = total[r] /\ items'[r] = items[r]
<1> USE DEF IInv, TypeOK, Goto, Respond
<1>1. CASE Arrive(u) BY <1>1 DEF Arrive, Begin
<1>2. CASE GetPage(u) BY <1>2 DEF GetPage, Get, Count, Select, Set
<1>3. CASE Write(u) BY <1>3 DEF Write, Create, Update, Delete, Bust
<1>4. CASE Find(u) \/ Answer(u) BY <1>4 DEF Find, Answer
<1> QED BY <1>1, <1>2, <1>3, <1>4 DEF Step

\* Only counting and selecting lead to where a list has read something.
LEMMA ReadingMoves ==
    ASSUME IInv, NEW r \in Req, Arrive(r) \/ Step(r), pc'[r] \in {"select", "set"}
    PROVE  Count(r) \/ Select(r)
<1> USE DEF IInv, TypeOK, Goto, Respond
<1>1. CASE Arrive(r) BY <1>1 DEF Arrive, Begin, FirstStep
<1>2. CASE Get(r) \/ Set(r) BY <1>2 DEF Get, Set
<1>3. CASE Write(r) BY <1>3 DEF Write, Create, Update, Delete, Bust
<1>4. CASE Find(r) \/ Answer(r) BY <1>4 DEF Find, Answer
<1> QED BY <1>1, <1>2, <1>3, <1>4 DEF Step, GetPage

\* What Watch does to the age of a page, seen from outside.
LEMMA Ageing ==
    ASSUME IInv, HInv, Watch, IInv'
    PROVE  /\ behind' \in [Keys -> 0..TTL + 1]
           /\ \A k \in Keys : (cache'[k] # None /\ ~Valid(cache'[k])) => AgeBounded(k)'
           /\ \A k \in Keys : (rows' = rows /\ \A r \in Req : Filling(r) => Key(r) # k) =>
                 \/ ~Valid(cache'[k])
                 \/ Tick /\ behind[k] <= TTL /\ behind'[k] = behind[k] + 1
                 \/ ~(Tick /\ behind[k] <= TTL) /\ behind'[k] = behind[k]
<1>1. \A k \in Keys : behind'[k] =
         IF LeavesBehind(k) THEN 0
         ELSE IF GivesWay(k) THEN TTL + 1
         ELSE IF Tick /\ behind[k] <= TTL THEN behind[k] + 1
         ELSE behind[k]
  BY DEF Watch
<1>2. behind' \in [Keys -> 0..TTL + 1]
  <2>1. \A k \in Keys : behind'[k] \in 0..TTL + 1
    BY <1>1, BoundAssumption DEF HInv
  <2>2. behind' = [k \in Keys |-> behind'[k]] BY DEF Watch
  <2> QED BY <2>1, <2>2
<1>3. ASSUME NEW k \in Keys, cache'[k] # None, ~Valid(cache'[k]) PROVE AgeBounded(k)'
  <2>1. cache'[k] \in Entries BY <1>3 DEF IInv, TypeOK
  <2>2. cache'[k].left \in -1..TTL BY <2>1 DEF Entries
  <2>3. ~(cache'[k].left >= 0) BY <1>3 DEF Valid
  <2>4. cache'[k].left = -1 BY <2>2, <2>3, BoundAssumption
  <2>5. behind'[k] \in 0..TTL + 1 BY <1>2
  <2> QED BY <2>4, <2>5, BoundAssumption DEF AgeBounded
<1>4. ASSUME NEW k \in Keys, rows' = rows, \A r \in Req : Filling(r) => Key(r) # k,
             Valid(cache'[k])
      PROVE  \/ Tick /\ behind[k] <= TTL /\ behind'[k] = behind[k] + 1
             \/ ~(Tick /\ behind[k] <= TTL) /\ behind'[k] = behind[k]
  <2>1. ~LeavesBehind(k) /\ ~GivesWay(k) BY <1>4 DEF LeavesBehind, GivesWay, Cascading
  <2> QED BY <1>1, <2>1
<1> QED BY <1>2, <1>3, <1>4

\* Where the table changed, every read is overtaken, and every page is busted
\* next or left behind.
LEMMA ChangedRows ==
    ASSUME IInv, HInv, Next, Watch, IInv', rows' # rows
    PROVE  HInv'
<1>1. ReadsCurrent' BY DEF Watch, ReadsCurrent
<1>2. \/ \E r \in Req : Create(r) \/ Update(r) \/ Delete(r)
      \/ \E v \in Values : DeleteParent(v)
  BY DEF Next, vars, Arrive, Begin, Step, GetPage, Get, Count, Select, Set, Write,
         Bust, Find, Answer, CreateParent, Tick, Janitor, Restart
<1>3. ASSUME NEW r \in Req, Create(r) \/ Update(r) \/ Delete(r) PROVE PagesCurrent'
  <2>1. Goto(r, "bust") BY <1>3 DEF Create, Update, Delete
  <2>2. pc'[r] = "bust" BY <2>1 DEF Goto, IInv, TypeOK
  <2> QED BY <2>2 DEF PagesCurrent
<1>4. ASSUME NEW v \in Values, DeleteParent(v) PROVE PagesCurrent'
  <2>1. Cascading /\ cache' = cache BY <1>4 DEF DeleteParent, Cascading
  <2> SUFFICES ASSUME NEW k \in Keys, cache'[k] # None PROVE AgeBounded(k)'
    BY DEF PagesCurrent
  <2>2. CASE Valid(cache'[k])
    <3>1. LeavesBehind(k) BY <2>1, <2>2 DEF LeavesBehind
    <3>2. behind'[k] = 0 BY <3>1 DEF Watch
    <3>3. cache'[k] \in Entries BY DEF IInv, TypeOK
    <3>4. cache'[k].left \in -1..TTL BY <3>3 DEF Entries
    <3> QED BY <3>2, <3>4, BoundAssumption DEF AgeBounded
  <2>3. CASE ~Valid(cache'[k]) BY <2>3, Ageing
  <2> QED BY <2>2, <2>3
<1>5. behind' \in [Keys -> 0..TTL + 1] BY Ageing
<1> QED BY <1>1, <1>2, <1>3, <1>4, <1>5 DEF HInv

\* Where it did not, a list that fills the cache with what it read fills it with
\* what the table holds, or has been overtaken.
LEMMA SameReads ==
    ASSUME IInv, HInv, Next, Watch, rows' = rows
    PROVE  ReadsCurrent'
<1> SUFFICES ASSUME NEW r \in Req, NEW k \in Keys,
                    pc'[r] \in {"select", "set"}, r \notin overtaken', Key(r)' = k
             PROVE  /\ total'[r] = Current(k)'.total
                    /\ pc'[r] = "set" => items'[r] = Current(k)'.items
  BY DEF ReadsCurrent
<1>0. r \notin overtaken /\ Current(k)' = Current(k)
  BY CurrentSame DEF Watch
<1>1. ASSUME pc'[r] = pc[r], call'[r] = call[r], total'[r] = total[r], items'[r] = items[r]
      PROVE  /\ total'[r] = Current(k)'.total
             /\ pc'[r] = "set" => items'[r] = Current(k)'.items
  <2>1. Key(r) = k BY <1>1 DEF Key, cacheKey, Scope
  <2> QED BY <1>0, <1>1, <2>1 DEF HInv, ReadsCurrent
<1>2. ASSUME NEW u \in Req, Arrive(u) \/ Step(u)
      PROVE  /\ total'[r] = Current(k)'.total
             /\ pc'[r] = "set" => items'[r] = Current(k)'.items
  <2>1. CASE u # r BY <1>1, <1>2, <2>1, OthersSame
  <2>2. CASE u = r
    <3>1. Count(r) \/ Select(r) BY <1>2, <2>2, ReadingMoves
    <3>2. call' = call
      BY <3>1 DEF Count, Select, Respond, Goto, IInv, TypeOK
    <3>3. /\ Key(r) = k
          /\ Current(k).items = Selected(Scope(call[r].user), call[r].filter)
          /\ Current(k).total = Cardinality(Selected(Scope(call[r].user), call[r].filter))
      BY <3>2 DEF Key, cacheKey, Current, Scope
    <3>4. CASE Count(r)
      <4>1. /\ pc'[r] = "select"
            /\ total'[r] = Cardinality(Selected(Scope(call[r].user), call[r].filter))
        BY <3>4 DEF Count, Respond, Goto, IInv, TypeOK
      <4> QED BY <1>0, <3>3, <4>1
    <3>5. CASE Select(r)
      <4>1. /\ pc[r] = "select" /\ total'[r] = total[r]
            /\ items'[r] = Selected(Scope(call[r].user), call[r].filter)
        BY <3>5 DEF Select, Respond, Goto, IInv, TypeOK
      <4> QED BY <1>0, <3>3, <4>1 DEF HInv, ReadsCurrent
    <3> QED BY <3>1, <3>4, <3>5
  <2> QED BY <2>1, <2>2
<1>3. ASSUME NEW v \in Values, CreateParent(v) \/ DeleteParent(v)
      PROVE  /\ total'[r] = Current(k)'.total
             /\ pc'[r] = "set" => items'[r] = Current(k)'.items
  BY <1>1, <1>3 DEF CreateParent, DeleteParent
<1>4. CASE Tick \/ Janitor BY <1>1, <1>4 DEF Tick, Janitor
<1>5. CASE Restart BY <1>5 DEF Restart
<1> QED BY <1>2, <1>3, <1>4, <1>5 DEF Next

LEMMA SamePages ==
    ASSUME IInv, HInv, Next, Watch, IInv', rows' = rows
    PROVE  PagesCurrent'
<1> SUFFICES ASSUME NEW k \in Keys, cache'[k] # None, \A r \in Req : pc'[r] # "bust"
             PROVE  cache'[k].page = Current(k)' \/ AgeBounded(k)'
  BY DEF PagesCurrent
<1>0. Current(k)' = Current(k)
  BY CurrentSame
<1>1. ASSUME cache'[k] = cache[k],
             \A r \in Req : pc[r] # "bust", \A r \in Req : Filling(r) => Key(r) # k
      PROVE  cache'[k].page = Current(k)' \/ AgeBounded(k)'
  <2>1. CASE ~Valid(cache'[k]) BY <2>1, Ageing
  <2>2. CASE Valid(cache'[k])
    <3>1. ~Tick
      <4>1. cache[k] \in Entries /\ cache[k] # None BY <1>1 DEF IInv, TypeOK
      <4>2. cache[k].left \in Int BY <4>1, BoundAssumption DEF Entries
      <4>3. Tick => cache'[k].left = cache[k].left - 1
        BY <4>1, <1>1, <2>2 DEF Tick, Entries
      <4> QED BY <1>1, <4>2, <4>3
    <3>2. behind'[k] = behind[k] BY <1>1, <2>2, <3>1, Ageing
    <3> QED BY <1>0, <1>1, <3>2 DEF HInv, PagesCurrent, AgeBounded
  <2> QED BY <2>1, <2>2
<1>2. ASSUME NEW u \in Req, Set(u)
      PROVE  cache'[k].page = Current(k)' \/ AgeBounded(k)'
  <2>1. /\ pc[u] = "set" /\ pc' = [pc EXCEPT ![u] = "answer"]
        /\ cache' = [cache EXCEPT ![Key(u)] =
                       [page |-> [items |-> items[u], total |-> total[u]], left |-> TTL]]
    BY <1>2 DEF Set, Goto
  <2>2. Filling(u) /\ \A r \in Req : Filling(r) => r = u
    BY <2>1 DEF Filling, IInv, TypeOK
  <2>3. \A r \in Req : pc[r] # "bust"
    BY <2>1 DEF IInv, TypeOK
  <2>4. CASE Key(u) # k
    BY <1>1, <2>1, <2>2, <2>3, <2>4 DEF IInv, TypeOK
  <2>5. CASE Key(u) = k /\ u \in overtaken
    <3>1. behind'[k] = 0 BY <2>2, <2>5 DEF Watch, LeavesBehind
    <3>2. cache'[k].left = TTL BY <2>1, <2>5 DEF IInv, TypeOK
    <3> QED BY <3>1, <3>2, BoundAssumption DEF AgeBounded
  <2>6. CASE Key(u) = k /\ u \notin overtaken
    <3>1. cache'[k].page = [items |-> items[u], total |-> total[u]]
      BY <2>1, <2>6 DEF IInv, TypeOK
    <3>2. items[u] = Current(k).items /\ total[u] = Current(k).total
      BY <2>1, <2>6 DEF HInv, ReadsCurrent
    <3>3. Current(k) = [items |-> Current(k).items, total |-> Current(k).total]
      BY DEF Current
    <3> QED BY <1>0, <3>1, <3>2, <3>3
  <2> QED BY <2>4, <2>5, <2>6
<1>3. ASSUME NEW u \in Req, Bust(u)
      PROVE  cache'[k].page = Current(k)' \/ AgeBounded(k)'
  BY <1>3 DEF Bust
<1>4. ASSUME NEW u \in Req, Arrive(u) \/ Step(u), ~Set(u), ~Bust(u)
      PROVE  cache'[k].page = Current(k)' \/ AgeBounded(k)'
  <2>1. cache' = cache
    BY <1>4 DEF Arrive, Begin, Step, GetPage, Get, Count, Select, Write, Create, Update, Delete,
                Find, Answer
  <2>2. pc[u] # "bust" /\ ~Filling(u)
    BY <1>4 DEF Filling, Arrive, Begin, FirstStep, Step, GetPage, Get, Count, Select, Write,
                Create, Update, Delete, Find, Answer
  <2>3. \A r \in Req : r # u => pc'[r] = pc[r]
    BY <1>4, OthersSame
  <2>4. \A r \in Req : pc[r] # "bust" /\ ~Filling(r)
    BY <2>2, <2>3 DEF Filling
  <2> QED BY <1>1, <2>1, <2>4
<1>5. ASSUME NEW v \in Values, CreateParent(v) \/ DeleteParent(v)
      PROVE  cache'[k].page = Current(k)' \/ AgeBounded(k)'
  <2>1. cache' = cache /\ pc' = pc BY <1>5 DEF CreateParent, DeleteParent
  <2> QED BY <1>1, <2>1 DEF Filling
<1>6. CASE Tick
  <2>1. pc' = pc /\ \A r \in Req : ~Filling(r) BY <1>6 DEF Tick, Filling
  <2>2. CASE ~Valid(cache'[k]) BY <2>2, Ageing
  <2>3. CASE Valid(cache'[k])
    <3>1. cache[k] # None /\ Valid(cache[k])
      BY <1>6, <2>3 DEF Tick, Valid
    <3>2. cache[k] \in Entries BY <3>1 DEF IInv, TypeOK
    <3>3. cache[k].left \in 0..TTL BY <3>1, <3>2 DEF Entries, Valid
    <3>4. cache'[k].page = cache[k].page /\ cache'[k].left = cache[k].left - 1
      BY <1>6, <3>1, <3>2 DEF Tick, Entries
    <3>5. cache[k].page = Current(k) \/ AgeBounded(k)
      BY <2>1, <3>1 DEF HInv, PagesCurrent
    <3>6. behind[k] \in 0..TTL + 1 BY DEF HInv
    <3>7. CASE cache[k].page = Current(k) BY <1>0, <3>4, <3>7
    <3>8. CASE AgeBounded(k)
      <4>1. behind[k] <= TTL BY <3>3, <3>6, <3>8, BoundAssumption DEF AgeBounded
      <4>2. behind'[k] = behind[k] + 1 BY <1>6, <2>1, <2>3, <4>1, Ageing
      <4> QED BY <3>3, <3>4, <3>6, <3>8, <4>2, BoundAssumption DEF AgeBounded
    <3> QED BY <3>5, <3>7, <3>8
  <2> QED BY <2>2, <2>3
<1>8. CASE Janitor
  <2>1. pc' = pc BY <1>8 DEF Janitor
  <2>2. cache'[k] = cache[k] BY <1>8 DEF Janitor
  <2> QED BY <1>1, <2>1, <2>2 DEF Filling
<1>7. CASE Restart BY <1>7 DEF Restart
<1> QED BY <1>2, <1>3, <1>4, <1>5, <1>6, <1>7, <1>8 DEF Next

\* A page the cache serves differs from the table only for a reason the code
\* gives, an unfinished write, an overtaken list or a deleted parent, and with the
\* latter two for no longer than a page is kept.
THEOREM PagesAreCurrent == SpecHistory => []OnlyOvertakenPagesAreStale
<1>1. InitHistory => IInv /\ HInv
  <2>1. Init => IInv BY InitInv
  <2>2. InitHistory => HInv
    BY BoundAssumption DEF InitHistory, Init, HInv, ReadsCurrent, PagesCurrent
  <2> QED BY <2>1, <2>2 DEF InitHistory
<1>2. IInv /\ HInv /\ [Next /\ Watch]_historyVars => IInv' /\ HInv'
  <2> SUFFICES ASSUME IInv, HInv, [Next /\ Watch]_historyVars PROVE IInv' /\ HInv'
    OBVIOUS
  <2>1. CASE UNCHANGED historyVars
    BY <2>1, NextInv
    DEF historyVars, vars, HInv, ReadsCurrent, PagesCurrent, AgeBounded, Key, cacheKey, Scope,
        Current, Selected
  <2>2. CASE Next /\ Watch
    <3>1. IInv' BY <2>2, NextInv
    <3>2. CASE rows' # rows BY <2>2, <3>1, <3>2, ChangedRows
    <3>3. CASE rows' = rows
      BY <2>2, <3>1, <3>3, Ageing, SameReads, SamePages DEF HInv
    <3> QED BY <3>1, <3>2, <3>3
  <2> QED BY <2>1, <2>2
<1>3. IInv /\ HInv => OnlyOvertakenPagesAreStale
  <2> SUFFICES ASSUME IInv, HInv, NEW k \in Keys, Valid(cache[k]),
                      cache[k].page # Current(k), \A r \in Req : pc[r] # "bust"
               PROVE  behind[k] <= TTL
    BY DEF OnlyOvertakenPagesAreStale, Fresh
  <2>1. cache[k] \in Entries /\ cache[k].left >= 0 BY DEF IInv, TypeOK, Valid
  <2>2. cache[k].left \in 0..TTL BY <2>1, BoundAssumption DEF Entries
  <2>3. AgeBounded(k) BY <2>1 DEF HInv, PagesCurrent, Valid
  <2>4. behind[k] \in 0..TTL + 1 BY DEF HInv
  <2> QED BY <2>2, <2>3, <2>4, BoundAssumption DEF AgeBounded
<1> QED BY <1>1, <1>2, <1>3, PTL DEF SpecHistory
=============================================================================
