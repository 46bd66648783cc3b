------------------------ MODULE ResourceProperties ------------------------
(***************************************************************************)
(* What Resource must get right.                                           *)
(***************************************************************************)
EXTENDS Resource

\* Type correctness; in particular what is answered and cached are rows, never a
\* zero value (model.go.tmpl GetPage and Find), and no row references one that is
\* gone (db.go 36, _foreign_keys=on).
TypeOK ==
    /\ rows \in [Ids -> Rows \cup {None}]
    /\ parents \subseteq Values
    /\ \A i \in Ids : rows[i] # None => rows[i].val \in parents
    /\ cache \in [Keys -> Entries \cup {None}]
    /\ pc \in [Req -> PCs]
    /\ call \in [Req -> Calls \cup {None}]
    /\ id \in [Req -> 0..MaxRows]
    /\ total \in [Req -> Nat]
    /\ items \in [Req -> SUBSET Found]

\* What a request can rely on where it stands: its call, and that nothing is left
\* of the request before it.
RequestLocals ==
    \A r \in Req :
        /\ pc[r] # "idle" => call[r] \in Calls
        /\ pc[r] \in {"get", "count", "select", "set"} => call[r].filter \in Queries
        /\ pc[r] = "exec" /\ call[r].kind \in {"create", "update"} => call[r].val \in Values
        /\ pc[r] = "idle" => items[r] = {}

\* What a request is about to answer, or to cache, and what the cache keeps for
\* a user holds that user's rows only, cached by whomever and however long ago
\* (DECISIONS.md section 12: "the owner is part of the cache key"; model.go.tmpl
\* 76-79).
OwnPagesOnly ==
    /\ \A r \in Req, x \in Found :
          x \in items[r] => x[2].owner = Scope(call[r].user)
    /\ \A k \in Keys, x \in Found :
          cache[k] # None /\ x \in cache[k].page.items => x[2].owner = k[1]

\* A row is changed and deleted only by a request of its owner, or goes with the
\* row it references, and never changes hands (DECISIONS.md section 12: "every
\* generated query carries user_id = ?").
OwnersWriteOwn ==
    [][\A i \in Ids :
          (rows[i] # None /\ rows'[i] # rows[i]) =>
             /\ rows'[i] # None => rows'[i].owner = rows[i].owner
             /\ \/ rows'[i] = None /\ rows[i].val \in parents \ parents'
                \/ \E r \in Req : /\ pc[r] = "exec" /\ pc'[r] = "bust"
                                  /\ rows[i].owner = Scope(call[r].user)]_vars

\* The page a query would get from the table as it stands.
Current(k) == LET s == Selected(k[1], k[2])
              IN  [items |-> s, total |-> Cardinality(s)]

Fresh(k) == Valid(cache[k]) => cache[k].page = Current(k)

NoWriter == \A r \in Req : pc[r] = "idle" \/ call[r].kind \notin WriteKinds

\* Once writes to the resource stop, every page the cache serves is, from some time on, the one
\* the table would give: however a stale page got in, and however often it is
\* asked for, it is gone when its five minutes are, and deletes of parents run out
\* of rows to take along (model.go.tmpl 113-115, cache.go Get).
EventuallyFresh == <>[]NoWriter => <>[](\A k \in Keys : Fresh(k))
=============================================================================
