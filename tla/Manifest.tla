------------------------------ MODULE Manifest ------------------------------
(***************************************************************************)
(* api.json, and what a builder command does to it: pure operators         *)
(* (builder/manifest.go, builder/tools.go).                                *)
(*                                                                         *)
(* A manifest is three tables keyed the way the upserts key them: models   *)
(* by name, endpoints by (method, path), pages by path; a key with no row  *)
(* holds Absent.  The rows keep what properties can tell apart: whether a  *)
(* model is owned and which fields it has (next to id and created_at,      *)
(* which every row lists), which handler a route is bound to, which shell  *)
(* a page serves, and whether either asks for a signed-in caller.  The     *)
(* path of a resource n, its table, its page and the page's file are all   *)
(* spelled from n, so n stands for each of them.  What stands under the    *)
(* word Regression is used by no specification (see RateLimit).            *)
(***************************************************************************)
EXTENDS Schema

CONSTANT Ops    \* the methods a resource path answers (five in the code)

ASSUME OpsAssumption == Ops # {}

Routes == Names \X Ops

ModelRows    == [owned : BOOLEAN, fields : FieldLists]
Handlers     == [by : {"resource", "handler"}, name : Names, op : Ops]
EndpointRows == [handler : Handlers, auth : BOOLEAN]
PageRows     == [file : Names, auth : BOOLEAN]

ASSUME AbsentAssumption ==
    Absent \notin Names \cup ModelRows \cup EndpointRows \cup PageRows

Manifests == [models    : [Names -> ModelRows \cup {Absent}],
              endpoints : [Routes -> EndpointRows \cup {Absent}],
              pages     : [Names -> PageRows \cup {Absent}]]

\* readManifestAt on a missing file.
EmptyManifest == [models    |-> [n \in Names |-> Absent],
                  endpoints |-> [r \in Routes |-> Absent],
                  pages     |-> [n \in Names |-> Absent]]

----------------------------------------------------------------------------
\* Commands.  A resource that is both owned and public is refused outright.

ResourceCmds == {c \in [kind : {"resource"}, name : Names, owned : BOOLEAN,
                        auth : BOOLEAN, fields : FieldLists] : c.owned => c.auth}
ModelCmds    == [kind : {"model"}, name : Names, owned : BOOLEAN,
                 fields : FieldLists]
PageCmds     == [kind : {"page"}, name : Names, path : Names, auth : BOOLEAN]
HandlerCmds  == [kind : {"handler"}, name : Names, route : Routes, auth : BOOLEAN]

Registrations == ResourceCmds \cup ModelCmds \cup PageCmds \cup HandlerCmds

\* The rows a command registers: fieldsToModel, resourceEndpoints, listPage and
\* the literal rows of createHandler and createPage.
ModelsOf(c) ==
    IF c.kind \in {"resource", "model"}
    THEN [n \in {c.name} |-> [owned |-> c.owned, fields |-> c.fields]]
    ELSE [n \in {} |-> Absent]

EndpointsOf(c) ==
    CASE c.kind = "resource" ->
            [r \in {c.name} \X Ops |->
                [handler |-> [by |-> "resource", name |-> c.name, op |-> r[2]],
                 auth |-> c.auth]]
      [] c.kind = "handler" ->
            [r \in {c.route} |->
                [handler |-> [by |-> "handler", name |-> c.name, op |-> r[2]],
                 auth |-> c.auth]]
      [] OTHER -> [r \in {} |-> Absent]

\* Regression: the shell is recorded with its directory.
PagesOfWithDir(c) ==
    CASE c.kind = "resource" -> [n \in {c.name} |-> [file |-> <<"page", c.name>>, auth |-> c.auth]]
      [] c.kind = "page"     -> [n \in {c.path} |-> [file |-> <<"page", c.name>>, auth |-> c.auth]]
      [] OTHER -> [n \in {} |-> Absent]

PagesOf(c) ==
    CASE c.kind = "resource" -> [n \in {c.name} |-> [file |-> c.name, auth |-> c.auth]]
      [] c.kind = "page"     -> [n \in {c.path} |-> [file |-> c.name, auth |-> c.auth]]
      [] OTHER -> [n \in {} |-> Absent]

----------------------------------------------------------------------------
\* The upserts.

\* UpsertEndpoint and UpsertPage refuse to give a route another handler, or a
\* path another shell.
Conflict(api, c) ==
    \/ \E r \in DOMAIN EndpointsOf(c) :
          /\ api.endpoints[r] # Absent
          /\ api.endpoints[r].handler # EndpointsOf(c)[r].handler
    \/ \E n \in DOMAIN PagesOf(c) :
          /\ api.pages[n] # Absent
          /\ api.pages[n].file # PagesOf(c)[n].file

Overlay(table, rows) ==
    [k \in DOMAIN table |-> IF k \in DOMAIN rows THEN rows[k] ELSE table[k]]

Upsert(api, c) == [models    |-> Overlay(api.models, ModelsOf(c)),
                   endpoints |-> Overlay(api.endpoints, EndpointsOf(c)),
                   pages     |-> Overlay(api.pages, PagesOf(c))]

\* The rows of c are in the table, as c spelled them.
Holds(table, rows) == \A k \in DOMAIN rows : table[k] = rows[k]
=============================================================================
