------------------------------ MODULE Browser ------------------------------
(***************************************************************************)
(* One browser and the CSRF middleware (middleware/csrf.go, the cookies of *)
(* middleware/auth.go, static/js/lib/api.js and auth.js, login.js,         *)
(* register.js, and the list page the builder renders).                    *)
(*                                                                         *)
(* The tabs of the browser share one jar with the two cookies of the app.  *)
(* Every page is a shell and a script; a script makes fetches, two at a    *)
(* time at most: one that loads ("script"), one that a pressed button      *)
(* started ("submit").  A fetch is sent with the cookies of that moment    *)
(* and answered later, and the cookies an answer sets enter the jar when   *)
(* it is delivered, so that fetches of several tabs overtake each other.   *)
(* A write reads document.cookie for its header one step before the        *)
(* browser attaches the cookies.  An answer can be lost on the way back,   *)
(* or be one that is not the API's envelope.  The files under /static/ a   *)
(* page is made of are not fetched here: they come between its shell and   *)
(* its script, and are given a token as any GET that comes without one.    *)
(*                                                                         *)
(* The register page has the script of the login page, and a delete button *)
(* is a form that stays disabled until the list is there again.  The       *)
(* browser drops a cookie when its Max-Age has passed; whether the server  *)
(* still accepts a session is AuthService's matter, here a guarded request *)
(* with one may be denied as any other.                                    *)
(***************************************************************************)
EXTENDS Integers, FiniteSets

CONSTANTS
    Tab,        \* the tabs of the browser
    Tokens,     \* the random CSRF tokens, numbers: enough for one that is new
    TTL,        \* SessionTTL, which both cookies are given
    Cuts,       \* whether an answer may come back without an envelope
    Rejects,    \* whether a fetch may fail outright
    None,       \* no cookie, no header, no fetch
    MaxFetches  \* bound of the exploration: fetches under way when the user acts again

ASSUME TTLAssumption   == TTL \in Nat \ {0}
ASSUME TokenAssumption == Tokens \subseteq Nat
ASSUME FaultAssumption == Cuts \in BOOLEAN /\ Rejects \in BOOLEAN

VARIABLES
    token,          \* the csrf_token cookie, or None
    token_left,     \* what is left of its Max-Age
    session_left,   \* what is left of the gova_session cookie's, 0 if there is none
    page,           \* what each tab shows
    button,         \* the button of its form
    net             \* the fetches under way, by tab and by what awaits them

jar  == <<token, token_left, session_left>>
vars == <<token, token_left, session_left, page, button, net>>

----------------------------------------------------------------------------
\* Values.

Pages   == {"blank", "login", "list"}               \* the home page has no form either
Buttons == {"none", "ready", "disabled", "stuck"}   \* stuck: disabled, and no script left
Slots   == {"script", "submit"}

Shells  == {"home", "login", "list"}                \* GET of a page
Gets    == Shells \cup {"me", "load", "reload"}     \* /auth/me, loadList, loadList after a write
Writes  == {"signin", "create", "delete"}           \* POST login, POST and DELETE of a resource

MaybeToken == Tokens \cup {None}

\* A write that has its header and not yet its cookies.
Composed == [at : {"composed"}, kind : Writes, header : MaybeToken]
\* On its way to the server, with the cookies it carries.
Requests == [at : {"sent"}, kind : Gets \cup Writes, header : MaybeToken,
             cookie : MaybeToken, session : BOOLEAN]
\* On its way back, with the cookies it sets; bare: a GET that came without a
\* token.  garbled: no envelope.  null: a body that is the JSON null.  rejected: no
\* answer, fetch() itself rejects.
Answers  == [at : {"answered"}, kind : Gets \cup Writes,
             status : {"ok", "denied", "forbidden", "garbled", "null", "rejected"},
             mint : MaybeToken, login : BOOLEAN, bare : BOOLEAN]

ASSUME NoneAssumption == None \notin Tokens \cup Composed \cup Requests \cup Answers

Request(kind, header) ==
    [at |-> "sent", kind |-> kind, header |-> header,
     cookie |-> token, session |-> session_left > 0]

\* generateToken: 32 random bytes nobody has.  Which ones does not matter, so it is
\* the least.
Unused(k) ==
    /\ k # token
    /\ \A f \in Tab \X Slots : net[f] # None =>
          /\ net[f].at # "answered" => k # net[f].header
          /\ net[f].at = "sent"     => k # net[f].cookie
          /\ net[f].at = "answered" => k # net[f].mint

New(k) == Unused(k) /\ \A j \in Tokens : Unused(j) => k <= j

----------------------------------------------------------------------------
\* The server: middleware.CSRF, and what the handler behind it answers.

\* Regression: a missing cookie is compared as the empty string.
VerifiedEmpty(m) ==
    \/ m.kind \in Gets
    \/ m.cookie = None /\ ~m.session
    \/ m.header = m.cookie

\* Safe methods and callers without cookies are let through.  Everybody else must
\* send the cookie's value as a header; for a missing cookie a token nobody knows
\* is put in its place.
Verified(m) ==
    \/ m.kind \in Gets
    \/ m.cookie = None /\ ~m.session
    \/ m.cookie # None /\ m.header = m.cookie

\* Regression: a token is minted on every safe request.
MintedAlways(m) == IF m.kind \in Gets THEN {k \in Tokens : New(k)} ELSE {None}

\* The token is minted on safe requests that came without one.
Minted(m) == IF m.kind \in Gets /\ m.cookie = None THEN {k \in Tokens : New(k)} ELSE {None}

\* Home and login are open, signing in is right or wrong, the rest is guarded;
\* a guarded request with a session may be denied too (revoked, invalid, failed).
Statuses(m) ==
    CASE ~Verified(m)                -> {"forbidden"}
      [] m.kind \in {"home", "login"} -> {"ok"}
      [] m.kind = "signin"           -> {"ok", "denied"}
      [] OTHER                       -> IF m.session THEN {"ok", "denied"} ELSE {"denied"}

Serve(f) ==
    /\ net[f] # None /\ net[f].at = "sent"
    /\ \E status \in Statuses(net[f]), k \in Minted(net[f]) :
          net' = [net EXCEPT ![f] =
                     [at |-> "answered", kind |-> net[f].kind, status |-> status, mint |-> k,
                      login |-> net[f].kind = "signin" /\ status = "ok",
                      bare |-> net[f].kind \in Gets /\ net[f].cookie = None]]
    /\ UNCHANGED <<jar, page, button>>

----------------------------------------------------------------------------
\* The browser: what the user does.

\* A tab is opened, reloaded or sent elsewhere; what it was doing is dropped.
Navigate(t, kind) ==
    /\ page' = [page EXCEPT ![t] = "blank"]
    /\ button' = [button EXCEPT ![t] = "none"]
    /\ net' = [net EXCEPT ![<<t, "script">>] = [at |-> "sent", kind |-> kind, header |-> None,
                                            cookie |-> token', session |-> session_left' > 0],
                          ![<<t, "submit">>] = None]

\* Bound: the user waits for one of them.
Patient == Cardinality({f \in Tab \X Slots : net[f] # None}) < MaxFetches

Open(t) ==
    /\ Patient
    /\ UNCHANGED jar
    /\ \E kind \in Shells : Navigate(t, kind)

\* The button is pressed: post() or del() reads the token out of document.cookie.
Press(t) ==
    /\ Patient
    /\ button[t] = "ready"
    /\ net[<<t, "submit">>] = None     \* bound: one call of a form at a time
    /\ \E kind \in IF page[t] = "login" THEN {"signin"} ELSE {"create", "delete"} :
          net' = [net EXCEPT ![<<t, "submit">>] =
                     [at |-> "composed", kind |-> kind, header |-> token]]
    /\ button' = [button EXCEPT ![t] = "disabled"]
    /\ UNCHANGED <<jar, page>>

\* The browser sends it, with the cookies it has by then.
Attach(f) ==
    /\ net[f] # None /\ net[f].at = "composed"
    /\ net' = [net EXCEPT ![f] = Request(net[f].kind, net[f].header)]
    /\ UNCHANGED <<jar, page, button>>

----------------------------------------------------------------------------
\* What the scripts do with an answer.

\* The script of f goes on with another fetch, or is done.
Fetch(f, kind) ==
    net' = [net EXCEPT ![f] = [at |-> "sent", kind |-> kind, header |-> None,
                               cookie |-> token', session |-> session_left' > 0]]

Done(f) == net' = [net EXCEPT ![f] = None]

Show(t, p, b) ==
    /\ page' = [page EXCEPT ![t] = p]
    /\ button' = [button EXCEPT ![t] = b]

\* A shell: the login form is there at once, the list page first asks who calls.
\* RequirePageAuth sends a stranger to /login.
AfterShell(f, kind, ok) ==
    /\ kind \in Shells
    /\ CASE ok /\ kind = "home"  -> Show(f[1], "blank", "none") /\ Done(f)
         [] ok /\ kind = "login" -> Show(f[1], "login", "ready") /\ Fetch(f, "me")
         [] ok /\ kind = "list"  -> Show(f[1], "list", "none") /\ Fetch(f, "me")
         [] ~ok                  -> Navigate(f[1], "login")

\* redirectIfAuthed on the login page, requireAuth on the list page.
AfterMe(f, kind, ok) ==
    /\ kind = "me"
    /\ CASE page[f[1]] = "login" /\ ok  -> Navigate(f[1], "home")
         [] page[f[1]] = "login" /\ ~ok -> Done(f) /\ UNCHANGED <<page, button>>
         [] page[f[1]] = "list" /\ ok   -> Show(f[1], "list", "ready") /\ Fetch(f, "load")
         [] page[f[1]] = "list" /\ ~ok  -> Navigate(f[1], "login")

\* loadList shows the rows, or a message in their place; the rows of a reload
\* have delete buttons of their own.
AfterList(f, kind, ok) ==
    /\ kind \in {"load", "reload"}
    /\ Done(f)
    /\ IF kind = "reload" THEN Show(f[1], page[f[1]], "ready") ELSE UNCHANGED <<page, button>>

\* login.js and register.js.
AfterSignin(f, kind, ok) ==
    /\ kind = "signin"
    /\ IF ok THEN Navigate(f[1], "home") ELSE Show(f[1], page[f[1]], "ready") /\ Done(f)

\* The form of a list page: its button is enabled at once, then the list loaded.
AfterCreate(f, kind, ok) ==
    /\ kind = "create"
    /\ Show(f[1], page[f[1]], "ready")
    /\ IF ok THEN Fetch(f, "reload") ELSE Done(f)

\* Regression: the delete button is enabled again by the reload only.
AfterDeleteNotEnabling(f, kind, ok) ==
    /\ kind = "delete"
    /\ UNCHANGED <<page, button>>
    /\ IF ok THEN Fetch(f, "reload") ELSE Done(f)

\* A delete button: it goes with its row, which the reload takes away.
AfterDelete(f, kind, ok) ==
    /\ kind = "delete"
    /\ IF ok THEN UNCHANGED <<page, button>> /\ Fetch(f, "reload")
             ELSE Show(f[1], page[f[1]], "ready") /\ Done(f)

AfterWrite(f, kind, ok) ==
    AfterSignin(f, kind, ok) \/ AfterCreate(f, kind, ok) \/ AfterDelete(f, kind, ok)

Resume(f, kind, ok) ==
    AfterShell(f, kind, ok) \/ AfterMe(f, kind, ok) \/ AfterList(f, kind, ok) \/ AfterWrite(f, kind, ok)

\* The script that awaits f is gone: a call of a pressed button leaves it disabled
\* for good, a page that does not load is blank.
Throw(f, kind) ==
    /\ Done(f)
    /\ CASE kind \in Shells -> Show(f[1], "blank", "none")
         [] button[f[1]] = "disabled" /\ f[2] = "submit" -> Show(f[1], page[f[1]], "stuck")
         [] OTHER -> UNCHANGED <<page, button>>

----------------------------------------------------------------------------
\* The network.

\* Regression: csrf_token without a Max-Age, as it once was.
SetCookiesSessionOnly(a) ==
    /\ token' = IF a.mint # None THEN a.mint ELSE token
    /\ token_left' = token_left
    /\ session_left' = IF a.login THEN TTL ELSE session_left

\* The cookies an answer sets.
SetCookies(a) ==
    /\ token' = IF a.mint # None THEN a.mint ELSE token
    /\ token_left' = IF a.mint # None THEN TTL ELSE token_left
    /\ session_left' = IF a.login THEN TTL ELSE session_left

\* login.js, register.js and the form of a list page enable their button before
\* they look at the answer; a delete button and loadList come after res.ok.
EnabledFirst(kind) == kind \in {"signin", "create"}

\* Regression: res.json() is not caught.
ReceiveUncaught(f, kind, status) ==
    CASE status \in {"rejected", "garbled"}            -> Throw(f, kind)
      [] status = "null" /\ ~EnabledFirst(kind)        -> Throw(f, kind)
      [] OTHER                                         -> Resume(f, kind, status = "ok")

\* fetch() throws past envelope(), which makes an envelope where none is but takes
\* a null for one, and that throws where it is asked for .ok; a page that is none
\* stays blank.
Receive(f, kind, status) ==
    CASE status = "rejected"                           -> Throw(f, kind)
      [] status = "null" /\ ~EnabledFirst(kind)        -> Throw(f, kind)
      [] status = "garbled" /\ kind \in Shells        -> Throw(f, kind)
      [] OTHER                                         -> Resume(f, kind, status = "ok")

Deliver(f) ==
    /\ net[f] # None /\ net[f].at = "answered"
    /\ SetCookies(net[f])
    /\ Receive(f, net[f].kind, net[f].status)

\* What the network makes of f, served or not.
Lost(f, status) ==
    /\ net[f] # None /\ net[f].at \in {"sent", "answered"}
    /\ net' = [net EXCEPT ![f] = [at |-> "answered", kind |-> net[f].kind, status |-> status,
                                  mint |-> None, login |-> FALSE, bare |-> FALSE]]
    /\ UNCHANGED <<jar, page, button>>

\* An answer that is not the API's: of a proxy, in place of the server's.
Cut(f) == Cuts /\ \E status \in {"garbled", "null"} : Lost(f, status)

\* The server's answer, cut short behind its cookies.
CutShort(f) ==
    /\ Cuts
    /\ net[f] # None /\ net[f].at = "answered" /\ net[f].status # "rejected"
    /\ net' = [net EXCEPT ![f].status = "garbled"]
    /\ UNCHANGED <<jar, page, button>>

\* No answer at all.
Reject(f) == Rejects /\ Lost(f, "rejected")

\* Time passes, and a cookie whose time is up is dropped.
Tick ==
    /\ token # None \/ session_left > 0
    /\ token_left' = IF token_left > 0 THEN token_left - 1 ELSE 0
    /\ token' = IF token_left > 1 THEN token ELSE None
    /\ session_left' = IF session_left > 0 THEN session_left - 1 ELSE 0
    /\ UNCHANGED <<page, button, net>>

----------------------------------------------------------------------------
Fetches == Tab \X Slots

User(t)  == Open(t) \/ Press(t)
Step(f)  == Attach(f) \/ Serve(f) \/ Deliver(f)
Fault(f) == Cut(f) \/ CutShort(f) \/ Reject(f)

Init ==
    /\ token = None /\ token_left = 0 /\ session_left = 0
    /\ page = [t \in Tab |-> "blank"]
    /\ button = [t \in Tab |-> "none"]
    /\ net = [f \in Fetches |-> None]

Next ==
    \/ \E t \in Tab : User(t)
    \/ \E f \in Fetches : Step(f) \/ Fault(f)
    \/ Tick

Spec == Init /\ [][Next]_vars
=============================================================================
