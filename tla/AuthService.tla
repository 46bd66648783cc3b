---------------------------- MODULE AuthService ----------------------------
(***************************************************************************)
(* The authentication service of the app: sessions, bearer tokens, the     *)
(* login and registration rate limiter, and the handlers that use them     *)
(* (middleware/auth.go, models/user.go, models/mobile_token.go,            *)
(* handlers/auth.go, auth_mobile.go, register.go, ratelimit.go).           *)
(*                                                                         *)
(* Every request runs in its own goroutine.  A handler is a sequence of    *)
(* database statements, each atomic (one writer connection, WAL snapshot   *)
(* reads), and other requests run between any two of them: a request       *)
(* therefore has a program counter, and one action is one statement with   *)
(* the branch taken on its outcome.  Requests die with the process; the    *)
(* database survives.                                                      *)
(*                                                                         *)
(* A user id is the user's (normalised) address: addresses are UNIQUE and  *)
(* users are never deleted.  A cookie is its signed payload; a bearer      *)
(* token, 32 random bytes, is a fresh identifier together with what it was *)
(* issued for.                                                             *)
(***************************************************************************)
EXTENDS RateLimit, ClientAddress, FiniteSets

CONSTANTS
    Req,                    \* the requests the server can work on at once
    Kinds,                  \* the endpoints called: a subset of AllKinds
    Emails,                 \* normalised addresses
    InitialAccounts,        \* the addresses registered at the start
    IPv6Prefix,             \* [IPs -> IPs]: what ipv6Prefix makes of each
    Guesses,                \* whether passwords are right: a subset of BOOLEAN
    TokenIds,               \* random bearer tokens
    SessionTTL, mobileTokenTTL,
    maxAttemptsPerIP, maxAttemptsPerAccount,
    ReadsFail, WritesFail,  \* whether database statements may return an error
    None,                   \* no cookie, no bearer token, no value
    MaxLag,                 \* the longest a counting statement waits for its turn
    MaxTime, MaxEpoch, MaxCookies, MaxRows   \* bounds of the exploration only

AllKinds == {"login", "login_token", "register",
             "logout_all", "logout_token", "me"}

LoginKinds == {"login", "login_token"}

ASSUME KindsAssumption    == Kinds \subseteq AllKinds
ASSUME AccountsAssumption == InitialAccounts \subseteq Emails
ASSUME PrefixAssumption   == IPv6Prefix \in [IPs -> IPs]
ASSUME GuessesAssumption  == Guesses \subseteq BOOLEAN
ASSUME TTLAssumption      == SessionTTL \in Nat /\ mobileTokenTTL \in Nat
ASSUME MaximaAssumption   ==
    /\ maxAttemptsPerIP \in Nat \ {0, 1}
    /\ maxAttemptsPerAccount \in Nat \ {0, 1}
ASSUME FaultAssumption    == ReadsFail \in BOOLEAN /\ WritesFail \in BOOLEAN

VARIABLES
    now,            \* the wall clock
    accounts,       \* users: the addresses that have a row
    epoch,          \* users.session_epoch
    mobile_tokens,  \* the rows of mobile_tokens
    rate_limits,    \* the rows of rate_limits
    cookies,        \* every session cookie ever handed to a browser
    bearers,        \* every bearer token ever handed to a client
    pc,             \* for each request, the statement its handler is about to run
    call,           \* ... what it asks, and as whom
    at,             \* ... the clock reading its next statement is given
    epo,            \* ... the epoch it has read
    via,            \* ... the credential it was admitted on, or None
    token           \* ... the bearer token it has stored and not yet sent, or None

users == <<accounts, epoch>>
held  == <<cookies, bearers>>
req   == <<pc, call, at, epo, via, token>>
vars  == <<now, accounts, epoch, mobile_tokens, rate_limits, cookies, bearers,
           pc, call, at, epo, via, token>>

----------------------------------------------------------------------------
\* Values.

Cookie(u, e, t) == [kind |-> "cookie", user |-> u, tag |-> e, exp |-> t]
Bearer(u, k, t) == [kind |-> "bearer", user |-> u, tag |-> k, exp |-> t]

Cookies == [kind : {"cookie"}, user : Emails, tag : Nat, exp : Nat]
Bearers == [kind : {"bearer"}, user : Emails, tag : TokenIds, exp : Nat]

ASSUME NoneAssumption == None \notin Cookies \cup Bearers

\* Bucket keys: one namespace per action, so the key is the isolation.
loginBucket(ip)       == [ns |-> "login", of |-> ip]
loginTokenBucket(ip)  == [ns |-> "login_token", of |-> ip]
loginAccountBucket(e) == [ns |-> "login_account", of |-> e]
registerBucket(ip)    == [ns |-> "register", of |-> IPv6Prefix[ip]]

Buckets == [ns : {"login", "login_token", "register"}, of : IPs]
             \cup [ns : {"login_account"}, of : Emails]

MaxAttempts(b) ==
    IF b.ns = "login_account" THEN maxAttemptsPerAccount ELSE maxAttemptsPerIP

PCs == {"idle", "limit_ip", "limit_account", "lookup",
        "record_ip", "record_account", "clear_ip", "clear_account",
        "create", "read_epoch", "mint", "issue", "send_token",
        "session_user", "bearer_user", "handle", "revoke_token"}

\* The statements that are given a clock reading, taken just before their turn.
Timed == {"limit_ip", "limit_account", "record_ip", "record_account", "issue"}

\* What a request brings: the endpoint, and what that endpoint reads of it.
LoginOrRegister == LoginKinds \cup {"register"}

\* Where a call came from: its caller, its peer, and the CF-Connecting-IP its
\* proxies passed on unwritten.  No handler reads this; it tells what ip is.
Origins == [from : IPs, peer : IPs, passed : Entries]

LoginCalls == [kind : LoginOrRegister, ip : IPs, origin : Origins,
               email : Emails, right : BOOLEAN]
AuthCalls  == [kind : {"me", "logout_all"},
               cookie : Cookies \cup {None}, bearer : Bearers \cup {None}]
TokenCalls == [kind : {"logout_token"}, bearer : Bearers]

IPBucket(q) ==
    CASE q.kind = "login"       -> loginBucket(q.ip)
      [] q.kind = "login_token" -> loginTokenBucket(q.ip)
      [] q.kind = "register"    -> registerBucket(q.ip)

AccountBucket(q) == loginAccountBucket(q.email)

ReadOutcomes  == IF ReadsFail THEN BOOLEAN ELSE {TRUE}
WriteOutcomes == IF WritesFail THEN BOOLEAN ELSE {TRUE}

\* A request reaches its handler's first statement.
Start(r, p, c) ==
    /\ pc[r] = "idle"
    /\ pc' = [pc EXCEPT ![r] = p]
    /\ call' = [call EXCEPT ![r] = c]
    /\ at' = [at EXCEPT ![r] = IF p \in Timed THEN now ELSE 0]
    /\ UNCHANGED <<epo, via, token>>

\* It moves on to its next statement.
Goto(r, p) ==
    /\ pc' = [pc EXCEPT ![r] = p]
    /\ at' = [at EXCEPT ![r] = IF p \in Timed THEN now ELSE 0]
    /\ UNCHANGED <<call, epo, via, token>>

\* The response is written and the request is over.
Respond(r) ==
    /\ pc' = [pc EXCEPT ![r] = "idle"]
    /\ call' = [call EXCEPT ![r] = None]
    /\ at' = [at EXCEPT ![r] = 0]
    /\ epo' = [epo EXCEPT ![r] = 0]
    /\ via' = [via EXCEPT ![r] = None]
    /\ token' = [token EXCEPT ![r] = None]

----------------------------------------------------------------------------
\* Arrivals.  The bounds keep the exploration finite, nothing in the code does.

InFlight(kinds) == Cardinality({r \in Req : pc[r] # "idle" /\ call[r].kind \in kinds})

WithinBounds(kind) ==
    /\ kind \in LoginOrRegister =>
          Cardinality({b \in Buckets : rate_limits[b] # NoRow}) < MaxRows
    /\ kind \in {"login", "register"} =>
          Cardinality(cookies) + InFlight({"login", "register"}) < MaxCookies
    /\ kind = "login_token" =>
          Cardinality(bearers \cup mobile_tokens) + InFlight({"login_token"})
             < Cardinality(TokenIds)
    /\ kind = "logout_all" =>
          \A e \in Emails : epoch[e] + InFlight({"logout_all"}) < MaxEpoch

\* The address a call counts under, and where it came from.
Addresses == {[ip |-> clientIP(d),
               origin |-> [from |-> d.from, peer |-> d.peer, passed |-> d.passed]] :
                 d \in Deliveries}

\* A well-formed login or registration reaches its handler.
Submit(r, kind, a, email, right) ==
    /\ WithinBounds(kind)
    /\ Start(r, "limit_ip", [kind |-> kind, ip |-> a.ip, origin |-> a.origin,
                             email |-> email, right |-> right])
    /\ UNCHANGED <<now, users, mobile_tokens, rate_limits, held>>

\* A request that needs an identity reaches middleware.Auth.  It may carry any
\* cookie and any token that was ever handed out, copies included.
Present(r, kind, cookie, bearer) ==
    /\ WithinBounds(kind)
    /\ Start(r, "session_user", [kind |-> kind, cookie |-> cookie, bearer |-> bearer])
    /\ UNCHANGED <<now, users, mobile_tokens, rate_limits, held>>

\* DELETE logout_token: the handler reads the token from the header itself.
PresentLogoutToken(r, bearer) ==
    /\ Start(r, "revoke_token", [kind |-> "logout_token", bearer |-> bearer])
    /\ UNCHANGED <<now, users, mobile_tokens, rate_limits, held>>

----------------------------------------------------------------------------
\* The limiter's check, first half of authenticate and of RegisterPOST.  A
\* failed read answers 500, a locked bucket 429.

LimitIP(r) ==
    /\ pc[r] = "limit_ip"
    /\ \E ok \in ReadOutcomes :
          IF ~ok \/ IsLimitedAt(rate_limits[IPBucket(call[r])], at[r])
          THEN Respond(r)
          ELSE Goto(r, IF call[r].kind = "register" THEN "record_ip" ELSE "limit_account")
    /\ UNCHANGED <<now, users, mobile_tokens, rate_limits, held>>

LimitAccount(r) ==
    /\ pc[r] = "limit_account"
    /\ \E ok \in ReadOutcomes :
          IF ~ok \/ IsLimitedAt(rate_limits[AccountBucket(call[r])], at[r])
          THEN Respond(r)
          ELSE Goto(r, "lookup")
    /\ UNCHANGED <<now, users, mobile_tokens, rate_limits, held>>

\* FindByEmail and the bcrypt comparison: any error of the lookup is answered
\* like a wrong password, and counted like one.
Lookup(r) ==
    /\ pc[r] = "lookup"
    /\ \E ok \in ReadOutcomes :
          LET proven == ok /\ call[r].email \in accounts /\ call[r].right
          IN  Goto(r, IF proven THEN "clear_ip" ELSE "record_ip")
    /\ UNCHANGED <<now, users, mobile_tokens, rate_limits, held>>

\* RecordAttempt against one bucket, with the clock reading taken before the
\* write got its turn; a failed write is only logged.
Record(r, b, ok) ==
    rate_limits' = IF ok
                   THEN [rate_limits EXCEPT ![b] =
                           RecordAttempt(@, MaxAttempts(b), at[r])]
                   ELSE rate_limits

RecordIP(r) ==
    /\ pc[r] = "record_ip"
    /\ \E ok \in WriteOutcomes : Record(r, IPBucket(call[r]), ok)
    /\ Goto(r, IF call[r].kind = "register" THEN "create" ELSE "record_account")
    /\ UNCHANGED <<now, users, mobile_tokens, held>>

\* Regression: a missing return, the failure path runs on into the success path.
RecordAccountFallingThrough(r) ==
    /\ pc[r] = "record_account"
    /\ \E ok \in WriteOutcomes : Record(r, AccountBucket(call[r]), ok)
    /\ Goto(r, "clear_ip")
    /\ UNCHANGED <<now, users, mobile_tokens, held>>

RecordAccount(r) ==
    /\ pc[r] = "record_account"
    /\ \E ok \in WriteOutcomes : Record(r, AccountBucket(call[r]), ok)
    /\ Respond(r)
    /\ UNCHANGED <<now, users, mobile_tokens, held>>

\* ClearAttempts, likewise only logged when it fails.
Clear(b, ok) ==
    rate_limits' = IF ok THEN [rate_limits EXCEPT ![b] = NoRow] ELSE rate_limits

ClearIP(r) ==
    /\ pc[r] = "clear_ip"
    /\ \E ok \in WriteOutcomes : Clear(IPBucket(call[r]), ok)
    /\ Goto(r, "clear_account")
    /\ UNCHANGED <<now, users, mobile_tokens, held>>

ClearAccount(r) ==
    /\ pc[r] = "clear_account"
    /\ \E ok \in WriteOutcomes : Clear(AccountBucket(call[r]), ok)
    /\ Goto(r, IF call[r].kind = "login" THEN "read_epoch" ELSE "issue")
    /\ UNCHANGED <<now, users, mobile_tokens, held>>

----------------------------------------------------------------------------
\* Credentials are handed out.

\* Regression: addresses are not UNIQUE.
CreateNotUnique(r) ==
    /\ pc[r] = "create"
    /\ \E ok \in WriteOutcomes :
          IF ok
          THEN accounts' = accounts \cup {call[r].email} /\ Goto(r, "read_epoch")
          ELSE Respond(r) /\ UNCHANGED accounts
    /\ UNCHANGED <<now, epoch, mobile_tokens, rate_limits, held>>

\* UserModel.Create: the UNIQUE constraint decides which of two registrations
\* of one address wins; the other answers 409.
Create(r) ==
    /\ pc[r] = "create"
    /\ \E ok \in WriteOutcomes :
          IF ok /\ call[r].email \notin accounts
          THEN accounts' = accounts \cup {call[r].email} /\ Goto(r, "read_epoch")
          ELSE Respond(r) /\ UNCHANGED accounts
    /\ UNCHANGED <<now, epoch, mobile_tokens, rate_limits, held>>

\* Regression: a failed read is reported by a sentinel nobody tests for.
SessionEpochSentinel(u, ok) == IF ~ok THEN -1 ELSE IF u \in accounts THEN epoch[u] ELSE 0

\* SessionEpoch: 0 for an unknown user and, in the code as written, 0 as well
\* for any error of the read.
SessionEpoch(u, ok) == IF ok /\ u \in accounts THEN epoch[u] ELSE 0

ReadEpoch(r) ==
    /\ pc[r] = "read_epoch"
    /\ \E ok \in ReadOutcomes :
          epo' = [epo EXCEPT ![r] = SessionEpoch(call[r].email, ok)]
    /\ pc' = [pc EXCEPT ![r] = "mint"]
    /\ UNCHANGED <<call, at, via, token>>
    /\ UNCHANGED <<now, users, mobile_tokens, rate_limits, held>>

\* SetSession.
Mint(r) ==
    /\ pc[r] = "mint"
    /\ cookies' = cookies \cup {Cookie(call[r].email, epo[r], now + SessionTTL)}
    /\ Respond(r)
    /\ UNCHANGED <<now, users, mobile_tokens, rate_limits, bearers>>

\* MobileTokenModel.Issue: the row is in the table before anybody holds the token.
Issue(r) ==
    /\ pc[r] = "issue"
    /\ \E ok \in WriteOutcomes, k \in TokenIds :
          /\ \A c \in mobile_tokens \cup bearers \cup {token[s] : s \in Req} :
                c # None => c.tag # k
          /\ LET c == Bearer(call[r].email, k, at[r] + mobileTokenTTL)
             IN  IF ok
                 THEN /\ mobile_tokens' = mobile_tokens \cup {c}
                      /\ token' = [token EXCEPT ![r] = c]
                      /\ pc' = [pc EXCEPT ![r] = "send_token"]
                      /\ at' = [at EXCEPT ![r] = 0]
                      /\ UNCHANGED <<call, epo, via>>
                 ELSE Respond(r) /\ UNCHANGED mobile_tokens
    /\ UNCHANGED <<now, users, rate_limits, held>>

\* MobileLoginPOST's answer: now the client holds it, whether or not the row is
\* still there.
SendToken(r) ==
    /\ pc[r] = "send_token"
    /\ bearers' = bearers \cup {token[r]}
    /\ Respond(r)
    /\ UNCHANGED <<now, users, mobile_tokens, rate_limits, cookies>>

----------------------------------------------------------------------------
\* middleware.Auth: the cookie first, then the bearer token; RequireAuth (or
\* the handler's own test, in MobileMeGET) refuses a request that has neither.

Admit(r, c) ==
    /\ pc' = [pc EXCEPT ![r] = "handle"]
    /\ via' = [via EXCEPT ![r] = c]
    /\ UNCHANGED <<call, at, epo, token>>

\* Regression: the signature and the expiry are believed on their own.
CookieAcceptedSigned(c, ok) == c # None /\ now <= c.exp

CookieAccepted(c, ok) ==
    /\ c # None
    /\ now <= c.exp
    /\ c.tag >= SessionEpoch(c.user, ok)

SessionUser(r) ==
    /\ pc[r] = "session_user"
    /\ \E ok \in ReadOutcomes :
          IF CookieAccepted(call[r].cookie, ok)
          THEN Admit(r, call[r].cookie)
          ELSE Goto(r, "bearer_user")
    /\ UNCHANGED <<now, users, mobile_tokens, rate_limits, held>>

\* Regression: a lookup that fails is taken for one that has found the row.
TokenAcceptedOnError(c, ok) == c # None /\ (~ok \/ (c \in mobile_tokens /\ now < c.exp))

\* userIDAt: a live row of the table.
TokenAccepted(c, ok) ==
    /\ ok
    /\ c # None
    /\ c \in mobile_tokens
    /\ now < c.exp

BearerUser(r) ==
    /\ pc[r] = "bearer_user"
    /\ \E ok \in ReadOutcomes :
          IF TokenAccepted(call[r].bearer, ok)
          THEN Admit(r, call[r].bearer)
          ELSE Respond(r)
    /\ UNCHANGED <<now, users, mobile_tokens, rate_limits, held>>

----------------------------------------------------------------------------
\* The guarded handlers.

\* MeGET and MobileMeGET, and every other guarded handler that changes no
\* credential: the request runs as the user it was admitted for.
Me(r) ==
    /\ pc[r] = "handle"
    /\ call[r].kind = "me"
    /\ Respond(r)
    /\ UNCHANGED <<now, users, mobile_tokens, rate_limits, held>>

\* Regression: the epoch is a flag that is flipped.
LogoutAllFlipping(r) ==
    /\ pc[r] = "handle"
    /\ call[r].kind = "logout_all"
    /\ epoch' = [epoch EXCEPT ![via[r].user] = 1 - @]
    /\ mobile_tokens' = {c \in mobile_tokens : c.user # via[r].user}
    /\ Respond(r)
    /\ UNCHANGED <<now, accounts, rate_limits, held>>

\* Regression: the bump and the delete are not one transaction.
LogoutAllInTwo(r) ==
    /\ pc[r] = "handle"
    /\ call[r].kind = "logout_all"
    /\ epoch' = [epoch EXCEPT ![via[r].user] = @ + 1]
    /\ \E ok \in WriteOutcomes :
          mobile_tokens' = IF ok THEN {c \in mobile_tokens : c.user # via[r].user}
                           ELSE mobile_tokens
    /\ Respond(r)
    /\ UNCHANGED <<now, accounts, rate_limits, held>>

\* LogoutAllPOST: RevokeAllSessions is one transaction, the epoch bump and the
\* delete happen together or (500) not at all.
LogoutAll(r) ==
    /\ pc[r] = "handle"
    /\ call[r].kind = "logout_all"
    /\ \E ok \in WriteOutcomes :
          LET u == via[r].user
          IN  IF ok
              THEN /\ epoch' = [epoch EXCEPT ![u] = @ + 1]
                   /\ mobile_tokens' = {c \in mobile_tokens : c.user # u}
              ELSE UNCHANGED <<epoch, mobile_tokens>>
    /\ Respond(r)
    /\ UNCHANGED <<now, accounts, rate_limits, held>>

\* MobileLogoutDELETE: the delete's error is dropped, the answer is always 200.
LogoutToken(r) ==
    /\ pc[r] = "revoke_token"
    /\ \E ok \in WriteOutcomes :
          mobile_tokens' = IF ok THEN mobile_tokens \ {call[r].bearer} ELSE mobile_tokens
    /\ Respond(r)
    /\ UNCHANGED <<now, users, rate_limits, held>>

----------------------------------------------------------------------------
\* The environment.

\* The process dies and is started again: the requests are gone, the database
\* and what clients hold are not.
Restart ==
    /\ \E r \in Req : pc[r] # "idle"
    /\ pc' = [r \in Req |-> "idle"]
    /\ call' = [r \in Req |-> None]
    /\ at' = [r \in Req |-> 0]
    /\ epo' = [r \in Req |-> 0]
    /\ via' = [r \in Req |-> None]
    /\ token' = [r \in Req |-> None]
    /\ UNCHANGED <<now, users, mobile_tokens, rate_limits, held>>

\* A statement that counts an attempt carries the clock reading it was given and
\* waits for the one writer connection: MaxLag is how old that reading can get.
\* It is an assumption about the load; the code does not bound the queue.
Tick ==
    /\ now < MaxTime
    /\ \A r \in Req : pc[r] \in {"record_ip", "record_account"} =>
                         now < at[r] + MaxLag
    /\ now' = now + 1
    /\ UNCHANGED <<users, mobile_tokens, rate_limits, held, req>>

Arrive(r) ==
    \/ \E kind \in Kinds \cap LoginKinds, a \in Addresses, email \in Emails, right \in Guesses :
          Submit(r, kind, a, email, right)
    \/ "register" \in Kinds /\ \E a \in Addresses, email \in Emails :
          Submit(r, "register", a, email, FALSE)
    \/ \E kind \in Kinds \cap {"me", "logout_all"},
          cookie \in cookies \cup {None}, bearer \in bearers \cup {None} :
             Present(r, kind, cookie, bearer)
    \/ "logout_token" \in Kinds /\ \E bearer \in bearers : PresentLogoutToken(r, bearer)

Authenticate(r) == \/ LimitIP(r) \/ LimitAccount(r) \/ Lookup(r)
                   \/ RecordIP(r) \/ RecordAccount(r)
                   \/ ClearIP(r) \/ ClearAccount(r)

HandOut(r) == Create(r) \/ ReadEpoch(r) \/ Mint(r) \/ Issue(r) \/ SendToken(r)

Identify(r) == SessionUser(r) \/ BearerUser(r)

Handle(r) == Me(r) \/ LogoutAll(r) \/ LogoutToken(r)

Init ==
    /\ now = 0
    /\ accounts = InitialAccounts
    /\ epoch = [e \in Emails |-> 0]
    /\ mobile_tokens = {}
    /\ rate_limits = [b \in Buckets |-> NoRow]
    /\ cookies = {}
    /\ bearers = {}
    /\ pc = [r \in Req |-> "idle"]
    /\ call = [r \in Req |-> None]
    /\ at = [r \in Req |-> 0]
    /\ epo = [r \in Req |-> 0]
    /\ via = [r \in Req |-> None]
    /\ token = [r \in Req |-> None]

Next ==
    \/ \E r \in Req : Arrive(r) \/ Authenticate(r) \/ HandOut(r) \/ Identify(r) \/ Handle(r)
    \/ Restart
    \/ Tick

Spec == Init /\ [][Next]_vars
=============================================================================
