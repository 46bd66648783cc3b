# Verification of Gova

TLA+ models of the parts of Gova where several things happen at once: the
authentication service of the app, the resources the builder generates for it,
one browser with several tabs, and the builder itself when several invocations
work on one checkout. TLC
model-checks them on small instances, TLAPS proves the main safety properties
for every value of the constants. `PROJECT.json` lists every run, every mapped
definition with its source lines, every hazard and every theorem.

Paths below are those of the repository: `app/` is `src/src/app/`, `builder/`
is `src/src/builder/`.

## 1. The system

Gova has two programs. `gova`, the **builder**, is a CLI: each invocation runs
one command on a checkout (scaffold a resource, a model, a page or a handler,
regenerate, run SQL, inspect) and ends. The **app** is one Go process that
serves HTTP from one SQLite database, with the code the builder generated.

| component | state | operations | with whom it interacts |
|---|---|---|---|
| sessions (`middleware/auth.go`, `models/user.go`) | `users.session_epoch`; cookies, which live in browsers | `SetSession`, `sessionUser`, `RequireAuth`, `RevokeAllSessions` | every protected handler |
| bearer tokens (`models/mobile_token.go`) | `mobile_tokens` | `Issue`, `UserIDForToken`, `Revoke`, and the delete inside `RevokeAllSessions` | the same door, `RevokeAllSessions` |
| login, registration and logout handlers (`handlers/auth*.go`, `register.go`) | locals of each request | login by form and by token, register, log out, log out everywhere, me | users, epochs, tokens, limiter |
| rate limiter (`handlers/ratelimit.go`, `models/user.go`) | `rate_limits`: attempts, `locked_until`, `updated_at` | check, count, clear | login and registration |
| page cache (`cache/cache.go`) | pages with an expiry | Get, Set, Bust, the janitor | every generated model |
| generated resource (`builder/templates/model.go.tmpl`, `resource_handlers.go.tmpl`) | one table | list, detail, create, update, delete | page cache, owner of the session |
| process and database (`main.go`, `db/db.go`) | the database; WAL, one writer connection | start, restart | all of the above |
| manifest (`builder/manifest.go`) | `api.json`, `routes_gen.go`, `pages_gen.go`, its test | read, upsert, conflict checks, write, regenerate | builder commands |
| workspace lock (`builder/lock.go`) | an flock on `.gova-lock` | `withWorkspaceLock`, `withWorkspaceRead`, atomic replacement of files | builder commands |
| builder commands (`builder/tools.go`, `main.go`) | scaffolded files, the app's tables | resource, model, page, handler, regen, sql, inspect | manifest, lock, schema |
| inspection (`builder/inspect.go`) | none of its own | divergences between `api.json`, the generated files and the disk | reads everything above |
| schema check and fields (`builder/schema.go`, `fields.go`) | none | parses `-fields`, compares a declaration with its table, fills in what may be NULL | `resource`, `model` |
| client address (`handlers/clientip.go`) | the trusted networks, read once | whom a request comes from, over which proxies | limiter |
| CSRF middleware (`middleware/csrf.go`) | two cookies, in the browser | mint, compare | every unsafe request of a browser |
| browser scripts (`static/js`, `builder/templates/list_page.js.tmpl`) | pages, buttons and calls of each tab | load, sign in, register, create, delete | CSRF, all handlers |
| query helpers, timestamps (`models/query.go`, `handlers/paging.go`, `models/time.go`) | none | pure functions | handlers |
| templates, shells, envelope, logging, installers | none that outlives a call | text generation and I/O | |

What makes them hard:

* **Requests interleave.** A handler is a sequence of database statements, and
  between any two of them other requests run: a login that has read the epoch
  can be overtaken by a log out everywhere, a list that has read the table by a
  write, a rate-limit check by the attempts it does not see.
* **Writers wait, and bring an old clock.** There is one writer connection; a
  counting statement takes its clock reading before it gets its turn, so a row
  can be stamped and a lock can end in the past.
* **Statements fail one at a time**, and the code answers each failure its own
  way: some end in a 500, some are logged and passed over, one is read as 0.
* **Processes die.** The app's database survives a restart; requests and cache
  do not. A killed builder leaves what it has written and loses its lock.
* **Check, then lock.** The builder checks the table and the reference, and
  renders files, before it takes the lock.
* **A browser is concurrent too.** Tabs share one cookie jar, the answers of
  their fetches overtake each other, and an answer can be cut short, replaced by
  a proxy's, or never come.
* **Cascades.** Deleting the row of one resource deletes rows of another, whose
  pages nobody busts.
* **Headers lie.** Whom a request counts against is read from headers of which
  a caller writes a part.
* **Time.** Cookies, tokens, locks and cached pages expire at boundaries that
  are strict in one place and not in another.

What makes each component correct:

* sessions and tokens: a request is admitted only on a credential alive at that
  moment; log out everywhere ends all credentials of both kinds of one user, and
  nobody else's, at once; what is dead stays dead; only proof of a password, or
  a won registration, leads to a credential;
* limiter: no more than so many attempts in any one window; a lock matches its
  count; only a proven login clears a bucket; nobody counts, or clears, under an
  address that their X-Forwarded-For names, and under one that CF-Connecting-IP
  names only where a trusted proxy passes it on;
* browser: a form of another origin is refused; the tabs of one browser do not
  make each other's forms fail; a pressed button comes back;
* resource and cache: nobody is served or changes another owner's rows; what is
  served is stale only for a known reason and not for ever;
* builder: no registration is lost, split or reassigned; what is registered has
  its files and what is mounted is registered, after any crash; a registered
  model has the table its generated code was made for, as long as nobody changes
  that table; success means mounted; a healthy workspace raises no alarm; every
  command ends.

## 2. The modules

    RateLimit, ClientAddress <- AuthService <- AuthProperties <- AuthHistory    MCAuth, MCAuthHistory
                          CredentialLedger --^
    ClientAddress <- ClientAddressProofs <- AuthServiceProofs <- AuthHistoryProofs

    Schema <- Manifest <- Workspace <- WorkspaceProperties                      MCWorkspace
                 ^-- Registry -----------^
    WorkspaceProperties <- WorkspaceHistory <- WorkspaceProofs <- WorkspaceGuarantees

    Resource <- ResourceProperties <- ResourceHistory <- ResourceProofs         MCResource, MCResourceHistory

    Browser <- BrowserProperties <- BrowserProofs                               MCBrowser

(`A <- B`: B extends A; `Registry` and `CredentialLedger` are instantiated by the
properties modules as the abstract specifications. `AuthServiceProofs` extends
`AuthProperties` as well, `AuthHistoryProofs` extends `AuthHistory`.)

In the three systems of the server and the builder an actor has a program
counter, in the browser a fetch has a place where it is, and **one action is one
step that the runtime makes atomic**: a database statement (autocommit, one
writer), a call of the cache (under its mutex), the replacement of a file (a
rename), the taking of a lock, the sending or the delivery of a message. The
branch taken on the outcome, the response and whatever follows without another
such step are part of the action. Steps of different actors interleave freely.
An action that may fail takes its outcome from `ReadOutcomes`, `WriteOutcomes`
or `Outcomes`; in the browser faults are actions of their own.

A definition that is preceded by a comment starting with `Regression:` is the
definition after it with a plausible bug. No specification uses it: `PROJECT.json`
pairs it with the property that must catch it.

### 2.1 Authentication: `RateLimit`, `ClientAddress`, `AuthService`

`RateLimit` has the row arithmetic of `recordAttemptAt` and `rateLimitedAt`:
when a row restarts its window, when it locks, for how long, when a lock holds.
`AuthService` has the tables (`accounts`, `epoch`, `mobile_tokens`,
`rate_limits`), the credentials clients hold (`cookies`, `bearers`: everything
ever handed out, so that an old one can be presented at any time) and the
requests (`pc`, `call`, and the locals `at`, `epo`, `via`, `token`).

| action | code |
|---|---|
| `Submit`, `Present`, `PresentLogoutToken` | a request reaches its handler; who it comes from is any caller, with any credential ever issued or none |
| `LimitIP`, `LimitAccount` | `limited`: the check of each bucket |
| `Lookup` | `FindByEmail` and the password comparison |
| `RecordIP`, `RecordAccount` | `recordLoginFailure` and registration's count |
| `ClearIP`, `ClearAccount` | `clearBuckets` |
| `Create` | `UserModel.Create`, with `UNIQUE` deciding between two |
| `ReadEpoch`, `Mint` | `SessionEpoch`, then the signing of the cookie |
| `Issue`, `SendToken` | `MobileTokenModel.Issue`, then the answer of `MobileLoginPOST`: the process may die between the row and the client that would hold its token, and the row may be gone when the answer is sent |
| `SessionUser`, `BearerUser` | `middleware.Auth` and `RequireAuth`: cookie, then token |
| `Me`, `LogoutAll`, `LogoutToken` | the handlers behind the door |
| `Restart`, `Tick` | the process ends and comes back; a second passes |

Taken as given: the HMAC (a cookie is its payload and nobody makes one up), the
hash of a password (a guess is right or wrong), the randomness of tokens (a new
one is new), and `ipv6Prefix` (a constant function). Logging out of one browser only asks the browser to forget
its cookie, so it is not an action: the server still honours a copy, and the
model may present it.

`ClientAddress` has `clientIP`, `forwardedFor` and `isTrustedProxy` as
operators on what a request arrives with: its peer, `CF-Connecting-IP` and the
entries of `X-Forwarded-For`. `Deliveries` says how requests arrive. A caller
writes anything into both headers. A request over proxies still carries the list
its caller made up; behind it each proxy has appended the address it was called
from. That is what proxies do, and what the comment at `clientip.go` 15-22 relies
on. A proxy may name its caller in a way that is no address ("unknown").
`CF-Connecting-IP` is another matter: Cloudflare's edge overwrites it, any other
proxy passes on what the caller wrote, and `clientIP` believes it from any trusted
peer (`clientip.go` 94). `Over` has both kinds of proxy, and `passed` remembers
what came through unwritten, so that a property can say when a header decides.
Addresses are atoms: CIDR parsing and the several spellings of one address are
left out.

`CredentialLedger` says what this is for, with no epochs and no tables: a ledger
of credentials, each live or dead. `AuthProperties!Live` is the mapping: a
cookie is live while its tag is not behind its user's epoch and it has not
expired, a token while its row is there, a client has it and it has not expired. The ledger lets
a revocation overtake a credential being made: the cookie signed with the epoch
of before is handed out dead, a token inserted after the delete is a new
credential. Where reads may fail (`Lapses`) it also says what that costs: a
cookie is then admitted for as long as it is in date, revoked or not
(`Overlooked`), while a token is still admitted alive or not at all, and nothing
that is dead comes back.

`AuthHistory` adds a variable that only watches: when each counted attempt was
counted. The rows of `rate_limits` forget that, and the limiter's promises are
about it: how many attempts one window can hold, and that a lock is earned.

### 2.2 The builder: `Schema`, `Manifest`, `Workspace`

`Schema` is the check of a declaration against a table, as operators. A table
is what the two PRAGMAs report: for each column its declared type, whether it is
NOT NULL, where a foreign key of it points, and with which ON DELETE. The last is
read and dropped by `foreignKeyTargetsAt`, so no check asks for it. A `-fields` argument is the
sequence its colons split it into; `parseField` makes a field of it
(`title:email` is a string, `link:ref:item` an int that references), and a
command carries the set of its fields. `requireImplicitColumns`,
`requireOwnerColumn` and `FieldFits` are the checks, `applySchema` fills in
which fields may be NULL. Which spellings look like a credential is the constant
`Credentials`.

`Manifest` is `api.json` as a value: models (owned or not, with their fields),
endpoints (a handler and a guard for each route) and pages, with the upserts and
conflict rules of `manifest.go`. Body schemas and the hash of the generated text
are left out: they are carried along and decide nothing here.
The endpoints and pages every checkout ships with have names outside `Names`,
which is why the manifest starts empty.

`Workspace` has processes with one command each, the files they scaffold (each
remembering the command it was rendered from), `api.json`, the three generated
files, the tables, and the flock.

| action | code |
|---|---|
| `Start` | `main` dispatches; argument checks are before this |
| `CheckSchema`, `CheckRefs` | `prepareModel` and `validateRefsAt`, without the lock |
| `Render` | `renderAll`, one file at a time, without the lock |
| `Lock`, `LockShared` | flock; the end of a section is part of the step that ends it (the deferred unlock), `Exit` |
| `Read` | `updateManifestLocked` up to the write: read, upsert, conflict or go on |
| `WriteApi`, `WriteRoutes`, `WritePages`, `WritePagesTest` | the four files, in the order the code writes them |
| `ExecSQL` | `gova sql` with a CREATE, ALTER or DROP TABLE, under the lock |
| `Scan`, `Load`, `Compare` | `inspect` under the shared lock |
| `Kill` | the process dies; the kernel drops its lock |

`Registry` is the abstract specification of `api.json` and the three generated
files: the manifest changes by one whole registration at a time, applied to it
as it stands, and only when that takes no route and no page away from its owner
(`Register`); a generated file changes only to what the manifest says at that
moment (`Generate`). A generated file may lag behind, and never goes back to an
older manifest.

`gova sql` runs whatever it is given; the model has the statements that change
what a check has seen. A table is checked before the lock is taken and never
again, so a statement that alters or drops it makes the check stale, whether the
row is written by then or still to come. `WorkspaceHistory` adds two variables that
only watch this: `stale_checks`, the commands that carry such a check, and
`stale_rows`, the models whose row one of them wrote or whose table was changed
after it. `ManifestGrounded` speaks of all the other models.

### 2.3 A generated resource: `Resource`, `ResourceHistory`

One table, the page cache in front of it, and the five handlers over the five
model methods, with `Owned` as `-owner` makes it. `Get`, `Count`, `Select`,
`Set` are the four steps of `GetPage`; `Create`, `Update`, `Delete` are the
statements, `Bust` follows each, `Find` reads the row back. Ids are reused as
SQLite reuses them without AUTOINCREMENT (`IsNextId`). A cache entry keeps the
time it has left, so time needs no bound; `Janitor` removes what has expired and
`Restart` loses cache and requests and keeps the table. Limit, offset and sort
pick rows and take part in the cache key just as the filter does, so a query is
a filter. With `Refs` the table has a `REFERENCES ... ON DELETE CASCADE`:
`parents` are the rows there are to reference, a write that references none
fails, and `DeleteParent` removes the rows that reference it in the same
statement. The model of the parent busts the parent's pages only, so this step
leaves the cache as it is. Every protected handler is behind `RequireAuth`, modelled in
`AuthService`; here a request comes with its user.

`ResourceHistory` adds two variables that only watch: `overtaken`, the lists a
write has overtaken since they counted, and `behind`, for each key the ticks
since its page was filled by such a list, or was being served when a cascade
took rows along; a page that was not left behind has `TTL + 1` there.

### 2.4 One browser: `Browser`

The jar (`token`, `token_left`, `session_left`), what each tab shows (`page`,
`button`) and the fetches under way (`net`): for each tab one that the page's
script awaits and one that a pressed button started.

| action | code |
|---|---|
| `Open` | a page is opened or reloaded; the scripts of the old one are gone |
| `Press` | the handlers of `login.js`, `register.js`, `list_page.js.tmpl`: disable the button, read `csrf_token` out of `document.cookie` (`writeHeaders`) |
| `Attach` | the browser sends the fetch with the cookies it has by then |
| `Serve` | `middleware.CSRF`, then a handler that answers yes or no |
| `Deliver` | the cookies of the answer enter the jar (`SetCookies`); `envelope`; what the script does next (`AfterShell`, `AfterMe`, `AfterList`, `AfterSignin`, `AfterCreate`, `AfterDelete`) |
| `Cut`, `CutShort` | an answer without an envelope: a proxy's in place of the server's, which may be the JSON `null`, or the server's cut short behind its cookies |
| `Reject` | `fetch()` rejects: served or not, nothing comes back |
| `Tick` | Max-Age runs down, and a cookie whose time is up is dropped |

A new token is the least number nobody holds (`New`): tokens are compared for
equality and nothing else, so which of the unused ones is drawn makes no
difference. A body that is the JSON `null` passes `envelope()` and throws where
the script reads `.ok` of it: by then `login.js`, `register.js` and the form of a
list page have enabled their button, a delete button is still disabled. The files
under `/static/` that a page is made of are GETs too and pass the same middleware;
they come after the shell, which has brought a token by then, and a token that one
of them would bring after that one has expired is one more GET that came without. Whether the server still honours a session is the matter of
`AuthService`; here a guarded request with a session may be denied at any time.

`BrowserProperties` adds `rested`: the tabs whose button was enabled and since
when the jar has held a token, with no fetch under way that could bring another.

## 3. The runs

| run | instance | question and answer |
|---|---|---|
| `revocation` | two users, two concurrent requests, all kinds but registration, failing writes, restarts; epochs to 2, two cookies, one token, time to 2 | the credential invariant holds, the service implements the ledger, a cookie of a past epoch admits nobody |
| `registration` | two requests for one address, registrations, logins and logouts by token, `me` and log out everywhere, failing reads and writes, restarts; cookies that end with the second they are signed in, tokens that live one, time to 1; epochs to 2; directly and over one proxy or two, with lists of up to two entries and a `CF-Connecting-IP` the caller wrote | only proof or a won registration leads to a credential; every attempt counts where it came from; with failing reads and credentials that expire the service still implements the ledger, lapses included |
| `login_budget` | two concurrent logins, window of 2, clock readings up to 1 old, time to 3, maxima of 2 for an address and 3 for an account | attempts in any one window; locks match counts, and stand exactly on attempts in a row; only a proven login clears |
| `workspace_registration` | three processes, two names, two operations, twelve commands that collide on routes, pages, files and references, one with a secret among its fields, one that takes NOT NULL from an owner column and one that drops a table, regen and inspect | the manifest is a registry and stays grounded; success means mounted; exclusion; no false alarm |
| `workspace_crashes` | three processes with kills and failed writes, a table whose owner column may be NULL and one that is created on the way; fair | snapshots current, grounded, registered have files, mounted are registered and stay mounted, success means mounted; somebody can always move, every step uses one up, every command ends |
| `resource_ownership` | two users, two requests, all five endpoints, one row id that is reused, a parent, failing statements | own pages only, owners write their own, types |
| `resource_staleness` | two requests, one row id that is reused, one filter, a parent, failing statements, entries that live two ticks, no bound on time; fair | a page is stale only when its list was overtaken, its writer has yet to bust, or a cascade passed, with the first and last for at most the time a page is kept; once writes stop the cache becomes and stays fresh |
| `browser_forms` | two tabs, two fetches, three tokens, answers that are lost, cut or replaced; fair | whose form is refused, when, and which button stays disabled |
| `concurrent_logins`, `failed_read`, `workspace_two_declarations`, `browser_rejected` | | the four disagreements of section 6 |

**Bounds and why they are enough.** Two requests suffice for every two-party
race between statements; the page such a race leaves behind is seen in the cache
without a third request that reads it. The workspace runs use three processes so that a third can
come between two that have checked and not yet locked. Two epochs give cookies
that are one and two behind. `login_budget` has a window longer than the clock
lag and time for a row to lock, expire and start again, so the comparison exactly
one window later is reached. An account takes three attempts there, so that a run
of them can be longer than the window without a pause that is: counts at 0, 1 and
3 lock it. One row id is the smallest table in which
an id comes back, and in which a total misses its items (counted before the row
goes, selected after); what two rows and more could add is left to
`PagesAreCurrent`. An entry that lives two ticks can be asked for, left behind and
asked for again at different ages. In
`browser_forms` cookies live one tick, so that one signed in across a tick has a
session and no token; two fetches are enough for one to overtake the other, and
three tokens for one in the jar, one on its way and a new one. A second proxy is
the least that makes the walk through the list pass one of its own entries. Two
names are enough for a route, a page or a reference to
belong to somebody else. `MaxTime`, `MaxEpoch`, `MaxCookies`, `MaxLag`,
`MaxRows` and `MaxFetches` bound the exploration and stand in guards of arrivals, of time and of
creates, and what the user does next. In `registration` `MaxRows` is 1: logins and
registrations arrive until one of them has been counted (two may have by then, and
more come when a login that is proven clears the row), `me`, the logouts and what
has arrived go on. `login_budget` leaves failing writes out,
which the theorem covers: an attempt that is not counted is not in the sum.
`MaxLag` is more than a bound: it is the longest a counting statement
waits for the writer connection, an assumption about the load (the code does not
bound that queue), and `WindowBudget` depends on it.

Every run but those under fairness uses symmetry over requests or processes;
users, names and values are told apart. `CHECK_DEADLOCK` is left on: the models
never stop in a state the system would not.

**Fairness.** Three runs assume it. `workspace_crashes`: each process that can
take its next step takes it eventually (`WF` of `Step(p)`): the operating system
schedules it and file operations return. Being killed is never owed. flock makes
no promise of fairness between waiters and none is assumed; every waiter gets
the lock because there are finitely many commands, each with finitely many steps
(`CommandsRunOut`), and some command can always take one (`SomebodyCanMove`).
`resource_staleness`: the same of each request once it has arrived, and that time
passes. Nobody is obliged to send a request, and neither the janitor nor a
restart is owed: what expires is not served even if it is still in the map.
`browser_forms`: a fetch that a button started is sent, answered and delivered
eventually; a browser gives up on a connection, so an answer that never comes is
a rejection. The fetches of a page's script are owed nothing, nor is the user.

## 4. The properties

*Authentication.* `ImplementsLedger` (all of section 2.1's promise),
`SupersededCookieRejected` (the sentence of `db/schema.sql`),
`CredentialInvariant` (in particular `EpochNeverAhead`: no cookie, and no login about
to sign one, is ahead of the stored epoch), `OnlyProvenGetCredentials`,
`WindowBudget`, `LocksMatchCounts`, `LocksAreEarned`, `OnlyProofClears`, `CountedWhereFrom`: the
bucket of an address changes only for a request whose caller has that address, or
whose peer proxy has it and is trusted, or for which a trusted proxy passed that
address on in a `CF-Connecting-IP` the caller wrote. The last is the risk
`docs/DECISIONS.md` 269-275 accepts; the property says that it is the only one, and
that `X-Forwarded-For` never decides. Of a caller inside the trusted networks it
says nothing. `WindowBudget` is what the
limiter does guarantee: in any stretch of one window, less the age of a late
writer's clock, at most the maximum less one plus one for every concurrent
request. It counts the attempts that were counted since the last clearing; the handlers log a
count that could not be written and go on. `LocksAreEarned` is the other side,
what the owner of an account is promised: a bucket stands locked exactly when the
last of its attempts, as many as its maximum, followed each other with no pause of
more than a window. It is the pauses that count, as `models/user.go` 161-163 says
("a bucket whose last attempt predates the window starts a fresh count"): the run as
a whole may take longer than a window, which is not how two documents put it (section 6). The runs of
`ImplementsLedger` are two: without failing reads, and with failing reads, tokens
and time, where the clauses on lapses are at work.

*Builder.* `ImplementsRegistry`, `SnapshotCurrent` (what a process read is what
`api.json` still says when it writes), `MutualExclusion`, `ManifestGrounded`,
`RegisteredHaveFiles`, `MountedAreRegistered`, `SuccessMeansMounted`,
`NoFalseAlarm`, `EveryCommandEnds`; `MountedForGood` (a mounted route keeps its
handler, a served page its file); `SomebodyCanMove` (whoever waits for the lock
waits for a process that can go on) and `CommandsRunOut` (every step is one
command's and leaves it fewer: nothing is tried again). `ManifestGrounded` is stated by what the
generated code does with a table (`Readable`: which column types each field type
can be read from; an expected NULL exactly where one can be; an owner key that is
an integer, never NULL and references `users`), not by the checks that bring it
about. It excepts the models in `stale_rows`, whose table was altered or dropped
since it was looked at: the check comes before the lock (the comment at
`manifest.go` 374-376 places that of the reference inside the transaction; the code
calls it before), so such a row can be written, and is. It says that this is the
only way: nothing else a command does between another's check and its write matters,
and a reference stays good because no code takes a model out of `api.json`. Two
things it does not say, because the code does not see to them: that an owned row
dies with its account, and that a field declared `int` can be read from a column
declared BOOLEAN (`Suits` has that one exception; section 6).

*Resource.* `OwnPagesOnly`, `OwnersWriteOwn`, `OnlyOvertakenPagesAreStale`,
`EventuallyFresh`. The third says exactly when a cached page may differ from the
table: while a write has yet to bust, or, where a list that had been overtaken
filled it or a cascade passed, for no longer than `TTL` from that moment,
however often it is asked for. The fourth says that this ends when writes do.

*Browser.* `StrayRefused`: a form that another origin sends, which has the
cookies and no header, is refused whichever of the two cookies has expired or not
come yet. `RefusedOnlyAfterUnrest`: a form of the app is refused for its token
only if, since its button was enabled, the jar was without a token or another
was on its way. That happens: two pages that load at once are each given a token
and the second answer replaces the first, and a sign-in renews the session
cookie but not the token, so a browser can be left with a session whose forms
are all refused until a page is loaded (`csrf.go` 69-82). `OnlyThrowsFreeze`
and `PressedButtonsComeBack`: whatever is answered, a button comes back or its
page is gone, but for a fetch that rejects, and for the JSON `null` where a delete
button or the list after a delete waits for it.

## 5. The proofs

For each system a proof module proves an inductive invariant once, one lemma
per group of actions, and derives the theorems from it.

* `AuthServiceProofs`: `TypeCorrect` rests on `TypeOK` with `HandlerLocals` (what a handler can
  rely on where it stands: without it a typed request could be at `mint` with a
  call that never gave a password). On top of it `ProvenGetCredentials`,
  `EpochsBehind`, `CredentialsSound` (the whole of `CredentialInvariant`),
  `LocksCorrect`, `ProofClears`. `EpochNeverAhead` is needed for `Refinement`:
  if a cookie could be ahead of the epoch, one bump would not reach it, and the
  ledger's `RevokeAll` would not be matched. `CredentialsGrounded` is needed
  because it is what lets a cookie's user be looked up in `epoch`. `Refinement`
  assumes nothing about failures: where reads fail, `AcceptedIsCurrent` still
  gives a cookie in date, which is all `Overlooked` asks, and a token row that is
  there. `SupersededRejected` is stated under `~ReadsFail`, and section 6 shows
  why it has to be. `CountsWhereFrom` uses `AddressInv`: a request that is past its
  arrival still counts under the address `clientIP` gave it, and `ClientAddressKnown`
  says who can have named that address. In `Refinement` it is `SendToken`, not
  `Issue`, that puts a token into the ledger, alive if its row is still there.
* `ClientAddressProofs`: `ClientAddressKnown`, for headers of any length and any
  number of proxies, from `WalkStopsAtCaller`: behind whatever the caller wrote,
  the walk from the right passes our own proxies and stops at the entry the
  first of them appended. Callers inside the trusted networks are allowed for and
  excepted; it needs `RouteAssumption` (the proxies passed are trusted ones).
* `AuthHistoryProofs`: `BudgetHolds`, for any number of requests, maxima, window
  and clock, failing reads and writes included. Fix a bucket and a stretch of
  one window less `MaxLag`. While it is `Open`, every attempt in it was counted
  on the row as it stands, so there are fewer than the maximum. The count that
  reaches the maximum locks the row beyond the end of the stretch; from then on
  it is `Closed`: nobody new passes the check in time, and each of the requests
  that had passed it (`Pending`) adds at most one. `ReadingsBounded` and
  `StampsBounded` say how old a clock reading and a stamp can be. It assumes
  that `Req` is finite and that a counting statement waits at most `MaxLag`; if
  the wait could be a whole window the stretch would be empty and the theorem
  would say nothing. `LocksEarned` rests on `RowsAreInARow`: the count of a row is
  never more than the attempts that end the bucket's history in a row, and the
  last of them is the row's stamp. A row that restarts its window restarts both;
  one that does not was stamped at most a window before. That a lock stands exactly on such
  a run needs the converse as well, `RunsAreLongest`: the attempts that end the
  history in a row are no more than the row counts.
* `WorkspaceProofs`: `TypeCorrect` from `TypeOK` and `ProcessLocals`;
  `Exclusion` from `LockHeld` (whoever is inside a section holds the lock the
  section needs); `SnapshotsAreCurrent` from both; `Refinement` to `Registry`
  from the last: `WriteApi` is a `Register` step because the snapshot is the
  manifest as it stands with the command's rows upserted, and the three writes
  after it are `Generate` steps because the snapshot is by then the manifest.
  `OnlyWritesWrite` disposes of all the other steps. `NoDeadlock` follows from
  `LockHeld`: a lock that is taken has a holder inside a section, and every step
  of a section can be taken (`HoldersMove`). `CommandsEnd` goes through the steps one by
  one with the variant `StepsLeft`, the length of the way to the end plus the
  files still to render. The two are the safety part of `EveryCommandEnds`;
  what is left of it is the fairness of the scheduler.
* `WorkspaceGuarantees`, on the same invariant:
  - `MountedRegistered`: the one step that could break it is the write of
    `api.json`, and `UpsertKeeps` shows that an upsert without conflict takes no
    row away;
  - `StaysMounted` combines it with `Refinement`'s view of the generated files:
    one of them only becomes what `api.json` says, which lists all that is
    mounted with the handler it has;
  - `SuccessMounted`: only the last write of a transaction ends it in success,
    and by then the snapshot, `api.json` and the earlier generated files are equal;
  - `Grounded` adds `Checked`, what a command that has checked its table and
    its references can still rely on while it renders and waits for the lock:
    the table fits (`SchemaFits`) unless the command is in `stale_checks`, its
    fields say what may be NULL (`Filled`), their models are registered
    (`RefsKnown`). `NothingRemoved` (no model leaves `api.json`) and `NextChecked`
    carry it; `AcceptedSuits` and `FitsIsGrounded` lead from the check to what the
    generated code needs; `LandingWrites` and `ChangesLand` say that a row of
    `api.json` only changes by the write of a command that declares it, with which
    it leaves or enters `stale_rows`;
  - `FilesBehindRegistrations` adds `Rendered` (what a command renders is on
    disk or still to come, and all on disk when it asks for the lock) and
    derives the mounted files from `MountedRegistered`;
  - `HealthyIsQuiet`, under `~Kills` and `~WritesFail`, adds `SyncedOrAtWork`
    (the generated files differ from `api.json` only while their writer is
    inside the lock) and `InspectCurrent` (the shared lock keeps what an
    inspection has read true until it compares).
* `ResourceProofs`: `TypeCorrect` and `OwnPages` from one invariant that ties
  the rows a request holds and the pages a key keeps to an owner; `OwnersWrite` is an action
  property of that invariant. `SelectedCount` gives the total of a page its
  type with the finite-set theorems. `PagesAreCurrent` needs two facts about what
  a list has read (`ReadsCurrent`) and about every page in the cache, expired or
  not (`PagesCurrent`): the second follows from the first at `Set`, and a write
  that disturbs either puts the request in `overtaken`, stands before its bust, or
  is a cascade. That a page is stale for at most `TTL` is not inductive by
  itself, for nothing in it says that the page has been aging all the while: the
  invariant is `AgeBounded`, that the time a page has left and the time since it was
  left behind add up to no more than `TTL`. It starts at `TTL + 0` or less, a tick moves
  one from the one to the other, and only a new page starts over.
* `BrowserProofs`, for any number of tabs and fetches and every TTL: `TypeCorrect`,
  `RefusesStrays`, `RefusesAfterUnrest`, `FreezesByThrow`. `SlotInv` says what can await what (a
  page is fetched by a tab without a form; a tab without a form has no call of
  one), `MintInv` that only a GET that came without a token brings one.
  `RestInv` carries the third: while the jar is at rest, the header of a call is
  the cookie that goes with it.

The assumptions are the named ASSUMEs beside the constants: kinds are kinds,
maxima are at least 2, windows are positive, headers and routes are sequences,
`-fields` arguments are those of fields, the markers `None`, `NoRow`, `NoLock`,
`Absent` are none of the values they stand beside. TLC evaluates each
of them in every run of its module. No theorem depends on the bounds of the
exploration other than as arbitrary values.

Only model-checked: the three liveness properties `EveryCommandEnds`,
`EventuallyFresh` and `PressedButtonsComeBack`, since fairness and ENABLED are
out of the prover's reach, as is anything that needs induction over data or a
recursive operator. No module declares one. Of the first two the safety part is
proved: `NoDeadlock` and `CommandsEnd`, and the bound of `PagesAreCurrent`. The
invariants and action properties of the passing runs are all proved; for
`SupersededRejected` that is under `~ReadsFail`, for `HealthyIsQuiet` under
`~Kills` and `~WritesFail`, which is where their runs check them.

## 6. Where code and documents disagree

* **A failed read admits a past cookie** (`failed_read`). `SessionEpoch` answers
  0 for any error of its read (`models/user.go` 98-108). At the door 0 is
  an epoch no cookie is behind, so while reads fail a cookie that was
  revoked is admitted. `db/schema.sql` 9-10 says it "is rejected once it falls
  behind". The bearer's door answers an error with a refusal.
* **The count can pass the maximum** (`concurrent_logins`). Checking a bucket
  and counting an attempt are two statements; requests checked together all
  count. `docs/API-CONTRACT.md` 115-116 gives the maximum as a flat number.
  `WindowBudget` is the bound that does hold.
* **Files are rendered outside the lock** (`workspace_two_declarations`). Two
  commands that declare one resource in two ways can leave the files of one
  beside the rows of the other. `builder/lock.go` 11-12 says files are
  serialised by the lock too.
* **A fetch that rejects freezes its form** (`browser_rejected`). `post()` awaits
  `fetch()` before `envelope()` is called, and only `envelope()` catches, so with
  no connection the handler ends with its button disabled. `static/js/lib/api.js`
  7-10 says that every function there resolves to an object with `.ok` and why it
  has to. `OnlyThrowsFreeze` is what does hold.

Four more were met on the way; the properties state what the code does, and no run
of its own shows the disagreement:

* **A lock need not be earned within one window.** `docs/API-CONTRACT.md` 115 says
  "5 attempts per 15 minutes", `docs/DECISIONS.md` 258-259 that "20 failures in 15
  minutes locks an address". `recordAttemptAt` (`models/user.go` 168-187) compares an
  attempt with the one before it only, so failures that follow each other within 15
  minutes lock the address however long they take together: twenty, one every 14
  minutes, do after nearly four and a half hours. `LocksAreEarned` states that.
* **ON DELETE CASCADE is not checked.** `docs/DECISIONS.md` 215-217 says that `user_id
  INTEGER NOT NULL REFERENCES users(id) ON DELETE CASCADE` is "checked at scaffold
  time". `foreignKeyTargetsAt` (`schema.go` 199-230) reads the action and keeps the
  referenced table only. Nothing in the app deletes users; where somebody does, a key
  without it has SQLite refuse the delete.
* **An int on a BOOLEAN column passes.** `normalizeSQLType` (`schema.go` 127-128)
  makes an INTEGER of BOOLEAN and `acceptedSQLTypes` takes that for an `int`, but the
  driver hands out a bool for a column so declared, which the int64 of the generated
  `Scan` refuses. `schema.go` 278-280 promises that a mismatch "fails the tool ...
  rather than silently generating a model that lies about the data".
* **The two cookies do not expire together.** `middleware/auth.go` 25-26 says they
  do. The token is set once, when there is none, and not renewed with the session
  (`csrf.go` 66-77), so a sign-in leaves a session that outlives its token, and every
  form is refused from then until a page is loaded. `RefusedOnlyAfterUnrest` excepts
  that.

Two smaller ones: the reference check is not inside the transaction as
`manifest.go` 374-376 says (section 4), and a body that is the JSON `null` comes out of
`envelope()` as it is, so that not quite "every function here resolves to an object"
(`api.js` 8-9, section 2.4).

What `docs/DECISIONS.md` 269-275 calls an accepted risk is no disagreement: whoever
reaches the port from a trusted network, or over a proxy there that is not
Cloudflare's, names any address in `CF-Connecting-IP`.

## 7. What is not modelled

* Text: templates, formatting, the envelope of responses, the request log,
  constant headers, the shells. What a command writes where is modelled, what is
  in it is not. In particular `gova model` after `gova resource` renders a model
  file without the `Update` its handlers call, and a second `gova handler` of one
  name replaces the function that is mounted: both end in a checkout that does
  not compile, which the next build reports.
* Names character by character: two names that `toPascal` makes one, which names
  are safe identifiers, which look like a credential; the spellings of one
  address. They are atoms, told apart exactly when they differ.
* Query helpers (`orderByClause`, `filterField`, `queryInt`) and timestamps: pure
  functions of one request. What the first decide is part of the cache key, and
  so of the abstract query of `Resource`. That pages taken by OFFSET can repeat
  or skip a row when rows come between two requests, or when two were created in
  one second, is outside that abstraction.
* Sockets, timeouts and the router, which are Go's libraries; the installers.
* `MobileTokenModel.DeleteExpired`, which nothing calls; the builder version
  check of `inspect`, one builder being at work in the model; format hints of
  fields, which choose a form control.
* The exemption of bearer requests from the CSRF check: a browser sends none.
* The GETs of `/static/*` (`main.go` 46, 57), as section 2.4 says.
* Editing by hand, the deletion of scaffolded files, and SQL that changes no table's
  columns: nothing but commands changes the workspace in the model. A DROP or ALTER
  that the data of the table would refuse is not told apart from one that works.
* That the flock is not taken twice by one process (`lock.go` 36, "MUST NOT BE
  NESTED"): a command is one section here, so nesting has no counterpart.

## 8. What could come next

1. The composition of `AuthService` and `Resource`: the owner of a request comes
   from its credential, which is checked once, at the door, while the write comes
   several steps later and may race log out everywhere.
2. An editor of `api.json` under the feet of a command: `regen` reads and writes
   it under the lock, an editor does not take it.
3. Pages as windows of an order, with `limit`, `offset` and `sort`, to say what a
   client that pages through a changing table can rely on.
