--------------------------- MODULE AuthProperties ---------------------------
(***************************************************************************)
(* What AuthService must get right.                                        *)
(***************************************************************************)
EXTENDS AuthService

\* Type correctness: the values the tables, the clients and the requests hold
\* (db/schema.sql, sessionPayload in middleware/auth.go).
TypeOK ==
    /\ now \in Nat
    /\ accounts \subseteq Emails
    /\ epoch \in [Emails -> Nat]
    /\ mobile_tokens \subseteq Bearers
    /\ rate_limits \in [Buckets -> Row \cup {NoRow}]
    /\ cookies \subseteq Cookies
    /\ bearers \subseteq Bearers
    /\ pc \in [Req -> PCs]
    /\ call \in [Req -> LoginCalls \cup AuthCalls \cup TokenCalls \cup {None}]
    /\ at \in [Req -> Nat]
    /\ epo \in [Req -> Nat]
    /\ via \in [Req -> Cookies \cup Bearers \cup {None}]
    /\ token \in [Req -> Bearers \cup {None}]

\* What a handler can rely on where it stands: the kind of call it serves and
\* the locals set by the statements before it.  The part of the inductive
\* invariant that speaks of one request alone.
HandlerLocals ==
    \A r \in Req :
        /\ pc[r] \in {"limit_ip", "record_ip"} => call[r] \in LoginCalls
        /\ pc[r] \in {"limit_account", "lookup", "record_account",
                      "clear_ip", "clear_account", "issue", "send_token"} =>
              call[r] \in LoginCalls /\ call[r].kind \in LoginKinds
        /\ pc[r] = "create" => call[r] \in LoginCalls /\ call[r].kind = "register"
        /\ pc[r] \in {"read_epoch", "mint"} =>
              call[r] \in LoginCalls /\ call[r].kind \in {"login", "register"}
        /\ pc[r] \in {"session_user", "bearer_user", "handle"} =>
              /\ call[r] \in AuthCalls
              /\ call[r].cookie \in cookies \cup {None}
              /\ call[r].bearer \in bearers \cup {None}
        /\ pc[r] = "revoke_token" => call[r] \in TokenCalls /\ call[r].bearer \in bearers
        /\ pc[r] = "handle" <=> via[r] # None
        /\ pc[r] = "send_token" <=> token[r] # None

\* Only proof of the password, or winning the registration of the address,
\* leads to a credential: a request about to sign or issue one names an existing
\* account, and two registrations of one address never both get that far
\* (models/user.go Create and its UNIQUE constraint; handlers/register.go).
HandsOut(r) == pc[r] \in {"clear_ip", "clear_account", "read_epoch", "mint",
                          "issue", "send_token"}

OnlyProvenGetCredentials ==
    /\ \A r \in Req : HandsOut(r) =>
          /\ call[r].email \in accounts
          /\ call[r].kind \in LoginKinds => call[r].right
    /\ \A r, s \in Req :
          /\ HandsOut(r) /\ call[r].kind = "register"
          /\ HandsOut(s) /\ call[s].kind = "register"
          /\ call[r].email = call[s].email
          => r = s

\* Every credential names an account that exists: what clients hold, what the
\* table of tokens has, what a request is about to send.  And no client holds a
\* token that is still to be sent: one row is one client's (handlers/
\* auth_mobile.go 33-43).
CredentialsGrounded ==
    /\ \A c \in cookies \cup bearers \cup mobile_tokens : c.user \in accounts
    /\ \A r \in Req : token[r] # None =>
          token[r].user = call[r].email /\ token[r] \notin bearers
    /\ \A r, s \in Req : token[r] # None /\ token[r] = token[s] => r = s

\* No cookie, and no login or registration about to sign one, is ever ahead of
\* its user's stored epoch: that is what makes one bump of session_epoch reach
\* every cookie signed before it, by whatever interleaving (middleware/auth.go
\* 167-171, models/user.go RevokeAllSessions).
EpochNeverAhead ==
    /\ \A c \in cookies : c.tag <= epoch[c.user]
    /\ \A r \in Req : pc[r] = "mint" => epo[r] <= epoch[call[r].email]

\* The inductive invariant behind the theorems on credentials, as one formula.
CredentialInvariant ==
    TypeOK /\ HandlerLocals /\ CredentialsGrounded /\ EpochNeverAhead

\* The credentials the service honours at this moment.  A row whose token never
\* reached a client, because the process died before the answer, opens no door.
Live == {c \in cookies : c.tag >= epoch[c.user] /\ now <= c.exp}
          \cup {c \in mobile_tokens \cap bearers : now < c.exp}

Ledger == INSTANCE CredentialLedger WITH
            issued <- cookies \cup bearers,
            live   <- Live,
            holder <- via,
            Lapses <- ReadsFail

\* The service implements the credential ledger: admission only on a live
\* credential, logout-all kills all of one user's credentials of both kinds at
\* once, dead credentials stay dead.  Where reads fail, a cookie is admitted until
\* it expires, whatever has revoked it, and a bearer token is still refused
\* (middleware.Auth, SessionEpoch, RevokeAllSessions, MobileTokenModel).
ImplementsLedger == Ledger!Init /\ [][Ledger!Next]_(Ledger!vars)

\* A cookie that has fallen behind its user's epoch admits no request
\* (db/schema.sql 9-10: "rejected once it falls behind").
SupersededCookieRejected ==
    [][\A r \in Req :
          (via[r] = None /\ via'[r] \in cookies)
             => via'[r].tag >= epoch[via'[r].user]]_vars

\* Every row of rate_limits is locked exactly when its count has reached its
\* maximum, and the lock lasts one window from the row's last stamp, although
\* writers race and write with clock readings taken out of order
\* (models/user.go recordAttemptAt).
LocksMatchCounts ==
    \A b \in Buckets :
        rate_limits[b] # NoRow => LockMatchesCount(rate_limits[b], MaxAttempts(b))

\* A bucket's history is erased only by a login that proved the password of an
\* account, from that address or for that account; registration's budget by
\* nothing (handlers/ratelimit.go 14-17 and clearBuckets; DECISIONS.md section 4).
OnlyProofClears ==
    [][\A b \in Buckets :
          (rate_limits[b] # NoRow /\ rate_limits'[b] = NoRow) =>
             \E r \in Req :
                /\ pc[r] \in {"clear_ip", "clear_account"} /\ call[r].right
                /\ call[r].email \in accounts
                /\ b \in {IPBucket(call[r]), AccountBucket(call[r])}]_vars

\* What may name the address a call counts under: its caller, or the trusted
\* proxy it came over, or, behind a proxy that lets a caller's CF-Connecting-IP
\* pass, that header.  A caller inside the trusted networks says what it likes.
NamedBy(o) ==
    IF o.from \in Trusted THEN IPs
    ELSE {o.from} \cup (IF o.peer \in Trusted THEN {o.peer, o.passed} ELSE {})

\* A bucket of an address is touched only by a request that came from there, or
\* over the proxy that has it; a header decides only where a trusted proxy passes
\* on a CF-Connecting-IP it did not write (clientip.go 94; the risk DECISIONS.md
\* 269-275 accepts), and X-Forwarded-For never does, whatever a caller puts into
\* it and however many proxies append to it (handlers/clientip.go 15-24,
\* handlers/ratelimit.go 14-17).
CountedWhereFrom ==
    [][\A b \in Buckets :
          (rate_limits'[b] # rate_limits[b] /\ b.ns # "login_account") =>
             \E r \in Req :
                /\ pc[r] \in {"record_ip", "clear_ip"}
                /\ b = IPBucket(call[r])
                /\ call[r].ip \in NamedBy(call[r].origin)]_vars

\* The count of one bucket never exceeds its maximum ("5 attempts per 15
\* minutes per IP", docs/API-CONTRACT.md).  Checked as a claim the code does
\* not meet when logins run concurrently.
AttemptsWithinBudget ==
    \A b \in Buckets :
        rate_limits[b] # NoRow => rate_limits[b].attempts <= MaxAttempts(b)
=============================================================================
