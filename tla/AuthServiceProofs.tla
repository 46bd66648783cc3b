------------------------- MODULE AuthServiceProofs -------------------------
(***************************************************************************)
(* Proofs about AuthService, for any number of requests, users, addresses  *)
(* and tokens, any windows and lifetimes, and any failures of the          *)
(* database's statements (unless a theorem says otherwise).                *)
(*                                                                         *)
(* The inductive invariant is built in layers, each using the ones below:  *)
(* types and handler locals, then who may be handed a credential, then     *)
(* epochs, then the limiter's rows; the refinement of CredentialLedger     *)
(* rests on all of them.                                                   *)
(***************************************************************************)
EXTENDS AuthProperties, ClientAddressProofs, TLAPS

----------------------------------------------------------------------------
\* The rows of rate_limits.

\* Recording an attempt turns a row (or no row) into a row.
LEMMA RecordAttemptType ==
    ASSUME NEW row \in Row \cup {NoRow}, NEW max \in Nat, NEW t \in Int
    PROVE  RecordAttempt(row, max, t) \in Row
  BY WindowAssumption, NullAssumption, NoRowAssumption
     DEF RecordAttempt, Bumped, WindowPassed, Row

\* Recording an attempt keeps the lock in step with the count, for any clock
\* reading, earlier than the row's own included.
LEMMA RecordAttemptLocks ==
    ASSUME NEW row \in Row \cup {NoRow}, NEW max \in Nat \ {0, 1}, NEW t \in Int,
           row # NoRow => LockMatchesCount(row, max)
    PROVE  LockMatchesCount(RecordAttempt(row, max, t), max)
  BY WindowAssumption, NullAssumption, NoRowAssumption
     DEF RecordAttempt, Bumped, WindowPassed, Row, LockMatchesCount

----------------------------------------------------------------------------
\* Whose address a call counts under.

\* However many proxies a request came over, and whatever its caller wrote into
\* X-Forwarded-For, it counts under an address that something entitled to it named.
LEMMA AddressOfCaller ==
    ASSUME NEW a \in Addresses
    PROVE  a.ip \in IPs /\ a.origin \in Origins /\ a.ip \in NamedBy(a.origin)
  BY ClientAddressKnown DEF Addresses, Origins, NamedBy

----------------------------------------------------------------------------
\* Types and handler locals.

TypeInv == TypeOK /\ HandlerLocals

LEMMA BucketTypes ==
    ASSUME NEW c \in LoginCalls
    PROVE  IPBucket(c) \in Buckets /\ AccountBucket(c) \in Buckets
  BY PrefixAssumption
     DEF LoginCalls, LoginOrRegister, LoginKinds, IPBucket, AccountBucket, Buckets,
         loginBucket, loginTokenBucket, registerBucket, loginAccountBucket

LEMMA MaximaType == \A b \in Buckets : MaxAttempts(b) \in Nat \ {0, 1}
  BY MaximaAssumption DEF MaxAttempts

\* A response leaves an idle request behind, whatever else the step did.
LEMMA RespondType ==
    ASSUME NEW r \in Req, TypeInv, Respond(r),
           cookies \subseteq cookies', bearers \subseteq bearers'
    PROVE  /\ pc' \in [Req -> PCs]
           /\ call' \in [Req -> LoginCalls \cup AuthCalls \cup TokenCalls \cup {None}]
           /\ at' \in [Req -> Nat]
           /\ epo' \in [Req -> Nat]
           /\ via' \in [Req -> Cookies \cup Bearers \cup {None}]
           /\ token' \in [Req -> Bearers \cup {None}]
           /\ HandlerLocals'
  BY DEF TypeInv, TypeOK, HandlerLocals, Respond, PCs

LEMMA GotoType ==
    ASSUME NEW r \in Req, NEW p \in PCs, TypeInv, Goto(r, p)
    PROVE  /\ pc' \in [Req -> PCs]
           /\ call' \in [Req -> LoginCalls \cup AuthCalls \cup TokenCalls \cup {None}]
           /\ at' \in [Req -> Nat]
           /\ epo' \in [Req -> Nat]
           /\ via' \in [Req -> Cookies \cup Bearers \cup {None}]
           /\ token' \in [Req -> Bearers \cup {None}]
  BY DEF TypeInv, TypeOK, Goto

\* Each action keeps the types and the locals.
LEMMA ArriveType == ASSUME NEW r \in Req, TypeInv, Arrive(r) PROVE TypeInv'
<1>1. ASSUME NEW kind \in LoginOrRegister, NEW a \in Addresses, NEW email \in Emails,
             NEW right \in BOOLEAN, Submit(r, kind, a, email, right)
      PROVE  TypeInv'
  BY <1>1, AddressOfCaller DEF TypeInv, TypeOK, HandlerLocals, Submit, Start, LoginCalls, PCs, users, held
<1>2. ASSUME NEW kind \in {"me", "logout_all"}, NEW cookie \in cookies \cup {None},
             NEW bearer \in bearers \cup {None}, Present(r, kind, cookie, bearer)
      PROVE  TypeInv'
  BY <1>2 DEF TypeInv, TypeOK, HandlerLocals, Present, Start, AuthCalls, PCs, users, held
<1>3. ASSUME NEW bearer \in bearers, PresentLogoutToken(r, bearer)
      PROVE  TypeInv'
  BY <1>3 DEF TypeInv, TypeOK, HandlerLocals, PresentLogoutToken, Start, TokenCalls, PCs, users, held
<1>4. QED
  BY <1>1, <1>2, <1>3, GuessesAssumption DEF Arrive, LoginOrRegister, LoginKinds

LEMMA CheckType ==
    ASSUME NEW r \in Req, TypeInv, LimitIP(r) \/ LimitAccount(r) \/ Lookup(r)
    PROVE  TypeInv'
<1>1. /\ cookies' = cookies /\ bearers' = bearers /\ now' = now /\ accounts' = accounts
      /\ epoch' = epoch /\ mobile_tokens' = mobile_tokens /\ rate_limits' = rate_limits
  BY DEF LimitIP, LimitAccount, Lookup, users, held
<1>2. CASE Respond(r)
  BY <1>1, <1>2, RespondType DEF TypeInv, TypeOK
<1>3. CASE ~ Respond(r) /\ \E p \in PCs : Goto(r, p)
  <2>1. TypeOK'
    BY <1>1, <1>3, GotoType DEF TypeInv, TypeOK
  <2>2. HandlerLocals'
    <3>1. PICK p \in PCs : Goto(r, p)
      BY <1>3
    <3>2. call' = call /\ via' = via /\ token' = token /\ pc' = [pc EXCEPT ![r] = p]
          /\ pc[r] \notin {"handle", "send_token"}
      BY <3>1 DEF Goto, LimitIP, LimitAccount, Lookup
    <3>3. CASE LimitIP(r)
      <4>1. p = IF call[r].kind = "register" THEN "record_ip" ELSE "limit_account"
        BY <1>3, <3>2, <3>3 DEF LimitIP, Goto, TypeInv, TypeOK, PCs
      <4>2. QED
        BY <1>1, <3>2, <3>3, <4>1 DEF LimitIP, TypeInv, TypeOK, HandlerLocals, LoginCalls,
                                      LoginOrRegister, LoginKinds
    <3>4. CASE LimitAccount(r)
      <4>1. p = "lookup"
        BY <1>3, <3>2, <3>4 DEF LimitAccount, Goto, TypeInv, TypeOK, PCs
      <4>2. QED
        BY <1>1, <3>2, <3>4, <4>1 DEF LimitAccount, TypeInv, TypeOK, HandlerLocals
    <3>5. CASE Lookup(r)
      <4>1. p \in {"clear_ip", "record_ip"}
        BY <3>2, <3>5 DEF Lookup, Goto, TypeInv, TypeOK, PCs
      <4>2. QED
        BY <1>1, <3>2, <3>5, <4>1 DEF Lookup, TypeInv, TypeOK, HandlerLocals
    <3>6. QED BY <3>3, <3>4, <3>5
  <2>3. QED BY <2>1, <2>2 DEF TypeInv
<1>4. QED
  BY <1>2, <1>3 DEF LimitIP, LimitAccount, Lookup, PCs

LEMMA CountType ==
    ASSUME NEW r \in Req, TypeInv,
           RecordIP(r) \/ RecordAccount(r) \/ ClearIP(r) \/ ClearAccount(r)
    PROVE  TypeInv'
<1>1. /\ cookies' = cookies /\ bearers' = bearers /\ now' = now /\ accounts' = accounts
      /\ epoch' = epoch /\ mobile_tokens' = mobile_tokens
  BY DEF RecordIP, RecordAccount, ClearIP, ClearAccount, users, held
<1>2. call[r] \in LoginCalls /\ at[r] \in Nat
  BY DEF RecordIP, RecordAccount, ClearIP, ClearAccount, TypeInv, TypeOK, HandlerLocals
<1>3. rate_limits' \in [Buckets -> Row \cup {NoRow}]
  <2>1. ASSUME NEW b \in Buckets, NEW ok, Record(r, b, ok)
        PROVE  rate_limits' \in [Buckets -> Row \cup {NoRow}]
    <3>1. RecordAttempt(rate_limits[b], MaxAttempts(b), at[r]) \in Row
      <4>1. rate_limits[b] \in Row \cup {NoRow}
        BY DEF TypeInv, TypeOK
      <4>2. MaxAttempts(b) \in Nat
        BY MaximaType
      <4>3. at[r] \in Int
        BY <1>2
      <4>4. QED BY <4>1, <4>2, <4>3, RecordAttemptType
    <3>2. QED BY <2>1, <3>1 DEF Record, TypeInv, TypeOK
  <2>2. ASSUME NEW b \in Buckets, NEW ok, Clear(b, ok)
        PROVE  rate_limits' \in [Buckets -> Row \cup {NoRow}]
    BY <2>2 DEF Clear, TypeInv, TypeOK
  <2>3. QED
    BY <1>2, <2>1, <2>2, BucketTypes DEF RecordIP, RecordAccount, ClearIP, ClearAccount
<1>4. CASE Respond(r)
  BY <1>1, <1>3, <1>4, RespondType DEF TypeInv, TypeOK
<1>5. CASE \E p \in PCs : Goto(r, p)
  <2>1. TypeOK'
    BY <1>1, <1>3, <1>5, GotoType DEF TypeInv, TypeOK
  <2>2. HandlerLocals'
    <3>1. PICK p \in PCs : Goto(r, p)
      BY <1>5
    <3>2. call' = call /\ via' = via /\ token' = token /\ pc' = [pc EXCEPT ![r] = p]
          /\ pc[r] \notin {"handle", "send_token"}
      BY <3>1 DEF Goto, RecordIP, RecordAccount, ClearIP, ClearAccount
    <3>3. CASE RecordIP(r)
      <4>1. p = IF call[r].kind = "register" THEN "create" ELSE "record_account"
        BY <3>2, <3>3 DEF RecordIP, Goto, TypeInv, TypeOK, PCs
      <4>2. QED
        BY <1>1, <3>2, <3>3, <4>1 DEF RecordIP, TypeInv, TypeOK, HandlerLocals, LoginCalls,
                                      LoginOrRegister, LoginKinds
    <3>4. CASE RecordAccount(r)
      BY <1>1, <3>4, RespondType DEF RecordAccount
    <3>5. CASE ClearIP(r)
      <4>1. p = "clear_account"
        BY <3>2, <3>5 DEF ClearIP, Goto, TypeInv, TypeOK, PCs
      <4>2. QED
        BY <1>1, <3>2, <3>5, <4>1 DEF ClearIP, TypeInv, TypeOK, HandlerLocals
    <3>6. CASE ClearAccount(r)
      <4>1. p = IF call[r].kind = "login" THEN "read_epoch" ELSE "issue"
        BY <3>2, <3>6 DEF ClearAccount, Goto, TypeInv, TypeOK, PCs
      <4>2. QED
        BY <1>1, <3>2, <3>6, <4>1 DEF ClearAccount, TypeInv, TypeOK, HandlerLocals, LoginKinds
    <3>7. QED BY <3>3, <3>4, <3>5, <3>6
  <2>3. QED BY <2>1, <2>2 DEF TypeInv
<1>6. QED
  BY <1>4, <1>5 DEF RecordIP, RecordAccount, ClearIP, ClearAccount, PCs

LEMMA HandOutType == ASSUME NEW r \in Req, TypeInv, HandOut(r) PROVE TypeInv'
<1>1. CASE Create(r)
  <2>1. CASE Respond(r)
    BY <1>1, <2>1, RespondType DEF Create, TypeInv, TypeOK, HandlerLocals, held, LoginCalls
  <2>2. CASE Goto(r, "read_epoch")
    <3>1. TypeOK'
      BY <1>1, <2>2, GotoType DEF Create, TypeInv, TypeOK, HandlerLocals, held, LoginCalls, PCs
    <3>2. HandlerLocals'
      BY <1>1, <2>2 DEF Create, Goto, TypeInv, TypeOK, HandlerLocals, held
    <3>3. QED BY <3>1, <3>2 DEF TypeInv
  <2>3. QED BY <1>1, <2>1, <2>2 DEF Create
<1>2. CASE ReadEpoch(r)
  <2>1. \A ok : SessionEpoch(call[r].email, ok) \in Nat
    BY <1>2 DEF ReadEpoch, SessionEpoch, TypeInv, TypeOK, HandlerLocals, LoginCalls
  <2>2. QED
    BY <1>2, <2>1 DEF ReadEpoch, TypeInv, TypeOK, HandlerLocals, PCs, users, held
<1>3. CASE Mint(r)
  <2>1. Cookie(call[r].email, epo[r], now + SessionTTL) \in Cookies
    BY <1>3, TTLAssumption DEF Mint, Cookie, Cookies, TypeInv, TypeOK, HandlerLocals, LoginCalls
  <2>2. QED
    BY <1>3, <2>1, RespondType DEF Mint, TypeInv, TypeOK, users
<1>4. CASE Issue(r)
  <2>1. ASSUME NEW k \in TokenIds
        PROVE  Bearer(call[r].email, k, at[r] + mobileTokenTTL) \in Bearers
    BY <1>4, TTLAssumption DEF Issue, Bearer, Bearers, TypeInv, TypeOK, HandlerLocals, LoginCalls
  <2>2. CASE Respond(r) /\ UNCHANGED mobile_tokens
    BY <1>4, <2>2, RespondType DEF Issue, TypeInv, TypeOK, users, held
  <2>3. CASE ~ (Respond(r) /\ UNCHANGED mobile_tokens)
    <3>1. PICK c \in Bearers :
            /\ mobile_tokens' = mobile_tokens \cup {c}
            /\ token' = [token EXCEPT ![r] = c]
            /\ pc' = [pc EXCEPT ![r] = "send_token"]
            /\ at' = [at EXCEPT ![r] = 0]
            /\ UNCHANGED <<call, epo, via>>
      BY <1>4, <2>1, <2>3 DEF Issue
    <3>2. c # None /\ pc[r] = "issue"
      BY <1>4, <3>1, NoneAssumption DEF Issue
    <3>3. UNCHANGED <<now, accounts, epoch, rate_limits, cookies, bearers>>
      BY <1>4 DEF Issue, users, held
    <3>4. TypeOK'
      BY <3>1, <3>3 DEF TypeInv, TypeOK, PCs
    <3>5. HandlerLocals'
      BY <3>1, <3>2, <3>3 DEF TypeInv, TypeOK, HandlerLocals
    <3>6. QED BY <3>4, <3>5 DEF TypeInv
  <2>4. QED BY <2>2, <2>3
<1>5. CASE SendToken(r)
  <2>1. token[r] \in Bearers
    BY <1>5 DEF SendToken, TypeInv, TypeOK, HandlerLocals
  <2>2. QED
    BY <1>5, <2>1, RespondType DEF SendToken, TypeInv, TypeOK, users
<1>6. QED BY <1>1, <1>2, <1>3, <1>4, <1>5 DEF HandOut

LEMMA IdentifyType == ASSUME NEW r \in Req, TypeInv, Identify(r) PROVE TypeInv'
<1>1. /\ cookies' = cookies /\ bearers' = bearers /\ now' = now /\ accounts' = accounts
      /\ epoch' = epoch /\ mobile_tokens' = mobile_tokens /\ rate_limits' = rate_limits
      /\ pc[r] \in {"session_user", "bearer_user"}
  BY DEF Identify, SessionUser, BearerUser, users, held
<1>2. CASE Respond(r)
  BY <1>1, <1>2, RespondType DEF TypeInv, TypeOK
<1>3. CASE Goto(r, "bearer_user")
  BY <1>1, <1>3, GotoType DEF Goto, TypeInv, TypeOK, HandlerLocals, PCs
<1>4. ASSUME NEW c \in (cookies \cup bearers), Admit(r, c)
      PROVE  TypeInv'
  BY <1>1, <1>4, NoneAssumption DEF Admit, TypeInv, TypeOK, HandlerLocals, PCs
<1>5. QED
  BY <1>1, <1>2, <1>3, <1>4
     DEF Identify, SessionUser, BearerUser, CookieAccepted, TokenAccepted, TypeInv, HandlerLocals

LEMMA HandleType == ASSUME NEW r \in Req, TypeInv, Handle(r) PROVE TypeInv'
<1>1. CASE Me(r)
  BY <1>1, RespondType DEF Me, TypeInv, TypeOK, users, held
<1>2. CASE LogoutAll(r)
  <2>1. via[r].user \in Emails
    BY <1>2 DEF LogoutAll, TypeInv, TypeOK, HandlerLocals, Cookies, Bearers
  <2>2. epoch' \in [Emails -> Nat] /\ mobile_tokens' \subseteq Bearers
    BY <1>2, <2>1 DEF LogoutAll, TypeInv, TypeOK
  <2>3. QED
    BY <1>2, <2>2, RespondType DEF LogoutAll, TypeInv, TypeOK, held
<1>3. CASE LogoutToken(r)
  BY <1>3, RespondType DEF LogoutToken, TypeInv, TypeOK, users, held
<1>4. QED BY <1>1, <1>2, <1>3 DEF Handle

LEMMA TypeInvInit == Init => TypeInv
  BY AccountsAssumption
     DEF Init, TypeInv, TypeOK, HandlerLocals, PCs

LEMMA TypeInvStep == TypeInv /\ [Next]_vars => TypeInv'
<1> SUFFICES ASSUME TypeInv, [Next]_vars PROVE TypeInv'
  OBVIOUS
<1>1. CASE UNCHANGED vars
  BY <1>1 DEF vars, TypeInv, TypeOK, HandlerLocals
<1>2. ASSUME NEW r \in Req,
             Arrive(r) \/ Authenticate(r) \/ HandOut(r) \/ Identify(r) \/ Handle(r)
      PROVE  TypeInv'
  BY <1>2, ArriveType, CheckType, CountType, HandOutType, IdentifyType, HandleType
     DEF Authenticate
<1>3. CASE Restart
  BY <1>3 DEF Restart, TypeInv, TypeOK, HandlerLocals, PCs, users, held
<1>4. CASE Tick
  BY <1>4 DEF Tick, TypeInv, TypeOK, HandlerLocals, users, held, req
<1>5. QED BY <1>1, <1>2, <1>3, <1>4 DEF Next

\* The tables, the clients' credentials and the requests keep their types, and
\* every handler runs with the locals its statements rely on.
THEOREM TypeCorrect == Spec => [](TypeOK /\ HandlerLocals)
<1>1. Spec => []TypeInv
  BY TypeInvInit, TypeInvStep, PTL DEF Spec
<1>2. QED BY <1>1, PTL DEF TypeInv

----------------------------------------------------------------------------
\* One request moves at a time.

Step(r) == Arrive(r) \/ Authenticate(r) \/ HandOut(r) \/ Identify(r) \/ Handle(r)

Untouched(s) == /\ pc'[s] = pc[s] /\ call'[s] = call[s] /\ epo'[s] = epo[s]
                /\ via'[s] = via[s] /\ token'[s] = token[s]

LEMMA OneMoves ==
    ASSUME NEW r \in Req, NEW s \in Req \ {r}, TypeOK, Step(r)
    PROVE  Untouched(s)
<1>1. ASSUME NEW p, NEW c, Start(r, p, c)
      PROVE  Untouched(s)
  BY <1>1 DEF Start, TypeOK, Untouched
<1>2. ASSUME NEW p, Goto(r, p)
      PROVE  Untouched(s)
  BY <1>2 DEF Goto, TypeOK, Untouched
<1>3. ASSUME Respond(r)
      PROVE  Untouched(s)
  BY <1>3 DEF Respond, TypeOK, Untouched
<1>4. ASSUME NEW c, Admit(r, c)
      PROVE  Untouched(s)
  BY <1>4 DEF Admit, TypeOK, Untouched
<1>5. CASE Arrive(r)
  BY <1>1, <1>5 DEF Arrive, Submit, Present, PresentLogoutToken
<1>6. CASE Authenticate(r)
  BY <1>2, <1>3, <1>6 DEF Authenticate, LimitIP, LimitAccount, Lookup, RecordIP,
                          RecordAccount, ClearIP, ClearAccount
<1>7. CASE HandOut(r)
  BY <1>2, <1>3, <1>7 DEF HandOut, Create, ReadEpoch, Mint, Issue, SendToken, TypeOK, Untouched
<1>8. CASE Identify(r)
  BY <1>2, <1>3, <1>4, <1>8 DEF Identify, SessionUser, BearerUser
<1>9. CASE Handle(r)
  BY <1>3, <1>9 DEF Handle, Me, LogoutAll, LogoutToken
<1>10. QED BY <1>5, <1>6, <1>7, <1>8, <1>9 DEF Step

----------------------------------------------------------------------------
\* Who may be handed a credential.

\* How a request comes to be, or stays, entitled to a credential.
LEMMA HandsOutEffect ==
    ASSUME NEW r \in Req, TypeInv, Step(r), HandsOut(r)'
    PROVE  \/ HandsOut(r) /\ call' = call /\ accounts \subseteq accounts'
           \/ /\ call' = call /\ call[r].email \in accounts /\ call[r].right
              /\ call[r].kind \in LoginKinds /\ accounts' = accounts
           \/ /\ call' = call /\ call[r].kind = "register"
              /\ call[r].email \notin accounts
              /\ accounts' = accounts \cup {call[r].email}
<1>1. ~ Respond(r)
  BY DEF HandsOut, Respond, TypeInv, TypeOK
<1>2. CASE Arrive(r)
  BY <1>2 DEF Arrive, Submit, Present, PresentLogoutToken, Start, HandsOut, TypeInv, TypeOK
<1>3. CASE LimitIP(r) \/ LimitAccount(r) \/ RecordIP(r) \/ RecordAccount(r)
  BY <1>1, <1>3 DEF LimitIP, LimitAccount, RecordIP, RecordAccount, Goto, HandsOut, TypeInv, TypeOK
<1>4. CASE Lookup(r)
  BY <1>4 DEF Lookup, Goto, HandsOut, TypeInv, TypeOK, HandlerLocals, users
<1>5. CASE ClearIP(r) \/ ClearAccount(r)
  BY <1>5 DEF ClearIP, ClearAccount, Goto, HandsOut, users
<1>6. CASE Create(r)
  BY <1>1, <1>6 DEF Create, Goto, TypeInv, HandlerLocals
<1>7. CASE ReadEpoch(r) \/ Mint(r) \/ Issue(r) \/ SendToken(r)
  BY <1>1, <1>7 DEF ReadEpoch, Mint, Issue, SendToken, HandsOut, users
<1>8. CASE Identify(r)
  BY <1>1, <1>8 DEF Identify, SessionUser, BearerUser, Goto, Admit, HandsOut, TypeInv, TypeOK
<1>9. CASE Handle(r)
  BY <1>1, <1>9 DEF Handle, Me, LogoutAll, LogoutToken
<1>10. QED BY <1>2, <1>3, <1>4, <1>5, <1>6, <1>7, <1>8, <1>9 DEF Step, Authenticate, HandOut

\* No step removes an account.
LEMMA AccountsGrow == Next => accounts \subseteq accounts'
  BY DEF Next, Arrive, Submit, Present, PresentLogoutToken, Authenticate, LimitIP,
         LimitAccount, Lookup, RecordIP, RecordAccount, ClearIP, ClearAccount, HandOut,
         Create, ReadEpoch, Mint, Issue, SendToken, Identify, SessionUser, BearerUser, Handle, Me,
         LogoutAll, LogoutToken, Restart, Tick, users

LEMMA ProvenStep ==
    ASSUME TypeInv, OnlyProvenGetCredentials, [Next]_vars
    PROVE  OnlyProvenGetCredentials'
<1>1. CASE UNCHANGED vars
  BY <1>1 DEF vars, OnlyProvenGetCredentials, HandsOut
<1>2. CASE Restart
  BY <1>2 DEF Restart, OnlyProvenGetCredentials, HandsOut
<1>3. CASE Tick
  BY <1>3 DEF Tick, OnlyProvenGetCredentials, HandsOut, users, req
<1>4. ASSUME NEW r \in Req, Step(r)
      PROVE  OnlyProvenGetCredentials'
  <2>1. accounts \subseteq accounts'
    BY <1>4, AccountsGrow DEF Step, Next
  <2>2. \A s \in Req \ {r} : pc'[s] = pc[s] /\ call'[s] = call[s]
    BY <1>4, OneMoves DEF TypeInv, Untouched
  <2>3. ASSUME NEW s \in Req, HandsOut(s)'
        PROVE  call'[s].email \in accounts' /\ (call'[s].kind \in LoginKinds => call'[s].right)
    <3>1. CASE s = r
      BY <1>4, <2>3, <3>1, HandsOutEffect DEF OnlyProvenGetCredentials, LoginKinds
    <3>2. CASE s # r
      BY <2>1, <2>2, <2>3, <3>2 DEF OnlyProvenGetCredentials, HandsOut
    <3>3. QED BY <3>1, <3>2
  <2>4. ASSUME NEW s \in Req, NEW t \in Req,
               HandsOut(s)', call'[s].kind = "register",
               HandsOut(t)', call'[t].kind = "register",
               call'[s].email = call'[t].email
        PROVE  s = t
    <3>1. ASSUME NEW u \in Req \ {r}, HandsOut(r)', HandsOut(u)',
                 call'[r].kind = "register", call'[u].kind = "register",
                 call'[r].email = call'[u].email
          PROVE  FALSE
      <4>1. HandsOut(u) /\ call[u] = call'[u] /\ call[u].email \in accounts
        BY <2>2, <3>1 DEF OnlyProvenGetCredentials, HandsOut
      <4>2. HandsOut(r) /\ call' = call
        BY <1>4, <3>1, <4>1, HandsOutEffect DEF LoginKinds
      <4>3. QED BY <3>1, <4>1, <4>2 DEF OnlyProvenGetCredentials
    <3>2. CASE s # r /\ t # r
      BY <2>2, <2>4, <3>2 DEF OnlyProvenGetCredentials, HandsOut
    <3>3. QED BY <2>4, <3>1, <3>2
  <2>5. QED BY <2>3, <2>4 DEF OnlyProvenGetCredentials
<1>5. QED BY <1>1, <1>2, <1>3, <1>4 DEF Next, Step

\* A credential is only ever made for an account that exists, by a request that
\* proved its password or registered it, and an address is registered once.
THEOREM ProvenGetCredentials == Spec => []OnlyProvenGetCredentials
<1>1. Init => OnlyProvenGetCredentials
  BY DEF Init, OnlyProvenGetCredentials, HandsOut
<1>2. Spec => []TypeInv
  BY TypeCorrect, PTL DEF TypeInv
<1>3. TypeInv /\ OnlyProvenGetCredentials /\ [Next]_vars => OnlyProvenGetCredentials'
  BY ProvenStep
<1>4. QED BY <1>1, <1>2, <1>3, PTL DEF Spec

----------------------------------------------------------------------------
\* Credentials are grounded, and no cookie is ahead of its user's epoch.

\* A token that waits to be sent stays as it is until its own request sends it.
LEMMA TokensWait ==
    ASSUME TypeInv, NEW r \in Req, Step(r), ~ Issue(r), NEW s \in Req, token'[s] # None
    PROVE  s # r /\ token'[s] = token[s] /\ call'[s] = call[s]
<1>1. CASE s = r
  <2>1. token'[r] = token[r] \/ Respond(r)
    BY DEF Step, Arrive, Submit, Present, PresentLogoutToken, Start, Authenticate, LimitIP,
           LimitAccount, Lookup, RecordIP, RecordAccount, ClearIP, ClearAccount, HandOut,
           Create, ReadEpoch, Mint, SendToken, Identify, SessionUser, BearerUser, Handle, Me,
           LogoutAll, LogoutToken, Goto, Admit
  <2>2. token[r] = token'[r]
    BY <1>1, <2>1 DEF Respond, TypeInv, TypeOK
  <2>3. pc[r] = "send_token"
    BY <1>1, <2>2 DEF TypeInv, HandlerLocals
  <2>4. SendToken(r)
    BY <2>3 DEF Step, Arrive, Submit, Present, PresentLogoutToken, Start, Authenticate, LimitIP,
           LimitAccount, Lookup, RecordIP, RecordAccount, ClearIP, ClearAccount, HandOut,
           Create, ReadEpoch, Mint, Identify, SessionUser, BearerUser, Handle, Me,
           LogoutAll, LogoutToken
  <2>5. QED BY <1>1, <2>4 DEF SendToken, Respond, TypeInv, TypeOK
<1>2. CASE s # r
  BY <1>2, OneMoves DEF TypeInv, Untouched
<1>3. QED BY <1>1, <1>2

LEMMA GroundedStep ==
    ASSUME TypeInv, OnlyProvenGetCredentials, CredentialsGrounded, [Next]_vars
    PROVE  CredentialsGrounded'
<1>1. CASE UNCHANGED vars
  BY <1>1 DEF vars, CredentialsGrounded
<1>2. CASE Restart \/ Tick
  BY <1>2 DEF Restart, Tick, CredentialsGrounded, users, held, req
<1>3. ASSUME NEW r \in Req, Step(r)
      PROVE  CredentialsGrounded'
  <2>1. accounts \subseteq accounts'
    BY <1>3, AccountsGrow DEF Step, Next
  <2>2. CASE Issue(r)
    <3>1. CASE UNCHANGED mobile_tokens /\ Respond(r)
      BY <2>2, <3>1 DEF Issue, Respond, CredentialsGrounded, users, held, TypeInv, TypeOK
    <3>2. CASE ~ (UNCHANGED mobile_tokens /\ Respond(r))
      <4>1. PICK k \in TokenIds :
              /\ \A c \in mobile_tokens \cup bearers \cup {token[s] : s \in Req} :
                    c # None => c.tag # k
              /\ mobile_tokens' = mobile_tokens
                    \cup {Bearer(call[r].email, k, at[r] + mobileTokenTTL)}
              /\ token' = [token EXCEPT ![r] = Bearer(call[r].email, k, at[r] + mobileTokenTTL)]
              /\ UNCHANGED call
        BY <2>2, <3>2 DEF Issue
      <4> DEFINE c == Bearer(call[r].email, k, at[r] + mobileTokenTTL)
      <4>2. c.user = call[r].email /\ c.tag = k /\ c.user \in accounts
        BY <2>2 DEF Bearer, Issue, OnlyProvenGetCredentials, HandsOut
      <4>3. c \notin bearers /\ \A s \in Req : token[s] # c \/ token[s] = None
        BY <4>1, <4>2, NoneAssumption DEF TypeInv, TypeOK
      <4>4. UNCHANGED <<cookies, bearers, accounts>> /\ token'[r] = c
        BY <2>2, <4>1 DEF Issue, users, held, TypeInv, TypeOK
      <4>5. \A s \in Req : s # r => token'[s] = token[s]
        BY <4>1 DEF TypeInv, TypeOK
      <4>6. QED
        BY <4>1, <4>2, <4>3, <4>4, <4>5 DEF CredentialsGrounded
    <3>3. QED BY <3>1, <3>2
  <2>3. CASE ~ Issue(r)
    <3>1. \A s \in Req : token'[s] # None =>
             s # r /\ token'[s] = token[s] /\ call'[s] = call[s]
      BY <1>3, <2>3, TokensWait
    <3>2. /\ mobile_tokens' \subseteq mobile_tokens
          /\ \A c \in bearers' \ bearers : SendToken(r) /\ c = token[r]
          /\ \A c \in cookies' \ cookies : c.user \in accounts
      <4>1. CASE Mint(r)
        BY <4>1 DEF Mint, Cookie, OnlyProvenGetCredentials, HandsOut, users
      <4>2. CASE SendToken(r) \/ LogoutAll(r) \/ LogoutToken(r)
        BY <4>2 DEF SendToken, LogoutAll, LogoutToken, held
      <4>3. CASE ~ (Mint(r) \/ SendToken(r) \/ LogoutAll(r) \/ LogoutToken(r))
        BY <1>3, <2>3, <4>3
           DEF Step, Arrive, Submit, Present, PresentLogoutToken, Authenticate, LimitIP,
               LimitAccount, Lookup, RecordIP, RecordAccount, ClearIP, ClearAccount, HandOut,
               Create, ReadEpoch, Identify, SessionUser, BearerUser, Handle, Me, users, held
      <4>4. QED BY <4>1, <4>2, <4>3
    <3>3. SendToken(r) => token[r] # None
      BY DEF SendToken, TypeInv, HandlerLocals
    <3>4. SendToken(r) => token[r].user \in accounts
      BY <3>3 DEF SendToken, CredentialsGrounded, OnlyProvenGetCredentials, HandsOut
    <3>5. \A c \in cookies' \cup bearers' \cup mobile_tokens' : c.user \in accounts'
      BY <2>1, <3>2, <3>4 DEF CredentialsGrounded
    <3>6. \A s \in Req : token'[s] # None =>
             token'[s].user = call'[s].email /\ token'[s] \notin bearers'
      BY <3>1, <3>2, <3>3 DEF CredentialsGrounded
    <3>7. \A s, t \in Req : token'[s] # None /\ token'[s] = token'[t] => s = t
      BY <3>1 DEF CredentialsGrounded
    <3>8. QED BY <3>5, <3>6, <3>7 DEF CredentialsGrounded
  <2>4. QED BY <2>2, <2>3
<1>4. QED BY <1>1, <1>2, <1>3 DEF Next, Step

LEMMA EpochStep ==
    ASSUME TypeInv, EpochNeverAhead, [Next]_vars
    PROVE  EpochNeverAhead'
<1>1. CASE UNCHANGED vars
  BY <1>1 DEF vars, EpochNeverAhead
<1>2. CASE Restart
  BY <1>2 DEF Restart, EpochNeverAhead, users, held
<1>3. CASE Tick
  BY <1>3 DEF Tick, EpochNeverAhead, users, held, req
<1>4. ASSUME NEW r \in Req, Step(r)
      PROVE  EpochNeverAhead'
  <2>1. \A s \in Req \ {r} : pc'[s] = pc[s] /\ call'[s] = call[s] /\ epo'[s] = epo[s]
    BY <1>4, OneMoves DEF TypeInv, Untouched
  <2>2. /\ epoch' \in [Emails -> Nat]
        /\ \A u \in Emails : epoch[u] <= epoch'[u]
    <3>1. CASE LogoutAll(r)
      <4>1. via[r].user \in Emails
        BY <3>1 DEF LogoutAll, TypeInv, TypeOK, HandlerLocals, Cookies, Bearers
      <4>2. QED BY <3>1, <4>1 DEF LogoutAll, TypeInv, TypeOK
    <3>2. CASE ~ LogoutAll(r)
      <4>1. epoch' = epoch
        BY <1>4, <3>2
           DEF Step, Arrive, Submit, Present, PresentLogoutToken, Authenticate, LimitIP,
               LimitAccount, Lookup, RecordIP, RecordAccount, ClearIP, ClearAccount,
               HandOut, Create, ReadEpoch, Mint, Issue, SendToken, Identify, SessionUser,
               BearerUser, Handle, Me, LogoutToken, users
      <4>2. QED BY <4>1 DEF TypeInv, TypeOK
    <3>3. QED BY <3>1, <3>2
  <2>3. ASSUME pc'[r] = "mint"
        PROVE  /\ epo'[r] <= epoch[call[r].email]
               /\ call'[r] = call[r]
               /\ call[r].email \in Emails
    <3>1. ~ Respond(r) /\ ~ Mint(r)
      BY <2>3 DEF Mint, Respond, TypeInv, TypeOK
    <3>2. ReadEpoch(r)
      BY <1>4, <2>3, <3>1
         DEF Step, Arrive, Submit, Present, PresentLogoutToken, Start, Authenticate, LimitIP,
             LimitAccount, Lookup, RecordIP, RecordAccount, ClearIP, ClearAccount, HandOut,
             Create, Issue, SendToken, Identify, SessionUser, BearerUser, Handle, Me, LogoutAll,
             LogoutToken, Goto, Admit, TypeInv, TypeOK
    <3>3. call[r].email \in Emails
      BY <3>2 DEF ReadEpoch, TypeInv, HandlerLocals, LoginCalls
    <3>4. QED BY <3>2, <3>3 DEF ReadEpoch, SessionEpoch, TypeInv, TypeOK
  <2>4. ASSUME NEW s \in Req, pc'[s] = "mint"
        PROVE  epo'[s] <= epoch'[call'[s].email]
    <3>1. CASE s = r
      BY <2>2, <2>3, <2>4, <3>1, TypeInvStep, <1>4 DEF TypeInv, TypeOK, Next, Step
    <3>2. CASE s # r
      <4>1. /\ epo[s] <= epoch[call[s].email] /\ call[s].email \in Emails
            /\ epo[s] \in Nat /\ epo'[s] = epo[s] /\ call'[s] = call[s]
        BY <2>1, <2>4, <3>2 DEF EpochNeverAhead, TypeInv, TypeOK, HandlerLocals, LoginCalls
      <4>2. QED BY <2>2, <4>1 DEF TypeInv, TypeOK
    <3>3. QED BY <3>1, <3>2
  <2>5. ASSUME NEW c \in cookies'
        PROVE  c.tag <= epoch'[c.user]
    <3>1. CASE c \in cookies
      <4>1. c.tag <= epoch[c.user] /\ c.tag \in Nat /\ c.user \in Emails
        BY <3>1 DEF EpochNeverAhead, TypeInv, TypeOK, Cookies
      <4>2. QED BY <2>2, <4>1 DEF TypeInv, TypeOK
    <3>2. CASE c \notin cookies
      <4>1. Mint(r)
        BY <1>4, <2>5, <3>2
           DEF Step, Arrive, Submit, Present, PresentLogoutToken, Authenticate, LimitIP,
               LimitAccount, Lookup, RecordIP, RecordAccount, ClearIP, ClearAccount, HandOut,
               Create, ReadEpoch, Issue, SendToken, Identify, SessionUser, BearerUser, Handle, Me,
               LogoutAll, LogoutToken, held
      <4>2. c = Cookie(call[r].email, epo[r], now + SessionTTL)
        BY <2>5, <3>2, <4>1 DEF Mint
      <4>3. QED BY <4>1, <4>2 DEF Mint, Cookie, EpochNeverAhead, users
    <3>3. QED BY <3>1, <3>2
  <2>6. QED BY <2>4, <2>5 DEF EpochNeverAhead
<1>5. QED BY <1>1, <1>2, <1>3, <1>4 DEF Next, Step

\* Every cookie names an account and every stored token was issued; and one bump
\* of a user's epoch leaves every cookie signed so far behind it.
THEOREM EpochsBehind == Spec => [](CredentialsGrounded /\ EpochNeverAhead)
<1>1. Init => CredentialsGrounded /\ EpochNeverAhead
  BY DEF Init, CredentialsGrounded, EpochNeverAhead
<1>2. Spec => [](TypeInv /\ OnlyProvenGetCredentials)
  BY TypeCorrect, ProvenGetCredentials, PTL DEF TypeInv
<1>3. TypeInv /\ OnlyProvenGetCredentials /\ CredentialsGrounded /\ EpochNeverAhead /\ [Next]_vars
        => (CredentialsGrounded /\ EpochNeverAhead)'
  BY GroundedStep, EpochStep
<1>4. QED BY <1>1, <1>2, <1>3, PTL DEF Spec

\* All of it at once: what a handler may rely on about the credentials it finds.
THEOREM CredentialsSound == Spec => []CredentialInvariant
  BY TypeCorrect, EpochsBehind, PTL DEF CredentialInvariant

----------------------------------------------------------------------------
\* The limiter's rows.

LEMMA LocksStep ==
    ASSUME TypeInv, LocksMatchCounts, [Next]_vars
    PROVE  LocksMatchCounts'
<1>1. CASE UNCHANGED rate_limits
  BY <1>1 DEF LocksMatchCounts
<1>2. ASSUME NEW r \in Req, NEW b \in Buckets, NEW ok, Record(r, b, ok)
      PROVE  LocksMatchCounts'
  <2>1. LockMatchesCount(RecordAttempt(rate_limits[b], MaxAttempts(b), at[r]), MaxAttempts(b))
    <3>1. /\ rate_limits[b] \in Row \cup {NoRow}
          /\ MaxAttempts(b) \in Nat \ {0, 1}
          /\ at[r] \in Int
          /\ rate_limits[b] # NoRow => LockMatchesCount(rate_limits[b], MaxAttempts(b))
      BY MaximaType DEF TypeInv, TypeOK, LocksMatchCounts
    <3>2. QED BY <3>1, RecordAttemptLocks
  <2>2. QED BY <1>2, <2>1 DEF Record, LocksMatchCounts, TypeInv, TypeOK
<1>3. ASSUME NEW b \in Buckets, NEW ok, Clear(b, ok)
      PROVE  LocksMatchCounts'
  BY <1>3 DEF Clear, LocksMatchCounts, TypeInv, TypeOK
<1>4. ASSUME NEW r \in Req, RecordIP(r) \/ RecordAccount(r) \/ ClearIP(r) \/ ClearAccount(r)
      PROVE  LocksMatchCounts'
  <2>1. call[r] \in LoginCalls
    BY <1>4 DEF RecordIP, RecordAccount, ClearIP, ClearAccount, TypeInv, HandlerLocals
  <2>2. QED
    BY <1>2, <1>3, <1>4, <2>1, BucketTypes DEF RecordIP, RecordAccount, ClearIP, ClearAccount
<1>5. CASE \A r \in Req : ~ (RecordIP(r) \/ RecordAccount(r) \/ ClearIP(r) \/ ClearAccount(r))
  <2>1. UNCHANGED rate_limits
    BY <1>5
       DEF Next, Arrive, Submit, Present, PresentLogoutToken, Authenticate, LimitIP,
           LimitAccount, Lookup, HandOut, Create, ReadEpoch, Mint, Issue, SendToken, Identify,
           SessionUser, BearerUser, Handle, Me, LogoutAll, LogoutToken, Restart, Tick, vars
  <2>2. QED BY <1>1, <2>1
<1>6. QED BY <1>4, <1>5

\* Whatever the order of the writers and the age of their clock readings, a
\* bucket is locked exactly when its count has reached its maximum, for one
\* window from the row's last stamp.
THEOREM LocksCorrect == Spec => []LocksMatchCounts
<1>1. Init => LocksMatchCounts
  BY DEF Init, LocksMatchCounts
<1>2. Spec => []TypeInv
  BY TypeCorrect, PTL DEF TypeInv
<1>3. TypeInv /\ LocksMatchCounts /\ [Next]_vars => LocksMatchCounts'
  BY LocksStep
<1>4. QED BY <1>1, <1>2, <1>3, PTL DEF Spec

\* A row goes away only when a clearing statement runs, and the request that runs
\* it has proved the password of an account.
ProvenClear ==
    \A b \in Buckets :
       (rate_limits[b] # NoRow /\ rate_limits'[b] = NoRow) =>
          \E r \in Req :
             /\ pc[r] \in {"clear_ip", "clear_account"} /\ call[r].right
             /\ call[r].email \in accounts
             /\ b \in {IPBucket(call[r]), AccountBucket(call[r])}

LEMMA ClearsHold ==
    ASSUME TypeInv, OnlyProvenGetCredentials, [Next]_vars
    PROVE  ProvenClear
<1>1. CASE UNCHANGED rate_limits
  BY <1>1 DEF ProvenClear
<1>2. ASSUME NEW r \in Req, RecordIP(r) \/ RecordAccount(r)
      PROVE  ProvenClear
  <2>1. PICK b \in Buckets, ok \in WriteOutcomes : Record(r, b, ok)
    <3>1. call[r] \in LoginCalls
      BY <1>2 DEF RecordIP, RecordAccount, TypeInv, HandlerLocals
    <3>2. QED BY <1>2, <3>1, BucketTypes DEF RecordIP, RecordAccount
  <2>2. RecordAttempt(rate_limits[b], MaxAttempts(b), at[r]) \in Row
    <3>1. rate_limits[b] \in Row \cup {NoRow} /\ MaxAttempts(b) \in Nat /\ at[r] \in Int
      BY MaximaType DEF TypeInv, TypeOK
    <3>2. QED BY <3>1, RecordAttemptType
  <2>3. ASSUME NEW c \in Buckets, rate_limits'[c] = NoRow
        PROVE  rate_limits[c] = NoRow
    <3>1. rate_limits'[c] \in {rate_limits[c], RecordAttempt(rate_limits[b], MaxAttempts(b), at[r])}
      BY <2>1 DEF Record, TypeInv, TypeOK
    <3>2. QED BY <2>2, <2>3, <3>1, NoRowAssumption
  <2>4. QED BY <2>3 DEF ProvenClear
<1>3. ASSUME NEW r \in Req, ClearIP(r) \/ ClearAccount(r)
      PROVE  ProvenClear
  <2>1. /\ pc[r] \in {"clear_ip", "clear_account"}
        /\ \E b \in {IPBucket(call[r]), AccountBucket(call[r])}, ok \in WriteOutcomes : Clear(b, ok)
    BY <1>3 DEF ClearIP, ClearAccount
  <2>2. call[r].right /\ call[r].email \in accounts
    BY <2>1 DEF TypeInv, HandlerLocals, OnlyProvenGetCredentials, HandsOut
  <2>3. ASSUME NEW b \in Buckets, rate_limits[b] # NoRow, rate_limits'[b] = NoRow
        PROVE  b \in {IPBucket(call[r]), AccountBucket(call[r])}
    BY <2>1, <2>3 DEF Clear, TypeInv, TypeOK
  <2>4. QED BY <2>1, <2>2, <2>3 DEF ProvenClear
<1>4. CASE \A r \in Req : ~ (RecordIP(r) \/ RecordAccount(r) \/ ClearIP(r) \/ ClearAccount(r))
  <2>1. UNCHANGED rate_limits
    BY <1>4
       DEF Next, Arrive, Submit, Present, PresentLogoutToken, Authenticate, LimitIP,
           LimitAccount, Lookup, HandOut, Create, ReadEpoch, Mint, Issue, SendToken, Identify,
           SessionUser, BearerUser, Handle, Me, LogoutAll, LogoutToken, Restart, Tick, vars
  <2>2. QED BY <1>1, <2>1
<1>5. QED BY <1>2, <1>3, <1>4

\* The history of a bucket is erased by nothing but a proven login from its
\* address or for its account, so failures of one account never pay for another
\* and registration's budget is never given back.
THEOREM ProofClears == Spec => OnlyProofClears
<1>1. Spec => []TypeInv
  BY TypeCorrect, PTL DEF TypeInv
<1>2. TypeInv /\ OnlyProvenGetCredentials /\ [Next]_vars => [ProvenClear]_vars
  BY ClearsHold
<1>3. QED BY <1>1, <1>2, ProvenGetCredentials, PTL DEF Spec, OnlyProofClears, ProvenClear

----------------------------------------------------------------------------
\* Whose buckets a request touches.

AtItsAddress(r) ==
    pc[r] \in {"limit_ip", "limit_account", "lookup", "record_ip", "clear_ip"} =>
       call[r].ip \in NamedBy(call[r].origin)

AddressInv == \A r \in Req : AtItsAddress(r)

LEMMA AddressStep ==
    ASSUME TypeInv, AddressInv, [Next]_vars
    PROVE  AddressInv'
<1>1. CASE UNCHANGED vars
  BY <1>1 DEF vars, AddressInv, AtItsAddress
<1>2. CASE Restart
  BY <1>2 DEF Restart, AddressInv, AtItsAddress
<1>3. CASE Tick
  BY <1>3 DEF Tick, req, AddressInv, AtItsAddress
<1>4. ASSUME NEW r \in Req, Step(r)
      PROVE  AddressInv'
  <2>1. ASSUME NEW s \in Req, s # r
        PROVE  AtItsAddress(s)'
    BY <1>4, <2>1, OneMoves DEF AddressInv, AtItsAddress, TypeInv, Untouched
  <2>2. AtItsAddress(r)'
    <3>1. /\ Respond(r) => pc'[r] = "idle"
          /\ \A p : Goto(r, p) => pc'[r] = p /\ call'[r] = call[r]
          /\ \A p, c : Start(r, p, c) => pc'[r] = p /\ call'[r] = c
          /\ \A c : Admit(r, c) => pc'[r] = "handle"
      BY DEF Respond, Goto, Start, Admit, TypeInv, TypeOK
    <3>2. ASSUME NEW kind \in LoginOrRegister, NEW a \in Addresses, NEW email \in Emails,
                 NEW right \in BOOLEAN, Submit(r, kind, a, email, right)
          PROVE  AtItsAddress(r)'
      BY <3>1, <3>2, AddressOfCaller DEF Submit, AtItsAddress
    <3>3. CASE Arrive(r)
      <4>1. ASSUME NEW kind, NEW c, NEW t, Present(r, kind, c, t) \/ PresentLogoutToken(r, t)
            PROVE  AtItsAddress(r)'
        <5>1. pc'[r] \in {"session_user", "revoke_token"}
          BY <3>1, <4>1 DEF Present, PresentLogoutToken
        <5>2. QED BY <5>1 DEF AtItsAddress
      <4>2. QED
        BY <3>2, <3>3, <4>1, GuessesAssumption DEF Arrive, LoginOrRegister, LoginKinds
    <3>4. CASE LimitIP(r) \/ LimitAccount(r) \/ Lookup(r)
      BY <3>1, <3>4 DEF LimitIP, LimitAccount, Lookup, AtItsAddress, AddressInv
    <3>5. CASE RecordIP(r)
      <4>1. pc'[r] \in {"create", "record_account"}
        BY <3>1, <3>5 DEF RecordIP
      <4>2. QED BY <4>1 DEF AtItsAddress
    <3>6. CASE RecordAccount(r) \/ ClearIP(r)
      BY <3>1, <3>6 DEF RecordAccount, ClearIP, AtItsAddress
    <3>7. CASE ClearAccount(r)
      <4>1. pc'[r] \in {"read_epoch", "issue"}
        BY <3>1, <3>7 DEF ClearAccount
      <4>2. QED BY <4>1 DEF AtItsAddress
    <3>8. CASE HandOut(r)
      BY <3>1, <3>8 DEF HandOut, Create, ReadEpoch, Mint, Issue, SendToken, AtItsAddress, TypeInv, TypeOK
    <3>9. CASE Identify(r)
      BY <3>1, <3>9 DEF Identify, SessionUser, BearerUser, AtItsAddress
    <3>10. CASE Handle(r)
      BY <3>1, <3>10 DEF Handle, Me, LogoutAll, LogoutToken, AtItsAddress
    <3>11. QED BY <1>4, <3>3, <3>4, <3>5, <3>6, <3>7, <3>8, <3>9, <3>10 DEF Step, Authenticate
  <2>3. QED BY <2>1, <2>2 DEF AddressInv
<1>5. QED BY <1>1, <1>2, <1>3, <1>4 DEF Next, Step

TouchedWhereFrom ==
    \A b \in Buckets :
       (rate_limits'[b] # rate_limits[b] /\ b.ns # "login_account") =>
          \E r \in Req :
             /\ pc[r] \in {"record_ip", "clear_ip"}
             /\ b = IPBucket(call[r])
             /\ call[r].ip \in NamedBy(call[r].origin)

LEMMA TouchesHold ==
    ASSUME TypeInv, AddressInv, [Next]_vars
    PROVE  TouchedWhereFrom
<1> SUFFICES ASSUME NEW b \in Buckets, rate_limits'[b] # rate_limits[b], b.ns # "login_account"
             PROVE  \E r \in Req : /\ pc[r] \in {"record_ip", "clear_ip"}
                                   /\ b = IPBucket(call[r])
                                   /\ call[r].ip \in NamedBy(call[r].origin)
  BY DEF TouchedWhereFrom
<1>1. \E r \in Req : RecordIP(r) \/ RecordAccount(r) \/ ClearIP(r) \/ ClearAccount(r)
  <2> SUFFICES ASSUME \A r \in Req : ~ (RecordIP(r) \/ RecordAccount(r) \/ ClearIP(r)
                                          \/ ClearAccount(r))
               PROVE  UNCHANGED rate_limits
    OBVIOUS
  <2>1. QED
    BY DEF Next, Arrive, Submit, Present, PresentLogoutToken, Authenticate, LimitIP,
           LimitAccount, Lookup, HandOut, Create, ReadEpoch, Mint, Issue, SendToken, Identify,
           SessionUser, BearerUser, Handle, Me, LogoutAll, LogoutToken, Restart, Tick, vars
<1>2. ASSUME NEW r \in Req, RecordAccount(r) \/ ClearAccount(r)
      PROVE  FALSE
  <2>1. /\ call[r] \in LoginCalls
        /\ \E ok : Record(r, AccountBucket(call[r]), ok) \/ Clear(AccountBucket(call[r]), ok)
    BY <1>2 DEF RecordAccount, ClearAccount, TypeInv, HandlerLocals
  <2>2. AccountBucket(call[r]) # b
    BY DEF AccountBucket, loginAccountBucket
  <2>3. QED BY <2>1, <2>2 DEF Record, Clear, TypeInv, TypeOK
<1>3. ASSUME NEW r \in Req, RecordIP(r) \/ ClearIP(r)
      PROVE  /\ pc[r] \in {"record_ip", "clear_ip"}
             /\ b = IPBucket(call[r])
             /\ call[r].ip \in NamedBy(call[r].origin)
  <2>1. /\ pc[r] \in {"record_ip", "clear_ip"}
        /\ \E ok : Record(r, IPBucket(call[r]), ok) \/ Clear(IPBucket(call[r]), ok)
    BY <1>3 DEF RecordIP, ClearIP
  <2>2. b = IPBucket(call[r])
    BY <2>1 DEF Record, Clear, TypeInv, TypeOK
  <2>3. QED BY <2>1, <2>2 DEF AddressInv, AtItsAddress
<1>4. QED BY <1>1, <1>2, <1>3

\* Attempts are counted and cleared where the caller calls from, or at a proxy in
\* front of it, whatever it writes into its headers.
THEOREM CountsWhereFrom == Spec => CountedWhereFrom
<1>1. Init => AddressInv
  BY DEF Init, AddressInv, AtItsAddress
<1>2. TypeInv /\ AddressInv /\ [Next]_vars => AddressInv'
  BY AddressStep
<1>3. TypeInv /\ AddressInv /\ [Next]_vars => [TouchedWhereFrom]_vars
  BY TouchesHold
<1>4. Spec => []TypeInv
  BY TypeCorrect, PTL DEF TypeInv
<1>5. QED
  BY <1>1, <1>2, <1>3, <1>4, PTL DEF Spec, CountedWhereFrom, TouchedWhereFrom

----------------------------------------------------------------------------
\* The service implements the credential ledger.  SessionEpoch answers a failed
\* read with 0: where reads fail the ledger lapses, as the code does.

IInv == TypeInv /\ OnlyProvenGetCredentials /\ CredentialsGrounded /\ EpochNeverAhead

\* A cookie that passes sessionUser is in date, and not behind its user's epoch
\* if that could be read.
LEMMA AcceptedIsCurrent ==
    ASSUME IInv, NEW c \in cookies \cup {None}, NEW ok \in ReadOutcomes,
           CookieAccepted(c, ok)
    PROVE  /\ c \in cookies /\ now <= c.exp
           /\ ReadsFail \/ c.tag >= epoch[c.user]
  BY DEF IInv, CredentialsGrounded, CookieAccepted, SessionEpoch, ReadOutcomes

LEMMA LedgerInit == Init => Ledger!Init
  BY DEF Init, Ledger!Init, Live

LEMMA LedgerMint ==
    ASSUME IInv, NEW r \in Req, Mint(r)
    PROVE  Ledger!HandOut(r)
<1> DEFINE c == Cookie(call[r].email, epo[r], now + SessionTTL)
<1>1. /\ cookies' = cookies \cup {c}
      /\ UNCHANGED <<now, epoch, mobile_tokens, bearers>>
      /\ via[r] = None /\ via' = via
  BY DEF Mint, Respond, users, IInv, TypeInv, TypeOK, HandlerLocals
<1>2. /\ c.kind = "cookie" /\ c.tag = epo[r] /\ c.exp = now + SessionTTL
      /\ now <= c.exp
  BY TTLAssumption DEF Cookie, IInv, TypeInv, TypeOK
<1>3. c \notin mobile_tokens
  BY <1>2 DEF IInv, TypeInv, TypeOK, Bearers
<1>4. CASE c.tag >= epoch[c.user]
  <2>1. Live' = Live \cup {c}
    BY <1>1, <1>2, <1>4 DEF Live
  <2>2. c \notin (cookies \cup bearers) \ Live
    BY <1>2, <1>4 DEF Live, IInv, TypeInv, TypeOK, Bearers
  <2>3. QED BY <1>1, <1>2, <2>1, <2>2 DEF Ledger!HandOut, Ledger!Issue, Ledger!InDate
<1>5. CASE ~ (c.tag >= epoch[c.user])
  <2>1. Live' = Live /\ c \notin Live
    BY <1>1, <1>3, <1>5 DEF Live
  <2>2. QED BY <1>1, <2>1 DEF Ledger!HandOut, Ledger!IssueDead
<1>6. QED BY <1>4, <1>5

\* The row of a token nobody holds yet is invisible in the ledger.
LEMMA LedgerIssue ==
    ASSUME IInv, NEW r \in Req, Issue(r)
    PROVE  UNCHANGED Ledger!vars
<1>1. /\ UNCHANGED <<now, epoch, cookies, bearers>>
      /\ via[r] = None /\ via' = via
  BY DEF Issue, Respond, users, held, IInv, TypeInv, TypeOK, HandlerLocals
<1>2. mobile_tokens' \cap bearers = mobile_tokens \cap bearers
  <2>1. CASE UNCHANGED mobile_tokens
    BY <2>1
  <2>2. CASE ~ UNCHANGED mobile_tokens
    <3>1. PICK k \in TokenIds :
            /\ \A c \in mobile_tokens \cup bearers \cup {token[s] : s \in Req} :
                  c # None => c.tag # k
            /\ mobile_tokens' = mobile_tokens
                  \cup {Bearer(call[r].email, k, at[r] + mobileTokenTTL)}
      BY <2>2 DEF Issue
    <3>2. Bearer(call[r].email, k, at[r] + mobileTokenTTL).tag = k
      BY DEF Bearer
    <3>3. Bearer(call[r].email, k, at[r] + mobileTokenTTL) \notin bearers
      BY <3>1, <3>2, NoneAssumption DEF IInv, TypeInv, TypeOK
    <3>4. QED BY <3>1, <3>3
  <2>3. QED BY <2>1, <2>2
<1>3. QED BY <1>1, <1>2 DEF Ledger!vars, Live

\* The client is given a live token, or one that was revoked or ran out meanwhile.
LEMMA LedgerSend ==
    ASSUME IInv, NEW r \in Req, SendToken(r)
    PROVE  Ledger!HandOut(r)
<1> DEFINE c == token[r]
<1>1. /\ UNCHANGED <<now, epoch, cookies, mobile_tokens>>
      /\ bearers' = bearers \cup {c}
      /\ via[r] = None /\ via' = via
  BY DEF SendToken, Respond, users, IInv, TypeInv, TypeOK, HandlerLocals
<1>2. c # None /\ c \in Bearers /\ c.kind = "bearer" /\ c \notin cookies
  BY DEF SendToken, IInv, TypeInv, TypeOK, HandlerLocals, Bearers, Cookies
<1>3. c \notin bearers
  BY <1>2 DEF IInv, CredentialsGrounded
<1>4. CASE c \in mobile_tokens /\ now < c.exp
  <2>1. Live' = Live \cup {c}
    BY <1>1, <1>4 DEF Live
  <2>2. c \notin (cookies \cup bearers) \ Live
    BY <1>2, <1>3
  <2>3. QED
    BY <1>1, <1>2, <1>4, <2>1, <2>2 DEF Ledger!HandOut, Ledger!Issue, Ledger!InDate
<1>5. CASE ~ (c \in mobile_tokens /\ now < c.exp)
  <2>1. Live' = Live /\ c \notin Live
    BY <1>1, <1>2, <1>5 DEF Live
  <2>2. QED BY <1>1, <2>1 DEF Ledger!HandOut, Ledger!IssueDead
<1>6. QED BY <1>4, <1>5

LEMMA LedgerIdentify ==
    ASSUME IInv, NEW r \in Req, Identify(r)
    PROVE  Ledger!Admit(r) \/ UNCHANGED Ledger!vars
<1>1. /\ UNCHANGED <<now, epoch, mobile_tokens, cookies, bearers>>
      /\ Live' = Live
      /\ via[r] = None
  BY DEF Identify, SessionUser, BearerUser, users, held, Live, IInv, TypeInv, HandlerLocals
<1>2. CASE UNCHANGED via
  BY <1>1, <1>2 DEF Ledger!vars
<1>3. CASE ~ UNCHANGED via
  <2>1. ASSUME NEW c \in Live \cup Ledger!Overlooked, Admit(r, c)
        PROVE  Ledger!Admit(r)
    BY <1>1, <2>1 DEF Admit, Ledger!Admit
  <2>2. CASE SessionUser(r)
    <3>1. PICK ok \in ReadOutcomes :
            CookieAccepted(call[r].cookie, ok) /\ Admit(r, call[r].cookie)
      BY <1>3, <2>2 DEF SessionUser, Goto
    <3>2. call[r].cookie \in cookies \cup {None}
      BY <2>2 DEF SessionUser, IInv, TypeInv, HandlerLocals
    <3>3. /\ call[r].cookie \in cookies /\ now <= call[r].cookie.exp
          /\ ReadsFail \/ call[r].cookie.tag >= epoch[call[r].cookie.user]
      BY <3>1, <3>2, AcceptedIsCurrent
    <3>4. call[r].cookie.kind = "cookie"
      BY <3>3 DEF IInv, TypeInv, TypeOK, Cookies
    <3>5. call[r].cookie \in Live \cup Ledger!Overlooked
      BY <3>3, <3>4 DEF Live, Ledger!Overlooked, Ledger!InDate
    <3>6. QED BY <2>1, <3>1, <3>5
  <2>3. CASE BearerUser(r)
    <3>1. \A s \in Req : s # r => via[s] = via'[s]
      BY <2>3, OneMoves DEF Step, Identify, IInv, TypeInv, Untouched
    <3>2. ~ Respond(r)
      BY <1>1, <1>3 DEF Respond, IInv, TypeInv, TypeOK
    <3>3. call[r].bearer \in Live /\ Admit(r, call[r].bearer)
      BY <2>3, <3>2 DEF BearerUser, TokenAccepted, Live, IInv, TypeInv, HandlerLocals
    <3>4. QED BY <2>1, <3>3
  <2>4. QED BY <2>2, <2>3 DEF Identify
<1>4. QED BY <1>2, <1>3

LEMMA LedgerHandle ==
    ASSUME IInv, NEW r \in Req, Handle(r)
    PROVE  Ledger!Release(r) \/ Ledger!RevokeAll(r) \/ Ledger!RevokeToken(r)
             \/ UNCHANGED Ledger!vars
<1>1. CASE Me(r)
  BY <1>1 DEF Me, Respond, users, held, Live, Ledger!Release, IInv, TypeInv, HandlerLocals
<1>2. CASE LogoutAll(r)
  <2>1. /\ via[r] # None /\ via' = [via EXCEPT ![r] = None]
        /\ UNCHANGED <<now, cookies, bearers>>
    BY <1>2 DEF LogoutAll, Respond, held, IInv, TypeInv, HandlerLocals
  <2>2. CASE UNCHANGED <<epoch, mobile_tokens>>
    BY <2>1, <2>2 DEF Live, Ledger!Release
  <2>3. CASE /\ epoch' = [epoch EXCEPT ![via[r].user] = @ + 1]
             /\ mobile_tokens' = {c \in mobile_tokens : c.user # via[r].user}
    <3>1. via[r].user \in Emails
      BY <2>1 DEF IInv, TypeInv, TypeOK, Cookies, Bearers
    <3>2. ASSUME NEW c \in cookies
          PROVE  c.tag >= epoch'[c.user] <=> c.tag >= epoch[c.user] /\ c.user # via[r].user
      <4>1. /\ c.tag \in Nat /\ c.user \in Emails /\ epoch[c.user] \in Nat
            /\ c.tag <= epoch[c.user]
        BY DEF IInv, TypeInv, TypeOK, Cookies, EpochNeverAhead
      <4>2. QED BY <2>3, <3>1, <4>1 DEF IInv, TypeInv, TypeOK
    <3>3. Live' = {c \in Live : c.user # via[r].user}
      BY <2>1, <2>3, <3>2 DEF Live
    <3>4. QED BY <2>1, <3>3 DEF Ledger!RevokeAll
  <2>4. QED BY <1>2, <2>2, <2>3 DEF LogoutAll
<1>3. CASE LogoutToken(r)
  <2>1. /\ via[r] = None /\ via' = via
        /\ UNCHANGED <<now, epoch, cookies, bearers>>
        /\ call[r].bearer \in bearers
    BY <1>3 DEF LogoutToken, Respond, users, held, IInv, TypeInv, TypeOK, HandlerLocals
  <2>2. CASE UNCHANGED mobile_tokens
    BY <2>1, <2>2 DEF Live, Ledger!vars
  <2>3. CASE mobile_tokens' = mobile_tokens \ {call[r].bearer}
    <3>1. call[r].bearer.kind = "bearer" /\ call[r].bearer \notin cookies
      BY <2>1 DEF IInv, TypeInv, TypeOK, Bearers, Cookies
    <3>2. Live' = Live \ {call[r].bearer}
      BY <2>1, <2>3, <3>1 DEF Live
    <3>3. CASE call[r].bearer \in Live
      BY <2>1, <3>1, <3>2, <3>3 DEF Ledger!RevokeToken
    <3>4. CASE call[r].bearer \notin Live
      BY <2>1, <3>2, <3>4 DEF Ledger!vars
    <3>5. QED BY <3>3, <3>4
  <2>4. QED BY <1>3, <2>2, <2>3 DEF LogoutToken
<1>4. QED BY <1>1, <1>2, <1>3 DEF Handle

\* Every other step of a request is invisible in the ledger.
LEMMA LedgerStutter ==
    ASSUME IInv, NEW r \in Req, Arrive(r) \/ Authenticate(r) \/ Create(r) \/ ReadEpoch(r)
    PROVE  UNCHANGED Ledger!vars
<1>1. UNCHANGED <<now, epoch, mobile_tokens, cookies, bearers>>
  BY DEF Arrive, Submit, Present, PresentLogoutToken, Authenticate, LimitIP, LimitAccount,
         Lookup, RecordIP, RecordAccount, ClearIP, ClearAccount, Create, ReadEpoch, users, held
<1>2. UNCHANGED via
  <2>1. CASE Arrive(r) \/ ReadEpoch(r)
    BY <2>1 DEF Arrive, Submit, Present, PresentLogoutToken, Start, ReadEpoch
  <2>2. CASE Authenticate(r) \/ Create(r)
    <3>1. via[r] = None
      BY <2>2 DEF Authenticate, LimitIP, LimitAccount, Lookup, RecordIP, RecordAccount,
                  ClearIP, ClearAccount, Create, IInv, TypeInv, HandlerLocals
    <3>2. Respond(r) => via' = via
      BY <3>1 DEF Respond, IInv, TypeInv, TypeOK
    <3>3. \A p : Goto(r, p) => via' = via
      BY DEF Goto
    <3>4. QED
      BY <2>2, <3>2, <3>3 DEF Authenticate, LimitIP, LimitAccount, Lookup, RecordIP,
                              RecordAccount, ClearIP, ClearAccount, Create
  <2>3. QED BY <2>1, <2>2
<1>3. QED BY <1>1, <1>2 DEF Ledger!vars, Live

LEMMA LedgerTick ==
    ASSUME IInv, Tick
    PROVE  Ledger!Tick
<1>1. now' = now + 1 /\ UNCHANGED <<epoch, mobile_tokens, cookies, bearers, via>>
  BY DEF Tick, users, held, req
<1>2. ASSUME NEW c \in cookies
      PROVE  Ledger!InDate(c, now + 1) <=> now + 1 <= c.exp
  BY DEF Ledger!InDate, IInv, TypeInv, TypeOK, Cookies
<1>3. ASSUME NEW c \in mobile_tokens
      PROVE  Ledger!InDate(c, now + 1) <=> now + 1 < c.exp
  BY DEF Ledger!InDate, IInv, TypeInv, TypeOK, Bearers
<1>4. /\ \A c \in cookies : c.exp \in Nat
      /\ \A c \in mobile_tokens : c.exp \in Nat
      /\ now \in Nat
  BY DEF IInv, TypeInv, TypeOK, Cookies, Bearers
<1>5. Live' = {c \in Live : Ledger!InDate(c, now')}
  BY <1>1, <1>2, <1>3, <1>4 DEF Live
<1>6. QED BY <1>1, <1>5 DEF Ledger!Tick

LEMMA LedgerStep ==
    ASSUME IInv, [Next]_vars
    PROVE  [Ledger!Next]_(Ledger!vars)
<1>1. CASE UNCHANGED vars
  BY <1>1 DEF vars, Ledger!vars, Live
<1>2. CASE Restart
  BY <1>2 DEF Restart, users, held, Live, Ledger!Restart, Ledger!Next
<1>3. CASE Tick
  BY <1>3, LedgerTick DEF Ledger!Next
<1>4. ASSUME NEW r \in Req, Step(r)
      PROVE  [Ledger!Next]_(Ledger!vars)
  BY <1>4, LedgerStutter, LedgerMint, LedgerIssue, LedgerSend, LedgerIdentify, LedgerHandle
     DEF Step, HandOut, Ledger!Next
<1>5. QED BY <1>1, <1>2, <1>3, <1>4 DEF Next, Step

LEMMA Invariance == Spec => []IInv
  BY TypeCorrect, ProvenGetCredentials, EpochsBehind, PTL DEF IInv, TypeInv

\* The service implements the ledger: a request is admitted only on a live
\* credential, or where a read fails on a cookie in date; logging out everywhere
\* kills all of one user's credentials and nobody else's, and the dead stay dead.
THEOREM Refinement == Spec => ImplementsLedger
<1>1. IInv /\ [Next]_vars => [Ledger!Next]_(Ledger!vars)
  BY LedgerStep
<1>2. QED
  BY <1>1, LedgerInit, Invariance, PTL DEF Spec, ImplementsLedger

\* With no failing reads, a cookie that has fallen behind its user's epoch admits
\* no request.
THEOREM SupersededRejected == ~ ReadsFail => (Spec => SupersededCookieRejected)
<1> SUFFICES ASSUME ~ ReadsFail PROVE Spec => SupersededCookieRejected
  OBVIOUS
<1> DEFINE Current == \A r \in Req : (via[r] = None /\ via'[r] \in cookies)
                                        => via'[r].tag >= epoch[via'[r].user]
<1>1. IInv /\ [Next]_vars => [Current]_vars
  <2> SUFFICES ASSUME IInv, Next, NEW r \in Req, via[r] = None, via'[r] \in cookies
               PROVE  via'[r].tag >= epoch[via'[r].user]
    BY DEF vars
  <2>1. via'[r] # None
    BY NoneAssumption DEF IInv, TypeInv, TypeOK
  <2>2. via'[r] # via[r] /\ ~ Restart /\ ~ Tick
    BY <2>1 DEF Restart, Tick, req
  <2>3. Step(r)
    BY <2>2, OneMoves DEF Next, Step, IInv, TypeInv, Untouched
  <2>4. Identify(r)
    <3>1. ~ Handle(r)
      BY <2>1 DEF Handle, Me, LogoutAll, LogoutToken, Respond, IInv, TypeInv, TypeOK
    <3>2. ~ Mint(r) /\ ~ Issue(r) /\ ~ SendToken(r)
      BY <2>1, <2>2 DEF Mint, Issue, SendToken, Respond, IInv, TypeInv, TypeOK
    <3>3. ~ (Arrive(r) \/ Authenticate(r) \/ Create(r) \/ ReadEpoch(r))
      BY <2>2, LedgerStutter DEF Ledger!vars
    <3>4. QED BY <2>3, <3>1, <3>2, <3>3 DEF Step, HandOut
  <2>5. via'[r] \in Live
    BY <2>2, <2>4, LedgerIdentify DEF Ledger!Admit, Ledger!Overlooked, Ledger!vars, IInv, TypeInv, TypeOK
  <2>6. via'[r] \notin mobile_tokens
    BY DEF IInv, TypeInv, TypeOK, Cookies, Bearers
  <2>7. QED BY <2>5, <2>6 DEF Live
<1>2. QED
  BY <1>1, Invariance, PTL DEF Spec, SupersededCookieRejected
=============================================================================
