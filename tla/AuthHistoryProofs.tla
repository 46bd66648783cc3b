------------------------- MODULE AuthHistoryProofs -------------------------
(***************************************************************************)
(* The limiter's budget, for any number of requests, any maxima and        *)
(* window, any clock, and any failures of the database's statements.       *)
(*                                                                         *)
(* Fix a bucket b and a stretch of Stretch seconds that begins after x.    *)
(* As long as the stretch is Open, every attempt of it was counted on the  *)
(* row as it stands, so fewer than the maximum were.  The count that       *)
(* reaches the maximum locks the row beyond the end of the stretch: from   *)
(* then on it is Closed, nobody new gets past the check before the stretch *)
(* is over, and only the requests that were past it already still count.   *)
(***************************************************************************)
EXTENDS AuthHistory, AuthServiceProofs, FiniteSetTheorems

----------------------------------------------------------------------------
\* Clock readings are taken, stamps are written.

\* No reading lies in the future, and one that is about to be written is at
\* most MaxLag old.
ReadingsBounded ==
    \A r \in Req :
        /\ at[r] <= now
        /\ pc[r] \in {"record_ip", "record_account"} => now <= at[r] + MaxLag

\* The stamps of the attempts counted against a bucket lie in the past, and none
\* is more than MaxLag ahead of the row's last one.
StampsBounded ==
    /\ counted \in [Buckets -> Seq(Int)]
    /\ \A b \in Buckets : \A i \in 1..Len(counted[b]) :
          /\ counted[b][i] <= now
          /\ rate_limits[b] # NoRow
          /\ counted[b][i] <= rate_limits[b].updated_at + MaxLag

\* r is past the check of b and has yet to read the clock for the count, or has
\* read it and is about to count.
Waits(r, b) ==
    \/ pc[r] \in {"limit_account", "lookup"} /\ IPBucket(call[r]) = b
    \/ pc[r] \in {"lookup", "record_ip"} /\ call[r].kind \in LoginKinds /\ AccountBucket(call[r]) = b

Charges(r, b) ==
    \/ pc[r] = "record_ip" /\ IPBucket(call[r]) = b
    \/ pc[r] = "record_account" /\ AccountBucket(call[r]) = b

\* The requests that may still count against b in the stretch after x.
Pending(b, x) ==
    {r \in Req : \/ Waits(r, b) /\ now <= x + Stretch
                 \/ Charges(r, b) /\ at[r] <= x + Stretch}

Count(b, x) == Cardinality(CountedAfter(b, x))

Open(b, x) ==
    \/ Count(b, x) = 0
    \/ /\ rate_limits[b] # NoRow
       /\ Count(b, x) < MaxAttempts(b)
       /\ Count(b, x) <= rate_limits[b].attempts

Closed(b, x) ==
    /\ x < now
    /\ Count(b, x) + Cardinality(Pending(b, x)) <= MaxAttempts(b) - 1 + Cardinality(Req)
    /\ \/ x + Stretch < now
       \/ /\ rate_limits[b] # NoRow
          /\ rate_limits[b].locked_until # NoLock
          /\ x + Stretch < rate_limits[b].locked_until

BudgetKept == \A b \in Buckets, x \in Int : Open(b, x) \/ Closed(b, x)

HistoryInv == TypeInv /\ LocksMatchCounts /\ ReadingsBounded /\ StampsBounded

----------------------------------------------------------------------------
\* What one step does to a bucket.

\* r counts an attempt against b.
CountStep(r, b) ==
    /\ Charges(r, b)
    /\ now' = now
    /\ rate_limits'[b] = RecordAttempt(rate_limits[b], MaxAttempts(b), at[r])
    /\ pc' = [pc EXCEPT ![r] = pc'[r]]
    /\ ~ (Waits(r, b) \/ Charges(r, b))'

\* The row of b is left alone, counted or cleared.
LEMMA BucketEffect ==
    ASSUME TypeInv, [Next]_vars, NEW b \in Buckets
    PROVE  \/ rate_limits'[b] = rate_limits[b]
           \/ rate_limits'[b] = NoRow
           \/ \E r \in Req : CountStep(r, b)
<1>1. CASE UNCHANGED rate_limits
  BY <1>1
<1>2. ASSUME NEW r \in Req, RecordIP(r), rate_limits'[b] # rate_limits[b]
      PROVE  CountStep(r, b)
  <2>1. /\ pc[r] = "record_ip" /\ call[r] \in LoginCalls /\ now' = now /\ call' = call
        /\ IPBucket(call[r]) \in Buckets
    BY <1>2, BucketTypes DEF RecordIP, Goto, TypeInv, HandlerLocals
  <2>2. /\ IPBucket(call[r]) = b
        /\ rate_limits'[b] = RecordAttempt(rate_limits[b], MaxAttempts(b), at[r])
    BY <1>2, <2>1 DEF RecordIP, Record, TypeInv, TypeOK
  <2>3. pc' = [pc EXCEPT ![r] = pc'[r]] /\ pc'[r] \in {"create", "record_account"}
    BY <1>2 DEF RecordIP, Goto, TypeInv, TypeOK
  <2>4. AccountBucket(call[r]) # b
    BY <2>1, <2>2 DEF IPBucket, AccountBucket, loginBucket, loginTokenBucket, registerBucket,
                      loginAccountBucket, LoginCalls, LoginOrRegister, LoginKinds
  <2>5. QED BY <2>1, <2>2, <2>3, <2>4 DEF CountStep, Charges, Waits
<1>3. ASSUME NEW r \in Req, RecordAccount(r), rate_limits'[b] # rate_limits[b]
      PROVE  CountStep(r, b)
  <2>1. /\ pc[r] = "record_account" /\ call[r] \in LoginCalls /\ now' = now
        /\ AccountBucket(call[r]) \in Buckets
    BY <1>3, BucketTypes DEF RecordAccount, TypeInv, HandlerLocals
  <2>2. /\ AccountBucket(call[r]) = b
        /\ rate_limits'[b] = RecordAttempt(rate_limits[b], MaxAttempts(b), at[r])
    BY <1>3, <2>1 DEF RecordAccount, Record, TypeInv, TypeOK
  <2>3. pc' = [pc EXCEPT ![r] = pc'[r]] /\ pc'[r] = "idle"
    BY <1>3 DEF RecordAccount, Respond, TypeInv, TypeOK
  <2>4. QED BY <2>1, <2>2, <2>3 DEF CountStep, Charges, Waits
<1>4. ASSUME NEW r \in Req, ClearIP(r) \/ ClearAccount(r)
      PROVE  rate_limits'[b] \in {rate_limits[b], NoRow}
  BY <1>4 DEF ClearIP, ClearAccount, Clear, TypeInv, TypeOK
<1>5. CASE \A r \in Req : ~ (RecordIP(r) \/ RecordAccount(r) \/ ClearIP(r) \/ ClearAccount(r))
  <2>1. UNCHANGED rate_limits
    BY <1>5
       DEF Next, Arrive, Submit, Present, PresentLogoutToken, Authenticate, LimitIP,
           LimitAccount, Lookup, HandOut, Create, ReadEpoch, Mint, Issue, SendToken, Identify,
           SessionUser, BearerUser, Handle, Me, LogoutAll, LogoutToken, Restart, Tick, vars
  <2>2. QED BY <1>1, <2>1
<1>6. QED BY <1>2, <1>3, <1>4, <1>5

\* The clock never goes back, and it stands still when a row changes.
LEMMA ClockMoves ==
    ASSUME TypeInv, [Next]_vars
    PROVE  /\ now' \in Nat /\ now <= now'
           /\ (now' = now) \/ (UNCHANGED <<rate_limits, pc, call, at>>)
<1>1. CASE Tick
  BY <1>1 DEF Tick, TypeInv, TypeOK, req
<1>2. CASE ~ Tick
  <2>1. now' = now
    BY <1>2
       DEF Next, Arrive, Submit, Present, PresentLogoutToken, Authenticate, LimitIP,
           LimitAccount, Lookup, RecordIP, RecordAccount, ClearIP, ClearAccount, HandOut,
           Create, ReadEpoch, Mint, Issue, SendToken, Identify, SessionUser, BearerUser, Handle, Me,
           LogoutAll, LogoutToken, Restart, vars
  <2>2. QED BY <2>1 DEF TypeInv, TypeOK
<1>3. QED BY <1>1, <1>2

\* How a request that is not pending becomes so: it passes the check of b, with
\* the row unlocked at its reading, while the stretch is not over.
PassesCheck(r, b) ==
    /\ pc[r] \in {"limit_ip", "limit_account"}
    /\ ~ IsLimitedAt(rate_limits[b], at[r])
    /\ now' = now

LEMMA OneRequestMoves ==
    ASSUME TypeInv, [Next]_vars, NEW s \in Req,
           ~ Restart, pc'[s] # pc[s] \/ call'[s] # call[s] \/ at'[s] # at[s]
    PROVE  Step(s) /\ now' = now
<1>1. ~ Tick /\ ~ (UNCHANGED vars)
  BY DEF Tick, vars, req
<1>2. PICK r \in Req : Step(r)
  BY <1>1 DEF Next, Step
<1>3. CASE r = s
  BY <1>1, <1>2, <1>3, ClockMoves
<1>4. CASE r # s
  <2>1. pc'[s] = pc[s] /\ call'[s] = call[s]
    BY <1>2, <1>4, OneMoves DEF TypeInv, Untouched
  <2>2. at'[s] = at[s]
    BY <1>2, <1>4
       DEF Step, Arrive, Submit, Present, PresentLogoutToken, Start, Authenticate, LimitIP,
           LimitAccount, Lookup, RecordIP, RecordAccount, ClearIP, ClearAccount, HandOut,
           Create, ReadEpoch, Mint, Issue, SendToken, Identify, SessionUser, BearerUser, Handle, Me,
           LogoutAll, LogoutToken, Goto, Respond, Admit, TypeInv, TypeOK
  <2>3. QED BY <2>1, <2>2
<1>5. QED BY <1>3, <1>4

\* A request enters a statement with a clock reading taken now, or with none.
LEMMA ReadingMoves ==
    ASSUME TypeInv, [Next]_vars, NEW s \in Req
    PROVE  \/ at'[s] = at[s] /\ pc'[s] = pc[s] /\ call'[s] = call[s]
           \/ at'[s] = 0 /\ pc'[s] \notin Timed
           \/ at'[s] = now /\ now' = now
           \/ at'[s] = at[s] /\ pc'[s] \notin Timed
<1>1. CASE Restart
  BY <1>1 DEF Restart, Timed
<1>2. CASE ~ Restart /\ (pc'[s] # pc[s] \/ call'[s] # call[s] \/ at'[s] # at[s])
  <2>1. Step(s) /\ now' = now
    BY <1>2, OneRequestMoves
  <2>2. \A p : Goto(s, p) => at'[s] = now \/ (at'[s] = 0 /\ pc'[s] \notin Timed)
    BY DEF Goto, TypeInv, TypeOK
  <2>3. \A p, c : Start(s, p, c) => at'[s] = now \/ (at'[s] = 0 /\ pc'[s] \notin Timed)
    BY DEF Start, TypeInv, TypeOK
  <2>4. Respond(s) => at'[s] = 0 /\ pc'[s] \notin Timed
    BY DEF Respond, Timed, TypeInv, TypeOK
  <2>5. \A c : Admit(s, c) => at'[s] = at[s] /\ pc'[s] \notin Timed
    BY DEF Admit, Timed, TypeInv, TypeOK
  <2>6. ReadEpoch(s) => at'[s] = at[s] /\ pc'[s] \notin Timed
    BY DEF ReadEpoch, Timed, TypeInv, TypeOK
  <2>7. Issue(s) => at'[s] = 0 /\ pc'[s] \notin Timed
    BY <2>4 DEF Issue, Timed, TypeInv, TypeOK
  <2>8. QED
    BY <2>1, <2>2, <2>3, <2>4, <2>5, <2>6, <2>7
       DEF Step, Arrive, Submit, Present, PresentLogoutToken, Authenticate, LimitIP,
           LimitAccount, Lookup, RecordIP, RecordAccount, ClearIP, ClearAccount, HandOut,
           Create, Mint, SendToken, Identify, SessionUser, BearerUser, Handle, Me,
           LogoutAll, LogoutToken
<1>3. QED BY <1>1, <1>2

LEMMA ReadingsStep ==
    ASSUME TypeInv, TypeInv', ReadingsBounded, [Next]_vars
    PROVE  ReadingsBounded'
<1> SUFFICES ASSUME NEW s \in Req
             PROVE  /\ at'[s] <= now'
                    /\ pc'[s] \in {"record_ip", "record_account"} => now' <= at'[s] + MaxLag
  BY DEF ReadingsBounded
<1>1. /\ now \in Nat /\ now' \in Nat /\ now <= now' /\ MaxLag \in Nat
      /\ at[s] \in Nat /\ at'[s] \in Nat /\ at[s] <= now
      /\ pc[s] \in {"record_ip", "record_account"} => now <= at[s] + MaxLag
  BY ClockMoves, LagAssumption DEF TypeInv, TypeOK, ReadingsBounded
<1>2. CASE Tick
  BY <1>1, <1>2 DEF Tick, req
<1>3. CASE ~ Tick
  <2>1. now' = now
    BY <1>3, ClockMoves
       DEF Next, Arrive, Submit, Present, PresentLogoutToken, Authenticate, LimitIP,
           LimitAccount, Lookup, RecordIP, RecordAccount, ClearIP, ClearAccount, HandOut,
           Create, ReadEpoch, Mint, Issue, SendToken, Identify, SessionUser, BearerUser, Handle, Me,
           LogoutAll, LogoutToken, Restart, vars
  <2>2. QED BY <1>1, <2>1, ReadingMoves DEF Timed
<1>4. QED BY <1>2, <1>3

\* A request comes to wait to count against b only past the check of b.
LEMMA BecomesWaiting ==
    ASSUME TypeInv, [Next]_vars, NEW b \in Buckets, NEW s \in Req,
           (Waits(s, b) \/ Charges(s, b))', ~ (Waits(s, b) \/ Charges(s, b))
    PROVE  PassesCheck(s, b)
<1>1. ~ Restart
  BY DEF Restart, Waits, Charges
<1>2. pc'[s] # pc[s] \/ call'[s] # call[s]
  BY DEF Waits, Charges
<1>3. Step(s) /\ now' = now
  BY <1>1, <1>2, OneRequestMoves
<1>4. /\ ~ Respond(s)
      /\ \A p : Goto(s, p) => pc'[s] = p /\ call'[s] = call[s]
      /\ \A p, c : Start(s, p, c) => pc'[s] = p
      /\ \A c : Admit(s, c) => pc'[s] = "handle"
  BY DEF Respond, Goto, Start, Admit, Waits, Charges, TypeInv, TypeOK
<1>5. CASE LimitIP(s)
  <2>1. call[s] \in LoginCalls
    BY <1>5 DEF LimitIP, TypeInv, HandlerLocals
  <2>2. /\ pc[s] = "limit_ip" /\ call'[s] = call[s]
        /\ pc'[s] = IF call[s].kind = "register" THEN "record_ip" ELSE "limit_account"
        /\ ~ IsLimitedAt(rate_limits[IPBucket(call[s])], at[s])
    BY <1>4, <1>5 DEF LimitIP
  <2>3. IPBucket(call[s]) = b
    BY <2>1, <2>2 DEF Waits, Charges, LoginKinds
  <2>4. QED BY <1>3, <2>2, <2>3 DEF PassesCheck
<1>6. CASE LimitAccount(s)
  <2>1. /\ pc[s] = "limit_account" /\ call'[s] = call[s] /\ pc'[s] = "lookup"
        /\ ~ IsLimitedAt(rate_limits[AccountBucket(call[s])], at[s])
    BY <1>4, <1>6 DEF LimitAccount
  <2>2. AccountBucket(call[s]) = b
    BY <2>1 DEF Waits, Charges
  <2>3. QED BY <1>3, <2>1, <2>2 DEF PassesCheck
<1>7. CASE Lookup(s)
  BY <1>4, <1>7 DEF Lookup, Waits, Charges, TypeInv, HandlerLocals
<1>8. CASE RecordIP(s)
  <2>1. call[s] \in LoginCalls
    BY <1>8 DEF RecordIP, TypeInv, HandlerLocals
  <2>2. QED
    BY <1>4, <1>8, <2>1 DEF RecordIP, Waits, Charges, LoginCalls, LoginOrRegister, LoginKinds
<1>9. CASE Arrive(s)
  BY <1>4, <1>9 DEF Arrive, Submit, Present, PresentLogoutToken, Waits, Charges
<1>10. CASE HandOut(s)
  BY <1>4, <1>10 DEF HandOut, Create, ReadEpoch, Mint, Issue, SendToken, Waits, Charges, TypeInv, TypeOK
<1>11. CASE ClearIP(s) \/ ClearAccount(s) \/ RecordAccount(s)
  <2>1. call[s].kind = "login" \/ call[s].kind # "login"
    OBVIOUS
  <2>2. QED BY <1>4, <1>11 DEF ClearIP, ClearAccount, RecordAccount, Waits, Charges
<1>12. CASE Identify(s)
  BY <1>4, <1>12 DEF Identify, SessionUser, BearerUser, Waits, Charges
<1>13. CASE Handle(s)
  BY <1>4, <1>13 DEF Handle, Me, LogoutAll, LogoutToken
<1>14. QED BY <1>3, <1>5, <1>6, <1>7, <1>8, <1>9, <1>10, <1>11, <1>12, <1>13 DEF Step, Authenticate

LEMMA BucketsDiffer == \A c \in LoginCalls : IPBucket(c) # AccountBucket(c)
  BY DEF IPBucket, AccountBucket, loginBucket, loginTokenBucket, registerBucket,
         loginAccountBucket, LoginCalls, LoginOrRegister, LoginKinds

\* A request that has counted, or failed to, is done with the bucket.
LEMMA ChargeEnds ==
    ASSUME TypeInv, [Next]_vars, NEW b \in Buckets, NEW s \in Req, Charges(s, b),
           pc'[s] # pc[s] \/ call'[s] # call[s] \/ at'[s] # at[s]
    PROVE  ~ (Waits(s, b) \/ Charges(s, b))'
<1>1. CASE Restart
  BY <1>1 DEF Restart, Waits, Charges
<1>2. CASE ~ Restart
  <2>1. Step(s)
    BY <1>2, OneRequestMoves
  <2>2. CASE RecordIP(s)
    <3>1. /\ call[s] \in LoginCalls /\ call'[s] = call[s]
          /\ pc'[s] \in {"create", "record_account"}
      BY <2>2 DEF RecordIP, Goto, TypeInv, TypeOK, HandlerLocals
    <3>2. IPBucket(call[s]) = b
      BY <2>2 DEF RecordIP, Charges
    <3>3. QED BY <3>1, <3>2, BucketsDiffer DEF Waits, Charges
  <2>3. CASE RecordAccount(s)
    BY <2>3 DEF RecordAccount, Respond, Waits, Charges, TypeInv, TypeOK
  <2>4. pc[s] \in {"record_ip", "record_account"}
    BY DEF Charges
  <2>5. QED
    BY <2>1, <2>2, <2>3, <2>4
       DEF Step, Arrive, Submit, Present, PresentLogoutToken, Start, Authenticate, LimitIP,
           LimitAccount, Lookup, ClearIP, ClearAccount, HandOut, Create, ReadEpoch, Mint,
           Issue, SendToken, Identify, SessionUser, BearerUser, Handle, Me, LogoutAll, LogoutToken,
           TypeInv, HandlerLocals
<1>3. QED BY <1>1, <1>2

\* The pending requests of a stretch: those that were, less the ones that have
\* counted, and those that pass the check while the stretch is not over.
LEMMA PendingStep ==
    ASSUME TypeInv, TypeInv', [Next]_vars, NEW b \in Buckets, NEW x \in Int,
           NEW s \in Req, s \in Pending(b, x)', s \notin Pending(b, x)
    PROVE  PassesCheck(s, b) /\ now <= x + Stretch
<1>1. Stretch \in Int /\ now \in Nat /\ now' \in Nat /\ now <= now'
  BY ClockMoves, LagAssumption, WindowAssumption DEF Stretch, TypeInv, TypeOK
<1>2. (Waits(s, b) \/ Charges(s, b))'
  BY DEF Pending
<1>3. CASE Waits(s, b)
  <2>1. x + Stretch < now /\ x + Stretch < now'
    BY <1>1, <1>3 DEF Pending
  <2>2. Charges(s, b)' /\ at'[s] <= x + Stretch
    BY <1>1, <2>1 DEF Pending
  <2>3. pc'[s] \in Timed /\ at'[s] # now
    BY <1>1, <2>1, <2>2 DEF Charges, Timed
  <2>4. pc'[s] = pc[s] /\ call'[s] = call[s]
    BY <2>3, ReadingMoves
  <2>5. QED BY <1>3, <2>2, <2>4, BucketsDiffer DEF Waits, Charges, TypeInv, HandlerLocals
<1>4. CASE Charges(s, b)
  <2>1. x + Stretch < at[s]
    BY <1>1, <1>4 DEF Pending, TypeInv, TypeOK
  <2>2. pc'[s] = pc[s] /\ call'[s] = call[s] /\ at'[s] = at[s]
    BY <1>2, <1>4, ChargeEnds
  <2>3. ~ Waits(s, b)'
    BY <1>4, <2>2, BucketsDiffer DEF Waits, Charges, TypeInv, HandlerLocals
  <2>4. QED BY <1>1, <2>1, <2>2, <2>3 DEF Pending, TypeInv, TypeOK
<1>5. CASE ~ (Waits(s, b) \/ Charges(s, b))
  <2>1. PassesCheck(s, b)
    BY <1>2, <1>5, BecomesWaiting
  <2>2. (pc'[s] # pc[s] \/ call'[s] # call[s]) /\ now' = now
    BY <1>2, <1>5, <2>1 DEF PassesCheck, Waits, Charges
  <2>3. now <= x + Stretch
    <3>1. CASE now' <= x + Stretch
      BY <2>2, <3>1
    <3>2. CASE Charges(s, b)' /\ at'[s] <= x + Stretch
      <4>1. pc'[s] \in Timed
        BY <3>2 DEF Charges, Timed
      <4>2. at'[s] = now
        BY <2>2, <4>1, ReadingMoves
      <4>3. QED BY <3>2, <4>2
    <3>3. QED BY <3>1, <3>2 DEF Pending
  <2>4. QED BY <2>1, <2>3
<1>6. QED BY <1>3, <1>4, <1>5

----------------------------------------------------------------------------
\* What one step does to the history of a bucket.

\* r counts an attempt, and the history grows by its stamp.
Counted(r, b) ==
    /\ CountStep(r, b)
    /\ counted'[b] = Append(counted[b], at[r])
    /\ rate_limits'[b] \in Row
    /\ rate_limits'[b].updated_at = at[r]

LEMMA HistoryEffect ==
    ASSUME TypeInv, [NextHistory]_historyVars, NEW b \in Buckets, counted \in [Buckets -> Seq(Int)]
    PROVE  \/ rate_limits'[b] = rate_limits[b] /\ counted'[b] = counted[b]
           \/ rate_limits'[b] = NoRow /\ counted'[b] = <<>>
           \/ \E r \in Req : Counted(r, b)
<1>1. CASE UNCHANGED historyVars
  BY <1>1 DEF historyVars, vars
<1>2. CASE NextHistory
  <2>1. [Next]_vars /\ Watch
    BY <1>2 DEF NextHistory
  <2>2. CASE rate_limits'[b] \in {rate_limits[b], NoRow}
    BY <2>1, <2>2 DEF Watch
  <2>3. CASE rate_limits'[b] \notin {rate_limits[b], NoRow}
    <3>1. PICK r \in Req : CountStep(r, b)
      BY <2>1, <2>3, BucketEffect
    <3>2. /\ rate_limits[b] \in Row \cup {NoRow} /\ MaxAttempts(b) \in Nat
          /\ at[r] \in Int
      BY MaximaType DEF TypeInv, TypeOK
    <3>3. rate_limits'[b] \in Row
      BY <3>1, <3>2, RecordAttemptType DEF CountStep
    <3>4. rate_limits'[b].updated_at = at[r]
      BY <3>1, <3>2 DEF CountStep, RecordAttempt, Bumped
    <3>5. counted'[b] = Append(counted[b], at[r])
      BY <2>1, <2>3, <3>4 DEF Watch
    <3>6. QED BY <3>1, <3>3, <3>4, <3>5 DEF Counted
  <2>4. QED BY <2>2, <2>3
<1>3. QED BY <1>1, <1>2

LEMMA StampsStep ==
    ASSUME TypeInv, TypeInv', ReadingsBounded, StampsBounded, [NextHistory]_historyVars
    PROVE  StampsBounded'
<1>1. ASSUME NEW b \in Buckets
      PROVE  /\ counted'[b] \in Seq(Int)
             /\ \A i \in 1..Len(counted'[b]) :
                  /\ counted'[b][i] <= now'
                  /\ rate_limits'[b] # NoRow
                  /\ counted'[b][i] <= rate_limits'[b].updated_at + MaxLag
  <2>1. now \in Nat /\ now' \in Nat /\ now <= now' /\ MaxLag \in Nat
    BY ClockMoves, LagAssumption DEF TypeInv, TypeOK, NextHistory, historyVars, vars
  <2>2. /\ counted[b] \in Seq(Int)
        /\ \A i \in 1..Len(counted[b]) :
             /\ counted[b][i] <= now
             /\ rate_limits[b] # NoRow
             /\ counted[b][i] <= rate_limits[b].updated_at + MaxLag
             /\ counted[b][i] \in Int
    BY DEF StampsBounded
  <2>3. CASE rate_limits'[b] = rate_limits[b] /\ counted'[b] = counted[b]
    BY <2>1, <2>2, <2>3
  <2>4. CASE counted'[b] = <<>>
    BY <2>4
  <2>5. ASSUME NEW r \in Req, Counted(r, b)
        PROVE  /\ counted'[b] \in Seq(Int)
               /\ \A i \in 1..Len(counted'[b]) :
                    /\ counted'[b][i] <= now'
                    /\ rate_limits'[b] # NoRow
                    /\ counted'[b][i] <= rate_limits'[b].updated_at + MaxLag
    <3>1. at[r] \in Int /\ at[r] <= now /\ now <= at[r] + MaxLag /\ now' = now
      BY <2>5 DEF Counted, CountStep, Charges, ReadingsBounded, TypeInv, TypeOK
    <3>2. /\ counted'[b] \in Seq(Int)
          /\ Len(counted'[b]) = Len(counted[b]) + 1
          /\ \A i \in 1..Len(counted[b]) : counted'[b][i] = counted[b][i]
          /\ counted'[b][Len(counted[b]) + 1] = at[r]
          /\ Len(counted[b]) \in Nat
      BY <2>2, <2>5, <3>1 DEF Counted
    <3>3. rate_limits'[b] # NoRow /\ rate_limits'[b].updated_at = at[r]
      BY <2>5, NoRowAssumption DEF Counted
    <3>4. ASSUME NEW i \in 1..Len(counted'[b])
          PROVE  counted'[b][i] <= now
      <4>1. CASE i \in 1..Len(counted[b])
        BY <2>2, <3>2, <4>1
      <4>2. CASE i = Len(counted[b]) + 1
        BY <3>1, <3>2, <4>2
      <4>3. QED BY <3>2, <4>1, <4>2
    <3>5. \A i \in 1..Len(counted'[b]) : counted'[b][i] \in Int
      BY <3>2
    <3>6. QED BY <2>1, <3>1, <3>2, <3>3, <3>4, <3>5
  <2>6. QED BY <2>3, <2>4, <2>5, HistoryEffect DEF StampsBounded
<1>2. counted' = [b \in Buckets |-> counted'[b]]
  BY DEF NextHistory, Watch, historyVars, StampsBounded
<1>3. QED BY <1>1, <1>2 DEF StampsBounded

----------------------------------------------------------------------------
\* The attempts of one stretch.

LEMMA CountIsNatural ==
    ASSUME StampsBounded, NEW b \in Buckets, NEW x \in Int
    PROVE  IsFiniteSet(CountedAfter(b, x)) /\ Count(b, x) \in Nat
<1>1. Len(counted[b]) \in Nat
  BY DEF StampsBounded
<1>2. IsFiniteSet(1..Len(counted[b]))
  BY <1>1, FS_Interval
<1>3. CountedAfter(b, x) \subseteq 1..Len(counted[b])
  BY DEF CountedAfter
<1>4. QED BY <1>2, <1>3, FS_Subset, FS_CardinalityType DEF Count

LEMMA PendingType ==
    ASSUME NEW b \in Buckets, NEW x \in Int
    PROVE  /\ IsFiniteSet(Pending(b, x)) /\ Cardinality(Pending(b, x)) \in Nat
           /\ Cardinality(Req) \in Nat
           /\ Cardinality(Pending(b, x)) <= Cardinality(Req)
<1>1. Pending(b, x) \subseteq Req
  BY DEF Pending
<1>2. QED BY <1>1, RequestsAssumption, FS_Subset, FS_CardinalityType

\* One more attempt adds one if it was stamped in the stretch.
LEMMA CountGrows ==
    ASSUME StampsBounded, StampsBounded', NEW b \in Buckets, NEW x \in Int, NEW t \in Int,
           counted'[b] = Append(counted[b], t)
    PROVE  Count(b, x)' = IF x < t /\ t <= x + Stretch THEN Count(b, x) + 1 ELSE Count(b, x)
<1> DEFINE n == Len(counted[b])
<1>1. counted[b] \in Seq(Int) /\ n \in Nat
  BY DEF StampsBounded
<1>2. /\ Len(counted'[b]) = n + 1
      /\ \A i \in 1..n : counted'[b][i] = counted[b][i]
      /\ counted'[b][n + 1] = t
  BY <1>1
<1>3. CASE x < t /\ t <= x + Stretch
  <2>1. CountedAfter(b, x)' = CountedAfter(b, x) \cup {n + 1}
    BY <1>1, <1>2, <1>3 DEF CountedAfter, Stretch
  <2>2. n + 1 \notin CountedAfter(b, x)
    BY <1>1 DEF CountedAfter
  <2>3. Cardinality(CountedAfter(b, x) \cup {n + 1}) = Cardinality(CountedAfter(b, x)) + 1
    BY <2>2, CountIsNatural, FS_AddElement
  <2>4. QED BY <1>3, <2>1, <2>3 DEF Count
<1>4. CASE ~ (x < t /\ t <= x + Stretch)
  <2>1. CountedAfter(b, x)' = CountedAfter(b, x)
    BY <1>1, <1>2, <1>4 DEF CountedAfter, Stretch
  <2>2. QED BY <1>4, <2>1 DEF Count
<1>5. QED BY <1>3, <1>4

----------------------------------------------------------------------------
\* A stretch stays open, or closes, and stays closed until the row is cleared.

\* What the proofs below start from.
BudgetStep(b, x) ==
    /\ HistoryInv /\ HistoryInv'
    /\ [NextHistory]_historyVars
    /\ b \in Buckets /\ x \in Int
    /\ Open(b, x) \/ Closed(b, x)

LEMMA BudgetFacts ==
    ASSUME NEW b \in Buckets, NEW x \in Int, BudgetStep(b, x)
    PROVE  /\ [Next]_vars
           /\ now \in Nat /\ now' \in Nat /\ now <= now'
           /\ MaxLag \in Nat /\ RateLimitWindow \in Nat /\ Stretch = RateLimitWindow - MaxLag
           /\ Stretch \in Int
           /\ MaxAttempts(b) \in Nat \ {0, 1} /\ Cardinality(Req) \in Nat
           /\ Count(b, x) \in Nat /\ Count(b, x)' \in Nat
           /\ IsFiniteSet(Pending(b, x)) /\ IsFiniteSet(Pending(b, x)')
           /\ Cardinality(Pending(b, x)) \in Nat /\ Cardinality(Pending(b, x)') \in Nat
           /\ Cardinality(Pending(b, x)') <= Cardinality(Req)
           /\ rate_limits[b] \in Row \cup {NoRow} /\ rate_limits'[b] \in Row \cup {NoRow}
           /\ TypeInv /\ TypeInv'
<1>1. [Next]_vars
  BY DEF BudgetStep, NextHistory, historyVars
<1>2. TypeInv /\ TypeInv' /\ StampsBounded /\ StampsBounded'
  BY DEF BudgetStep, HistoryInv
<1>3. now \in Nat /\ now' \in Nat /\ now <= now'
  BY <1>1, <1>2, ClockMoves DEF TypeInv, TypeOK
<1>4. MaxLag \in Nat /\ RateLimitWindow \in Nat /\ Stretch = RateLimitWindow - MaxLag /\ Stretch \in Int
  BY LagAssumption, WindowAssumption DEF Stretch
<1>5. Count(b, x) \in Nat
  BY <1>2, CountIsNatural
<1>6. Count(b, x)' \in Nat
  <2>1. Len(counted'[b]) \in Nat
    BY <1>2 DEF StampsBounded
  <2>2. IsFiniteSet(1..Len(counted'[b]))
    BY <2>1, FS_Interval
  <2>3. CountedAfter(b, x)' \subseteq 1..Len(counted'[b])
    BY DEF CountedAfter
  <2>4. QED BY <2>2, <2>3, FS_Subset, FS_CardinalityType DEF Count
<1>7. /\ IsFiniteSet(Pending(b, x)) /\ Cardinality(Pending(b, x)) \in Nat
      /\ Cardinality(Req) \in Nat
  BY PendingType
<1>8. /\ IsFiniteSet(Pending(b, x)') /\ Cardinality(Pending(b, x)') \in Nat
      /\ Cardinality(Pending(b, x)') <= Cardinality(Req)
  <2>1. Pending(b, x)' \subseteq Req
    BY DEF Pending
  <2>2. QED BY <2>1, RequestsAssumption, FS_Subset, FS_CardinalityType
<1>9. rate_limits[b] \in Row \cup {NoRow} /\ rate_limits'[b] \in Row \cup {NoRow}
  BY <1>2 DEF TypeInv, TypeOK
<1>10. QED BY <1>1, <1>2, <1>3, <1>4, <1>5, <1>6, <1>7, <1>8, <1>9, MaximaType

\* While a stretch is closed nobody new comes to count in it.
LEMMA ClosedShuts ==
    ASSUME NEW b \in Buckets, NEW x \in Int, BudgetStep(b, x), Closed(b, x)
    PROVE  Pending(b, x)' \subseteq Pending(b, x)
<1> SUFFICES ASSUME NEW s \in Req, s \in Pending(b, x)', s \notin Pending(b, x) PROVE FALSE
  BY DEF Pending
<1>1. PassesCheck(s, b) /\ now <= x + Stretch
  BY BudgetFacts, PendingStep
<1>2. /\ rate_limits[b] \in Row /\ rate_limits[b].locked_until # NoLock
      /\ x + Stretch < rate_limits[b].locked_until
  BY <1>1, BudgetFacts DEF Closed
<1>3. at[s] <= now /\ at[s] \in Nat
  BY DEF BudgetStep, HistoryInv, ReadingsBounded, TypeInv, TypeOK
<1>4. at[s] < rate_limits[b].locked_until
  BY <1>1, <1>2, <1>3, BudgetFacts DEF Row
<1>5. QED BY <1>1, <1>2, <1>4, NoRowAssumption DEF PassesCheck, IsLimitedAt

\* A step that leaves the row alone.
LEMMA BudgetRowKept ==
    ASSUME NEW b \in Buckets, NEW x \in Int, BudgetStep(b, x),
           rate_limits'[b] = rate_limits[b], counted'[b] = counted[b]
    PROVE  (Open(b, x) \/ Closed(b, x))'
<1>1. Count(b, x)' = Count(b, x)
  BY DEF Count, CountedAfter, Stretch
<1>2. CASE Open(b, x)
  BY <1>1, <1>2 DEF Open, MaxAttempts
<1>3. CASE Closed(b, x)
  <2>1. Cardinality(Pending(b, x)') <= Cardinality(Pending(b, x))
    BY <1>3, ClosedShuts, BudgetFacts, FS_Subset
  <2>2. /\ x < now'
        /\ Count(b, x)' + Cardinality(Pending(b, x)') <= MaxAttempts(b) - 1 + Cardinality(Req)
    BY <1>1, <1>3, <2>1, BudgetFacts DEF Closed
  <2>3. \/ x + Stretch < now'
        \/ /\ rate_limits'[b] # NoRow
           /\ rate_limits'[b].locked_until # NoLock
           /\ x + Stretch < rate_limits'[b].locked_until
    BY <1>3, BudgetFacts DEF Closed
  <2>4. QED BY <2>2, <2>3 DEF Closed, MaxAttempts, Stretch
<1>4. QED BY <1>2, <1>3 DEF BudgetStep

\* A cleared row takes its history with it.
LEMMA BudgetCleared ==
    ASSUME NEW b \in Buckets, NEW x \in Int, BudgetStep(b, x), counted'[b] = <<>>
    PROVE  Open(b, x)'
<1>1. CountedAfter(b, x)' = {}
  BY DEF CountedAfter
<1>2. QED BY <1>1, FS_EmptySet DEF Open, Count

\* An attempt of the stretch was counted, so the row's last stamp is not much
\* older than the stretch.
LEMMA StretchBegun ==
    ASSUME StampsBounded, NEW b \in Buckets, NEW x \in Int, Count(b, x) # 0
    PROVE  /\ rate_limits[b] # NoRow
           /\ \E t \in Int : x < t /\ t <= rate_limits[b].updated_at + MaxLag
<1>1. CountedAfter(b, x) # {}
  BY FS_EmptySet DEF Count
<1>2. PICK i \in 1..Len(counted[b]) : x < counted[b][i]
  BY <1>1 DEF CountedAfter
<1>3. counted[b][i] \in Int
  BY <1>2 DEF StampsBounded
<1>4. QED BY <1>2, <1>3 DEF StampsBounded

\* An attempt is counted: if it is the one that reaches the maximum, the stretch
\* closes behind it.
LEMMA BudgetCounted ==
    ASSUME NEW b \in Buckets, NEW x \in Int, BudgetStep(b, x), NEW r \in Req, Counted(r, b)
    PROVE  (Open(b, x) \/ Closed(b, x))'
<1> DEFINE t   == at[r]
           N   == Count(b, x)
           max == MaxAttempts(b)
           row == rate_limits[b]
           new == rate_limits'[b]
<1>1. /\ t \in Nat /\ t <= now /\ now <= t + MaxLag /\ now' = now
      /\ Charges(r, b)
  BY DEF Counted, CountStep, Charges, BudgetStep, HistoryInv, ReadingsBounded, TypeInv, TypeOK
<1>2. N' = IF x < t /\ t <= x + Stretch THEN N + 1 ELSE N
  BY <1>1, CountGrows DEF Counted, BudgetStep, HistoryInv
<1>3. /\ new \in Row /\ new # NoRow
      /\ row = NoRow => new.attempts = 1
      /\ row # NoRow /\ ~ WindowPassed(row, t) =>
            /\ new.attempts = row.attempts + 1
            /\ row.attempts + 1 >= max => new.locked_until = t + RateLimitWindow
  BY NoRowAssumption DEF Counted, CountStep, RecordAttempt, Bumped
<1>4. /\ new.attempts \in Nat \ {0}
      /\ row # NoRow => row.attempts \in Nat \ {0} /\ row.updated_at \in Int
  BY <1>3, BudgetFacts DEF Row
\* A restart of the count comes after the stretch.
<1>5. ASSUME N # 0, WindowPassed(row, t)
      PROVE  x + Stretch < t
  <2>1. /\ row # NoRow
        /\ \E u \in Int : x < u /\ u <= row.updated_at + MaxLag
    BY <1>5, StretchBegun DEF BudgetStep, HistoryInv
  <2>2. row.updated_at < t - RateLimitWindow
    BY <1>5 DEF WindowPassed
  <2>3. QED BY <1>1, <1>4, <2>1, <2>2, BudgetFacts
\* r has counted, and pends no more.
<1>6. /\ r \notin Pending(b, x)'
      /\ Cardinality(Pending(b, x)') <= Cardinality(Req) - 1
  <2>1. r \notin Pending(b, x)'
    BY DEF Counted, CountStep, Pending
  <2>2. Pending(b, x)' \subseteq Req \ {r}
    BY <2>1 DEF Pending
  <2>3. /\ IsFiniteSet(Req \ {r})
        /\ Cardinality(Req \ {r}) = Cardinality(Req) - 1
    BY RequestsAssumption, FS_RemoveElement
  <2>4. QED BY <2>1, <2>2, <2>3, FS_Subset
\* The lock that a count sets, or the one it finds, ends after the stretch.
<1>7. ASSUME x < now, row # NoRow, ~ WindowPassed(row, t), row.attempts + 1 >= max
      PROVE  x + Stretch < now' \/ (new.locked_until # NoLock /\ x + Stretch < new.locked_until)
  <2>1. new.locked_until = t + RateLimitWindow
    BY <1>3, <1>7
  <2>2. x + Stretch < t + RateLimitWindow
    BY <1>1, <1>7, BudgetFacts
  <2>3. new.locked_until # NoLock
    BY <1>1, <2>1, BudgetFacts, NullAssumption
  <2>4. QED BY <2>1, <2>2, <2>3
<1>8. CASE N = 0
  <2>1. N' \in {0, 1}
    BY <1>2, <1>8
  <2>2. QED BY <1>3, <1>4, <2>1, BudgetFacts DEF Open, MaxAttempts
<1>9. CASE N # 0 /\ Open(b, x)
  <2>1. row # NoRow /\ N < max /\ N <= row.attempts
    BY <1>9 DEF Open
  <2>2. CASE WindowPassed(row, t)
    <3>1. x + Stretch < t
      BY <1>5, <1>9, <2>2
    <3>2. N' = N /\ x + Stretch < now'
      BY <1>1, <1>2, <3>1, BudgetFacts
    <3>3. x < now'
      <4>1. \E u \in Int : x < u /\ u <= now
        <5>1. CountedAfter(b, x) # {}
          BY <1>9, FS_EmptySet DEF Count
        <5>2. PICK i \in 1..Len(counted[b]) : x < counted[b][i]
          BY <5>1 DEF CountedAfter
        <5>3. QED BY <5>2 DEF StampsBounded, BudgetStep, HistoryInv
      <4>2. QED BY <1>1, <4>1, BudgetFacts
    <3>4. N' + Cardinality(Pending(b, x)') <= max - 1 + Cardinality(Req)
      BY <2>1, <3>2, BudgetFacts
    <3>5. QED BY <3>2, <3>3, <3>4 DEF Closed, MaxAttempts, Stretch
  <2>3. CASE ~ WindowPassed(row, t) /\ N' < max
    <3>1. N' <= new.attempts
      BY <1>2, <1>3, <1>4, <2>1, <2>3, BudgetFacts
    <3>2. QED BY <1>3, <2>3, <3>1 DEF Open, MaxAttempts
  <2>4. CASE ~ WindowPassed(row, t) /\ ~ (N' < max)
    <3>1. /\ N' = N + 1 /\ N + 1 = max /\ x < t
      BY <1>2, <2>1, <2>4, BudgetFacts
    <3>2. row.attempts + 1 >= max /\ x < now
      BY <1>1, <1>4, <2>1, <3>1, BudgetFacts
    <3>3. x + Stretch < now' \/ (new.locked_until # NoLock /\ x + Stretch < new.locked_until)
      BY <1>7, <2>1, <2>4, <3>2
    <3>4. N' + Cardinality(Pending(b, x)') <= max - 1 + Cardinality(Req)
      BY <1>6, <3>1, BudgetFacts
    <3>5. QED BY <1>1, <1>3, <3>2, <3>3, <3>4 DEF Closed, MaxAttempts, Stretch
  <2>5. QED BY <2>2, <2>3, <2>4
<1>10. CASE N # 0 /\ Closed(b, x)
  <2>1. /\ x < now
        /\ N + Cardinality(Pending(b, x)) <= max - 1 + Cardinality(Req)
        /\ row # NoRow
    BY <1>10, StretchBegun DEF Closed, BudgetStep, HistoryInv
  <2>2. N' + Cardinality(Pending(b, x)') <= max - 1 + Cardinality(Req)
    <3>1. Pending(b, x)' \subseteq Pending(b, x)
      BY <1>10, ClosedShuts
    <3>2. CASE x < t /\ t <= x + Stretch
      <4>1. r \in Pending(b, x)
        BY <1>1, <3>2 DEF Pending
      <4>2. Pending(b, x)' \subseteq Pending(b, x) \ {r}
        BY <1>6, <3>1
      <4>3. /\ IsFiniteSet(Pending(b, x) \ {r})
            /\ Cardinality(Pending(b, x) \ {r}) = Cardinality(Pending(b, x)) - 1
        BY <4>1, BudgetFacts, FS_RemoveElement
      <4>4. Cardinality(Pending(b, x)') <= Cardinality(Pending(b, x)) - 1
        BY <4>2, <4>3, FS_Subset
      <4>5. QED BY <1>2, <2>1, <3>2, <4>4, BudgetFacts
    <3>3. CASE ~ (x < t /\ t <= x + Stretch)
      <4>1. Cardinality(Pending(b, x)') <= Cardinality(Pending(b, x))
        BY <3>1, BudgetFacts, FS_Subset
      <4>2. QED BY <1>2, <2>1, <3>3, <4>1, BudgetFacts
    <3>4. QED BY <3>2, <3>3
  <2>3. x + Stretch < now' \/ (new.locked_until # NoLock /\ x + Stretch < new.locked_until)
    <3>1. CASE x + Stretch < now
      BY <1>1, <3>1
    <3>2. CASE row.locked_until # NoLock /\ x + Stretch < row.locked_until
      <4>1. row.attempts >= max
        BY <2>1, <3>2 DEF BudgetStep, HistoryInv, LocksMatchCounts, LockMatchesCount
      <4>2. CASE WindowPassed(row, t)
        BY <1>1, <1>5, <1>10, <4>2, BudgetFacts
      <4>3. CASE ~ WindowPassed(row, t)
        BY <1>4, <1>7, <2>1, <4>1, <4>3, BudgetFacts
      <4>4. QED BY <4>2, <4>3
    <3>3. QED BY <1>10, <3>1, <3>2 DEF Closed
  <2>4. QED BY <1>1, <1>3, <2>1, <2>2, <2>3 DEF Closed, MaxAttempts, Stretch
<1>11. QED BY <1>8, <1>9, <1>10 DEF BudgetStep

LEMMA HistoryInvStep ==
    HistoryInv /\ [NextHistory]_historyVars => HistoryInv'
<1> SUFFICES ASSUME HistoryInv, [NextHistory]_historyVars PROVE HistoryInv'
  OBVIOUS
<1>1. [Next]_vars
  BY DEF NextHistory, historyVars
<1>2. TypeInv' /\ LocksMatchCounts'
  BY <1>1, TypeInvStep, LocksStep DEF HistoryInv
<1>3. ReadingsBounded' /\ StampsBounded'
  BY <1>1, <1>2, ReadingsStep, StampsStep DEF HistoryInv
<1>4. QED BY <1>2, <1>3 DEF HistoryInv

LEMMA BudgetKeptStep ==
    HistoryInv /\ HistoryInv' /\ BudgetKept /\ [NextHistory]_historyVars => BudgetKept'
<1> SUFFICES ASSUME HistoryInv, HistoryInv', BudgetKept, [NextHistory]_historyVars,
                    NEW b \in Buckets, NEW x \in Int
             PROVE  (Open(b, x) \/ Closed(b, x))'
  BY DEF BudgetKept, Buckets
<1>1. BudgetStep(b, x)
  BY DEF BudgetStep, BudgetKept
<1>2. \/ rate_limits'[b] = rate_limits[b] /\ counted'[b] = counted[b]
      \/ rate_limits'[b] = NoRow /\ counted'[b] = <<>>
      \/ \E r \in Req : Counted(r, b)
  BY HistoryEffect DEF HistoryInv, StampsBounded
<1>3. QED BY <1>1, <1>2, BudgetRowKept, BudgetCleared, BudgetCounted

\* In no stretch of one window, shortened by the age a clock reading can have,
\* are more attempts counted against a bucket than its maximum and one for every
\* other request the server works on.
THEOREM BudgetHolds == SpecHistory => []WindowBudget
<1>1. InitHistory => HistoryInv /\ BudgetKept
  <2> SUFFICES ASSUME InitHistory PROVE HistoryInv /\ BudgetKept
    OBVIOUS
  <2>1. TypeInv /\ LocksMatchCounts
    BY TypeInvInit DEF InitHistory, Init, LocksMatchCounts
  <2>2. ReadingsBounded
    BY DEF InitHistory, Init, ReadingsBounded
  <2>3. StampsBounded
    BY DEF InitHistory, StampsBounded
  <2>4. ASSUME NEW b \in Buckets, NEW x \in Int
        PROVE  Open(b, x)
    <3>1. CountedAfter(b, x) = {}
      BY DEF InitHistory, CountedAfter
    <3>2. QED BY <3>1, FS_EmptySet DEF Open, Count
  <2>5. QED BY <2>1, <2>2, <2>3, <2>4 DEF HistoryInv, BudgetKept
<1>2. HistoryInv /\ BudgetKept => WindowBudget
  <2> SUFFICES ASSUME HistoryInv, BudgetKept,
                      NEW b \in Buckets, NEW x \in (0 - Stretch)..MaxTime
               PROVE  Cardinality(CountedAfter(b, x)) <= MaxAttempts(b) - 1 + Cardinality(Req)
    BY DEF WindowBudget
  <2>1. x \in Int
    OBVIOUS
  <2>2. /\ Count(b, x) \in Nat /\ Cardinality(Pending(b, x)) \in Nat /\ Cardinality(Req) \in Nat
        /\ MaxAttempts(b) \in Nat \ {0, 1}
    BY <2>1, CountIsNatural, PendingType, MaximaType DEF HistoryInv
  <2>3. CASE Open(b, x)
    BY <2>2, <2>3 DEF Open, Count
  <2>4. CASE Closed(b, x)
    BY <2>2, <2>4 DEF Closed, Count
  <2>5. QED BY <2>1, <2>3, <2>4 DEF BudgetKept
<1>3. QED
  BY <1>1, <1>2, HistoryInvStep, BudgetKeptStep, PTL DEF SpecHistory

----------------------------------------------------------------------------
\* Locks are earned, and what is earned is locked.

\* The count of a row is that of the last attempts in a row, and its stamp that of
\* the very last one.
RowsAreInARow ==
    \A b \in Buckets : rate_limits[b] # NoRow =>
        /\ InARow(b, rate_limits[b].attempts)
        /\ counted[b][Len(counted[b])] = rate_limits[b].updated_at

LEMMA RowsAreInARowStep ==
    ASSUME HistoryInv, RowsAreInARow, [NextHistory]_historyVars
    PROVE  RowsAreInARow'
<1> SUFFICES ASSUME NEW b \in Buckets, rate_limits'[b] # NoRow
             PROVE  /\ InARow(b, rate_limits[b].attempts)'
                    /\ counted'[b][Len(counted'[b])] = rate_limits'[b].updated_at
  BY DEF RowsAreInARow, Buckets
<1>1. counted[b] \in Seq(Int) /\ Len(counted[b]) \in Nat
  BY DEF HistoryInv, StampsBounded
<1>2. CASE rate_limits'[b] = rate_limits[b] /\ counted'[b] = counted[b]
  BY <1>2 DEF RowsAreInARow, InARow
<1>3. ASSUME NEW r \in Req, Counted(r, b)
      PROVE  /\ InARow(b, rate_limits[b].attempts)'
             /\ counted'[b][Len(counted'[b])] = rate_limits'[b].updated_at
  <2> DEFINE last == Len(counted[b])
             t == at[r]
             row == rate_limits[b]
             k == rate_limits'[b].attempts
  <2>1. t \in Int /\ RateLimitWindow \in Nat
    BY WindowAssumption DEF HistoryInv, TypeInv, TypeOK
  <2>2. /\ counted'[b] = Append(counted[b], t)
        /\ rate_limits'[b].updated_at = t
        /\ rate_limits'[b] = RecordAttempt(row, MaxAttempts(b), t)
    BY <1>3 DEF Counted, CountStep
  <2>3. /\ Len(counted'[b]) = last + 1
        /\ counted'[b][last + 1] = t
        /\ \A i \in 1..last : counted'[b][i] = counted[b][i]
    BY <1>1, <2>1, <2>2
  <2>4. row \in Row \cup {NoRow}
    BY DEF HistoryInv, TypeInv, TypeOK
  <2>5. CASE k = 1
    BY <1>1, <2>2, <2>3, <2>5 DEF InARow
  <2>6. CASE row # NoRow /\ ~WindowPassed(row, t)
    <3>1. /\ k = row.attempts + 1 /\ row.attempts \in Nat \ {0}
          /\ row.updated_at \in Int /\ t <= row.updated_at + RateLimitWindow
      BY <2>1, <2>2, <2>4, <2>6 DEF RecordAttempt, Bumped, WindowPassed, Row
    <3>2. /\ row.attempts <= last
          /\ \A i \in (last - row.attempts + 1)..(last - 1) :
                counted[b][i + 1] <= counted[b][i] + RateLimitWindow
          /\ counted[b][last] = row.updated_at
      BY <2>6 DEF RowsAreInARow, InARow
    <3>3. last \in Nat
      BY <1>1
    <3> HIDE DEF last, k, row, t
    <3>4. last \in 1..last /\ k \in Nat /\ k <= last + 1 /\ last + 1 = Len(counted'[b])
      BY <2>3, <3>1, <3>2, <3>3
    <3>5. ASSUME NEW i \in (last + 1 - k + 1)..last
          PROVE  counted'[b][i + 1] <= counted'[b][i] + RateLimitWindow
      <4>1. CASE i = last
        <5>1. counted'[b][i] = row.updated_at /\ counted'[b][i + 1] = t
          BY <2>3, <3>2, <3>4, <4>1
        <5> QED BY <3>1, <5>1
      <4>2. CASE i # last
        <5>1. i \in (last - row.attempts + 1)..(last - 1) /\ i \in 1..last /\ i + 1 \in 1..last
          BY <3>1, <3>2, <3>3, <4>2
        <5> QED BY <2>3, <3>2, <5>1
      <4> QED BY <4>1, <4>2
    <3>6. \A i \in (Len(counted'[b]) - k + 1)..(Len(counted'[b]) - 1) :
             counted'[b][i + 1] <= counted'[b][i] + RateLimitWindow
      BY <3>3, <3>4, <3>5
    <3> QED BY <2>2, <2>3, <3>4, <3>6 DEF InARow, k, t, last
  <2>7. row = NoRow \/ WindowPassed(row, t) => k = 1
    BY <2>2 DEF RecordAttempt, Bumped
  <2> QED BY <2>5, <2>6, <2>7
<1> QED BY <1>2, <1>3, HistoryEffect DEF HistoryInv, StampsBounded

\* No longer run of attempts ends the history of a row than the one it counts, and
\* a bucket without a row has no history.
RunsAreLongest ==
    \A b \in Buckets :
        IF rate_limits[b] = NoRow THEN counted[b] = <<>>
        ELSE ~ InARow(b, rate_limits[b].attempts + 1)

LEMMA RunsAreLongestStep ==
    ASSUME HistoryInv, RowsAreInARow, RunsAreLongest, [NextHistory]_historyVars
    PROVE  RunsAreLongest'
<1> SUFFICES ASSUME NEW b \in Buckets
             PROVE  IF rate_limits'[b] = NoRow THEN counted'[b] = <<>>
                    ELSE ~ InARow(b, rate_limits[b].attempts + 1)'
  BY DEF RunsAreLongest, Buckets
<1>1. counted[b] \in Seq(Int) /\ Len(counted[b]) \in Nat
  BY DEF HistoryInv, StampsBounded
<1>2. CASE rate_limits'[b] = rate_limits[b] /\ counted'[b] = counted[b]
  BY <1>2 DEF RunsAreLongest, InARow
<1>3. CASE rate_limits'[b] = NoRow /\ counted'[b] = <<>>
  BY <1>3
<1>4. ASSUME NEW r \in Req, Counted(r, b)
      PROVE  rate_limits'[b] # NoRow /\ ~ InARow(b, rate_limits[b].attempts + 1)'
  <2> DEFINE last == Len(counted[b])
             t == at[r]
             row == rate_limits[b]
             k == rate_limits'[b].attempts
  <2>1. t \in Int /\ RateLimitWindow \in Nat /\ MaxAttempts(b) \in Nat
    BY WindowAssumption, MaximaType DEF HistoryInv, TypeInv, TypeOK
  <2>2. counted'[b] = Append(counted[b], t) /\ rate_limits'[b] = RecordAttempt(row, MaxAttempts(b), t)
    BY <1>4 DEF Counted, CountStep
  <2>3. /\ Len(counted'[b]) = last + 1
        /\ counted'[b][last + 1] = t
        /\ \A i \in 1..last : counted'[b][i] = counted[b][i]
    BY <1>1, <2>1, <2>2
  <2>4. row \in Row \cup {NoRow}
    BY DEF HistoryInv, TypeInv, TypeOK
  <2>5. rate_limits'[b] \in Row
    BY <2>1, <2>2, <2>4, RecordAttemptType
  <2> SUFFICES ASSUME /\ k + 1 <= last + 1
                      /\ \A i \in (last + 1 - k)..last :
                            counted'[b][i + 1] <= counted'[b][i] + RateLimitWindow
               PROVE  FALSE
    <3>1. k \in Nat
      BY <2>5 DEF Row
    <3>2. InARow(b, rate_limits[b].attempts + 1)' <=>
            /\ k + 1 <= Len(counted'[b])
            /\ \A i \in (Len(counted'[b]) - (k + 1) + 1)..(Len(counted'[b]) - 1) :
                  counted'[b][i + 1] <= counted'[b][i] + RateLimitWindow
      BY DEF InARow
    <3> DEFINE next == Len(counted'[b])
    <3>3. /\ next - (k + 1) + 1 = last + 1 - k
          /\ next - 1 = last
      <4>1. next = last + 1 /\ last \in Nat
        BY <1>1, <2>3
      <4> HIDE DEF last, k, next
      <4>2. QED BY <3>1, <4>1
    <3> HIDE DEF last, k
    <3>4. InARow(b, rate_limits[b].attempts + 1)' =>
            /\ k + 1 <= last + 1
            /\ \A i \in (last + 1 - k)..last :
                  counted'[b][i + 1] <= counted'[b][i] + RateLimitWindow
      BY <2>3, <3>2, <3>3
    <3>5. QED BY <2>5, <3>4, NoRowAssumption
  <2>6. CASE row = NoRow
    <3>1. k = 1 /\ last = 0
      BY <1>1, <2>2, <2>6 DEF RecordAttempt, RunsAreLongest
    <3>2. QED BY <3>1
  <2>7. CASE row # NoRow /\ WindowPassed(row, t)
    <3>1. k = 1 /\ last >= 1
      BY <1>1, <2>2, <2>7 DEF RecordAttempt, Bumped
    <3>2. counted'[b][last + 1] <= counted'[b][last] + RateLimitWindow
      BY <1>1, <3>1
    <3>3. counted'[b][last] = row.updated_at /\ row.updated_at \in Int
      BY <1>1, <2>3, <2>4, <2>7, <3>1 DEF RowsAreInARow, Row
    <3>4. QED BY <2>1, <2>3, <2>7, <3>2, <3>3 DEF WindowPassed
  <2>8. CASE row # NoRow /\ ~ WindowPassed(row, t)
    <3>1. k = row.attempts + 1 /\ row.attempts \in Nat \ {0}
      BY <2>2, <2>4, <2>8 DEF RecordAttempt, Bumped, Row
    <3>2. ASSUME NEW i \in (last - (row.attempts + 1) + 1)..(last - 1)
          PROVE  counted[b][i + 1] <= counted[b][i] + RateLimitWindow
      <4>1. k <= last
        BY <1>1, <2>5 DEF Row
      <4>2. i \in (last + 1 - k)..last /\ i \in 1..last /\ i + 1 \in 1..last
        <5> HIDE DEF last, k, row
        <5>1. last \in Nat
          BY <1>1 DEF last
        <5>2. QED BY <3>1, <4>1, <5>1
      <4>3. QED BY <2>3, <4>2
    <3>3. InARow(b, row.attempts + 1)
      BY <1>1, <3>1, <3>2 DEF InARow
    <3>4. QED BY <2>8, <3>3 DEF RunsAreLongest
  <2>9. QED BY <2>6, <2>7, <2>8
<1>5. QED BY <1>2, <1>3, <1>4, HistoryEffect DEF HistoryInv, StampsBounded

\* A bucket is locked exactly when its last attempts since it was cleared, as many
\* as its maximum, came in a row, each at most a window after the one before it;
\* the lock ends a window after the last.
THEOREM LocksEarned == SpecHistory => []LocksAreEarned
<1>1. InitHistory => HistoryInv /\ RowsAreInARow /\ RunsAreLongest
  <2>1. InitHistory => TypeInv /\ LocksMatchCounts
    BY TypeInvInit DEF InitHistory, Init, LocksMatchCounts
  <2>2. InitHistory => ReadingsBounded /\ StampsBounded /\ RowsAreInARow /\ RunsAreLongest
    BY DEF InitHistory, Init, ReadingsBounded, StampsBounded, RowsAreInARow, RunsAreLongest
  <2> QED BY <2>1, <2>2 DEF HistoryInv
<1>2. HistoryInv /\ RowsAreInARow /\ RunsAreLongest /\ [NextHistory]_historyVars
        => (RowsAreInARow /\ RunsAreLongest)'
  BY RowsAreInARowStep, RunsAreLongestStep
<1>3. HistoryInv /\ RowsAreInARow /\ RunsAreLongest => LocksAreEarned
  <2> SUFFICES ASSUME HistoryInv, RowsAreInARow, RunsAreLongest,
                      NEW b \in Buckets, rate_limits[b] # NoRow
               PROVE  /\ rate_limits[b].locked_until # NoLock <=> InARow(b, MaxAttempts(b))
                      /\ rate_limits[b].locked_until # NoLock =>
                            rate_limits[b].locked_until
                               = counted[b][Len(counted[b])] + RateLimitWindow
    BY DEF LocksAreEarned
  <2> DEFINE n == rate_limits[b].attempts
             max == MaxAttempts(b)
             last == Len(counted[b])
  <2>1. n \in Nat \ {0} /\ max \in Nat /\ last \in Nat
    BY MaximaType DEF HistoryInv, TypeInv, TypeOK, Row, StampsBounded
  <2>2. rate_limits[b].locked_until # NoLock <=> n >= max
    BY <2>1 DEF HistoryInv, LocksMatchCounts, LockMatchesCount
  <2>3. CASE n >= max
    <3>1. InARow(b, n)
      BY DEF RowsAreInARow
    <3>2. (last - max + 1)..(last - 1) \subseteq (last - n + 1)..(last - 1)
      BY <2>1, <2>3
    <3>3. InARow(b, max)
      BY <2>1, <2>3, <3>1, <3>2 DEF InARow
    <3>4. QED
      BY <2>2, <2>3, <3>3 DEF RowsAreInARow, HistoryInv, LocksMatchCounts, LockMatchesCount
  <2>4. CASE ~ (n >= max)
    <3>1. ASSUME InARow(b, max)
          PROVE  FALSE
      <4>1. (last - (n + 1) + 1)..(last - 1) \subseteq (last - max + 1)..(last - 1)
        BY <2>1, <2>4
      <4>2. InARow(b, n + 1)
        BY <2>1, <2>4, <3>1, <4>1 DEF InARow
      <4>3. QED BY <4>2 DEF RunsAreLongest
    <3>2. QED BY <2>2, <2>4, <3>1
  <2>5. QED BY <2>3, <2>4
<1>4. QED
  BY <1>1, <1>2, <1>3, HistoryInvStep, PTL DEF SpecHistory
=============================================================================
