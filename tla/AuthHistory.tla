---------------------------- MODULE AuthHistory ----------------------------
(***************************************************************************)
(* AuthService with a history variable: for every rate-limit bucket, the   *)
(* clock readings of the attempts counted since the bucket was last        *)
(* cleared, in the order they were counted.  The rows of rate_limits       *)
(* forget this; the promise the limiter makes ("at most so many in any 15  *)
(* minutes") is about it.  The variable only watches: no action of         *)
(* AuthService reads it.                                                   *)
(***************************************************************************)
EXTENDS AuthProperties, Sequences

ASSUME LagAssumption      == MaxLag \in Nat
ASSUME RequestsAssumption == IsFiniteSet(Req)

VARIABLE counted

historyVars == <<vars, counted>>

InitHistory == Init /\ counted = [b \in Buckets |-> <<>>]

\* A row that goes away was cleared; a row that changes was charged one
\* attempt, at the second it is now stamped with.
Watch ==
    counted' = [b \in Buckets |->
                  IF rate_limits'[b] = rate_limits[b] THEN counted[b]
                  ELSE IF rate_limits'[b] = NoRow THEN <<>>
                  ELSE Append(counted[b], rate_limits'[b].updated_at)]

NextHistory == Next /\ Watch

SpecHistory == InitHistory /\ [][NextHistory]_historyVars

\* A late writer stamps the row, and ends its lock, in the past, by at most MaxLag.
Stretch == RateLimitWindow - MaxLag

\* The attempts counted against b in the Stretch seconds after x.
CountedAfter(b, x) ==
    {i \in 1..Len(counted[b]) : x < counted[b][i] /\ counted[b][i] <= x + Stretch}

\* In no stretch of one window does a bucket let more attempts through than its
\* maximum plus the requests that were already past the check when it locked:
\* the check and the count are two statements, so every other concurrent request
\* may add one.  The stretch is shorter by the age a writer's clock reading can
\* have (handlers/ratelimit.go limited / recordLoginFailure, models/user.go
\* recordAttemptAt).
WindowBudget ==
    \A b \in Buckets, x \in (0 - Stretch)..MaxTime :
        Cardinality(CountedAfter(b, x)) <= MaxAttempts(b) - 1 + Cardinality(Req)

\* The last n attempts counted against b followed each other without a pause of
\* more than one window.
InARow(b, n) ==
    LET last == Len(counted[b])
    IN  /\ n <= last
        /\ \A i \in (last - n + 1)..(last - 1) :
              counted[b][i + 1] <= counted[b][i] + RateLimitWindow

\* A bucket stands locked exactly when its last attempts, as many as its maximum,
\* came in a row, each at most a window after the one before it, since the bucket
\* was cleared; and the lock ends one window after the last of them, whoever else
\* wrote the row in between and with whichever clock reading (models/user.go
\* 161-163, "a bucket whose last attempt predates the window starts a fresh
\* count").  It is the pauses that count: attempts in a row may be spread over as
\* many windows as there are pauses.
LocksAreEarned ==
    \A b \in Buckets : rate_limits[b] # NoRow =>
        LET row == rate_limits[b]
        IN  /\ row.locked_until # NoLock <=> InARow(b, MaxAttempts(b))
            /\ row.locked_until # NoLock =>
                  row.locked_until = counted[b][Len(counted[b])] + RateLimitWindow
=============================================================================
