----------------------------- MODULE RateLimit -----------------------------
(***************************************************************************)
(* One row of the rate_limits table and the three statements that touch    *)
(* it: the locked_until read (models/user.go rateLimitedAt), the upsert    *)
(* (recordAttemptAt) and the delete (ClearAttempts).  Pure operators: who  *)
(* calls them, when, and with which clock reading is the business of       *)
(* AuthService.                                                            *)
(*                                                                         *)
(* In this module and the others, an operator under the word Regression is *)
(* used by no specification: it is the definition that follows it with a   *)
(* plausible mistake in it, kept to show that a property would notice.     *)
(*                                                                         *)
(* Times are unix seconds.  A row that does not exist is NoRow; a NULL     *)
(* locked_until is NoLock.                                                 *)
(***************************************************************************)
EXTENDS Integers

CONSTANTS
    RateLimitWindow,   \* the counting window and the lockout duration
    NoRow,             \* the bucket has no row
    NoLock             \* locked_until IS NULL

ASSUME WindowAssumption == RateLimitWindow \in Nat \ {0}
ASSUME NullAssumption   == NoLock \notin Int

Row == [attempts : Nat \ {0}, locked_until : Int \cup {NoLock}, updated_at : Int]

\* A row is never the value that stands for "no row".
ASSUME NoRowAssumption == NoRow \notin Row

\* rateLimitedAt: locked out iff the row holds a lock that lies in the future.
IsLimitedAt(row, now) ==
    /\ row # NoRow
    /\ row.locked_until # NoLock
    /\ now < row.locked_until

\* The window of the row's last attempt ended before now.
WindowPassed(row, now) == row.updated_at < now - RateLimitWindow

\* Regression: the maximum is compared with the count before this attempt.
BumpedOneLate(row, max, now) ==
    [ attempts     |-> IF WindowPassed(row, now) THEN 1 ELSE row.attempts + 1,
      locked_until |-> IF WindowPassed(row, now) THEN NoLock
                       ELSE IF row.attempts >= max THEN now + RateLimitWindow
                       ELSE row.locked_until,
      updated_at   |-> now ]

\* Regression: a passed window restarts the count but keeps the lock.
BumpedKeepingLock(row, max, now) ==
    [ attempts     |-> IF WindowPassed(row, now) THEN 1 ELSE row.attempts + 1,
      locked_until |-> IF ~WindowPassed(row, now) /\ row.attempts + 1 >= max
                       THEN now + RateLimitWindow ELSE row.locked_until,
      updated_at   |-> now ]

\* Regression: a lifetime quota, no window restarts the count.
BumpedForLife(row, max, now) ==
    [ attempts     |-> row.attempts + 1,
      locked_until |-> IF row.attempts + 1 >= max THEN now + RateLimitWindow
                       ELSE row.locked_until,
      updated_at   |-> now ]

\* recordAttemptAt on an existing row: a passed window restarts the count and
\* drops the lock, the attempt that reaches the maximum locks.
Bumped(row, max, now) ==
    [ attempts     |-> IF WindowPassed(row, now) THEN 1 ELSE row.attempts + 1,
      locked_until |-> IF WindowPassed(row, now) THEN NoLock
                       ELSE IF row.attempts + 1 >= max THEN now + RateLimitWindow
                       ELSE row.locked_until,
      updated_at   |-> now ]

\* recordAttemptAt: INSERT ... ON CONFLICT(bucket) DO UPDATE.
RecordAttempt(row, max, now) ==
    IF row = NoRow
    THEN [attempts |-> 1, locked_until |-> NoLock, updated_at |-> now]
    ELSE Bumped(row, max, now)

\* What every reachable row satisfies, whatever the order of the writers and
\* however stale their clock readings: a row is locked exactly when its count
\* has reached the maximum, and the lock ends one window after the attempt the
\* row was last stamped with.
LockMatchesCount(row, max) ==
    /\ row.locked_until = NoLock => row.attempts < max
    /\ row.locked_until # NoLock =>
          /\ row.attempts >= max
          /\ row.locked_until = row.updated_at + RateLimitWindow
=============================================================================
