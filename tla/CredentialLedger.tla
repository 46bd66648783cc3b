-------------------------- MODULE CredentialLedger --------------------------
(***************************************************************************)
(* What the session and token machinery promises, with no epochs, no       *)
(* signatures and no tables: a ledger of credentials, each alive or dead.  *)
(*                                                                         *)
(*   - A request is admitted on a credential that is alive at that moment; *)
(*     where checks may lapse, on a cookie that is at least in date.  A    *)
(*     bearer token is admitted alive or not at all.                       *)
(*   - "Log out everywhere" kills every credential of one user, of both    *)
(*     kinds, in one step, and no credential of anyone else.               *)
(*   - Logging a token out kills that token.                               *)
(*   - Time kills a credential at its expiry and at no other moment.       *)
(*   - A dead credential never comes back to life.                         *)
(*                                                                         *)
(* AuthService is shown to implement this (see AuthProperties and          *)
(* AuthServiceProofs).                                                     *)
(***************************************************************************)
EXTENDS Integers

CONSTANTS
    Req, None,
    Lapses    \* whether the check that a cookie has not been revoked may fail

VARIABLES
    now,      \* the wall clock
    issued,   \* every credential ever handed out
    live,     \* the ones that still open the door
    holder    \* for each request, the credential it was admitted on, or None

vars == <<now, issued, live, holder>>

\* Valid through its last second (a cookie) or up to it (a token).
InDate(c, t) == IF c.kind = "cookie" THEN t <= c.exp ELSE t < c.exp

\* A new credential, never one that has died before.  The second form is a
\* credential overtaken by a revocation, or by its expiry, while it was being made.
Issue(c) ==
    /\ c \notin issued \ live
    /\ InDate(c, now)
    /\ issued' = issued \cup {c}
    /\ live' = live \cup {c}

IssueDead(c) ==
    /\ c \notin live
    /\ issued' = issued \cup {c}
    /\ UNCHANGED live

\* Which credential is handed out is left open: it is the one that joins issued.
HandOut(r) ==
    /\ holder[r] = None
    /\ \E c \in issued' : Issue(c) \/ IssueDead(c)
    /\ UNCHANGED <<now, holder>>

\* Nothing but its expiry stops a cookie whose revocation cannot be read.
Overlooked == IF Lapses THEN {c \in issued : c.kind = "cookie" /\ InDate(c, now)} ELSE {}

Admit(r) ==
    /\ holder[r] = None
    /\ \E c \in live \cup Overlooked : holder' = [holder EXCEPT ![r] = c]
    /\ UNCHANGED <<now, issued, live>>

Release(r) ==
    /\ holder[r] # None
    /\ holder' = [holder EXCEPT ![r] = None]
    /\ UNCHANGED <<now, issued, live>>

\* Only a request admitted as the user revokes the user's credentials.
RevokeAll(r) ==
    /\ holder[r] # None
    /\ live' = {c \in live : c.user # holder[r].user}
    /\ holder' = [holder EXCEPT ![r] = None]
    /\ UNCHANGED <<now, issued>>

\* A bearer token is retired by whoever presents it.
RevokeToken(r) ==
    /\ holder[r] = None
    /\ \E c \in live : c.kind = "bearer" /\ live' = live \ {c}
    /\ UNCHANGED <<now, issued, holder>>

Restart ==
    /\ holder' = [r \in Req |-> None]
    /\ UNCHANGED <<now, issued, live>>

Tick ==
    /\ now' = now + 1
    /\ live' = {c \in live : InDate(c, now')}
    /\ UNCHANGED <<issued, holder>>

Init ==
    /\ now = 0
    /\ issued = {}
    /\ live = {}
    /\ holder = [r \in Req |-> None]

Next ==
    \/ \E r \in Req : HandOut(r) \/ Admit(r) \/ Release(r) \/ RevokeAll(r) \/ RevokeToken(r)
    \/ Restart
    \/ Tick

Spec == Init /\ [][Next]_vars
=============================================================================
