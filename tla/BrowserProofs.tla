--------------------------- MODULE BrowserProofs ---------------------------
(***************************************************************************)
(* Proofs about one browser and the CSRF middleware, for every number of   *)
(* tabs, every set of tokens, every TTL and every MaxFetches:              *)
(*                                                                         *)
(*   TypeCorrect           a cookie is there while it has time to go       *)
(*   RefusesStrays         a form without a header is refused              *)
(*   RefusesAfterUnrest    tabs do not make each other's forms fail        *)
(*   FreezesByThrow        what leaves a button disabled for good          *)
(*                                                                         *)
(* They rest on what awaits what (SlotInv): a button is not pressed while  *)
(* the script that enables it is on its way, and a call of a button is     *)
(* never a page.                                                           *)
(***************************************************************************)
EXTENDS BrowserProperties, TLAPS

\* What can be under way.
Messages == Composed \cup Requests \cup Answers

NetType == net \in [Fetches -> Messages \cup {None}]

\* What awaits what.  A page is fetched by a tab without a form, /auth/me by the
\* login page or by a list page without buttons, and a tab without a form has no
\* call of one.
SlotAt(t) ==
    /\ net[<<t, "script">>] # None =>
          /\ net[<<t, "script">>].at # "composed"
          /\ net[<<t, "script">>].kind \in Shells \cup {"me", "load"}
          /\ net[<<t, "script">>].kind \in Shells => button[t] = "none"
          /\ net[<<t, "script">>].kind = "me" =>
                page[t] = "login" \/ (page[t] = "list" /\ button[t] = "none")
    /\ net[<<t, "submit">>] # None => net[<<t, "submit">>].kind \in Writes \cup {"reload"}
    /\ button[t] = "none" => net[<<t, "submit">>] = None

SlotInv == \A t \in Tab : SlotAt(t)

\* Only a GET that came without a token brings one.
MintInv ==
    \A f \in Fetches : net[f] # None /\ net[f].at = "answered" /\ net[f].mint # None
                          => net[f].bare

\* What awaits a form of a tab at rest: its header is the cookie that goes with it.
Matching(t) ==
    net[<<t, "submit">>] # None =>
       /\ net[<<t, "submit">>].at = "composed" => net[<<t, "submit">>].header = token
       /\ net[<<t, "submit">>].at = "sent" =>
             \/ net[<<t, "submit">>].kind \in Gets
             \/ /\ net[<<t, "submit">>].cookie # None
                /\ net[<<t, "submit">>].header = net[<<t, "submit">>].cookie
       /\ net[<<t, "submit">>].at = "answered" => net[<<t, "submit">>].status # "forbidden"

RestInv ==
    /\ rested \subseteq Tab
    /\ \A t \in rested : AtRest /\ Matching(t)

Inv == TypeOK /\ SlotInv /\ MintInv

----------------------------------------------------------------------------
\* Messages.

LEMMA MessageParts ==
    ASSUME NEW m \in Messages
    PROVE  /\ m # None
           /\ m.at \in {"composed", "sent", "answered"}
           /\ m.kind \in Gets \cup Writes
           /\ m.at = "composed" => m \in Composed
           /\ m.at = "sent" => m \in Requests
           /\ m.at = "answered" => m \in Answers
  BY NoneAssumption DEF Messages, Composed, Requests, Answers

LEMMA FetchesParts ==
    /\ \A t \in Tab, s \in Slots : <<t, s>> \in Fetches
    /\ \A f \in Fetches : f[1] \in Tab /\ f[2] \in Slots /\ f = <<f[1], f[2]>>
  BY DEF Fetches, Slots

----------------------------------------------------------------------------
\* The moves of a script: to another page, to another fetch, to its end.

LEMMA NavigateMove ==
    ASSUME Inv, NEW t \in Tab, NEW kind \in Shells, token' \in MaybeToken, Navigate(t, kind)
    PROVE  /\ page' \in [Tab -> Pages]
           /\ button' \in [Tab -> Buttons]
           /\ NetType'
           /\ SlotInv'
           /\ MintInv'
<1>1. /\ <<t, "script">> \in Fetches
      /\ <<t, "submit">> \in Fetches
  BY FetchesParts DEF Slots
<1> DEFINE m == [at |-> "sent", kind |-> kind, header |-> None,
                 cookie |-> token', session |-> session_left' > 0]
<1>2. m \in Messages
  BY DEF Messages, Requests, MaybeToken, Gets
<1>3. page' \in [Tab -> Pages] /\ button' \in [Tab -> Buttons]
  BY DEF Inv, TypeOK, Navigate, Pages, Buttons
<1>4. NetType'
  BY <1>1, <1>2 DEF Inv, TypeOK, NetType, Messages, Navigate
<1>5. \A f \in Fetches : net'[f] = IF f = <<t, "script">> THEN m
                                   ELSE IF f = <<t, "submit">> THEN None ELSE net[f]
  BY <1>1 DEF Inv, TypeOK, Navigate
<1>6. SlotInv'
  <2> SUFFICES ASSUME NEW u \in Tab PROVE SlotAt(u)'
    BY DEF SlotInv
  <2>1. <<u, "script">> \in Fetches /\ <<u, "submit">> \in Fetches
    BY FetchesParts DEF Slots
  <2>2. CASE u = t
    <3>1. net'[<<t, "script">>] = m /\ net'[<<t, "submit">>] = None /\ button'[t] = "none"
      BY <1>1, <1>5 DEF Navigate, Inv, TypeOK
    <3> QED
      BY <2>2, <3>1 DEF SlotAt, Shells
  <2>3. CASE u # t
    <3>1. /\ net'[<<u, "script">>] = net[<<u, "script">>] /\ net'[<<u, "submit">>] = net[<<u, "submit">>]
          /\ button'[u] = button[u] /\ page'[u] = page[u]
      BY <1>5, <2>1, <2>3 DEF Navigate, Inv, TypeOK
    <3> QED
      BY <3>1 DEF SlotAt, Inv, SlotInv
  <2> QED
    BY <2>2, <2>3
<1>7. MintInv'
  BY <1>5 DEF MintInv, Inv
<1> QED
  BY <1>3, <1>4, <1>6, <1>7

\* A move of the fetch f alone, and of what its tab shows.
LEMMA FetchMove ==
    ASSUME Inv, NEW t \in Tab, NEW s \in Slots, NEW m \in Messages \cup {None},
           net' = [net EXCEPT ![<<t, s>>] = m],
           page' \in [Tab -> Pages], button' \in [Tab -> Buttons],
           \A u \in Tab : u # t => page'[u] = page[u] /\ button'[u] = button[u],
           SlotAt(t)',
           m # None /\ m.at = "answered" /\ m.mint # None => m.bare
    PROVE  NetType' /\ SlotInv' /\ MintInv'
<1>1. <<t, s>> \in Fetches
  BY FetchesParts
<1>2. NetType'
  BY <1>1 DEF Inv, TypeOK, NetType, Messages
<1>3. \A f \in Fetches : net'[f] = IF f = <<t, s>> THEN m ELSE net[f]
  BY <1>1 DEF Inv, TypeOK
<1>4. SlotInv'
  <2> SUFFICES ASSUME NEW u \in Tab, u # t PROVE SlotAt(u)'
    BY DEF SlotInv
  <2>1. <<u, "script">> \in Fetches /\ <<u, "submit">> \in Fetches
    BY FetchesParts DEF Slots
  <2>2. net'[<<u, "script">>] = net[<<u, "script">>] /\ net'[<<u, "submit">>] = net[<<u, "submit">>]
    BY <1>3, <2>1
  <2> QED
    BY <2>2 DEF SlotAt, Inv, SlotInv
<1>5. MintInv'
  BY <1>3 DEF MintInv, Inv
<1> QED
  BY <1>2, <1>4, <1>5

\* What f has under way after a Fetch.
Fetched(kind) == [at |-> "sent", kind |-> kind, header |-> None,
                  cookie |-> token', session |-> session_left' > 0]

LEMMA FetchedMessage ==
    ASSUME token' \in MaybeToken, NEW kind \in Gets
    PROVE  Fetched(kind) \in Messages
  BY DEF Fetched, Messages, Requests, MaybeToken

\* A script that goes on with an answer.
LEMMA ResumeMove ==
    ASSUME Inv, NEW f \in Fetches, net[f] # None, net[f].at = "answered",
           token' \in MaybeToken, NEW ok \in BOOLEAN, Resume(f, net[f].kind, ok)
    PROVE  /\ page' \in [Tab -> Pages]
           /\ button' \in [Tab -> Buttons]
           /\ NetType'
           /\ SlotInv'
           /\ MintInv'
<1> DEFINE t == f[1]
           kind == net[f].kind
           Goal == /\ page' \in [Tab -> Pages]
                   /\ button' \in [Tab -> Buttons]
                   /\ NetType'
                   /\ SlotInv'
                   /\ MintInv'
<1>0. /\ t \in Tab /\ f[2] \in Slots /\ f = <<t, f[2]>>
      /\ <<t, "script">> \in Fetches /\ <<t, "submit">> \in Fetches
      /\ page \in [Tab -> Pages] /\ button \in [Tab -> Buttons]
      /\ net \in [Fetches -> Messages \cup {None}]
      /\ SlotAt(t)
  BY FetchesParts DEF Inv, TypeOK, SlotInv, Slots, Messages
<1>1. /\ kind \in Shells \cup {"me", "load"} => f[2] = "script"
      /\ kind \in Writes \cup {"reload"} => f[2] = "submit"
      /\ kind \in Shells \cup {"me", "load", "reload"} \cup Writes
  BY <1>0 DEF SlotAt, Shells, Writes, Slots
<1>2. ASSUME NEW p \in Pages, NEW b \in Buttons, NEW m \in Messages \cup {None},
             Show(t, p, b), net' = [net EXCEPT ![f] = m], m # None => m.at = "sent", SlotAt(t)'
      PROVE  Goal
  <2>1. /\ page' \in [Tab -> Pages] /\ button' \in [Tab -> Buttons]
        /\ \A u \in Tab : u # t => page'[u] = page[u] /\ button'[u] = button[u]
    BY <1>0, <1>2 DEF Show
  <2> QED
    BY <1>0, <1>2, <2>1, FetchMove
<1>3. ASSUME NEW m \in Messages \cup {None}, UNCHANGED <<page, button>>,
             net' = [net EXCEPT ![f] = m], m # None => m.at = "sent", SlotAt(t)'
      PROVE  Goal
  BY <1>0, <1>3, FetchMove
<1>4. ASSUME NEW shell \in Shells, Navigate(t, shell) PROVE Goal
  BY <1>0, <1>4, NavigateMove
<1>5. CASE AfterShell(f, kind, ok)
  <2>1. kind \in Shells /\ f[2] = "script" /\ button[t] = "none" /\ net[<<t, "submit">>] = None
    BY <1>0, <1>1, <1>5 DEF AfterShell, SlotAt
  <2>2. CASE ok /\ kind = "home"
    <3>1. Show(t, "blank", "none") /\ net' = [net EXCEPT ![f] = None]
      BY <1>5, <2>2 DEF AfterShell, Done, Shells
    <3>2. SlotAt(t)'
      BY <1>0, <2>1, <3>1 DEF SlotAt
    <3> QED
      BY <1>2, <3>1, <3>2 DEF Pages, Buttons
  <2>3. CASE ok /\ kind = "login"
    <3>1. Show(t, "login", "ready") /\ net' = [net EXCEPT ![f] = Fetched("me")]
      BY <1>5, <2>3 DEF AfterShell, Fetch, Fetched, Shells
    <3>2. Fetched("me") \in Messages
      BY FetchedMessage DEF Gets
    <3>3. SlotAt(t)'
      <4>1. /\ net'[<<t, "script">>] = Fetched("me") /\ net'[<<t, "submit">>] = net[<<t, "submit">>]
            /\ page'[t] = "login" /\ button'[t] = "ready"
        BY <1>0, <2>1, <3>1 DEF Show
      <4>2. net'[<<t, "script">>].at = "sent" /\ net'[<<t, "script">>].kind = "me"
        BY <4>1 DEF Fetched
      <4>3. net[<<t, "submit">>] # None => net[<<t, "submit">>].kind \in Writes \cup {"reload"}
        BY <1>0 DEF SlotAt
      <4> QED
        BY <2>1, <4>1, <4>2, <4>3 DEF SlotAt, Shells
    <3> QED
      BY <1>2, <3>1, <3>2, <3>3 DEF Pages, Buttons, Fetched
  <2>4. CASE ok /\ kind = "list"
    <3>1. Show(t, "list", "none") /\ net' = [net EXCEPT ![f] = Fetched("me")]
      BY <1>5, <2>4 DEF AfterShell, Fetch, Fetched, Shells
    <3>2. Fetched("me") \in Messages
      BY FetchedMessage DEF Gets
    <3>3. SlotAt(t)'
      <4>1. /\ net'[<<t, "script">>] = Fetched("me") /\ net'[<<t, "submit">>] = net[<<t, "submit">>]
            /\ page'[t] = "list" /\ button'[t] = "none"
        BY <1>0, <2>1, <3>1 DEF Show
      <4>2. net'[<<t, "script">>].at = "sent" /\ net'[<<t, "script">>].kind = "me"
        BY <4>1 DEF Fetched
      <4>3. net[<<t, "submit">>] # None => net[<<t, "submit">>].kind \in Writes \cup {"reload"}
        BY <1>0 DEF SlotAt
      <4> QED
        BY <2>1, <4>1, <4>2, <4>3 DEF SlotAt, Shells
    <3> QED
      BY <1>2, <3>1, <3>2, <3>3 DEF Pages, Buttons, Fetched
  <2>5. CASE ~ok
    BY <1>4, <1>5, <2>5 DEF AfterShell, Shells
  <2> QED
    BY <2>1, <2>2, <2>3, <2>4, <2>5 DEF Shells
<1>6. CASE AfterMe(f, kind, ok)
  <2>1. /\ kind = "me" /\ f[2] = "script"
        /\ page[t] = "login" \/ (page[t] = "list" /\ button[t] = "none")
    BY <1>0, <1>1, <1>6 DEF AfterMe, SlotAt
  <2>2. CASE (page[t] = "login" /\ ok) \/ (page[t] = "list" /\ ~ok)
    BY <1>4, <1>6, <2>2 DEF AfterMe, Shells
  <2>3. CASE page[t] = "login" /\ ~ok
    <3>1. UNCHANGED <<page, button>> /\ net' = [net EXCEPT ![f] = None]
      BY <1>6, <2>3 DEF AfterMe, Done
    <3>2. SlotAt(t)'
      BY <1>0, <2>1, <3>1 DEF SlotAt
    <3> QED
      BY <1>3, <3>1, <3>2
  <2>4. CASE page[t] = "list" /\ ok
    <3>1. Show(t, "list", "ready") /\ net' = [net EXCEPT ![f] = Fetched("load")]
      BY <1>6, <2>4 DEF AfterMe, Fetch, Fetched
    <3>2. Fetched("load") \in Messages
      BY FetchedMessage DEF Gets
    <3>3. SlotAt(t)'
      <4>1. /\ net'[<<t, "script">>] = Fetched("load") /\ net'[<<t, "submit">>] = net[<<t, "submit">>]
            /\ page'[t] = "list" /\ button'[t] = "ready"
        BY <1>0, <2>1, <3>1 DEF Show
      <4>2. net'[<<t, "script">>].at = "sent" /\ net'[<<t, "script">>].kind = "load"
        BY <4>1 DEF Fetched
      <4>3. net[<<t, "submit">>] # None => net[<<t, "submit">>].kind \in Writes \cup {"reload"}
        BY <1>0 DEF SlotAt
      <4> QED
        BY <2>1, <4>1, <4>2, <4>3 DEF SlotAt, Shells
    <3> QED
      BY <1>2, <3>1, <3>2, <3>3 DEF Pages, Buttons, Fetched
  <2> QED
    BY <2>1, <2>2, <2>3, <2>4
<1>7. CASE AfterList(f, kind, ok)
  <2>1. CASE kind = "reload"
    <3>1. Show(t, page[t], "ready") /\ net' = [net EXCEPT ![f] = None] /\ f[2] = "submit"
      BY <1>1, <1>7, <2>1 DEF AfterList, Done
    <3>2. SlotAt(t)'
      <4>1. net'[<<t, "submit">>] = None /\ net'[<<t, "script">>] = net[<<t, "script">>]
            /\ page'[t] = page[t] /\ button'[t] = "ready" /\ button[t] # "none"
        BY <1>0, <3>1 DEF Show, SlotAt
      <4> QED
        BY <1>0, <4>1 DEF SlotAt
    <3> QED
      BY <1>0, <1>2, <3>1, <3>2 DEF Buttons
  <2>2. CASE kind = "load"
    <3>1. UNCHANGED <<page, button>> /\ net' = [net EXCEPT ![f] = None] /\ f[2] = "script"
      BY <1>1, <1>7, <2>2 DEF AfterList, Done
    <3>2. SlotAt(t)'
      BY <1>0, <3>1 DEF SlotAt
    <3> QED
      BY <1>3, <3>1, <3>2
  <2> QED
    BY <1>7, <2>1, <2>2 DEF AfterList
<1>8. CASE AfterWrite(f, kind, ok)
  <2>1. kind \in Writes /\ f[2] = "submit" /\ button[t] # "none" /\ f = <<t, "submit">>
    BY <1>0, <1>1, <1>8 DEF AfterWrite, AfterSignin, AfterCreate, AfterDelete, Writes, SlotAt
  <2>2. CASE kind = "signin" /\ ok
    BY <1>4, <1>8, <2>2 DEF AfterWrite, AfterSignin, AfterCreate, AfterDelete, Shells
  <2>3. ASSUME NEW b \in Buttons, b # "none", NEW m \in {None, Fetched("reload")},
               Show(t, page[t], b), net' = [net EXCEPT ![f] = m]
        PROVE  Goal
    <3>1. Fetched("reload") \in Messages
      BY FetchedMessage DEF Gets
    <3>2. /\ net'[<<t, "submit">>] = m /\ net'[<<t, "script">>] = net[<<t, "script">>]
          /\ page'[t] = page[t] /\ button'[t] = b
      BY <1>0, <2>1, <2>3 DEF Show
    <3>3. SlotAt(t)'
      BY <1>0, <2>1, <2>3, <3>2 DEF SlotAt, Fetched, Shells
    <3>4. m \in Messages \cup {None} /\ (m # None => m.at = "sent")
      BY <3>1 DEF Fetched
    <3> QED
      BY <1>0, <1>2, <2>3, <3>3, <3>4
  <2>4. CASE kind = "create" /\ ok
    <3>1. Show(t, page[t], "ready") /\ net' = [net EXCEPT ![f] = Fetched("reload")]
      BY <1>8, <2>4 DEF AfterWrite, AfterSignin, AfterCreate, AfterDelete, Fetch, Fetched
    <3> QED
      BY <2>3, <3>1 DEF Buttons
  <2>5. CASE kind = "delete" /\ ok
    <3>1. UNCHANGED <<page, button>> /\ net' = [net EXCEPT ![f] = Fetched("reload")]
      BY <1>8, <2>5 DEF AfterWrite, AfterSignin, AfterCreate, AfterDelete, Fetch, Fetched
    <3>2. Show(t, page[t], button[t])
      BY <1>0, <3>1 DEF Show
    <3> QED
      BY <1>0, <2>1, <2>3, <3>1, <3>2
  <2>6. CASE ~ok
    <3>1. Show(t, page[t], "ready") /\ net' = [net EXCEPT ![f] = None]
      BY <1>8, <2>6 DEF AfterWrite, AfterSignin, AfterCreate, AfterDelete, Done
    <3> QED
      BY <2>3, <3>1 DEF Buttons
  <2> QED
    BY <2>1, <2>2, <2>4, <2>5, <2>6 DEF Writes
<1> QED
  BY <1>5, <1>6, <1>7, <1>8 DEF Resume

\* A script that is gone.
LEMMA ThrowMove ==
    ASSUME Inv, NEW f \in Fetches, net[f] # None, Throw(f, net[f].kind)
    PROVE  /\ page' \in [Tab -> Pages]
           /\ button' \in [Tab -> Buttons]
           /\ NetType'
           /\ SlotInv'
           /\ MintInv'
<1> DEFINE t == f[1]
<1>1. /\ t \in Tab /\ f[2] \in Slots /\ f = <<t, f[2]>>
      /\ <<t, "script">> \in Fetches /\ <<t, "submit">> \in Fetches
      /\ page \in [Tab -> Pages] /\ button \in [Tab -> Buttons]
      /\ net \in [Fetches -> Messages \cup {None}]
      /\ SlotAt(t)
  BY FetchesParts DEF Inv, TypeOK, SlotInv, Slots, Messages
<1>2. net' = [net EXCEPT ![f] = None]
  BY DEF Throw, Done
<1>3. /\ page' \in [Tab -> Pages] /\ button' \in [Tab -> Buttons]
      /\ \A u \in Tab : u # t => page'[u] = page[u] /\ button'[u] = button[u]
  BY <1>1 DEF Throw, Show, Pages, Buttons
<1>4. SlotAt(t)'
  <2>1. CASE net[f].kind \in Shells
    <3>1. /\ f[2] = "script" /\ net[<<t, "submit">>] = None
          /\ button'[t] = "none"
      BY <1>1, <2>1 DEF Throw, Show, SlotAt, Shells, Writes, Slots
    <3> QED
      BY <1>1, <1>2, <3>1 DEF SlotAt
  <2>2. CASE net[f].kind \notin Shells /\ button[t] = "disabled" /\ f[2] = "submit"
    <3>1. page'[t] = page[t] /\ button'[t] = "stuck"
      BY <1>1, <2>2 DEF Throw, Show
    <3> QED
      BY <1>1, <1>2, <2>2, <3>1 DEF SlotAt
  <2>3. CASE net[f].kind \notin Shells /\ ~(button[t] = "disabled" /\ f[2] = "submit")
    <3>1. UNCHANGED <<page, button>>
      BY <2>3 DEF Throw
    <3> QED
      BY <1>1, <1>2, <3>1 DEF SlotAt
  <2> QED
    BY <2>1, <2>2, <2>3
<1> QED
  BY <1>1, <1>2, <1>3, <1>4, FetchMove

----------------------------------------------------------------------------
\* The invariant.

\* The cookies an answer sets.
LEMMA CookiesMove ==
    ASSUME Inv, NEW a \in Answers, SetCookies(a)
    PROVE  /\ token' \in MaybeToken
           /\ token_left' \in 0..TTL
           /\ token' = None <=> token_left' = 0
           /\ session_left' \in 0..TTL
  BY TTLAssumption DEF Inv, TypeOK, SetCookies, Answers, MaybeToken

LEMMA InvInit == Init => Inv
  BY TTLAssumption
  DEF Init, Inv, TypeOK, SlotInv, SlotAt, MintInv, MaybeToken, Pages, Buttons, Fetches, Slots

\* A move of one fetch whose tab shows what it showed.
LEMMA QuietMove ==
    ASSUME Inv, NEW f \in Fetches, NEW m \in Messages \cup {None}, UNCHANGED <<jar, page, button>>,
           net' = [net EXCEPT ![f] = m], net[f] # None,
           m # None => m.at # "composed" /\ m.kind = net[f].kind,
           m # None /\ m.at = "answered" /\ m.mint # None => m.bare
    PROVE  Inv'
<1> DEFINE t == f[1]
<1>1. /\ t \in Tab /\ f[2] \in Slots /\ f = <<t, f[2]>>
      /\ <<t, "script">> \in Fetches /\ <<t, "submit">> \in Fetches
      /\ net \in [Fetches -> Messages \cup {None}]
      /\ SlotAt(t)
      /\ page' = page /\ button' = button
  BY FetchesParts DEF Inv, TypeOK, SlotInv, Slots, Messages
<1>2. SlotAt(t)'
  <2>1. CASE f[2] = "script"
    <3>1. net'[<<t, "script">>] = m /\ net'[<<t, "submit">>] = net[<<t, "submit">>]
      BY <1>1, <2>1
    <3> QED
      BY <1>1, <2>1, <3>1 DEF SlotAt
  <2>2. CASE f[2] = "submit"
    <3>1. net'[<<t, "submit">>] = m /\ net'[<<t, "script">>] = net[<<t, "script">>]
      BY <1>1, <2>2
    <3> QED
      BY <1>1, <2>2, <3>1 DEF SlotAt
  <2> QED
    BY <1>1, <2>1, <2>2 DEF Slots
<1>3. page' \in [Tab -> Pages] /\ button' \in [Tab -> Buttons]
  BY <1>1 DEF Inv, TypeOK
<1>4. NetType' /\ SlotInv' /\ MintInv'
  BY <1>1, <1>2, <1>3, FetchMove
<1> QED
  BY <1>3, <1>4 DEF Inv, TypeOK, NetType, Messages, jar

LEMMA InvStep == Inv /\ [Next]_vars => Inv'
<1> SUFFICES ASSUME Inv, [Next]_vars PROVE Inv'
  OBVIOUS
<1>0. net \in [Fetches -> Messages \cup {None}]
  BY DEF Inv, TypeOK, Messages
<1>1. ASSUME NEW t \in Tab, Open(t) PROVE Inv'
  <2>1. token' \in MaybeToken /\ UNCHANGED jar
    BY <1>1 DEF Open, jar, Inv, TypeOK
  <2>2. PICK kind \in Shells : Navigate(t, kind)
    BY <1>1 DEF Open
  <2> QED
    BY <2>1, <2>2, NavigateMove DEF Inv, TypeOK, NetType, Messages, jar
<1>2. ASSUME NEW t \in Tab, Press(t) PROVE Inv'
  <2>1. PICK kind \in Writes :
           net' = [net EXCEPT ![<<t, "submit">>] =
                     [at |-> "composed", kind |-> kind, header |-> token]]
    BY <1>2 DEF Press, Writes
  <2> DEFINE m == [at |-> "composed", kind |-> kind, header |-> token]
  <2>2. m \in Messages /\ m.at = "composed" /\ m.kind = kind
    BY DEF Messages, Composed, Inv, TypeOK
  <2>3. /\ page' \in [Tab -> Pages] /\ button' \in [Tab -> Buttons]
        /\ \A u \in Tab : u # t => page'[u] = page[u] /\ button'[u] = button[u]
        /\ button[t] = "ready" /\ button'[t] = "disabled" /\ page' = page
    BY <1>2 DEF Press, Inv, TypeOK, Buttons
  <2>4. SlotAt(t)'
    <3>1. /\ net'[<<t, "submit">>] = m /\ net'[<<t, "script">>] = net[<<t, "script">>]
          /\ SlotAt(t)
      BY <1>0, <2>1, FetchesParts DEF Inv, SlotInv, Slots
    <3> QED
      BY <2>2, <2>3, <3>1 DEF SlotAt
  <2>5. NetType' /\ SlotInv' /\ MintInv'
    BY <2>1, <2>2, <2>3, <2>4, FetchMove DEF Slots
  <2> QED
    BY <1>2, <2>3, <2>5 DEF Press, Inv, TypeOK, NetType, Messages, jar
<1>3. ASSUME NEW f \in Fetches, Attach(f) PROVE Inv'
  <2> DEFINE m == Request(net[f].kind, net[f].header)
  <2>1. net[f] \in Composed
    BY <1>0, <1>3, MessageParts DEF Attach
  <2>2. m \in Messages /\ m.at = "sent" /\ m.kind = net[f].kind
    BY <2>1 DEF Messages, Requests, Composed, Request, Inv, TypeOK
  <2> QED
    BY <1>3, <2>2, QuietMove DEF Attach
<1>4. ASSUME NEW f \in Fetches, Serve(f) PROVE Inv'
  <2>1. net[f] \in Requests
    BY <1>0, <1>4, MessageParts DEF Serve
  <2>2. PICK status \in Statuses(net[f]), k \in Minted(net[f]) :
           net' = [net EXCEPT ![f] =
                     [at |-> "answered", kind |-> net[f].kind, status |-> status, mint |-> k,
                      login |-> net[f].kind = "signin" /\ status = "ok",
                      bare |-> net[f].kind \in Gets /\ net[f].cookie = None]]
    BY <1>4 DEF Serve
  <2> DEFINE m == [at |-> "answered", kind |-> net[f].kind, status |-> status, mint |-> k,
                   login |-> net[f].kind = "signin" /\ status = "ok",
                   bare |-> net[f].kind \in Gets /\ net[f].cookie = None]
  <2>3. status \in {"ok", "denied", "forbidden"}
    BY DEF Statuses
  <2>4. k \in MaybeToken /\ (k # None => net[f].kind \in Gets /\ net[f].cookie = None)
    BY DEF Minted, MaybeToken
  <2>5. m \in Messages /\ m.at = "answered" /\ m.kind = net[f].kind /\ (m.mint # None => m.bare)
    BY <2>1, <2>3, <2>4 DEF Messages, Answers, Requests
  <2> QED
    BY <1>4, <2>2, <2>5, QuietMove DEF Serve
<1>5. ASSUME NEW f \in Fetches, Deliver(f) PROVE Inv'
  <2>1. net[f] \in Answers /\ net[f] # None /\ net[f].at = "answered"
    BY <1>0, <1>5, MessageParts DEF Deliver
  <2>2. /\ token' \in MaybeToken /\ token_left' \in 0..TTL
        /\ token' = None <=> token_left' = 0
        /\ session_left' \in 0..TTL
    BY <1>5, <2>1, CookiesMove DEF Deliver
  <2>3. /\ page' \in [Tab -> Pages] /\ button' \in [Tab -> Buttons]
        /\ NetType' /\ SlotInv' /\ MintInv'
    <3>1. Throw(f, net[f].kind) \/ \E ok \in BOOLEAN : Resume(f, net[f].kind, ok)
      BY <1>5 DEF Deliver, Receive
    <3>2. CASE Throw(f, net[f].kind)
      BY <2>1, <3>2, ThrowMove
    <3>3. ASSUME NEW ok \in BOOLEAN, Resume(f, net[f].kind, ok)
          PROVE  /\ page' \in [Tab -> Pages] /\ button' \in [Tab -> Buttons]
                 /\ NetType' /\ SlotInv' /\ MintInv'
      BY <2>1, <2>2, <3>3, ResumeMove
    <3> QED
      BY <3>1, <3>2, <3>3
  <2> QED
    BY <2>2, <2>3 DEF Inv, TypeOK, NetType, Messages
<1>6. ASSUME NEW f \in Fetches, NEW status \in {"garbled", "null", "rejected"}, Lost(f, status) PROVE Inv'
  <2> DEFINE m == [at |-> "answered", kind |-> net[f].kind, status |-> status,
                   mint |-> None, login |-> FALSE, bare |-> FALSE]
  <2>1. net[f].kind \in Gets \cup Writes
    BY <1>0, <1>6, MessageParts DEF Lost
  <2>2. m \in Messages /\ m.at = "answered" /\ m.kind = net[f].kind /\ m.mint = None
    BY <2>1 DEF Messages, Answers, MaybeToken
  <2> QED
    BY <1>6, <2>2, QuietMove DEF Lost
<1>7. ASSUME NEW f \in Fetches, CutShort(f) PROVE Inv'
  <2> DEFINE m == [net[f] EXCEPT !.status = "garbled"]
  <2>1. net[f] \in Answers
    BY <1>0, <1>7, MessageParts DEF CutShort
  <2>2. /\ m \in Messages /\ m.at = "answered" /\ m.kind = net[f].kind
        /\ m.mint = net[f].mint /\ m.bare = net[f].bare
    BY <2>1, <1>7 DEF Messages, Answers, CutShort
  <2>3. m.mint # None => m.bare
    BY <1>7, <2>2 DEF Inv, MintInv, CutShort
  <2>4. net' = [net EXCEPT ![f] = m]
    BY <1>7 DEF CutShort
  <2> QED
    BY <1>7, <2>2, <2>3, <2>4, QuietMove DEF CutShort
<1>8. CASE Tick
  <2>1. /\ token' \in MaybeToken /\ token_left' \in 0..TTL
        /\ token' = None <=> token_left' = 0
        /\ session_left' \in 0..TTL
    BY <1>8, TTLAssumption, NoneAssumption DEF Tick, Inv, TypeOK, MaybeToken
  <2> QED
    BY <1>8, <2>1 DEF Tick, Inv, TypeOK, SlotInv, SlotAt, MintInv
<1>9. CASE UNCHANGED vars
  BY <1>9 DEF vars, jar, Inv, TypeOK, SlotInv, SlotAt, MintInv
<1> QED
  BY <1>1, <1>2, <1>3, <1>4, <1>5, <1>6, <1>7, <1>8, <1>9
  DEF Next, User, Step, Fault, Cut, Reject, Fetches

LEMMA HistoryNext == [Next /\ Watch]_historyVars => [Next]_vars
  BY DEF historyVars

LEMMA InvAlways == SpecHistory => []Inv
<1>1. Inv /\ [Next /\ Watch]_historyVars => Inv'
  BY InvStep, HistoryNext
<1> QED
  BY <1>1, InvInit, PTL DEF SpecHistory, InitHistory

\* The two cookies: one that is there has time to go (csrf.go 76, auth.go 69).
THEOREM TypeCorrect == SpecHistory => []TypeOK
  BY InvAlways, PTL DEF Inv

\* A form without a header is refused as long as a session goes with it, whatever
\* became of the two cookies: a missing token is no match for a missing header
\* (csrf.go 65-91).
THEOREM RefusesStrays == SpecHistory => []StrayRefused
<1>1. TypeOK => StrayRefused
  BY DEF StrayRefused, Verified, Request, Gets, Shells
<1> QED
  BY <1>1, TypeCorrect, PTL

----------------------------------------------------------------------------
\* Tabs at rest.

\* An answer to a tab at rest leaves the token alone.
LEMMA CookiesAtRest ==
    ASSUME Inv, AtRest, NEW f \in Fetches, net[f] # None, net[f].at = "answered", SetCookies(net[f])
    PROVE  token' = token
  BY DEF Inv, MintInv, AtRest, SetCookies

\* A script that goes on leaves the page, or makes a fetch or none, and then the
\* button is as it was, enabled, or not there yet.
Leaves(f) == Navigate(f[1], "home") \/ Navigate(f[1], "login")

Continues(f) ==
    /\ \/ net' = [net EXCEPT ![f] = None]
       \/ net' = [net EXCEPT ![f] = Fetched("me")]
       \/ net' = [net EXCEPT ![f] = Fetched("load")]
       \/ net' = [net EXCEPT ![f] = Fetched("reload")]
    /\ \/ UNCHANGED button
       \/ button' = [button EXCEPT ![f[1]] = "none"]
       \/ button' = [button EXCEPT ![f[1]] = "ready"]

LEMMA ResumeShape ==
    ASSUME Inv, NEW f \in Fetches, net[f] # None, net[f].at = "answered",
           NEW ok \in BOOLEAN, Resume(f, net[f].kind, ok)
    PROVE  Leaves(f) \/ Continues(f)
<1> DEFINE kind == net[f].kind
<1>1. CASE AfterShell(f, kind, ok)
  BY <1>1 DEF AfterShell, Shells, Leaves, Continues, Show, Done, Fetch, Fetched
<1>2. CASE AfterMe(f, kind, ok)
  <2>1. page[f[1]] = "login" \/ page[f[1]] = "list"
    <3>1. f[1] \in Tab /\ f[2] \in Slots /\ f = <<f[1], f[2]>> /\ SlotAt(f[1])
      BY FetchesParts DEF Inv, SlotInv
    <3>2. kind = "me"
      BY <1>2 DEF AfterMe
    <3> QED
      BY <3>1, <3>2 DEF SlotAt, Slots, Writes
  <2> QED
    BY <1>2, <2>1 DEF AfterMe, Leaves, Continues, Show, Done, Fetch, Fetched
<1>3. CASE AfterList(f, kind, ok)
  BY <1>3 DEF AfterList, Continues, Show, Done
<1>4. CASE AfterWrite(f, kind, ok)
  BY <1>4 DEF AfterWrite, AfterSignin, AfterCreate, AfterDelete, Writes, Leaves, Continues, Show, Done, Fetch, Fetched
<1> QED
  BY <1>1, <1>2, <1>3, <1>4 DEF Resume

\* An answer to another fetch than the call of t's form drops that call, with the
\* page, or leaves it; and enables t's button only while there is none.
LEMMA DeliverOthers ==
    ASSUME Inv, NEW t \in Tab, NEW f \in Fetches, f # <<t, "submit">>, Deliver(f)
    PROVE  \/ net'[<<t, "submit">>] = None
           \/ /\ net'[<<t, "submit">>] = net[<<t, "submit">>]
              /\ Enabled(t) => net[<<t, "submit">>] = None
<1> DEFINE kind == net[f].kind
<1>1. /\ f[1] \in Tab /\ f[2] \in Slots /\ f = <<f[1], f[2]>>
      /\ <<t, "submit">> \in Fetches
      /\ net \in [Fetches -> Messages \cup {None}] /\ button \in [Tab -> Buttons]
      /\ SlotAt(t) /\ SlotAt(f[1])
  BY FetchesParts DEF Inv, TypeOK, SlotInv, Slots, Messages
<1>2. ASSUME NEW shell \in Shells, Navigate(f[1], shell)
      PROVE  \/ net'[<<t, "submit">>] = None
             \/ /\ net'[<<t, "submit">>] = net[<<t, "submit">>]
                /\ ~Enabled(t)
  BY <1>1, <1>2 DEF Navigate, Enabled
<1>3. CASE Throw(f, kind)
  <2>1. net'[<<t, "submit">>] = net[<<t, "submit">>]
    BY <1>1, <1>3 DEF Throw, Done
  <2>2. ~Enabled(t)
    BY <1>1, <1>3 DEF Throw, Show, Enabled
  <2> QED
    BY <2>1, <2>2
<1>4. ASSUME NEW ok \in BOOLEAN, Resume(f, kind, ok)
      PROVE  \/ net'[<<t, "submit">>] = None
             \/ /\ net'[<<t, "submit">>] = net[<<t, "submit">>]
                /\ Enabled(t) => net[<<t, "submit">>] = None
  <2>0. Leaves(f) \/ Continues(f)
    BY <1>4, ResumeShape DEF Deliver
  <2>1. CASE f[1] # t
    <3>1. CASE Leaves(f)
      BY <1>2, <3>1 DEF Leaves, Shells
    <3>2. CASE Continues(f)
      BY <1>1, <2>1, <3>2 DEF Continues, Enabled
    <3> QED
      BY <2>0, <3>1, <3>2
  <2>2. CASE f = <<t, "script">>
    <3>1. /\ kind \in Shells \cup {"me", "load"}
          /\ kind \in Shells => button[t] = "none"
          /\ kind = "me" => page[t] = "login" \/ (page[t] = "list" /\ button[t] = "none")
          /\ button[t] = "none" => net[<<t, "submit">>] = None
      BY <1>1, <2>2 DEF SlotAt, Deliver
    <3>2. net'[<<t, "submit">>] \in {None, net[<<t, "submit">>]}
      <4>1. CASE Leaves(f)
        BY <1>1, <2>2, <4>1 DEF Leaves, Navigate
      <4>2. CASE Continues(f)
        BY <1>1, <2>2, <4>2 DEF Continues
      <4> QED
        BY <2>0, <4>1, <4>2
    <3>3. CASE button[t] = "none"
      BY <3>1, <3>2, <3>3
    <3>4. CASE button[t] # "none"
      <4>1. \/ kind = "me" /\ page[t] = "login"
            \/ kind = "load"
        BY <3>1, <3>4
      <4>2. \/ \E shell \in Shells : Navigate(t, shell)
            \/ UNCHANGED button
        BY <1>4, <2>2, <4>1
        DEF Resume, AfterShell, AfterMe, AfterList, AfterWrite, AfterSignin, AfterCreate, AfterDelete, Shells, Writes
      <4>3. CASE UNCHANGED button
        BY <3>2, <4>3 DEF Enabled
      <4> QED
        BY <1>2, <2>2, <4>2, <4>3
    <3> QED
      BY <3>3, <3>4
  <2> QED
    BY <1>1, <2>1, <2>2 DEF Slots
<1> QED
  BY <1>3, <1>4 DEF Deliver, Receive

\* The answer to the call itself ends it, or lets the list be loaded again.
LEMMA DeliverOwn ==
    ASSUME Inv, NEW t \in Tab, Deliver(<<t, "submit">>)
    PROVE  Matching(t)'
<1> DEFINE f == <<t, "submit">>
<1>1. /\ f \in Fetches /\ <<t, "script">> \in Fetches
      /\ net \in [Fetches -> Messages \cup {None}]
  BY FetchesParts DEF Inv, TypeOK, Slots, Messages
<1>2. \/ Leaves(f)
      \/ Continues(f)
      \/ net' = [net EXCEPT ![f] = None]
  BY <1>1, ResumeShape DEF Deliver, Receive, Throw, Done
<1>3. \/ net'[f] = None
      \/ net'[f] = Fetched("me")
      \/ net'[f] = Fetched("load")
      \/ net'[f] = Fetched("reload")
  BY <1>1, <1>2 DEF Leaves, Continues, Navigate
<1>4. net'[f] # None => net'[f].at = "sent" /\ net'[f].kind \in Gets
  BY <1>3 DEF Fetched, Gets
<1> QED
  BY <1>4 DEF Matching

\* The rest at the tabs is kept, and begins with no call under way or one that is
\* not verified.
LEMMA RestStep == Inv /\ RestInv /\ [Next /\ Watch]_historyVars => RestInv'
<1> SUFFICES ASSUME Inv, RestInv, Next, Watch PROVE RestInv'
  BY DEF historyVars, vars, jar, RestInv, AtRest, Matching
<1> SUFFICES ASSUME NEW t \in rested' PROVE Matching(t)'
  BY DEF RestInv, Watch
<1> DEFINE h == <<t, "submit">>
<1>1. /\ t \in Tab /\ AtRest' /\ (t \in rested \/ Enabled(t))
      /\ h \in Fetches
      /\ net \in [Fetches -> Messages \cup {None}] /\ button \in [Tab -> Buttons]
      /\ t \in rested => AtRest /\ Matching(t)
  BY FetchesParts DEF Watch, RestInv, Inv, TypeOK, Slots, Messages
<1>2. ASSUME ~Enabled(t), token' = token, net'[h] = net[h] PROVE Matching(t)'
  BY <1>1, <1>2 DEF Matching
<1>3. ASSUME NEW u \in Tab, Open(u) PROVE Matching(t)'
  <2>1. PICK kind \in Shells : Navigate(u, kind)
    BY <1>3 DEF Open
  <2>2. CASE u = t
    BY <1>1, <2>1, <2>2 DEF Navigate, Matching
  <2>3. CASE u # t
    BY <1>1, <1>2, <1>3, <2>1, <2>3 DEF Navigate, Open, jar, Enabled
  <2> QED
    BY <2>2, <2>3
<1>4. ASSUME NEW u \in Tab, Press(u) PROVE Matching(t)'
  <2>1. PICK kind :
           net' = [net EXCEPT ![<<u, "submit">>] =
                     [at |-> "composed", kind |-> kind, header |-> token]]
    BY <1>4 DEF Press
  <2>2. CASE u = t
    BY <1>1, <1>4, <2>1, <2>2 DEF Press, jar, Matching
  <2>3. CASE u # t
    BY <1>1, <1>2, <1>4, <2>1, <2>3 DEF Press, jar, Enabled
  <2> QED
    BY <2>2, <2>3
<1>5. ASSUME NEW f \in Fetches, Attach(f) PROVE Matching(t)'
  <2>1. ~Enabled(t) /\ token' = token /\ net' = [net EXCEPT ![f] = Request(net[f].kind, net[f].header)]
    BY <1>5 DEF Attach, jar, Enabled
  <2>2. CASE f = h
    <3>1. net[h].header = token /\ token # None
      BY <1>1, <1>5, <2>1, <2>2 DEF Matching, AtRest, Attach
    <3> QED
      BY <1>1, <2>1, <2>2, <3>1 DEF Matching, Request
  <2>3. CASE f # h
    BY <1>1, <1>2, <2>1, <2>3
  <2> QED
    BY <2>2, <2>3
<1>6. ASSUME NEW f \in Fetches, Serve(f) PROVE Matching(t)'
  <2>1. ~Enabled(t) /\ token' = token
    BY <1>6 DEF Serve, jar, Enabled
  <2>2. PICK status \in Statuses(net[f]) :
           \E k \in Minted(net[f]) :
              net' = [net EXCEPT ![f] =
                        [at |-> "answered", kind |-> net[f].kind, status |-> status, mint |-> k,
                         login |-> net[f].kind = "signin" /\ status = "ok",
                         bare |-> net[f].kind \in Gets /\ net[f].cookie = None]]
    BY <1>6 DEF Serve
  <2>3. CASE f = h
    <3>1. Verified(net[h])
      BY <1>1, <1>6, <2>1, <2>3 DEF Matching, Serve, Verified
    <3>2. status # "forbidden"
      BY <2>2, <2>3, <3>1 DEF Statuses
    <3>3. net'[h].at = "answered" /\ net'[h].status = status
      BY <1>1, <2>2, <2>3
    <3> QED
      BY <3>2, <3>3 DEF Matching
  <2>4. CASE f # h
    BY <1>1, <1>2, <2>1, <2>2, <2>4
  <2> QED
    BY <2>3, <2>4
<1>7. ASSUME NEW f \in Fetches, Deliver(f) PROVE Matching(t)'
  <2>1. CASE f = h
    BY <1>1, <1>7, <2>1, DeliverOwn
  <2>2. CASE f # h
    <3>1. CASE net'[h] = None
      BY <3>1 DEF Matching
    <3>2. CASE net'[h] = net[h] /\ net[h] # None /\ ~Enabled(t)
      <4>1. token' = token
        BY <1>1, <1>7, <3>2, CookiesAtRest DEF Deliver
      <4> QED
        BY <1>2, <3>2, <4>1
    <3> QED
      BY <1>1, <1>7, <2>2, <3>1, <3>2, DeliverOthers
  <2> QED
    BY <2>1, <2>2
<1>8. ASSUME NEW f \in Fetches, NEW status \in {"garbled", "null", "rejected"}, Lost(f, status)
      PROVE  Matching(t)'
  <2>1. /\ ~Enabled(t) /\ token' = token
        /\ net' = [net EXCEPT ![f] = [at |-> "answered", kind |-> net[f].kind, status |-> status,
                                      mint |-> None, login |-> FALSE, bare |-> FALSE]]
    BY <1>8 DEF Lost, jar, Enabled
  <2>2. CASE f = h
    BY <1>1, <2>1, <2>2 DEF Matching
  <2>3. CASE f # h
    BY <1>1, <1>2, <2>1, <2>3
  <2> QED
    BY <2>2, <2>3
<1>9. ASSUME NEW f \in Fetches, CutShort(f) PROVE Matching(t)'
  <2>1. /\ ~Enabled(t) /\ token' = token /\ net[f] # None /\ net[f].at = "answered"
        /\ net' = [net EXCEPT ![f].status = "garbled"]
    BY <1>9 DEF CutShort, jar, Enabled
  <2>2. CASE f = h
    <3>1. net[h] \in Answers
      BY <1>1, <2>1, <2>2, MessageParts
    <3>2. net'[h].at = "answered" /\ net'[h].status = "garbled"
      BY <1>1, <2>1, <2>2, <3>1 DEF Answers
    <3> QED
      BY <3>2 DEF Matching
  <2>3. CASE f # h
    BY <1>1, <1>2, <2>1, <2>3
  <2> QED
    BY <2>2, <2>3
<1>10. CASE Tick
  <2>1. ~Enabled(t) /\ token' = token /\ net'[h] = net[h]
    BY <1>1, <1>10 DEF Tick, AtRest, Enabled
  <2> QED
    BY <1>2, <2>1
<1> QED
  BY <1>3, <1>4, <1>5, <1>6, <1>7, <1>8, <1>9, <1>10
  DEF Next, User, Step, Fault, Cut, Reject, Fetches

\* Tabs do not make each other's forms fail: since its button was enabled, a form
\* that is refused for its token has seen the jar without one, or another on its
\* way (csrf.go 69-82, api.js 19-24).
THEOREM RefusesAfterUnrest == SpecHistory => []RefusedOnlyAfterUnrest
<1>1. Init /\ rested = {} => RestInv
  BY DEF RestInv
<1>2. TypeOK /\ RestInv => RefusedOnlyAfterUnrest
  BY DEF RestInv, Matching, RefusedOnlyAfterUnrest
<1> QED
  BY <1>1, <1>2, RestStep, InvAlways, TypeCorrect, PTL DEF SpecHistory, InitHistory

\* A button is left disabled for good by a fetch that rejects, a delete button also
\* by the JSON null, and by nothing else: an answer without an envelope gets one
\* (api.js 3-16).
THEOREM FreezesByThrow == SpecHistory => OnlyThrowsFreeze
<1> DEFINE Thrown(t) == /\ net[<<t, "submit">>] # None
                        /\ \/ net[<<t, "submit">>].status = "rejected"
                           \/ /\ net[<<t, "submit">>].status = "null"
                              /\ net[<<t, "submit">>].kind \in {"delete", "reload"}
           Freeze == \A t \in Tab : button[t] # "stuck" /\ button'[t] = "stuck" => Thrown(t)
<1>1. Inv /\ [Next]_vars => [Freeze]_vars
  <2> SUFFICES ASSUME Inv, Next, NEW t \in Tab, button[t] # "stuck", button'[t] = "stuck"
               PROVE  Thrown(t)
    BY DEF vars
  <2>0. button \in [Tab -> Buttons]
    BY DEF Inv, TypeOK
  <2>1. ASSUME NEW u \in Tab, NEW shell, Navigate(u, shell) PROVE FALSE
    BY <2>0, <2>1 DEF Navigate
  <2>2. ASSUME NEW f \in Fetches, NEW ok \in BOOLEAN, Resume(f, net[f].kind, ok), Deliver(f) PROVE FALSE
    <3>1. f[1] \in Tab
      BY FetchesParts
    <3>2. Leaves(f) \/ Continues(f)
      BY <2>2, ResumeShape DEF Deliver
    <3> QED
      BY <2>0, <2>1, <3>1, <3>2 DEF Leaves, Continues
  <2>3. ASSUME NEW f \in Fetches, Throw(f, net[f].kind), Deliver(f)
        PROVE  /\ f = <<t, "submit">> /\ net[f].kind \notin Shells
    <3>1. f[1] \in Tab /\ f = <<f[1], f[2]>> /\ SlotAt(f[1]) /\ net[f] # None
      BY <2>3, FetchesParts DEF Inv, SlotInv, Deliver
    <3>2. CASE net[f].kind \in Shells
      <4>1. f[2] # "submit"
        BY <3>1, <3>2 DEF SlotAt, Shells, Writes
      <4>2. button' = [button EXCEPT ![f[1]] = "none"]
        BY <2>3, <3>2, <4>1 DEF Throw, Show
      <4> QED
        BY <2>0, <3>1, <4>2
    <3>3. CASE net[f].kind \notin Shells /\ button[f[1]] = "disabled" /\ f[2] = "submit"
      <4>1. button' = [button EXCEPT ![f[1]] = "stuck"]
        BY <2>3, <3>3 DEF Throw, Show
      <4> QED
        BY <2>0, <3>1, <3>3, <4>1
    <3>4. CASE net[f].kind \notin Shells /\ ~(button[f[1]] = "disabled" /\ f[2] = "submit")
      BY <2>3, <3>4 DEF Throw
    <3> QED
      BY <3>2, <3>3, <3>4
  <2>4. ASSUME NEW f \in Fetches, Deliver(f)
        PROVE  Thrown(t)
    <3>1. Throw(f, net[f].kind)
      BY <2>2, <2>4 DEF Deliver, Receive
    <3>2. f = <<t, "submit">> /\ net[f].kind \notin Shells
      BY <2>3, <2>4, <3>1
    <3>3. net[f].status = "rejected" \/ (net[f].status = "null" /\ ~EnabledFirst(net[f].kind))
      BY <2>2, <2>4, <3>2 DEF Deliver, Receive
    <3>4. net[f].kind \in Writes \cup {"reload"}
      BY <2>4, <3>2, FetchesParts DEF Inv, SlotInv, SlotAt, Deliver
    <3> QED
      BY <2>4, <3>2, <3>3, <3>4 DEF Deliver, EnabledFirst, Writes
  <2>5. PICK f \in Fetches : Deliver(f)
    BY <2>0, <2>1 DEF Next, User, Open, Press, Step, Attach, Serve, Fault, Cut, CutShort, Reject, Lost, Tick, Fetches
  <2> QED
    BY <2>4, <2>5
<1>2. SpecHistory => [][Next]_vars
  BY HistoryNext, PTL DEF SpecHistory, InitHistory
<1> QED
  BY <1>1, <1>2, InvAlways, PTL DEF OnlyThrowsFreeze

=============================================================================
