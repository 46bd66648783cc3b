------------------------- MODULE BrowserProperties -------------------------
(***************************************************************************)
(* What Browser must get right, with one history variable that only        *)
(* watches: for which tabs the jar has been at rest since the button was   *)
(* last enabled, holding a token all the time with no other on its way.    *)
(***************************************************************************)
EXTENDS Browser

VARIABLE rested     \* the tabs whose button was enabled, and the jar at rest since

historyVars == <<vars, rested>>

\* The jar holds a token, and so did it when each fetch under way was sent.
AtRest ==
    /\ token # None
    /\ \A f \in Fetches : net[f] # None =>
          /\ net[f].at = "sent" /\ net[f].kind \in Gets => net[f].cookie # None
          /\ net[f].at = "answered" => ~net[f].bare

Enabled(t) == button[t] # "ready" /\ button'[t] = "ready"

Watch == rested' = {t \in Tab : (t \in rested \/ Enabled(t)) /\ AtRest'}

InitHistory == Init /\ rested = {}

SpecHistory == InitHistory /\ [][Next /\ Watch]_historyVars

FairSpecHistory == SpecHistory /\ \A t \in Tab : WF_vars(Step(<<t, "submit">>))

\* Type correctness, and that no cookie stays without a time to go (csrf.go 76,
\* auth.go 69).
TypeOK ==
    /\ token \in MaybeToken
    /\ token_left \in 0..TTL
    /\ token = None <=> token_left = 0
    /\ session_left \in 0..TTL
    /\ page \in [Tab -> Pages]
    /\ button \in [Tab -> Buttons]
    /\ net \in [Fetches -> Composed \cup Requests \cup Answers \cup {None}]

\* A form that another origin sends here, whenever it does, is refused as long as
\* the session goes with it, whichever of the two cookies has expired or not come
\* yet: that origin cannot read the jar, so there is no header (csrf.go 54-60,
\* 84-87: "this fails closed rather than skipping").
StrayRefused == session_left > 0 => ~Verified(Request("create", None))

\* A form is refused for its token only if, since its button was enabled, the jar
\* was without a token or another was on its way: tabs that load and submit at
\* the same time do not get into each other's way otherwise (csrf.go 69-82: a
\* token is minted only where there is none; api.js writeHeaders).
RefusedOnlyAfterUnrest ==
    \A t \in Tab : net[<<t, "submit">>] # None /\ net[<<t, "submit">>].at = "answered" /\ net[<<t, "submit">>].status = "forbidden"
                     => t \notin rested

\* Whatever comes back in place of an envelope, a button is left disabled for good
\* only by a fetch that rejects, and a delete button also by a body that is the JSON
\* null, of the delete or of the list after it: a proxy's page, an empty or a cut
\* answer freezes nothing (api.js 3-16, list_page.js.tmpl 66-75).
OnlyThrowsFreeze ==
    [][\A t \in Tab : button[t] # "stuck" /\ button'[t] = "stuck" =>
          /\ net[<<t, "submit">>] # None
          /\ \/ net[<<t, "submit">>].status = "rejected"
             \/ /\ net[<<t, "submit">>].status = "null"
                /\ net[<<t, "submit">>].kind \in {"delete", "reload"}]_vars

\* A pressed button is not left disabled by a call that is answered, well or
\* badly: it is enabled again, or its page is gone (login.js, register.js,
\* list_page.js.tmpl).
PressedButtonsComeBack == \A t \in Tab : (button[t] = "disabled") ~> (button[t] # "disabled")

\* No button is disabled for good (api.js 6-10: "every function here resolves to
\* an object with .ok, so no caller needs a try/catch").  Checked as a claim the
\* code does not meet: a fetch that rejects does not resolve.
NeverStuck == \A t \in Tab : button[t] # "stuck"
=============================================================================
