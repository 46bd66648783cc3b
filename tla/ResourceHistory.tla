-------------------------- MODULE ResourceHistory --------------------------
(***************************************************************************)
(* Resource with two history variables that only watch: which lists have   *)
(* been overtaken by a write since they began to count, and which pages a  *)
(* write has left behind, how long ago: they were filled by such a list,   *)
(* or were in the cache when the row of a parent was deleted.              *)
(***************************************************************************)
EXTENDS ResourceProperties

VARIABLES
    overtaken,      \* the requests whose reads a write has overtaken
    behind          \* the ticks since a write left each page behind, TTL + 1: none has

historyVars == <<vars, overtaken, behind>>

Filling(r) == pc[r] = "set" /\ pc'[r] = "answer"

Cascading == rows' # rows /\ parents' # parents

LeavesBehind(k) ==
    \/ \E r \in Req : Filling(r) /\ Key(r) = k /\ r \in overtaken
    \/ Cascading /\ Valid(cache[k])

\* The page is served no more, or one of the table as it stands is in its place.
GivesWay(k) == ~Valid(cache'[k]) \/ \E r \in Req : Filling(r) /\ Key(r) = k

Watch ==
    /\ overtaken' = {r \in Req : /\ pc'[r] \in {"select", "set"}
                                 /\ rows' # rows \/ r \in overtaken}
    /\ behind' =
          [k \in Keys |-> IF LeavesBehind(k) THEN 0
                          ELSE IF GivesWay(k) THEN TTL + 1
                          ELSE IF Tick /\ behind[k] <= TTL THEN behind[k] + 1
                          ELSE behind[k]]

InitHistory == Init /\ overtaken = {} /\ behind = [k \in Keys |-> TTL + 1]

SpecHistory == InitHistory /\ [][Next /\ Watch]_historyVars

FairSpecHistory == SpecHistory /\ Fairness

\* A page the cache serves differs from the table only while the write that
\* changed it has yet to bust, or for as long as a page is kept, from when a list
\* filled it that a write had overtaken, or a write took its rows along with their
\* parent, however often it is asked for meanwhile; its total counts its items
\* under the same condition (model.go.tmpl GetPage and the Bust after every Exec;
\* cache.go Get and Set).
OnlyOvertakenPagesAreStale ==
    \A k \in Keys : Fresh(k) \/ behind[k] <= TTL \/ \E r \in Req : pc[r] = "bust"
=============================================================================
