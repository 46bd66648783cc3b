------------------------------ MODULE Registry ------------------------------
(***************************************************************************)
(* What the builder promises about api.json and the files generated from   *)
(* it, with no processes, no locks and no scaffolded files.                *)
(*                                                                         *)
(*   - The manifest changes only by one whole registration at a time,      *)
(*     applied to the manifest as it stands, and only by a registration    *)
(*     that takes no route and no page away from its owner.                *)
(*   - A generated file changes only to what the manifest says at that     *)
(*     moment: it may lag behind, and never goes back.                     *)
(*                                                                         *)
(* Lost updates, half-registered resources, reassigned routes and a router *)
(* of an older manifest written over a newer one are behaviours this       *)
(* specification does not have.  Workspace is shown to implement it.       *)
(***************************************************************************)
EXTENDS Manifest

VARIABLES api, routes_gen, pages_gen, pages_gen_test

vars == <<api, routes_gen, pages_gen, pages_gen_test>>

Init ==
    /\ api = EmptyManifest
    /\ routes_gen = EmptyManifest.endpoints
    /\ pages_gen = EmptyManifest.pages
    /\ pages_gen_test = EmptyManifest.pages

Register(c) ==
    /\ ~Conflict(api, c)
    /\ api' = Upsert(api, c)
    /\ UNCHANGED <<routes_gen, pages_gen, pages_gen_test>>

\* One generated file is brought up to date.
Generate ==
    /\ UNCHANGED api
    /\ \/ routes_gen' = api.endpoints /\ UNCHANGED <<pages_gen, pages_gen_test>>
       \/ pages_gen' = api.pages /\ UNCHANGED <<routes_gen, pages_gen_test>>
       \/ pages_gen_test' = api.pages /\ UNCHANGED <<routes_gen, pages_gen>>

Next == Generate \/ \E c \in Registrations : Register(c)

Spec == Init /\ [][Next]_vars
=============================================================================
