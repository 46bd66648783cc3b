---------------------------- MODULE MCResource ----------------------------
(* Finite instances of Resource for TLC. *)
EXTENDS ResourceProperties, TLC

CONSTANTS r1, r2, r3, alice, bob, todo, done

ResourceSymmetry == Permutations({r1, r2, r3})
=============================================================================
