------------------------- MODULE MCResourceHistory -------------------------
(* Finite instances of ResourceHistory for TLC. *)
EXTENDS ResourceHistory, TLC

CONSTANTS r1, r2, r3, alice, bob, todo, done

ResourceSymmetry == Permutations({r1, r2, r3})
=============================================================================
