--------------------------- MODULE MCAuthHistory ---------------------------
(* Finite instances of AuthHistory for TLC. *)
EXTENDS AuthHistory, TLC

CONSTANTS r1, r2, r3, alice, bob, ip1, ip2, ip3, t1, t2

ConcurrencySymmetry == Permutations({r1, r2, r3})

OneAddressPerPrefix == [i \in IPs |-> i]

\* No proxy, and no header that a caller would make up.
Nothing == {<<>>}

=============================================================================
