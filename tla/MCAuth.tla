------------------------------- MODULE MCAuth -------------------------------
(* Finite instances of AuthService for TLC. *)
EXTENDS AuthProperties, TLC

CONSTANTS r1, r2, r3, alice, bob, ip1, ip2, ip3, t1, t2

ConcurrencySymmetry == Permutations({r1, r2, r3})

OneAddressPerPrefix == [i \in IPs |-> i]

\* No proxy, and no header that a caller would make up.
Nothing == {<<>>}

\* One proxy more or none, and a caller that names another one's address.
OneHop    == {<<>>, <<ip2>>}
Forgeries == {<<>>, <<ip3>>, <<ip3, Garbage>>}

=============================================================================
