----------------------------- MODULE MCConnPool -----------------------------
(* Small instances of ConnPool for TLC. *)
EXTENDS ConnPool, TLC

CONSTANTS u1, u2, k1, k2, x1, x2, h1, h2

MCUser2 == {u1, u2}
MCKey2 == {k1, k2}
MCConn2 == {x1, x2}
MCChan2 == {h1, h2}

Symmetry == Permutations(User) \cup Permutations(Key) \cup Permutations(Conn) \cup Permutations(Chan)
=============================================================================
