------------------------------ MODULE MCQueue ------------------------------
(* Small instances of Queue for TLC. *)
EXTENDS Queue, TLC

CONSTANTS m1, m2, r1, r2, g1, g2

MCMsg1 == {m1}
MCMsg2 == {m1, m2}
MCRcpt1 == {r1}
MCRcpt2 == {r1, r2}
MCGoroutine == {g1, g2}

Symmetry == Permutations(Goroutine) \cup Permutations(Rcpt)
=============================================================================
