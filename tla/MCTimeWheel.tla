---------------------------- MODULE MCTimeWheel ----------------------------
(* Small instances of TimeWheel for TLC. *)
EXTENDS TimeWheel, TLC

CONSTANTS a1, a2, a3

MCAdder3 == {a1, a2, a3}

Symmetry == Permutations(Adder)
=============================================================================
