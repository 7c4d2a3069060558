--------------------------- MODULE MCSmtpSession ---------------------------
(* Small instances of SmtpSession for TLC. *)
EXTENDS SmtpSession, TLC

CONSTANTS s1, s2

MCSession1 == {s1}
MCSession2 == {s1, s2}

\* A sender that is already normalised, the same one in capitals, the empty
\* sender and one that cannot be normalised.
MCAddr == {"lower", "capitals", "empty", "garbled"}
MCSmallAddr == {"lower", "capitals", "empty"}
MCClean == [a \in Addr |-> CASE a = "capitals" -> "lower"
                             [] a = "garbled" -> Refused
                             [] OTHER -> a]
MCDomainOf == [a \in Addr |-> IF a = "empty" THEN "" ELSE a]

Symmetry == Permutations(Session)
=============================================================================
