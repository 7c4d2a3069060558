------------------------------ MODULE MCLimits ------------------------------
(* Small instances of Limits for TLC. *)
EXTENDS Limits, TLC

CONSTANTS c1, c2, d1, d2, i1

Sem(n) == [kind |-> "semaphore", max |-> n]
Rate(n) == [kind |-> "rate", max |-> n]

MCClient2 == {c1, c2}
MCIp1 == {i1}
MCDomain1 == {d1}
MCDomain2 == {d1, d2}
NoLimit == <<>>
SemTwo == <<Sem(2)>>
SemOne == <<Sem(1)>>
RateThenSem2 == <<Rate(1), Sem(2)>>

Symmetry == Permutations(Client) \cup Permutations(Domain) \cup Permutations(Ip)
=============================================================================
