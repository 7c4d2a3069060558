-------------------------- MODULE DeliveryPromise --------------------------
(***************************************************************************)
(* What a queue promises about the (message, recipient) pairs it accepted: *)
(* at-least-once.  A pair is owed while the queue still holds the message  *)
(* for it and settled once it was delivered or given up on.  An owed pair  *)
(* may be settled again (a retry after a crash); a pair is forgotten only  *)
(* when it is settled, and is never owed again after that.                 *)
(***************************************************************************)
CONSTANTS Msg, Rcpt

VARIABLES accepted, owed, settled

vars == <<accepted, owed, settled>>

Pair == Msg \X Rcpt

Init == accepted = {} /\ owed = {} /\ settled = {}

\* The source is told that the message was taken.  The queue may already have
\* finished with some of its recipients by then.
Accept(P) ==
  /\ P # {} /\ P \cap accepted = {}
  /\ accepted' = accepted \cup P
  /\ \E Q, S \in SUBSET P : /\ Q \cup S = P
                            /\ owed' = owed \cup Q
                            /\ settled' = settled \cup S

Settle(P) ==
  /\ P \subseteq owed
  /\ settled' = settled \cup P
  /\ UNCHANGED <<accepted, owed>>

Forget(P) ==
  /\ P \subseteq owed \cap settled
  /\ owed' = owed \ P
  /\ UNCHANGED <<accepted, settled>>

Next == \E P \in SUBSET Pair : Accept(P) \/ Settle(P) \/ Forget(P)

Spec == Init /\ [][Next]_vars
=============================================================================
