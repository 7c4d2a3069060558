--------------------------- MODULE MCImapStorage ---------------------------
(* Small instances of ImapStorage for TLC. *)
EXTENDS ImapStorage, TLC

CONSTANTS r1, r2, a1

MCRcpt == {r1, r2}
MCAccount == {a1}
MCAccountOf == r1 :> a1 @@ r2 :> a1   \* they share an account
=============================================================================
