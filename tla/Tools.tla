-------------------------------- MODULE Tools -------------------------------
(***************************************************************************)
(* What an operator's commands and a running server share on disk: the     *)
(* table of credentials (Credentials), the mailboxes (Mailboxes) and the   *)
(* DKIM keys (Signing).  The three have no state in common, so a behaviour *)
(* is one of one of them.                                                  *)
(***************************************************************************)
EXTENDS Credentials, Mailboxes, Signing

VARIABLE focus
tvars == <<cvars, mvars, svars, focus>>

\* The parts out of focus start in one state and stay there.
Still(ix, part) == focus # part => ix
ToolsInit ==
  /\ focus \in {"credentials", "mailboxes", "signing"}
  /\ CredentialsInit /\ MailboxesInit /\ SigningInit
  /\ Still(setup.amap = NoMap /\ setup.provs = <<"pass_table">> /\ \A k \in Keys : table[k] = Absent, "credentials")
  /\ Still(store.gen = 0, "mailboxes")
  /\ Still(group = CHOOSE g \in Groups : TRUE, "signing")

ToolsNext ==
  \/ focus = "credentials" /\ CredentialsNext /\ UNCHANGED <<mvars, svars, focus>>
  \/ focus = "mailboxes" /\ MailboxesNext /\ UNCHANGED <<cvars, svars, focus>>
  \/ focus = "signing" /\ SigningNext /\ UNCHANGED <<cvars, mvars, focus>>

ToolsSpec == ToolsInit /\ [][ToolsNext]_tvars

=============================================================================
