------------------------------- MODULE Outbound -----------------------------
(***************************************************************************)
(* The two ways out of the server: target.remote, to the MXs of the        *)
(* recipients (RemoteTarget), and target.smtp / target.lmtp, to a          *)
(* configured server (Relay).  The pipeline routes a recipient to one of   *)
(* them and they share no state, so a behaviour is one of the one or of    *)
(* the other.                                                              *)
(***************************************************************************)
EXTENDS RemoteTarget, Relay

VARIABLE via
ovars == <<vars, rel, via>>

OutboundInit == via \in {"remote", "relay"} /\ Init /\ RelayInit
OutboundNext ==
  \/ via = "remote" /\ Next /\ UNCHANGED <<rel, via>>
  \/ via = "relay" /\ RelayNext /\ UNCHANGED <<vars, via>>
OutboundSpec == OutboundInit /\ [][OutboundNext]_ovars

-----------------------------------------------------------------------------
(* Properties *)

\* A connection is admitted only if it complies with what the lookups consulted for it
\* demand; the connections in use passed all policies, apart from those of overrides; a
\* message with REQUIRETLS goes over authenticated connections up to the server where
\* the relaxed mode gives up; the relay keeps to its STARTTLS.  (That a policy consulted
\* is the one of the domain, and that a pooled connection was not made for an override,
\* the code does not keep: PolicyOfDomain, PoliciesApplied.)
SecurityHonoured == RequireTLSHonoured /\ PolicyEnforced /\ PoliciesInUse /\ RelaySecured

\* What a delivery takes it gives back, however it ends: the message permit, the
\* destination permit of every connection it used, pooled connections in a state to be
\* used again, the relay's connection closed.  Not given back, and counted apart, is the
\* destination permit of a MAIL command that is refused (DestPermitsReturned fails).
ResourcesReturned == TypeOK /\ RelayTypeOK /\ PermitsAccounted /\ PoolClean /\ RelayClosed

\* A recipient is reported delivered exactly when the server it was given to said so,
\* and BodyNonAtomic answers for every recipient that was accepted.
StatusesTruthful == StatusTruthful /\ BodyAnswersForAll /\ RelayStatusTruthful

=============================================================================
