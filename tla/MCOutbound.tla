----------------------------- MODULE MCOutbound -----------------------------
(* A small instance of Outbound for TLC. *)
EXTENDS Outbound, TLC

CONSTANTS r1, r2, a2, d1, d2, h1, h2

MCRcpt == {r1, r2}
MCAsciiName == {a2}
MCAscii == r1 :> r1 @@ r2 :> a2      \* the domain of r2 is not ASCII
MCDomainOf == r1 :> d1 @@ r2 :> d2
MCDomain == {d1, d2}
MCHost == {h1, h2}
MCHostsOf == d1 :> {h1, h2} @@ d2 :> {}
MCSmtpUtf8 == {h2}
MCPref == h1 :> 10 @@ h2 :> 20
MCPolicies == {"mtasts", "dane", "local_policy"}
=============================================================================
