------------------------------ MODULE MxPolicy ------------------------------
(***************************************************************************)
(* internal/target/remote/security.go, dane.go, policy_group.go: the       *)
(* policies that decide whether a remote target may use an MX and the      *)
(* connection it got to it.  A policy rejects, or raises the security      *)
(* level that the policies before it established.                          *)
(*                                                                         *)
(* Certificates and TLSA records are reduced to what verifyDANE tells      *)
(* apart: are there records, is one of them usable, does one match.        *)
(***************************************************************************)
EXTENDS Integers, Sequences

TLSNone == 0
TLSEncrypted == 1
TLSAuthenticated == 2
MXNone == 0
MX_MTASTS == 1
MX_DNSSEC == 2

Raise(level) == [level |-> level, err |-> "ok"]
Reject(err) == [level |-> 0, err |-> err]

\* Init of PolicyGroup: the order of application, whatever the order of the
\* configuration blocks.
Order == <<"mtasts", "sts_preload", "dane", "dnssec", "local_policy">>

-----------------------------------------------------------------------------
(* CheckMX.  sts is what the MTA-STS lookup gave: "error" (no policy        *)
(* included), or the mode of the policy; match: does it list the MX.        *)

mtastsCheckMX(sts, match) ==
  IF sts = "error" THEN Raise(MXNone)
  ELSE IF match THEN Raise(MX_MTASTS)
  ELSE IF sts = "enforce" THEN Reject("perm") ELSE Raise(MXNone)

CheckMX(p, level, mx, min) ==
  CASE p = "mtasts" -> mtastsCheckMX(mx.sts, mx.match)
    [] p = "sts_preload" -> Raise(level)
    [] p = "dane" -> Raise(MXNone)
    [] p = "dnssec" -> Raise(IF mx.dnssec THEN MX_DNSSEC ELSE MXNone)
    [] p = "local_policy" -> IF level < min.mx THEN Reject("temp") ELSE Raise(MXNone)

-----------------------------------------------------------------------------
(* DANE.                                                                    *)

\* Answers of the resolver for an MX: the address lookup (ok, failed, or no
\* address), was it authenticated, is the name an alias, is the alias
\* signed, and what is found under the canonical and under the given name.
TLSAAnswer == [found: {"error", "notfound"} \cup {"none", "unusable", "usable"}, ad: BOOLEAN]
ResolverAnswer ==
  [addr: {"ok", "error", "none"}, adA: BOOLEAN, alias: BOOLEAN,
   cname: {"error", "signed", "unsigned"}, canonical: TLSAAnswer, given: TLSAAnswer]

\* discoverTLSA: the records to use: "error", or none, unusable, usable.
discoverTLSA(a) ==
  LET Skip == ~a.adA /\ (~a.alias \/ a.cname = "unsigned")
      Found(t) == t.found \in {"unusable", "usable"}
  IN  IF a.addr # "ok" THEN "error"
      ELSE IF ~a.adA /\ a.alias /\ a.cname = "error" THEN "error"
      ELSE IF Skip THEN "none"
      ELSE IF a.alias /\ a.canonical.found = "error" THEN "error"
      ELSE IF a.alias /\ a.canonical.ad /\ Found(a.canonical) THEN a.canonical.found
      ELSE IF a.given.found = "error" THEN "error"
      ELSE IF a.given.ad /\ Found(a.given) THEN a.given.found ELSE "none"

DiscoverOutcomes == {discoverTLSA(a) : a \in ResolverAnswer}

\* verifyDANE: does it reject, or make the certificate trusted.
verifyDANE(recs, tls) ==
  CASE recs = "none" -> Raise(TLSNone)
    [] recs # "none" /\ ~tls.handshake -> Reject("perm")
    [] recs = "unusable" /\ tls.handshake -> Raise(TLSNone)
    [] recs = "usable" /\ tls.handshake ->
         IF tls.tlsaMatch THEN Raise(TLSAuthenticated) ELSE Reject("perm")

-----------------------------------------------------------------------------
(* CheckConn.  tls is the state of the connection.                          *)

\* Mutant: any certificate will do.
mtastsCheckConnAnyCert(sts, tls) ==
  IF sts = "enforce" /\ ~tls.handshake THEN Reject("temp") ELSE Raise(TLSNone)

mtastsCheckConn(sts, tls) ==
  IF sts = "enforce" /\ ~(tls.handshake /\ tls.verified) THEN Reject("temp") ELSE Raise(TLSNone)

daneCheckConn(recs, tls) ==
  IF recs = "error" THEN Reject("temp") ELSE verifyDANE(recs, tls)

CheckConn(p, level, tls, min) ==
  CASE p = "mtasts" -> mtastsCheckConn(tls.sts, tls)
    [] p = "sts_preload" -> Raise(level)
    [] p = "dane" -> daneCheckConn(tls.tlsa, tls)
    [] p = "dnssec" -> Raise(TLSNone)
    [] p = "local_policy" -> IF level < min.tls THEN Reject("temp") ELSE Raise(TLSNone)

-----------------------------------------------------------------------------
(* The two loops of attemptMX: policies in order, the first error ends it.  *)

Merged(acc, r) == [level |-> IF r.level > acc.level THEN r.level ELSE acc.level, err |-> r.err]

AskMX(policies, mx, min, acc, p) ==
  IF p \in policies /\ acc.err = "ok" THEN Merged(acc, CheckMX(p, acc.level, mx, min)) ELSE acc
ApplyCheckMX(policies, mx, min, level) ==
  LET Ask(acc, i) == AskMX(policies, mx, min, acc, Order[i])
  IN  Ask(Ask(Ask(Ask(Ask(Raise(level), 1), 2), 3), 4), 5)

AskConn(policies, tls, min, acc, p) ==
  IF p \in policies /\ acc.err = "ok" THEN Merged(acc, CheckConn(p, acc.level, tls, min)) ELSE acc
ApplyCheckConn(policies, tls, min, level) ==
  LET Ask(acc, i) == AskConn(policies, tls, min, acc, Order[i])
  IN  Ask(Ask(Ask(Ask(Ask(Raise(level), 1), 2), 3), 4), 5)
=============================================================================
