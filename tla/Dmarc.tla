------------------------------- MODULE Dmarc -------------------------------
(***************************************************************************)
(* Package dmarc: where a policy is looked up, which identifiers count as  *)
(* aligned with the From domain, and what the policy makes of the message. *)
(* Domains: "sub" is below "org", "other" is an unrelated domain, "psl" a  *)
(* public suffix, "" the domain of an address that has none.               *)
(*                                                                         *)
(* A zone maps a domain to its _dmarc TXT answer: "empty", "other" (TXT    *)
(* records of something else), "one" policy, "many" or a "bad" one.        *)
(***************************************************************************)
EXTENDS Sequences, Naturals

\* The names in use, with those of an address literal and of an address that does not parse,
\* and the values of an authentication result.
DomainName == {"org", "sub", "other", "psl", "", "literal", "malformed"}
AuthValue == {"none", "neutral", "pass", "fail", "softfail", "policy", "temperror", "permerror"}

\* publicsuffix.EffectiveTLDPlusOne
OrgDomain(d) ==
  CASE d \in {"psl", ""} -> "error"
    [] d = "sub"         -> "org"
    [] OTHER             -> d

\* isAligned
isAligned(from, auth, mode) ==
  IF mode = "strict" \/ from \in {"psl", ""} THEN from = auth
  ELSE OrgDomain(from) # "error" /\ OrgDomain(from) = OrgDomain(auth)

NoRecord == [policy |-> "absent", sp |-> "", adkim |-> "relaxed", aspf |-> "relaxed", pct |-> 100]

Fetched(domain, rec, err) == [domain |-> domain, rec |-> rec, err |-> err]

\* ExtractFromDomain: the domain of the one address of the one From field.
ExtractFromDomain(hdrFrom) ==
  IF hdrFrom \in {"missing", "malformed", "multiple"} THEN "error" ELSE hdrFrom

\* FetchRecord: all it may return, given that any lookup may fail.
FetchRecord(zone, rec, from) ==
  LET Failed == {Fetched("", NoRecord, e) : e \in {"temp", "perm"}}
      Parsed(d) == CASE zone[d] = "one" -> Fetched(d, rec, "")
                     [] zone[d] = "bad" -> Fetched(d, NoRecord, "perm")
                     [] OTHER           -> Fetched("", NoRecord, "")
      org == OrgDomain(from)
  IN Failed \cup
     (IF zone[from] # "empty" THEN {Parsed(from)}
      ELSE IF org = "error" THEN {Fetched("", NoRecord, "perm")}
      ELSE {Parsed(org)})

\* The policy that holds for the From domain: sp= below the policy's domain.
PolicyFor(data, from) ==
  IF data.domain # from /\ data.rec.sp # "" THEN data.rec.sp ELSE data.rec.policy

\* EvaluateAlignment: the value of the DMARC result.
EvaluateAlignment(from, rec, results) ==
  LET Of(m)   == {i \in DOMAIN results : results[i].method = m}
      Mode(m) == IF m = "spf" THEN rec.aspf ELSE rec.adkim
      Aligned(m, v) == \E i \in Of(m) : /\ results[i].value = v
                                        /\ isAligned(from, results[i].domain, Mode(m))
      lastSpf == CHOOSE i \in Of("spf") : \A j \in Of("spf") : j <= i
      passes  == Aligned("dkim", "pass") \/ Aligned("spf", "pass")
  IN IF Of("dkim") = {} \/ Of("spf") = {} THEN "none"
     ELSE IF \/ Aligned("dkim", "temperror") /\ ~passes
             \/ ~Aligned("dkim", "pass") /\ results[lastSpf].value = "temperror" THEN "temperror"
     ELSE IF passes THEN "pass" ELSE "fail"

\* Verifier.Apply: [value, policy]; roll is rand.Int31n(100).  A lookup that fails
\* for the moment rejects; any other failure, a panic included, applies no policy.
VerifierApply(data, from, results, roll) ==
  LET value == EvaluateAlignment(from, data.rec, results)
  IN CASE data.err = "temp" -> [value |-> "temperror", policy |-> "reject"]
       [] data.err # "" /\ data.err # "temp" -> [value |-> "permerror", policy |-> "none"]
       [] data.err = "" /\ data.rec = NoRecord -> [value |-> "none", policy |-> "none"]
       [] OTHER -> [value  |-> value,
                    policy |-> IF value \in {"pass", "none"} \/ roll > data.rec.pct
                               THEN "none" ELSE PolicyFor(data, from)]

\* relyOnDMARC of check.spf, for one outcome of its own lookup.
relyOnDMARC(data, from) ==
  data.err = "" /\ data.rec # NoRecord /\ PolicyFor(data, from) # "none"
=============================================================================
