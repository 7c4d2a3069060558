------------------------------- MODULE Signing ------------------------------
(***************************************************************************)
(* A message on its way through the modifiers: replace_sender and          *)
(* replace_rcpt (Tables), modify.dkim and modify.blockchain_tx; and the    *)
(* DKIM keys on disk: a starting server loads or makes one key per domain, *)
(* and the dns command makes one when it finds none.  A key is a number;   *)
(* a file is 0 (none), Torn, or the key it holds.                          *)
(***************************************************************************)
EXTENDS Tables

CONSTANTS KeyDomains,      \* domains there may be keys for
          SubdomainOf,     \* domain -> the domain it is below
          Oversign, Sign,  \* header fields, as configured (sequences)
          Groups,          \* the configurations to try: [from, rcpt: sequences of
                           \* tables, domains: of modify.dkim, in order, sub: sign_subdomains]
          Mail,            \* messages: [from, rcpt, fields: field -> count, tx]
          MaxPairs, MaxBoots, MaxSends, MaxBreaks   \* bounds

VARIABLES files, boot, dnscmd, msg, chain, group, spent

svars == <<files, boot, dnscmd, msg, chain, group, spent>>

ASSUME SigningAssumption ==
  /\ \A g \in Groups : /\ g.domains \in Seq(KeyDomains) \ {<<>>}
                       /\ g.sub => Len(g.domains) = 1
                       /\ \A t \in ToSet(g.from) \cup ToSet(g.rcpt) : t.kind \notin SingleTables     \* a MultiTable
  /\ {MaxPairs, MaxBoots, MaxSends, MaxBreaks} \subseteq Nat

Torn == -1
SignDomains == group.domains
SignSet == ToSet(SignDomains)
NoSigners == [d \in KeyDomains |-> 0]
NoMsg == [at |-> "none", m |-> 0, sender |-> "", rcpts |-> <<>>, sig |-> <<>>, txGone |-> FALSE, tries |-> 0, said |-> ""]

SigningInit ==
  /\ group \in Groups
  /\ files = [d \in KeyDomains |-> [key |-> 0, dns |-> 0]]
  /\ boot = [at |-> "off", i |-> 0, k |-> 0, signers |-> NoSigners]
  /\ dnscmd = [at |-> "off", d |-> SignDomains[1], k |-> 0]
  /\ msg = NoMsg
  /\ chain = [m \in 1 .. Len(Mail) |-> 0]      \* ghost: transactions the chain took
  /\ spent = [keys |-> 0, boots |-> 0, sends |-> 0, breaks |-> 0, meddled |-> FALSE]

Breaks == spent.breaks < MaxBreaks /\ spent' = [spent EXCEPT !.breaks = @ + 1]

-----------------------------------------------------------------------------
(* Init of modify.dkim: the domains in order *)

Domain1 == SignDomains[boot.i]
File(f, v) == files' = [files EXCEPT ![Domain1][f] = v]
\* The key of the domain is there: on to the next one.
KeyReady(k) ==
  boot' = [boot EXCEPT !.signers[Domain1] = k, !.i = @ + 1, !.k = 0, !.at = IF boot.i = Len(SignDomains) THEN "running" ELSE "load"]

BootStarts ==
  /\ boot.at = "off" /\ spent.boots < MaxBoots
  /\ boot' = [at |-> "load", i |-> 1, k |-> 0, signers |-> NoSigners]
  /\ spent' = [spent EXCEPT !.boots = @ + 1, !.meddled = @ \/ dnscmd.at # "off"]
  /\ UNCHANGED <<files, dnscmd, msg, chain, group>>

\* loadOrGenerateKey: a file that is no PEM block fails the start.
loadOrGenerateKey ==
  /\ boot.at = "load"
  /\ LET f == files[Domain1] IN
     \/ /\ f.key > 0 /\ KeyReady(f.key) /\ UNCHANGED spent
     \/ /\ f.key = Torn /\ boot' = [boot EXCEPT !.at = "failed"] /\ UNCHANGED spent
     \/ /\ f.key = 0 /\ spent.keys < MaxPairs /\ spent' = [spent EXCEPT !.keys = @ + 1]
        /\ boot' = [boot EXCEPT !.at = "record", !.k = spent.keys + 1]
  /\ UNCHANGED <<files, dnscmd, msg, chain, group>>

\* generateAndWrite: the record (created, then written), then the key, which
\* must not be there (created, then written).
BootWrites(at, f, v, next) ==
  /\ boot.at = at /\ File(f, v)
  /\ IF next = "ready" THEN KeyReady(boot.k) ELSE boot' = [boot EXCEPT !.at = next]
  /\ UNCHANGED <<dnscmd, msg, chain, group, spent>>
generateAndWriteKeyFirst ==       \* Mutant: the key before the record
  \/ boot.at = "record" /\ files[Domain1].key = 0 /\ BootWrites("record", "key", Torn, "pem")
  \/ BootWrites("pem", "key", boot.k, "keyfile")
  \/ BootWrites("keyfile", "dns", Torn, "text") \/ BootWrites("text", "dns", boot.k, "ready")
generateAndWrite ==
  \/ BootWrites("record", "dns", Torn, "text") \/ BootWrites("text", "dns", boot.k, "keyfile")
  \/ boot.at = "keyfile" /\ files[Domain1].key = 0 /\ BootWrites("keyfile", "key", Torn, "pem")
  \/ BootWrites("pem", "key", boot.k, "ready")
\* O_EXCL: someone else made the key meanwhile; or any write fails.
generateFails ==
  /\ \/ boot.at = "keyfile" /\ files[Domain1].key # 0 /\ UNCHANGED spent
     \/ boot.at \in {"record", "text", "keyfile", "pem"} /\ Breaks
  /\ boot' = [boot EXCEPT !.at = "failed"]
  /\ UNCHANGED <<files, dnscmd, msg, chain, group>>

\* A failed start, a stop or a crash at any point; the message under way is lost.
BootEnds ==
  /\ \/ boot.at \in {"failed", "running"} /\ UNCHANGED spent
     \/ boot.at \notin {"failed", "running", "off"} /\ Breaks
  /\ boot' = [boot EXCEPT !.at = "off", !.i = 0, !.k = 0, !.signers = NoSigners] /\ msg' = NoMsg
  /\ UNCHANGED <<files, dnscmd, chain, group>>

-----------------------------------------------------------------------------
(* ensureDKIMKeys of the dns commands: same files, the other way round *)

Dns(at, k) == dnscmd' = [dnscmd EXCEPT !.at = at, !.k = k]
ensureDKIMKeys ==
  /\ dnscmd.at = "off" /\ spent.keys < MaxPairs
  /\ \E d \in SignSet :
       \/ /\ files[d].key # 0 /\ files[d].dns # 0 /\ UNCHANGED <<dnscmd, spent>>     \* prints the record
       \/ /\ files[d].key = 0 \/ files[d].dns = 0
          /\ spent' = [spent EXCEPT !.keys = @ + 1, !.meddled = @ \/ boot.at # "off"]
          /\ dnscmd' = [at |-> "key", d |-> d, k |-> spent.keys + 1]
  /\ UNCHANGED <<files, boot, msg, chain, group>>
DnsWrites(at, f, v, next) ==
  /\ dnscmd.at = at
  /\ files' = [files EXCEPT ![dnscmd.d][f] = v] /\ Dns(next, IF next = "off" THEN 0 ELSE dnscmd.k)
  /\ UNCHANGED <<boot, msg, chain, group, spent>>
ensureWrites ==
  \/ DnsWrites("key", "key", Torn, "pem") \/ DnsWrites("pem", "key", dnscmd.k, "dns")
  \/ DnsWrites("dns", "dns", Torn, "text") \/ DnsWrites("text", "dns", dnscmd.k, "off")
DnsKilled ==
  /\ dnscmd.at # "off" /\ spent.breaks < MaxBreaks /\ Dns("off", 0)
  /\ spent' = [spent EXCEPT !.breaks = @ + 1, !.meddled = TRUE]
  /\ UNCHANGED <<files, boot, msg, chain, group>>

-----------------------------------------------------------------------------
(* A message *)

MsgStarts ==
  /\ boot.at = "running" /\ msg.at \in {"none", "delivered", "refused"} /\ spent.sends < MaxSends
  /\ \E m \in 1 .. Len(Mail) : msg' = [NoMsg EXCEPT !.at = "sender", !.m = m]
  /\ spent' = [spent EXCEPT !.sends = @ + 1]
  /\ UNCHANGED <<files, boot, dnscmd, chain, group>>

Refuses == msg' = [msg EXCEPT !.at = "refused"]
\* The envelope: the modifiers run in their order, replace_sender before modify.dkim.
RewriteSender ==
  /\ msg.at = "sender"
  /\ \E broken \in BOOLEAN :
       LET s == RewriteSenderWith(group.from, Mail[msg.m].from, broken)
       IN IF s = Failed THEN Refuses ELSE msg' = [msg EXCEPT !.at = "rcpt", !.sender = s]
  /\ UNCHANGED <<files, boot, dnscmd, chain, group, spent>>
RewriteRcpt ==
  /\ msg.at = "rcpt"
  /\ \E broken \in BOOLEAN :
       LET rs == RewriteRcptWith(group.rcpt, Mail[msg.m].rcpt, broken)
       IN IF rs = Failed THEN Refuses ELSE msg' = [msg EXCEPT !.at = "body", !.rcpts = rs]
  /\ UNCHANGED <<files, boot, dnscmd, chain, group, spent>>

\* fieldsToSign: the list given to the signer, once per use, and once more to oversign;
\* a field that was seen before is skipped.  Names without regard to case.
Uses(f, m) == IF f \in DOMAIN m.fields THEN m.fields[f] ELSE 0
fieldsToSign(m) ==
  LET all == Oversign \o Sign
      listed(i) == IF \E j \in 1 .. i - 1 : all[j] = all[i] THEN <<>>
                   ELSE [n \in 1 .. Uses(all[i], m) + (IF i <= Len(Oversign) THEN 1 ELSE 0) |-> all[i]]
  IN FlattenSeq([i \in DOMAIN all |-> listed(i)])

\* RewriteBody of modify.dkim: the domain of the sender, the first one for an empty
\* sender and postmaster; a sender that does not split is an error.  A domain without a
\* key is not signed.
signDomain(sender) ==
  LET own == IF sender = "" THEN "" ELSE DomainPart[sender]
      d == IF own = "" THEN SignDomains[1] ELSE own
  IN IF sender \notin DOMAIN Local \cup {""} THEN Failed
     ELSE IF group.sub /\ d \in DOMAIN SubdomainOf /\ SubdomainOf[d] = SignDomains[1] THEN SignDomains[1] ELSE d
dkimRewriteBody(m, sender) ==
  LET d == signDomain(sender)
  IN IF d \notin SignSet THEN <<>> ELSE <<[d |-> d, k |-> boot.signers[d], keys |-> fieldsToSign(m)]>>

\* modify.blockchain_tx: the transaction in the header is sent, and the
\* message refused when the chain refuses it.  External: a chain takes a
\* transaction once.
txRewriteBodyLax(m) ==       \* Mutant: the answer of the chain is not looked at
  IF ~Mail[m].tx THEN {[ok |-> TRUE, took |-> FALSE]}
  ELSE {[ok |-> TRUE, took |-> FALSE], [ok |-> TRUE, took |-> chain[m] = 0]}
txRewriteBody(m) ==
  IF ~Mail[m].tx THEN {[ok |-> TRUE, took |-> FALSE]}
  ELSE {[ok |-> FALSE, took |-> FALSE]} \cup (IF chain[m] = 0 THEN {[ok |-> TRUE, took |-> TRUE], [ok |-> FALSE, took |-> TRUE]} ELSE {})

\* modify.blockchain_tx before modify.dkim, which may fail to read the body.
RewriteBody ==
  /\ msg.at = "body"
  /\ \E r \in txRewriteBody(msg.m), opens \in BOOLEAN :
       /\ chain' = [chain EXCEPT ![msg.m] = IF r.took THEN @ + 1 ELSE @]
       /\ IF r.ok /\ opens /\ signDomain(msg.sender) # Failed
          THEN msg' = [msg EXCEPT !.at = "commit", !.sig = dkimRewriteBody(Mail[msg.m], msg.sender), !.txGone = Mail[msg.m].tx]
          ELSE Refuses
  /\ UNCHANGED <<files, boot, dnscmd, group, spent>>

\* The target takes the message, or refuses it for now: the client sends it
\* again, the transaction in its header included.
Commits ==
  /\ msg.at = "commit" /\ msg' = [msg EXCEPT !.at = "delivered"]
  /\ UNCHANGED <<files, boot, dnscmd, chain, group, spent>>
ComesAgain ==
  /\ msg.at \in {"commit", "refused"} /\ msg.tries = 0
  /\ msg' = [NoMsg EXCEPT !.at = "sender", !.m = msg.m, !.tries = 1]
  /\ UNCHANGED <<files, boot, dnscmd, chain, group, spent>>

SigningNext ==
  \/ BootStarts \/ loadOrGenerateKey \/ generateAndWrite \/ generateFails \/ BootEnds
  \/ ensureDKIMKeys \/ ensureWrites \/ DnsKilled
  \/ MsgStarts \/ RewriteSender \/ RewriteRcpt \/ RewriteBody \/ Commits \/ ComesAgain

-----------------------------------------------------------------------------
(* Properties *)

\* Type invariant.
SigningTypeOK ==
  /\ \A d \in KeyDomains : files[d].key \in Torn .. MaxPairs /\ files[d].dns \in Torn .. MaxPairs
  /\ boot.i \in 0 .. Len(SignDomains) + 1 /\ boot.signers \in [KeyDomains -> 0 .. MaxPairs]
  /\ msg.at \in {"none", "sender", "rcpt", "body", "commit", "delivered", "refused"}

\* A server that runs signs with the key whose record is in the file beside
\* it, after whatever crashes and failed starts, unless a dns command made
\* a key while the server was up or was cut off half way.
SignerPublished ==
  boot.at = "running" /\ ~spent.meddled =>
    \A d \in SignSet : boot.signers[d] # 0 /\ files[d].key = boot.signers[d] /\ files[d].dns = boot.signers[d]

\* A message is signed for the domain of the sender it leaves with, after
\* all rewriting, so that the signature is aligned with it (the null sender and
\* postmaster have none); the signer's list has each field once per use, exactly once
\* more where it is oversigned and nothing else, also when the configuration names a
\* field twice (the signer panics on that).
SignedAsSent ==
  msg.at \in {"commit", "delivered"} /\ msg.sig # <<>> =>
    LET sig == msg.sig[1]
        from == DomainPart[msg.sender]
        times(f) == Cardinality({i \in DOMAIN sig.keys : sig.keys[i] = f})
    IN /\ msg.sender # "" /\ from # "" =>
            sig.d \in {from} \cup (IF from \in DOMAIN SubdomainOf THEN {SubdomainOf[from]} ELSE {})
       /\ sig.k = boot.signers[sig.d] /\ sig.k # 0
       /\ \A f \in ToSet(Oversign) : times(f) = Uses(f, Mail[msg.m]) + 1
       /\ \A f \in ToSet(Sign) \ ToSet(Oversign) : times(f) = Uses(f, Mail[msg.m])
       /\ ToSet(sig.keys) \subseteq ToSet(Oversign) \cup ToSet(Sign)

\* Rewriting loses no recipient: a message that goes on has at least one, each a valid
\* address or, unchecked, the replacement of a local part with the domain put behind it
\* (replace_addr.go:144); and where a chain of mandatory tables stands for the
\* recipient, every address the tables lead to, or the recipient itself when they do
\* not lead all the way.
RecipientsComplete ==
  msg.at \in {"body", "commit", "delivered"} =>
    /\ msg.rcpts # <<>> /\ ToSet(msg.rcpts) \subseteq Addresses \cup Range(Join)
    /\ Len(group.rcpt) = 1 =>
         LET t == group.rcpt[1]
             norm == ForLookup[Mail[msg.m].rcpt]
         IN t.kind = "chain" /\ (\A i \in DOMAIN t.args : ~t.args[i].optional) =>
              /\ Composed(t, norm) # {} => ToSet(msg.rcpts) = Composed(t, norm)
              /\ Composed(t, norm) = {} /\ Composed(t, Local[norm]) = {} => msg.rcpts = <<Mail[msg.m].rcpt>>

\* What the errors of replace_addr.go:117 and :141 say ("refusing to replace recipient
\* with invalid address").  Not kept: the replacement "q"@d2 of the local part a of a@d1
\* becomes "q"@d2@d1, and an empty one @d1.
RecipientsValid ==
  msg.at \in {"body", "commit", "delivered"} => ToSet(msg.rcpts) \subseteq Addresses

\* The chain has no transaction of a message that was refused for good.  Not kept: a
\* body that cannot be read, a target that refuses, or an answer of the chain that is
\* lost come after the transaction, and every later try is refused because the chain
\* has it (blockchain_tx.go:67).
RefusedIsFree ==
  msg.at = "refused" /\ msg.tries > 0 => chain[msg.m] = 0

\* A message delivered without the transaction in its header is one whose
\* transaction the chain has, however often it was refused and came again.
TxDelivered ==
  msg.at = "delivered" /\ msg.txGone => chain[msg.m] = 1

\* A modifier changes the whole message or nothing: what is signed is what is sent, no
\* recipient is lost to a rewrite, and a transaction was taken by the chain.
RewritesComplete == SigningTypeOK /\ SignedAsSent /\ RecipientsComplete /\ TxDelivered

-----------------------------------------------------------------------------
(* The invariant behind SignerPublished *)

FilesRecord == [key : Int, dns : Int]
Making == {"record", "text", "keyfile", "pem"}
BootRecord == [at : Making \cup {"off", "load", "failed", "running"}, i : Nat, k : Nat, signers : [KeyDomains -> Int]]
DnsRecord == [at : {"off", "key", "pem", "dns", "text"}, d : KeyDomains, k : Nat]
SpentRecord == [keys : Nat, boots : Nat, sends : Nat, breaks : Nat, meddled : BOOLEAN]
KeysTyped ==
  /\ group \in Groups /\ files \in [KeyDomains -> FilesRecord]
  /\ boot \in BootRecord /\ dnscmd \in DnsRecord /\ spent \in SpentRecord
BootPlace ==
  /\ boot.at \in Making \cup {"load"} => boot.i \in 1 .. Len(SignDomains)
  /\ boot.at = "running" => boot.i = Len(SignDomains) + 1
  /\ (boot.at \in Making => boot.k > 0) /\ (dnscmd.at # "off" => dnscmd.k > 0)

\* A key that is there has its record, except while a dns command is between the two: a
\* start writes the record first, so that a start that dies leaves no key without one.
RecordsKept ==
  \A d \in KeyDomains :
    /\ files[d].key > 0 => files[d].dns = files[d].key \/ (dnscmd.at \in {"dns", "text"} /\ dnscmd.d = d)
    /\ dnscmd.at \in {"dns", "text"} /\ dnscmd.d = d => files[d].key = dnscmd.k
\* The domain a start is at.
KeyUnderWay ==
  /\ boot.at \in {"record", "text", "keyfile"} => files[Domain1].key = 0
  /\ boot.at = "pem" => files[Domain1].key = Torn
  /\ boot.at \in {"keyfile", "pem"} => files[Domain1].dns = boot.k
SignersSoFar ==
  boot.at \notin {"off", "failed"} =>
    \A j \in 1 .. Len(SignDomains) : j < boot.i =>
      LET d == SignDomains[j] IN boot.signers[d] # 0 /\ files[d].key = boot.signers[d] /\ files[d].dns = boot.signers[d]
KeyInv == /\ KeysTyped /\ BootPlace
          /\ ~spent.meddled => /\ boot.at = "off" \/ dnscmd.at = "off"
                              /\ RecordsKept /\ KeyUnderWay /\ SignersSoFar
=============================================================================
