--------------------------- MODULE OutboundProofs ---------------------------
(***************************************************************************)
(* Proofs about Outbound for every set of recipients, domains and MXs,     *)
(* every choice of policies and limits and every number of messages.       *)
(***************************************************************************)
EXTENDS Outbound, FiniteSetTheorems, WellFoundedInduction, TLAPS

-----------------------------------------------------------------------------
(* The invariant of the remote target.                                     *)

StsAnswer == {"error", "testing", "enforce"}
TlsaAnswer == {"error", "none", "unusable", "usable"}

\* A connection of d carries the names of recipients of d only.
NamesOf(d) == {n \in Name : \E s \in Rcpt : DomainOf[s] = d /\ n \in {s, Ascii[s]}}
Session == [cl : {"nil", "open", "closed", "data"}, rcpts : SUBSET Name, utf8 : BOOLEAN, lmtp : BOOLEAN]
Conn == [c : Session, domain : Domain, errored : BOOLEAN, transactions : Nat,
         mxLevel : 0 .. 2, tlsLevel : 0 .. 2, checked : SUBSET Policies]
ConnOf(c, d) == c \in Conn /\ c.domain = d /\ c.c.rcpts \subseteq NamesOf(d)

Connecting == pc \in {"lookup", "checkmx", "connect", "checkconn", "admit", "mail"}
Sent == pc \in {"body", "sent"}

\* Futures: what they may hold, and who sets the ones that are waited for.
FutureInv ==
  /\ fut = [sts |-> fut.sts, tlsa |-> fut.tlsa]
  /\ fut.sts = NoFuture \/ fut.sts.val \in StsAnswer \cup {"unset"}
  /\ fut.tlsa = NoFuture \/ fut.tlsa.val \in TlsaAnswer \cup {"unset", "panicked"}
  /\ \A l \in lookups : l.kind \in {"sts", "tlsa"}
  /\ fut.tlsa.val = "unset" => fut.tlsa = Unset(fut.tlsa.of)
  /\ FuturesPending

\* Messages started so far: a connection was used by fewer than those.
CountInv ==
  /\ pc \in {"idle", "ready", "lookup", "checkmx", "connect", "checkconn", "admit", "mail", "rcpt", "body", "sent"}
  /\ meta \in [requireTLS : BOOLEAN, override : BOOLEAN, quarantine : BOOLEAN, asked : BOOLEAN, free : SUBSET Domain]
  /\ meta.asked /\ ~meta.requireTLS => RelaxedREQUIRETLS
  /\ msgs \in [started : 0 .. MaxMsgs, permit : Nat, calls : Nat]
  /\ msgs.permit = IF pc = "idle" THEN 0 ELSE 1
  /\ pc # "idle" => msgs.started >= 1

\* A connection passed all policies, or none for an override: of the message that uses
\* it (over) or of an earlier one.
Allowed(c, over) == Vetted(c) \/ (c.checked = {} /\ AllowSecOverride /\ (over \/ c.transactions > 0))

\* The call of AddRcpt under way.
CallInv ==
  /\ cur = [rcpt |-> cur.rcpt, conn |-> cur.conn, todo |-> cur.todo, try |-> cur.try]
  /\ Connecting =>
       /\ cur.rcpt \in Rcpt /\ DomainOf[cur.rcpt] \in Domain \ DOMAIN conns
       /\ ConnOf(cur.conn, DomainOf[cur.rcpt])
       /\ cur.conn.transactions < msgs.started
  /\ pc = "rcpt" => cur.rcpt \in Rcpt /\ DomainOf[cur.rcpt] \in DOMAIN conns
  /\ pc = "mail" => SecureEnough(cur.conn)
  /\ pc \in {"lookup", "checkmx", "connect"} => cur.conn.c.cl # "open"
  /\ pc \in {"admit", "mail"} /\ cur.conn.c.cl = "open" => Allowed(cur.conn, meta.override)

\* The connections of the delivery and of the pool.
ConnsInv ==
  /\ conns = [d \in DOMAIN conns |-> conns[d]] /\ DOMAIN conns \subseteq Domain
  /\ \A d \in DOMAIN conns :
       /\ ConnOf(conns[d], d) /\ conns[d].transactions < msgs.started
       /\ conns[d].c.cl = "open" \/ (conns[d].errored /\ Sent /\ d \notin sending)
  /\ pool \in [Domain -> Conn \cup {None}]
  /\ \A d \in Domain : pool[d] # None =>
       /\ ConnOf(pool[d], d) /\ pool[d].transactions + (IF pc = "idle" THEN 0 ELSE 1) <= msgs.started
       /\ pool[d].c.cl = "open" /\ ~pool[d].errored /\ pool[d].transactions <= ConnReuseLimit
       /\ Allowed(pool[d], FALSE)
  /\ pc = "idle" => DOMAIN conns = {}
  /\ RequireTLSHonoured
  /\ PoliciesInUse

PermitInv ==
  /\ dest \in [Domain -> Nat] /\ lost \in [Domain -> Nat]
  /\ \A d \in Domain :
       dest[d] = lost[d] + (IF d \in DOMAIN conns THEN 1 ELSE 0)
                         + (IF pc = "mail" /\ cur.conn.domain = d THEN 1 ELSE 0)

\* What the attempt under way established so far.
TryInv ==
  /\ pc \in {"lookup", "checkmx"} => cur.try = None /\ ("mtasts" \in Active => fut.sts # NoFuture)
  /\ pc \in {"connect", "checkconn"} =>
       LET t == cur.try IN
       /\ t = [host |-> t.host, mxLevel |-> t.mxLevel, sts |-> t.sts, handshake |-> t.handshake,
               verified |-> t.verified, tlsLevel |-> t.tlsLevel, tlsa |-> t.tlsa]
       /\ t.mxLevel \in 0 .. 2
       /\ "mtasts" \in Active => t.sts.val \in StsAnswer /\ (t.sts.val = "enforce" => t.mxLevel >= 1)
       /\ "mtasts" \notin Active => t.sts = NoFuture
       /\ "local_policy" \in Active => t.mxLevel >= MinMX
       /\ "dane" \in Active => fut.tlsa # NoFuture
       /\ "mtasts" \in Active => fut.sts # NoFuture
  /\ pc = "checkconn" =>
       /\ cur.try.tlsLevel \in 0 .. 2 /\ cur.try.handshake \in BOOLEAN /\ cur.try.verified \in BOOLEAN
       /\ cur.try.handshake <=> cur.try.tlsLevel > 0
       /\ cur.try.verified <=> cur.try.tlsLevel = 2
  /\ PolicyEnforced

\* The connection of d ended with err: its names have that status, its recipients took
\* the message exactly if it is "ok".
Reported(d, err) ==
  /\ \A n \in NamesOf(d) : Owned(n, d) =>
       /\ n \in conns[d].c.rcpts => n \in DOMAIN status
       /\ n \in DOMAIN status => status[n] = err
  /\ \A r \in recipients : DomainOf[r] = d => (r \in taken <=> err = "ok")

\* The connection of d has not reported yet.
Unreported(d) ==
  /\ \A n \in NamesOf(d) : Owned(n, d) => n \notin DOMAIN status
  /\ \A r \in taken : DomainOf[r] # d

StatusInv ==
  /\ recipients \subseteq Rcpt /\ taken \subseteq recipients /\ sending \subseteq DOMAIN conns
  /\ status = [n \in DOMAIN status |-> status[n]] /\ DOMAIN status \subseteq Name
  /\ ~Sent => DOMAIN status = {} /\ taken = {}
  /\ pc # "body" => sending = {}
  /\ pc = "idle" => recipients = {}
  /\ pc = "body" => ~meta.quarantine
  /\ \A r \in recipients :
       /\ DomainOf[r] \in DOMAIN conns
       /\ {r, Ascii[r]} \cap conns[DomainOf[r]].c.rcpts # {}
  /\ pc = "sent" /\ meta.quarantine => taken = {} /\ \A r \in recipients : r \in DOMAIN status /\ status[r] = "perm"
  /\ Sent /\ ~meta.quarantine => \A d \in DOMAIN conns :
       IF d \in sending THEN Unreported(d) ELSE \E err \in S!DataOutcomes : Reported(d, err)

RemoteInv == FutureInv /\ CountInv /\ CallInv /\ ConnsInv /\ PermitInv /\ TryInv /\ StatusInv

-----------------------------------------------------------------------------
(* The invariant of the relay target.                                      *)

RelayName == RelayRcpt \cup {RelayAscii[r] : r \in RelayRcpt}
RelaySession == [cl : {"nil", "open", "closed"}, rcpts : SUBSET RelayName, utf8 : BOOLEAN, lmtp : BOOLEAN]
RelayRec ==
  [pc : {"idle", "connect", "auth", "mail", "ready", "replies", "sent", "panicked"},
   conn : RelaySession,
   lmtp : BOOLEAN, starttls : BOOLEAN, sasl : SaslKinds, ep : 0 .. Endpoints, link : {"none", "plain", "tls"},
   rcpts : Seq(RelayRcpt), replies : Nat, status : SUBSET (RelayName \X {"ok", "temp", "perm"}),
   took : SUBSET Nat, answer : {"none", "refused", "temp", "perm", "ok", "panic", "partial", "close_failed"},
   n : Nat]

\* The status st is one of the i-th recipient, and says whether it took the message.
StatusOf(st, i) ==
  /\ st[1] \in {rel.rcpts[i], RelayAscii[rel.rcpts[i]]}
  /\ st[2] = "ok" <=> i \in rel.took

\* BodyNonAtomic: a status for every reply, and no others.
RepliesInv ==
  rel.pc = "replies" \/ (rel.pc = "sent" /\ rel.answer = "partial") =>
    /\ \A st \in rel.status : \E i \in DOMAIN rel.rcpts : (rel.pc = "sent" \/ i <= rel.replies) /\ StatusOf(st, i)
    /\ \A i \in DOMAIN rel.rcpts :
         IF rel.pc = "sent" \/ i <= rel.replies THEN \E st \in rel.status : StatusOf(st, i)
         ELSE i \notin rel.took

\* A single answer: success only if each name was taken once.
AnswerInv ==
  rel.pc = "sent" /\ rel.answer = "ok" => \A i \in DOMAIN rel.rcpts : \E j \in rel.took : SentAs(j) = SentAs(i)

RelayInv ==
  /\ rel \in RelayRec
  /\ rel.replies <= Len(rel.rcpts) /\ rel.took \subseteq DOMAIN rel.rcpts
  /\ rel.pc = "connect" => rel.ep >= 1
  /\ rel.pc \in {"idle", "connect"} => rel.conn.cl # "open"
  /\ rel.pc \in {"idle", "connect", "auth", "mail", "ready"} => rel.took = {} /\ rel.status = {} /\ rel.replies = 0
  /\ rel.pc = "replies" => rel.answer = "partial"
  /\ RelaySecured
  /\ RepliesInv
  /\ AnswerInv

-----------------------------------------------------------------------------
(* The policies: what it means that none of them rejected.                 *)

\* What one turn of the loop over CheckMX makes of acc, with policy p.
AskedMX(policies, mx, min, acc, p, r) ==
  /\ r.level \in 0 .. 2 /\ r.level >= acc.level
  /\ r.err = "ok" => acc.err = "ok"
  /\ r.err = "ok" /\ p \in policies =>
       /\ p = "mtasts" => /\ P!mtastsCheckMX(mx.sts, mx.match).err = "ok"
                          /\ mx.sts = "enforce" => r.level >= 1
       /\ p = "local_policy" => r.level >= min.mx

\* One turn of the loop over CheckMX: the level only rises.
LEMMA AskMXStep ==
  ASSUME NEW policies, NEW mx, mx.match \in BOOLEAN, mx.dnssec \in BOOLEAN,
         NEW min, min.mx \in Nat, NEW acc, acc.level \in 0 .. 2,
         NEW p \in {"mtasts", "sts_preload", "dane", "dnssec", "local_policy"}
  PROVE  AskedMX(policies, mx, min, acc, p, P!AskMX(policies, mx, min, acc, p))
<1>1. CASE ~(p \in policies /\ acc.err = "ok")
  BY <1>1 DEF P!AskMX, AskedMX
<1>2. CASE p \in policies /\ acc.err = "ok"
  <2> DEFINE q == P!CheckMX(p, acc.level, mx, min)
  <2>1. P!AskMX(policies, mx, min, acc, p) = P!Merged(acc, q)
    BY <1>2 DEF P!AskMX
  <2>2. /\ q.level \in 0 .. 2
        /\ q.err = "ok" /\ p = "mtasts" => /\ P!mtastsCheckMX(mx.sts, mx.match).err = "ok"
                                           /\ mx.sts = "enforce" => q.level >= 1
        /\ q.err = "ok" /\ p = "local_policy" => acc.level >= min.mx
    BY DEF P!CheckMX, P!mtastsCheckMX, P!Raise, P!Reject, P!MXNone, P!MX_MTASTS, P!MX_DNSSEC
  <2> HIDE DEF q
  <2> QED BY <1>2, <2>1, <2>2 DEF P!Merged, AskedMX
<1> QED BY <1>1, <1>2

\* The loop over CheckMX: if it ends without an error, every active policy passed.
LEMMA CheckMXPassed ==
  ASSUME NEW policies, NEW mx, mx.match \in BOOLEAN, mx.dnssec \in BOOLEAN,
         NEW min, min.mx \in Nat
  PROVE  LET r == P!ApplyCheckMX(policies, mx, min, P!MXNone) IN
         /\ r.level \in 0 .. 2
         /\ r.err = "ok" =>
              /\ "mtasts" \in policies => /\ P!mtastsCheckMX(mx.sts, mx.match).err = "ok"
                                          /\ mx.sts = "enforce" => r.level >= 1
              /\ "local_policy" \in policies => r.level >= min.mx
<1> DEFINE A0 == P!Raise(P!MXNone)
           A1 == P!AskMX(policies, mx, min, A0, "mtasts")
           A2 == P!AskMX(policies, mx, min, A1, "sts_preload")
           A3 == P!AskMX(policies, mx, min, A2, "dane")
           A4 == P!AskMX(policies, mx, min, A3, "dnssec")
           A5 == P!AskMX(policies, mx, min, A4, "local_policy")
<1>1. P!Order[1] = "mtasts" /\ P!Order[2] = "sts_preload" /\ P!Order[3] = "dane"
      /\ P!Order[4] = "dnssec" /\ P!Order[5] = "local_policy"
  BY DEF P!Order
<1>2. P!ApplyCheckMX(policies, mx, min, P!MXNone) = A5
  BY <1>1 DEF P!ApplyCheckMX
<1>3. A0.level \in 0 .. 2
  BY DEF P!Raise, P!MXNone
<1> HIDE DEF A0
<1>4. AskedMX(policies, mx, min, A0, "mtasts", A1) /\ A1.level \in 0 .. 2
  <2>1. AskedMX(policies, mx, min, A0, "mtasts", A1)
    BY <1>3, AskMXStep
  <2> QED BY <2>1 DEF AskedMX
<1> HIDE DEF A1
<1>5. AskedMX(policies, mx, min, A1, "sts_preload", A2) /\ A2.level \in 0 .. 2
  <2>1. AskedMX(policies, mx, min, A1, "sts_preload", A2)
    BY <1>4, AskMXStep
  <2> QED BY <2>1 DEF AskedMX
<1> HIDE DEF A2
<1>6. AskedMX(policies, mx, min, A2, "dane", A3) /\ A3.level \in 0 .. 2
  <2>1. AskedMX(policies, mx, min, A2, "dane", A3)
    BY <1>5, AskMXStep
  <2> QED BY <2>1 DEF AskedMX
<1> HIDE DEF A3
<1>7. AskedMX(policies, mx, min, A3, "dnssec", A4) /\ A4.level \in 0 .. 2
  <2>1. AskedMX(policies, mx, min, A3, "dnssec", A4)
    BY <1>6, AskMXStep
  <2> QED BY <2>1 DEF AskedMX
<1> HIDE DEF A4
<1>8. AskedMX(policies, mx, min, A4, "local_policy", A5) /\ A5.level \in 0 .. 2
  <2>1. AskedMX(policies, mx, min, A4, "local_policy", A5)
    BY <1>7, AskMXStep
  <2> QED BY <2>1 DEF AskedMX
<1> HIDE DEF A5
<1> QED BY <1>2, <1>4, <1>5, <1>6, <1>7, <1>8 DEF AskedMX

\* What one turn of the loop over CheckConn makes of acc, with policy p.
AskedConn(policies, tls, min, acc, p, r) ==
  /\ r.level \in 0 .. 2 /\ r.level >= acc.level
  /\ r.err = "ok" => acc.err = "ok"
  /\ r.err = "ok" /\ r.level = 2 => acc.level = 2 \/ tls.handshake
  /\ r.err = "ok" /\ p \in policies =>
       /\ p = "mtasts" => /\ P!mtastsCheckConn(tls.sts, tls).err = "ok"
                          /\ tls.sts = "enforce" => tls.verified
       /\ p = "dane" => /\ tls.tlsa # "error"
                        /\ tls.tlsa = "unusable" => tls.handshake
                        /\ tls.tlsa = "usable" => tls.handshake /\ r.level = 2
       /\ p = "local_policy" => r.level >= min.tls

\* One turn of the loop over CheckConn.
LEMMA AskConnStep ==
  ASSUME NEW policies, NEW tls, tls.handshake \in BOOLEAN, tls.verified \in BOOLEAN, tls.tlsaMatch \in BOOLEAN,
         tls.tlsa \in TlsaAnswer, NEW min, min.tls \in Nat, NEW acc, acc.level \in 0 .. 2,
         NEW p \in {"mtasts", "sts_preload", "dane", "dnssec", "local_policy"}
  PROVE  AskedConn(policies, tls, min, acc, p, P!AskConn(policies, tls, min, acc, p))
<1>1. CASE ~(p \in policies /\ acc.err = "ok")
  BY <1>1 DEF P!AskConn, AskedConn
<1>2. CASE p \in policies /\ acc.err = "ok"
  <2> DEFINE q == P!CheckConn(p, acc.level, tls, min)
  <2>1. P!AskConn(policies, tls, min, acc, p) = P!Merged(acc, q)
    BY <1>2 DEF P!AskConn
  <2>2. /\ q.level \in 0 .. 2
        /\ q.err = "ok" /\ q.level = 2 => acc.level = 2 \/ tls.handshake
        /\ q.err = "ok" =>
             /\ p = "mtasts" => /\ P!mtastsCheckConn(tls.sts, tls).err = "ok"
                                /\ tls.sts = "enforce" => tls.verified
             /\ p = "dane" => /\ tls.tlsa # "error"
                              /\ tls.tlsa = "unusable" => tls.handshake
                              /\ tls.tlsa = "usable" => tls.handshake /\ q.level = 2
             /\ p = "local_policy" => acc.level >= min.tls
    <3>1. CASE p = "dane"
      BY <3>1 DEF P!CheckConn, P!daneCheckConn, P!verifyDANE, P!Raise, P!Reject, P!TLSNone, P!TLSAuthenticated, TlsaAnswer
    <3>2. CASE p = "mtasts"
      BY <3>2 DEF P!CheckConn, P!mtastsCheckConn, P!Raise, P!Reject, P!TLSNone
    <3>3. CASE p \notin {"mtasts", "dane"}
      BY <3>3 DEF P!CheckConn, P!Raise, P!Reject, P!TLSNone
    <3> QED BY <3>1, <3>2, <3>3
  <2> HIDE DEF q
  <2> QED BY <1>2, <2>1, <2>2 DEF P!Merged, AskedConn
<1> QED BY <1>1, <1>2

\* The loop over CheckConn: if it ends without an error, every active policy passed.
LEMMA CheckConnPassed ==
  ASSUME NEW policies, NEW tls, tls.handshake \in BOOLEAN, tls.verified \in BOOLEAN, tls.tlsaMatch \in BOOLEAN,
         tls.tlsa \in TlsaAnswer, NEW min, min.tls \in Nat, NEW level \in 0 .. 2
  PROVE  LET r == P!ApplyCheckConn(policies, tls, min, level) IN
         /\ r.level \in 0 .. 2
         /\ r.err = "ok" =>
              /\ r.level = 2 => level = 2 \/ tls.handshake
              /\ "mtasts" \in policies => /\ P!mtastsCheckConn(tls.sts, tls).err = "ok"
                                          /\ tls.sts = "enforce" => tls.verified
              /\ "dane" \in policies => /\ tls.tlsa # "error"
                                        /\ tls.tlsa = "unusable" => tls.handshake
                                        /\ tls.tlsa = "usable" => tls.handshake /\ r.level = 2
              /\ "local_policy" \in policies => r.level >= min.tls
<1> DEFINE A0 == P!Raise(level)
           A1 == P!AskConn(policies, tls, min, A0, "mtasts")
           A2 == P!AskConn(policies, tls, min, A1, "sts_preload")
           A3 == P!AskConn(policies, tls, min, A2, "dane")
           A4 == P!AskConn(policies, tls, min, A3, "dnssec")
           A5 == P!AskConn(policies, tls, min, A4, "local_policy")
<1>1. P!Order[1] = "mtasts" /\ P!Order[2] = "sts_preload" /\ P!Order[3] = "dane"
      /\ P!Order[4] = "dnssec" /\ P!Order[5] = "local_policy"
  BY DEF P!Order
<1>2. P!ApplyCheckConn(policies, tls, min, level) = A5
  BY <1>1 DEF P!ApplyCheckConn
<1>3. A0.level = level /\ A0.level \in 0 .. 2
  BY DEF P!Raise
<1> HIDE DEF A0
<1>4. AskedConn(policies, tls, min, A0, "mtasts", A1) /\ A1.level \in 0 .. 2
  <2>1. AskedConn(policies, tls, min, A0, "mtasts", A1)
    BY <1>3, AskConnStep
  <2> QED BY <2>1 DEF AskedConn
<1> HIDE DEF A1
<1>5. AskedConn(policies, tls, min, A1, "sts_preload", A2) /\ A2.level \in 0 .. 2
  <2>1. AskedConn(policies, tls, min, A1, "sts_preload", A2)
    BY <1>4, AskConnStep
  <2> QED BY <2>1 DEF AskedConn
<1> HIDE DEF A2
<1>6. AskedConn(policies, tls, min, A2, "dane", A3) /\ A3.level \in 0 .. 2
  <2>1. AskedConn(policies, tls, min, A2, "dane", A3)
    BY <1>5, AskConnStep
  <2> QED BY <2>1 DEF AskedConn
<1> HIDE DEF A3
<1>7. AskedConn(policies, tls, min, A3, "dnssec", A4) /\ A4.level \in 0 .. 2
  <2>1. AskedConn(policies, tls, min, A3, "dnssec", A4)
    BY <1>6, AskConnStep
  <2> QED BY <2>1 DEF AskedConn
<1> HIDE DEF A4
<1>8. AskedConn(policies, tls, min, A4, "local_policy", A5) /\ A5.level \in 0 .. 2
  <2>1. AskedConn(policies, tls, min, A4, "local_policy", A5)
    BY <1>7, AskConnStep
  <2> QED BY <2>1 DEF AskedConn
<1> HIDE DEF A5
<1> QED BY <1>2, <1>3, <1>4, <1>5, <1>6, <1>7, <1>8 DEF AskedConn

-----------------------------------------------------------------------------
(* What the operators that stand for servers may give.                     *)

\* discoverTLSA ends with an error or with one of three kinds of records.
LEMMA DiscoverType == P!DiscoverOutcomes \subseteq TlsaAnswer
BY DEF P!DiscoverOutcomes, P!discoverTLSA, P!ResolverAnswer, P!TLSAAnswer, TlsaAnswer

\* The classes of the errors of a command.
LEMMA OutcomesType ==
  /\ S!DataOutcomes \subseteq {"ok", "temp", "perm"} /\ C!DataOutcomes \subseteq {"ok", "temp", "perm"}
  /\ C!CommandErrors \subseteq {"temp", "perm"}
  /\ "temp" \in S!DataOutcomes /\ "temp" \in C!CommandErrors
<1>1. "io" \in S!ClientError /\ "io" \in C!ClientError
  BY DEF S!ClientError, C!ClientError
<1>2. S!wrapClientErr("io") = "temp" /\ C!wrapClientErr("io") = "temp"
  BY DEF S!wrapClientErr, C!wrapClientErr
<1> QED BY <1>1, <1>2 DEF S!DataOutcomes, S!CommandErrors, S!wrapClientErr, C!DataOutcomes, C!CommandErrors, C!wrapClientErr

\* connect: a level of security, or an error.
LEMMA ConnectType == \A r \in ConnectResults : r.level \in 0 .. 2
<1> SUFFICES ASSUME NEW s \in [0 .. 2 -> Behaviour]
             PROVE  Attempts(s).level \in 0 .. 2
  BY DEF ConnectResults
<1> DEFINE Made(level, fails, closed) == [level |-> level, err |-> fails, closed |-> closed]
           OK(r) == r.level \in 0 .. 2
           plain == Made(P!TLSNone, s[0] = "dial_fails", TRUE)
           Try(k, unverified, level) ==
             CASE s[k] = "dial_fails"     -> Made(P!TLSNone, TRUE, k < 2)
               [] s[k] = "no_starttls"    -> Made(P!TLSNone, FALSE, k < 2)
               [] s[k] = "starttls_fails" -> Made(P!TLSNone, TRUE, TRUE)
               [] s[k] = "ok"             -> Made(level, FALSE, k < 2)
               [] s[k] = "verify_error"   -> unverified
               [] OTHER                   -> plain
<1>1. OK(plain)
  BY DEF P!TLSNone
<1> HIDE DEF plain
<1>2. ASSUME NEW k \in 1 .. 2, NEW u, OK(u), NEW level \in 0 .. 2
      PROVE  OK(Try(k, u, level))
  <2>1. CASE s[k] = "dial_fails"      BY <2>1, <1>2 DEF P!TLSNone
  <2>2. CASE s[k] = "no_starttls"     BY <2>2, <1>2 DEF P!TLSNone
  <2>3. CASE s[k] = "starttls_fails"  BY <2>3, <1>2 DEF P!TLSNone
  <2>4. CASE s[k] = "ok"              BY <2>4, <1>2
  <2>5. CASE s[k] = "verify_error"    BY <2>5, <1>2
  <2>6. CASE s[k] \notin {"dial_fails", "no_starttls", "starttls_fails", "ok", "verify_error"}
    BY <2>6, <1>1
  <2> QED BY <2>1, <2>2, <2>3, <2>4, <2>5, <2>6
<1>3. Attempts(s) = Try(2, Try(1, plain, P!TLSEncrypted), P!TLSAuthenticated)
  BY DEF Attempts, plain
<1> HIDE DEF Try
<1> QED BY <1>1, <1>2, <1>3 DEF P!TLSEncrypted, P!TLSAuthenticated

-----------------------------------------------------------------------------
(* Futures.                                                                *)

\* Futures nobody waits for satisfy the invariant.
LEMMA FuturesReset ==
  ASSUME fut' = NoFutures, \A l \in lookups' : l.kind \in {"sts", "tlsa"}
  PROVE  FutureInv'
<1>1. fut'["sts"].val = "nil" /\ fut'["tlsa"].val = "nil"
  BY DEF NoFutures, NoFuture
<1>2. fut' = [sts |-> fut'.sts, tlsa |-> fut'.tlsa] /\ fut'.sts = NoFuture /\ fut'.tlsa = NoFuture
  BY DEF NoFutures
<1> QED BY <1>1, <1>2 DEF FutureInv, FuturesPending

\* A new future, with the goroutine that sets it.
LEMMA FutureMade ==
  ASSUME FutureInv, NEW k \in {"sts", "tlsa"}, NEW o,
         fut' = [fut EXCEPT ![k] = Unset(Lookup(k, o))], lookups' = lookups \cup {Lookup(k, o)}
  PROVE  FutureInv'
<1> DEFINE l == Lookup(k, o)
<1>1. l.kind = k
  BY DEF Lookup
<1>2. l \in lookups' /\ \A m \in lookups' : m.kind \in {"sts", "tlsa"}
  BY <1>1 DEF FutureInv
<1> HIDE DEF l
<1>3. /\ fut' = [sts |-> fut'.sts, tlsa |-> fut'.tlsa] /\ fut'[k] = [of |-> l, val |-> "unset"]
      /\ \A j \in {"sts", "tlsa"} \ {k} : fut'[j] = fut[j]
  BY DEF FutureInv, Unset, l
<1>4. FuturesPending'
  BY <1>1, <1>2, <1>3 DEF FutureInv, FuturesPending, l
<1> QED BY <1>2, <1>3, <1>4 DEF FutureInv, Unset

LEMMA FutureStep ==
  ASSUME FutureInv, [Next]_vars
  PROVE  FutureInv'
<1> DEFINE Same == fut' = fut /\ lookups' = lookups
           Reset == fut' = NoFutures /\ lookups' \subseteq lookups
<1>1. Same => FutureInv'
  BY DEF FutureInv, FuturesPending
<1>2. Reset => FutureInv'
  BY FuturesReset DEF FutureInv
<1>3. ASSUME NEW r \in Rcpt, AddRcptNew(r)  PROVE FutureInv'
  <2>1. CASE "mtasts" \in Active
    BY <1>3, <2>1, FutureMade DEF AddRcptNew
  <2>2. CASE "mtasts" \notin Active
    BY <1>1, <1>3, <2>2 DEF AddRcptNew
  <2> QED BY <2>1, <2>2
<1>4. ASSUME NEW l \in lookups, LookupEnds(l)  PROVE FutureInv'
  <2>1. \/ \E v \in StsAnswer \cup TlsaAnswer :
             /\ l.kind = "sts" => v \in StsAnswer
             /\ l.kind = "tlsa" => v \in TlsaAnswer
             /\ fut' = IF Awaited(fut[l.kind]) THEN [fut EXCEPT ![l.kind] = [of |-> l, val |-> v]] ELSE fut
        \/ /\ l.kind = "tlsa"
           /\ fut' = IF fut.tlsa = Unset(l) THEN [fut EXCEPT !.tlsa.val = "panicked"] ELSE fut
    BY <1>4, DiscoverType DEF LookupEnds, LookupAnswers, FutureInv, StsAnswer
  <2>2. lookups' = lookups \ {l} /\ l.kind \in {"sts", "tlsa"}
    BY <1>4 DEF LookupEnds, FutureInv
  <2>3. ASSUME NEW v \in StsAnswer \cup TlsaAnswer,
               l.kind = "sts" => v \in StsAnswer, l.kind = "tlsa" => v \in TlsaAnswer,
               fut' = IF Awaited(fut[l.kind]) THEN [fut EXCEPT ![l.kind] = [of |-> l, val |-> v]] ELSE fut
        PROVE  FutureInv'
    <3>1. CASE Awaited(fut[l.kind])
      <4>1. /\ fut' = [sts |-> fut'.sts, tlsa |-> fut'.tlsa] /\ fut'[l.kind] = [of |-> l, val |-> v]
            /\ \A j \in {"sts", "tlsa"} \ {l.kind} : fut'[j] = fut[j]
        BY <2>2, <2>3, <3>1 DEF FutureInv
      <4>2. v # "unset"
        BY DEF StsAnswer, TlsaAnswer
      <4>3. FuturesPending'
        BY <2>2, <4>1, <4>2 DEF FutureInv, FuturesPending
      <4> QED BY <2>2, <2>3, <4>1, <4>2, <4>3 DEF FutureInv
    <3>2. CASE ~Awaited(fut[l.kind])
      <4>1. fut' = fut /\ fut[l.kind].val # "unset"
        BY <2>3, <3>2 DEF Awaited
      <4> QED BY <2>2, <4>1 DEF FutureInv, FuturesPending
    <3> QED BY <3>1, <3>2
  <2>4. ASSUME l.kind = "tlsa", fut' = IF fut.tlsa = Unset(l) THEN [fut EXCEPT !.tlsa.val = "panicked"] ELSE fut
        PROVE  FutureInv'
    <3>1. CASE fut.tlsa = Unset(l)
      <4>1. fut' = [sts |-> fut.sts, tlsa |-> [of |-> l, val |-> "panicked"]]
        BY <2>4, <3>1 DEF FutureInv, Unset
      <4> QED BY <2>2, <2>4, <4>1 DEF FutureInv, FuturesPending
    <3>2. CASE fut.tlsa # Unset(l)
      <4>1. fut' = fut /\ (fut.tlsa.val = "unset" => fut.tlsa.of # l)
        BY <2>4, <3>2 DEF FutureInv
      <4> QED BY <2>2, <2>4, <4>1 DEF FutureInv, FuturesPending
    <3> QED BY <3>1, <3>2
  <2> QED BY <2>1, <2>3, <2>4
<1>5. CASE CheckMX
  <2>1. \/ Same
        \/ \E o : fut' = [fut EXCEPT !.tlsa = Unset(Lookup("tlsa", o))] /\ lookups' = lookups \cup {Lookup("tlsa", o)}
    BY <1>5 DEF CheckMX
  <2> QED BY <1>1, <2>1, FutureMade
<1>6. CASE lookupMX \/ NoUsableMX \/ Admit \/ Mail \/ AddRcptDone \/ Close
  BY <1>1, <1>2, <1>6 DEF lookupMX, NoUsableMX, Admit, Mail, AddRcptDone, Close, Refuse
<1>7. CASE CheckConn
  BY <1>1, <1>2, <1>7 DEF CheckConn
<1>8. CASE Start \/ Quarantine \/ Connect \/ BodyQuarantined \/ Body \/ UNCHANGED vars
  BY <1>1, <1>8 DEF Start, Quarantine, Connect, BodyQuarantined, Body, vars
<1>9. CASE \E r \in Rcpt : AddRcptRejected(r) \/ AddRcptConnected(r) \/ AddRcptCached(r)
  BY <1>1, <1>9 DEF AddRcptRejected, AddRcptConnected, AddRcptCached, vars
<1>10. CASE \E d \in sending : BodyConn(d)
  BY <1>1, <1>10 DEF BodyConn
<1> QED BY <1>3, <1>4, <1>5, <1>6, <1>7, <1>8, <1>9, <1>10 DEF Next

-----------------------------------------------------------------------------
(* Messages and the call of AddRcpt.                                       *)

LEMMA CountStep ==
  ASSUME CountInv, CallInv, [Next]_vars
  PROVE  CountInv'
<1> USE RemoteAssumption
<1>1. CASE Start
  <2>1. PICK rt \in BOOLEAN, ov \in BOOLEAN :
          meta' = [requireTLS |-> rt, override |-> ov, quarantine |-> FALSE, asked |-> rt, free |-> {}]
    BY <1>1 DEF Start, NoMeta
  <2>2. /\ meta' \in [requireTLS : BOOLEAN, override : BOOLEAN, quarantine : BOOLEAN, asked : BOOLEAN, free : SUBSET Domain]
        /\ meta'.asked => meta'.requireTLS
    BY <2>1
  <2> QED BY <1>1, <2>2 DEF CountInv, Start
<1>2. CASE Quarantine \/ BodyQuarantined \/ Body \/ UNCHANGED vars
  BY <1>2 DEF CountInv, Quarantine, BodyQuarantined, Body, vars
<1>3. CASE \E r \in Rcpt : AddRcptRejected(r) \/ AddRcptConnected(r) \/ AddRcptCached(r) \/ AddRcptNew(r)
  BY <1>3 DEF CountInv, AddRcptRejected, AddRcptConnected, AddRcptCached, AddRcptNew, AddRcptCalled, bodyVars, vars
<1>4. CASE \E l \in lookups : LookupEnds(l)
  BY <1>4 DEF CountInv, LookupEnds, callVars
<1>5. CASE lookupMX \/ NoUsableMX \/ Admit
  BY <1>5 DEF CountInv, lookupMX, NoUsableMX, Admit, Refuse, callVars
<1>6. CASE CheckMX
  <2>1. pc = "checkmx" /\ pc' \in {"checkmx", "connect"} /\ UNCHANGED <<meta, msgs>>
    BY <1>6 DEF CheckMX, callVars
  <2> QED BY <2>1 DEF CountInv
<1>7. CASE Connect
  <2>1. pc = "connect" /\ pc' \in {"checkmx", "checkconn"} /\ UNCHANGED <<meta, msgs>>
    BY <1>7 DEF Connect, callVars
  <2> QED BY <2>1 DEF CountInv
<1>8. CASE CheckConn
  <2>1. pc = "checkconn" /\ pc' \in {"checkmx", "admit"} /\ UNCHANGED <<meta, msgs>>
    BY <1>8 DEF CheckConn, callVars
  <2> QED BY <2>1 DEF CountInv
<1>9. CASE Mail
  <2>1. cur.conn.domain \in Domain /\ msgs' = msgs /\ pc = "mail" /\ pc' \in {"rcpt", "ready"}
    BY <1>9 DEF Mail, Refuse, CallInv, Connecting, ConnOf
  <2> DEFINE f == IF meta.asked /\ ~meta.requireTLS THEN meta.free \cup {cur.conn.domain} ELSE meta.free
  <2>2. PICK ext \in BOOLEAN : meta' = [meta EXCEPT !.requireTLS = @ /\ (ext \/ ~RelaxedREQUIRETLS), !.free = f]
    BY <1>9 DEF Mail, CountInv
  <2>3. f \subseteq Domain
    BY <2>1 DEF CountInv
  <2> HIDE DEF f
  <2>4. /\ meta' \in [requireTLS : BOOLEAN, override : BOOLEAN, quarantine : BOOLEAN, asked : BOOLEAN, free : SUBSET Domain]
        /\ meta'.asked = meta.asked /\ (meta'.requireTLS <=> meta.requireTLS /\ (ext \/ ~RelaxedREQUIRETLS))
    BY <2>2, <2>3 DEF CountInv
  <2> QED BY <2>1, <2>4 DEF CountInv
<1>12. CASE AddRcptDone
  BY <1>12 DEF CountInv, AddRcptDone, Refuse
<1>10. CASE \E d \in sending : BodyConn(d)
  <2>1. pc = "body" /\ pc' \in {"body", "sent"} /\ UNCHANGED <<meta, msgs>>
    BY <1>10 DEF BodyConn
  <2> QED BY <2>1 DEF CountInv
<1>11. CASE Close
  BY <1>11 DEF CountInv, Close, NoMeta
<1> QED BY <1>1, <1>2, <1>3, <1>4, <1>5, <1>6, <1>7, <1>8, <1>9, <1>10, <1>11, <1>12 DEF Next

\* A new connection, and one whose session changed.
LEMMA NewConn ==
  ASSUME NEW d \in Domain
  PROVE  ConnOf(mxConn(d), d) /\ mxConn(d).transactions = 0 /\ mxConn(d).c.cl = "nil"
BY DEF ConnOf, mxConn, Conn, Session, S!New, P!MXNone, P!TLSNone

LEMMA SessionChanged ==
  ASSUME NEW d, NEW c, ConnOf(c, d), NEW x \in Session, x.rcpts \subseteq NamesOf(d)
  PROVE  /\ ConnOf([c EXCEPT !.c = x], d)
         /\ [c EXCEPT !.c = x].transactions = c.transactions
         /\ [c EXCEPT !.c = x].mxLevel = c.mxLevel /\ [c EXCEPT !.c = x].tlsLevel = c.tlsLevel
         /\ [c EXCEPT !.c = x].c = x /\ [c EXCEPT !.c = x].errored = c.errored
         /\ [c EXCEPT !.c = x].checked = c.checked
BY DEF ConnOf, Conn

\* The outcome of CheckConn for the connection that was just made.
ConnPassed(t, tlsa, level) ==
  /\ cur' = [cur EXCEPT !.todo = <<>>, !.try.tlsa = tlsa, !.conn.mxLevel = t.mxLevel,
                        !.conn.tlsLevel = level, !.conn.checked = Active]
  /\ level = 2 => t.handshake
  /\ "mtasts" \in Active /\ t.sts.val = "enforce" => t.verified
  /\ "dane" \in Active =>
       /\ tlsa.val \in {"none", "unusable", "usable"}
       /\ tlsa.val = "unusable" => t.handshake
       /\ tlsa.val = "usable" => t.handshake /\ level = 2
  /\ "local_policy" \in Active => level >= MinTLS

LEMMA CheckConnResult ==
  ASSUME FutureInv, TryInv, CheckConn
  PROVE  \/ pc' = "admit" /\ fut' = NoFutures /\ \E tlsa : \E level \in 0 .. 2 : ConnPassed(cur.try, tlsa, level)
         \/ /\ pc' = "checkmx" /\ fut' = fut
            /\ \E c \in S!Close(cur.conn.c) : cur' = [cur EXCEPT !.todo = Tail(@), !.try = None, !.conn.c = c]
<1> USE RemoteAssumption
<1> DEFINE t == cur.try
           stsVal == IF t.sts = NoFuture THEN "error" ELSE t.sts.val
           reached == P!mtastsCheckConn(stsVal, t).err = "ok"
           tlsa == IF "dane" \in Active /\ reached THEN fut.tlsa ELSE NoFuture
           Tls(m) == [handshake |-> t.handshake, verified |-> t.verified, sts |-> stsVal,
                      tlsa |-> IF tlsa = NoFuture THEN "none" ELSE tlsa.val, tlsaMatch |-> m]
           Res(m) == P!ApplyCheckConn(Active, Tls(m), LocalPolicy, t.tlsLevel)
<1>1. pc = "checkconn" /\ ~Awaited(tlsa)
  BY DEF CheckConn
<1>2. /\ t.tlsLevel \in 0 .. 2 /\ t.handshake \in BOOLEAN /\ t.verified \in BOOLEAN
      /\ t.handshake <=> t.tlsLevel > 0
      /\ "dane" \in Active => fut.tlsa # NoFuture
      /\ "mtasts" \in Active => t.sts.val \in StsAnswer
      /\ "mtasts" \notin Active => t.sts = NoFuture
  BY <1>1 DEF TryInv
<1>3. PICK m \in BOOLEAN :
        IF Res(m).err = "ok"
        THEN /\ cur' = [cur EXCEPT !.todo = <<>>, !.try.tlsa = tlsa, !.conn.mxLevel = t.mxLevel,
                                   !.conn.tlsLevel = Res(m).level, !.conn.checked = Active]
             /\ pc' = "admit" /\ fut' = NoFutures
        ELSE /\ \E c \in S!Close(cur.conn.c) :
                  cur' = [cur EXCEPT !.todo = Tail(@), !.try = None, !.conn.c = c]
             /\ pc' = "checkmx" /\ UNCHANGED fut
  BY DEF CheckConn
<1>4. "mtasts" \in Active => stsVal = t.sts.val
  BY <1>2 DEF NoFuture, StsAnswer
<1>5. "mtasts" \notin Active => reached
  BY <1>2 DEF P!mtastsCheckConn, P!Raise
<1>6. tlsa = NoFuture \/ tlsa.val \in TlsaAnswer
  BY <1>1 DEF FutureInv, Awaited
<1>7. Tls(m).tlsa \in TlsaAnswer /\ (tlsa # NoFuture => Tls(m).tlsa = tlsa.val)
  BY <1>6 DEF TlsaAnswer
<1> DEFINE x == Tls(m)
           r == Res(m)
<1>8. /\ x.handshake = t.handshake /\ x.verified = t.verified /\ x.tlsaMatch = m /\ x.sts = stsVal
      /\ x.tlsa \in TlsaAnswer /\ (tlsa # NoFuture => x.tlsa = tlsa.val)
      /\ r = P!ApplyCheckConn(Active, x, LocalPolicy, t.tlsLevel)
      /\ P!mtastsCheckConn(x.sts, x).err = "ok" <=> reached
  BY <1>7 DEF P!mtastsCheckConn
<1>9. LocalPolicy.tls = MinTLS /\ LocalPolicy.tls \in Nat
  BY DEF LocalPolicy
<1> HIDE DEF x
<1>10. /\ r.level \in 0 .. 2
       /\ r.err = "ok" =>
            /\ r.level = 2 => t.tlsLevel = 2 \/ x.handshake
            /\ "mtasts" \in Active => reached /\ (x.sts = "enforce" => x.verified)
            /\ "dane" \in Active => /\ x.tlsa # "error"
                                    /\ x.tlsa = "unusable" => x.handshake
                                    /\ x.tlsa = "usable" => x.handshake /\ r.level = 2
            /\ "local_policy" \in Active => r.level >= MinTLS
  BY <1>2, <1>8, <1>9, CheckConnPassed
<1> HIDE DEF r, reached, stsVal
<1>11. CASE r.err = "ok"
  <2>1. "dane" \in Active => tlsa # NoFuture /\ tlsa.val = x.tlsa
    BY <1>2, <1>5, <1>8, <1>10, <1>11
  <2>2. ConnPassed(t, tlsa, r.level)
    <3> HIDE DEF tlsa
    <3>1. cur' = [cur EXCEPT !.todo = <<>>, !.try.tlsa = tlsa, !.conn.mxLevel = t.mxLevel,
                             !.conn.tlsLevel = r.level, !.conn.checked = Active]
      BY <1>3, <1>11 DEF r
    <3> QED BY <1>2, <1>4, <1>8, <1>10, <1>11, <2>1, <3>1 DEF ConnPassed, TlsaAnswer
  <2> QED BY <1>3, <1>10, <1>11, <2>2 DEF r
<1>12. CASE r.err # "ok"
  BY <1>3, <1>12 DEF r
<1> QED BY <1>11, <1>12

LEMMA CallStep ==
  ASSUME RemoteInv, [Next]_vars
  PROVE  CallInv'
<1> USE RemoteAssumption
<1>a. CallInv /\ ConnsInv /\ CountInv
  BY DEF RemoteInv
<1>b. ASSUME Refuse  PROVE CallInv'
  BY <1>b DEF Refuse, CallInv, NoCall, Connecting
<1>c. ASSUME UNCHANGED <<pc, cur, conns, meta>>, msgs'.started = msgs.started  PROVE CallInv'
  BY <1>a, <1>c DEF CallInv, Connecting, SecureEnough
<1>1. CASE Start
  BY <1>1, <1>a DEF CallInv, Start, Connecting
<1>2. CASE Quarantine \/ BodyQuarantined \/ Body \/ Close
  BY <1>2, <1>a DEF CallInv, Quarantine, BodyQuarantined, Body, Close, Connecting
<1>3. ASSUME NEW r \in Rcpt, AddRcptConnected(r)  PROVE CallInv'
  BY <1>3 DEF CallInv, AddRcptConnected, Connecting, NoCall
<1>4. ASSUME NEW r \in Rcpt, AddRcptCached(r)  PROVE CallInv'
  <2>1. DomainOf[r] \in Domain \ DOMAIN conns /\ pc = "ready" /\ pool[DomainOf[r]] # None
    BY <1>4 DEF AddRcptCached, AddRcptCalled, AddRcptRejects
  <2>2. /\ ConnOf(pool[DomainOf[r]], DomainOf[r]) /\ pool[DomainOf[r]].transactions < msgs.started
        /\ Allowed(pool[DomainOf[r]], FALSE)
    <3>1. pool[DomainOf[r]].transactions + 1 <= msgs.started
      BY <1>a, <2>1 DEF ConnsInv
    <3>2. ConnOf(pool[DomainOf[r]], DomainOf[r]) /\ Allowed(pool[DomainOf[r]], FALSE)
      BY <1>a, <2>1 DEF ConnsInv
    <3>3. pool[DomainOf[r]].transactions < msgs.started
      BY <3>1, <3>2, <1>a DEF ConnOf, Conn, CountInv
    <3> QED BY <3>2, <3>3
  <2>3. /\ cur' = [rcpt |-> r, conn |-> pool[DomainOf[r]], todo |-> <<>>, try |-> None]
        /\ pc' = "admit" /\ conns' = conns /\ msgs'.started = msgs.started
    BY <1>4, <1>a DEF AddRcptCached, AddRcptCalled, NoCall, CountInv
  <2>4. Allowed(cur'.conn, meta'.override)
    <3>1. cur'.conn = pool[DomainOf[r]]
      BY <2>3
    <3> QED BY <2>2, <3>1 DEF Allowed
  <2>5. Allowed(cur.conn, meta.override)'
    BY <2>4 DEF Allowed, Vetted
  <2> QED BY <2>1, <2>2, <2>3, <2>5 DEF CallInv, Connecting
<1>5. ASSUME NEW r \in Rcpt, AddRcptNew(r)  PROVE CallInv'
  <2>1. DomainOf[r] \in Domain \ DOMAIN conns /\ pc = "ready"
    BY <1>5 DEF AddRcptNew, AddRcptCalled, AddRcptRejects
  <2>2. /\ ConnOf(mxConn(DomainOf[r]), DomainOf[r]) /\ mxConn(DomainOf[r]).transactions < msgs.started
        /\ mxConn(DomainOf[r]).c.cl # "open"
    BY <1>a, <2>1, NewConn DEF CountInv
  <2>3. /\ cur' = [rcpt |-> r, conn |-> mxConn(DomainOf[r]), todo |-> <<>>, try |-> None]
        /\ pc' = "lookup" /\ conns' = conns /\ msgs'.started = msgs.started
    BY <1>5, <1>a DEF AddRcptNew, AddRcptCalled, NoCall, CountInv
  <2> QED BY <2>1, <2>2, <2>3 DEF CallInv, Connecting
<1>6. CASE \E l \in lookups : LookupEnds(l)
  BY <1>6, <1>c DEF LookupEnds, callVars
<1>7. CASE \E r \in Rcpt : AddRcptRejected(r)
  BY <1>7, <1>c DEF AddRcptRejected, vars
<1>8. CASE UNCHANGED vars
  BY <1>8, <1>c DEF vars
<1>d. ASSUME Connecting, pc' \in {"checkmx", "connect", "checkconn", "admit"}, UNCHANGED <<conns, msgs>>,
             cur' = [rcpt |-> cur.rcpt, conn |-> cur'.conn, todo |-> cur'.todo, try |-> cur'.try],
             ConnOf(cur'.conn, cur.conn.domain), cur'.conn.transactions = cur.conn.transactions,
             pc' \in {"checkmx", "connect"} => cur'.conn.c.cl # "open",
             pc' = "admit" /\ cur'.conn.c.cl = "open" => Allowed(cur.conn, meta.override)'
      PROVE  CallInv'
  BY <1>d, <1>a DEF CallInv, Connecting, ConnOf
<1>9. CASE lookupMX
  BY <1>9, <1>a, <1>b, <1>d DEF lookupMX, CallInv, Connecting, callVars, ConnOf
<1>10. CASE CheckMX
  <2>1. \/ cur' = [cur EXCEPT !.todo = cur'.todo]
        \/ cur' = [cur EXCEPT !.try = cur'.try]
    BY <1>10, <1>a DEF CheckMX, CallInv
  <2>2. pc = "checkmx" /\ pc' \in {"checkmx", "connect"} /\ UNCHANGED <<conns, msgs>>
    BY <1>10 DEF CheckMX, callVars
  <2> QED BY <2>1, <2>2, <1>a, <1>d DEF CallInv, Connecting, ConnOf
<1>11. CASE Connect
  <2>1. /\ Connecting /\ cur.conn.c \in Session /\ cur.conn.c.rcpts \subseteq NamesOf(cur.conn.domain)
        /\ ConnOf(cur.conn, cur.conn.domain)
    BY <1>11, <1>a DEF Connect, CallInv, Connecting, ConnOf, Conn
  <2>2. pc' \in {"checkmx", "checkconn"} /\ UNCHANGED <<conns, msgs>>
    BY <1>11 DEF Connect, callVars
  <2>3. \E x \in Session : /\ x.rcpts = cur.conn.c.rcpts /\ (pc' = "checkmx" => x.cl # "open")
                           /\ cur' = [cur EXCEPT !.conn = [@ EXCEPT !.c = x], !.todo = cur'.todo, !.try = cur'.try]
    <3>1. PICK r \in ConnectResults :
            IF r.err
            THEN /\ cur' = [cur EXCEPT !.todo = Tail(@), !.try = None,
                                       !.conn.c.cl = IF r.closed THEN "nil" ELSE @]
                 /\ pc' = "checkmx"
            ELSE /\ cur' = [cur EXCEPT
                              !.conn.c = S!Connected(@, FALSE, cur.try.host \in SmtpUtf8),
                              !.try.handshake = r.level > P!TLSNone,
                              !.try.verified = r.level = P!TLSAuthenticated,
                              !.try.tlsLevel = r.level]
                 /\ pc' = "checkconn"
      BY <1>11 DEF Connect
    <3>0. cur.conn.c.cl # "open"
      BY <1>11, <1>a DEF Connect, CallInv
    <3>2. CASE r.err
      <4> DEFINE x == [cur.conn.c EXCEPT !.cl = IF r.closed THEN "nil" ELSE @]
      <4>1. x \in Session /\ x.rcpts = cur.conn.c.rcpts /\ x.cl # "open"
        BY <2>1, <3>0 DEF Session
      <4>2. cur' = [cur EXCEPT !.conn = [@ EXCEPT !.c = x], !.todo = cur'.todo, !.try = cur'.try]
        BY <3>1, <3>2, <1>a DEF CallInv
      <4> QED BY <4>1, <4>2
    <3>3. CASE ~r.err
      <4> DEFINE u == cur.try.host \in SmtpUtf8
                 x == S!Connected(cur.conn.c, FALSE, u)
      <4>0. u \in BOOLEAN
        OBVIOUS
      <4>1. x \in Session /\ x.rcpts = cur.conn.c.rcpts
        <5> HIDE DEF u
        <5> QED BY <4>0, <2>1 DEF Session, S!Connected
      <4>2. cur' = [cur EXCEPT !.conn = [@ EXCEPT !.c = x], !.todo = cur'.todo, !.try = cur'.try]
        BY <3>1, <3>3, <1>a DEF CallInv
      <4>3. pc' # "checkmx"
        BY <3>1, <3>3
      <4> QED BY <4>1, <4>2, <4>3
    <3> QED BY <3>2, <3>3
  <2>4. PICK x \in Session : /\ x.rcpts = cur.conn.c.rcpts /\ (pc' = "checkmx" => x.cl # "open")
                             /\ cur' = [cur EXCEPT !.conn = [@ EXCEPT !.c = x], !.todo = cur'.todo, !.try = cur'.try]
    BY <2>3
  <2>5. ConnOf([cur.conn EXCEPT !.c = x], cur.conn.domain)
        /\ [cur.conn EXCEPT !.c = x].transactions = cur.conn.transactions /\ [cur.conn EXCEPT !.c = x].c = x
    BY <2>1, <2>4, SessionChanged
  <2>6. cur' = [rcpt |-> cur.rcpt, conn |-> cur'.conn, todo |-> cur'.todo, try |-> cur'.try]
        /\ cur'.conn = [cur.conn EXCEPT !.c = x]
    BY <2>4, <1>a DEF CallInv
  <2> QED BY <2>1, <2>2, <2>4, <2>5, <2>6, <1>d
<1>12. CASE CheckConn
  <2>1. /\ Connecting /\ cur.conn.c \in Session /\ cur.conn.c.rcpts \subseteq NamesOf(cur.conn.domain)
        /\ ConnOf(cur.conn, cur.conn.domain)
    BY <1>12, <1>a DEF CheckConn, CallInv, Connecting, ConnOf, Conn
  <2>2. pc' \in {"checkmx", "admit"} /\ UNCHANGED <<conns, msgs>>
    BY <1>12 DEF CheckConn, callVars
  <2>3. CASE pc' = "admit" /\ \E tlsa : \E level \in 0 .. 2 : ConnPassed(cur.try, tlsa, level)
    <3>1. PICK tlsa : \E level \in 0 .. 2 : ConnPassed(cur.try, tlsa, level)
      BY <2>3
    <3>2. PICK level \in 0 .. 2 : ConnPassed(cur.try, tlsa, level)
      BY <3>1
    <3> DEFINE c == [cur.conn EXCEPT !.mxLevel = cur.try.mxLevel, !.tlsLevel = level, !.checked = Active]
    <3>3. cur' = [rcpt |-> cur.rcpt, conn |-> cur'.conn, todo |-> cur'.todo, try |-> cur'.try] /\ cur'.conn = c
      BY <3>2, <1>a DEF CallInv, ConnPassed
    <3>4. /\ ConnOf(c, cur.conn.domain) /\ c.transactions = cur.conn.transactions
          /\ c.checked = Active /\ c.tlsLevel = level /\ c.mxLevel = cur.try.mxLevel
      <4>1. cur.try.mxLevel \in 0 .. 2
        BY <1>12 DEF RemoteInv, TryInv, CheckConn
      <4>2. Active \subseteq Policies
        BY DEF Active
      <4> QED BY <2>1, <4>1, <4>2 DEF ConnOf, Conn
    <3>5. Allowed(cur.conn, meta.override)'
      <4>1. "local_policy" \in Active => level >= MinTLS /\ cur.try.mxLevel >= MinMX
        BY <1>12, <3>2 DEF RemoteInv, TryInv, CheckConn, ConnPassed
      <4>2. Active = Policies \/ (Active = {} /\ meta.override /\ AllowSecOverride)
        BY DEF Active
      <4>3. /\ cur'.conn.checked = Active /\ cur'.conn.tlsLevel = level /\ cur'.conn.mxLevel = cur.try.mxLevel
            /\ meta' = meta
        BY <1>12, <3>3, <3>4 DEF CheckConn, callVars
      <4> QED BY <4>1, <4>2, <4>3 DEF Allowed, Vetted
    <3>6. pc' = "admit"
      BY <2>3
    <3> QED BY <2>1, <2>2, <3>3, <3>4, <3>5, <3>6, <1>d
  <2>4. ASSUME NEW x \in S!Close(cur.conn.c), cur' = [cur EXCEPT !.todo = Tail(@), !.try = None, !.conn.c = x],
               pc' = "checkmx"
        PROVE  CallInv'
    <3>1. x \in Session /\ x.rcpts = cur.conn.c.rcpts /\ x.cl # "open"
      BY <2>1 DEF S!Close, Session
    <3>2. ConnOf([cur.conn EXCEPT !.c = x], cur.conn.domain)
          /\ [cur.conn EXCEPT !.c = x].transactions = cur.conn.transactions /\ [cur.conn EXCEPT !.c = x].c = x
      BY <2>1, <3>1, SessionChanged
    <3>3. cur' = [rcpt |-> cur.rcpt, conn |-> cur'.conn, todo |-> cur'.todo, try |-> cur'.try]
          /\ cur'.conn = [cur.conn EXCEPT !.c = x]
      BY <2>4, <1>a DEF CallInv
    <3>4. cur'.conn.c.cl # "open" /\ ConnOf(cur'.conn, cur.conn.domain) /\ cur'.conn.transactions = cur.conn.transactions
      BY <3>1, <3>2, <3>3
    <3> QED BY <2>1, <2>2, <2>4, <3>3, <3>4, <1>d
  <2> QED BY <1>12, <2>3, <2>4, CheckConnResult DEF RemoteInv
<1>13. CASE NoUsableMX
  BY <1>13, <1>a, <1>b, <1>d DEF NoUsableMX, CallInv, Connecting, ConnOf, callVars
<1>14. CASE Admit
  BY <1>14, <1>a, <1>b DEF Admit, CallInv, Connecting, ConnOf, callVars, SecureEnough
<1>15. CASE Mail
  BY <1>15, <1>a, <1>b DEF Mail, CallInv, Connecting, ConnOf, NoCall
<1>16. CASE AddRcptDone
  BY <1>16, <1>b DEF AddRcptDone
<1>17. CASE \E d \in sending : BodyConn(d)
  BY <1>17, <1>a DEF BodyConn, CallInv, Connecting
<1> QED BY <1>1, <1>2, <1>3, <1>4, <1>5, <1>6, <1>7, <1>8, <1>9, <1>10, <1>11, <1>12, <1>13, <1>14, <1>15, <1>16, <1>17
        DEF Next

-----------------------------------------------------------------------------
(* Connections, the pool and permits.                                      *)

\* What a message asked for stays, and only the relaxed mode frees domains.
MetaKept ==
  /\ meta'.asked = meta.asked /\ meta'.override = meta.override
  /\ meta.free \subseteq meta'.free
  /\ meta'.asked /\ meta'.free # meta.free => RelaxedREQUIRETLS

\* A step that leaves connections and pool alone in the middle of a delivery.
LEMMA ConnsSame ==
  ASSUME ConnsInv, CountInv, UNCHANGED <<conns, pool, sending>>, msgs'.started = msgs.started,
         MetaKept, pc # "idle", pc' # "idle", Sent => Sent'
  PROVE  ConnsInv'
<1>1. RequireTLSHonoured' /\ PoliciesInUse'
  BY DEF ConnsInv, RequireTLSHonoured, PoliciesInUse, MetaKept, Vetted, Authenticated
<1>2. \A d \in Domain : Allowed(pool[d], FALSE)' <=> Allowed(pool[d], FALSE)
  BY DEF Allowed, Vetted
<1> QED BY <1>1, <1>2 DEF ConnsInv

\* A step that takes a connection out of the pool.
LEMMA PoolTaken ==
  ASSUME ConnsInv, CountInv, UNCHANGED <<conns, sending, meta>>, msgs'.started = msgs.started,
         pc = "ready", pc' \in {"admit", "lookup"}, NEW e, pool' = [pool EXCEPT ![e] = None]
  PROVE  ConnsInv'
<1>1. /\ conns' = [d \in DOMAIN conns' |-> conns'[d]] /\ DOMAIN conns' \subseteq Domain
      /\ \A d \in DOMAIN conns' :
           /\ ConnOf(conns'[d], d) /\ conns'[d].transactions < msgs'.started
           /\ conns'[d].c.cl = "open" \/ (conns'[d].errored /\ Sent' /\ d \notin sending')
      /\ RequireTLSHonoured' /\ PoliciesInUse'
  BY DEF ConnsInv, RequireTLSHonoured, PoliciesInUse, Vetted, Authenticated, Sent
<1>2. pool' \in [Domain -> Conn \cup {None}]
  BY DEF ConnsInv
<1>3. \A d \in Domain : pool'[d] # None => pool'[d] = pool[d]
  BY DEF ConnsInv
<1>4. \A d \in Domain : pool'[d] # None /\ Allowed(pool[d], FALSE) => Allowed(pool[d], FALSE)'
  BY <1>3 DEF Allowed, Vetted
<1> QED BY <1>1, <1>2, <1>3, <1>4 DEF ConnsInv

\* A connection that goes on with what was established about it.
SameChecks(c, b) ==
  c.mxLevel = b.mxLevel /\ c.tlsLevel = b.tlsLevel /\ c.checked = b.checked /\ c.transactions = b.transactions

LEMMA ChecksKept ==
  ASSUME RequireTLSHonoured, PoliciesInUse, UNCHANGED meta, DOMAIN conns' = DOMAIN conns,
         \A d \in DOMAIN conns : SameChecks(conns'[d], conns[d])
  PROVE  RequireTLSHonoured' /\ PoliciesInUse'
BY DEF RequireTLSHonoured, PoliciesInUse, Vetted, Authenticated, SameChecks

LEMMA PoolKept ==
  ASSUME UNCHANGED pool
  PROVE  \A d \in Domain : Allowed(pool[d], FALSE)' <=> Allowed(pool[d], FALSE)
BY DEF Allowed, Vetted

\* MAIL accepted: the connection is one of the delivery.
LEMMA ConnsMail ==
  ASSUME RemoteInv, Mail
  PROVE  ConnsInv'
<1>a. ConnsInv /\ CallInv /\ CountInv
  BY DEF RemoteInv
<1>b. UNCHANGED <<pool, sending, msgs>> /\ pc = "mail" /\ pc' \in {"rcpt", "ready"}
  BY DEF Mail, Refuse
<1>c. /\ MetaKept
      /\ meta.asked /\ ~meta.requireTLS => cur.conn.domain \in meta'.free
  <2> DEFINE f == IF meta.asked /\ ~meta.requireTLS THEN meta.free \cup {cur.conn.domain} ELSE meta.free
  <2>1. PICK q : meta' = [meta EXCEPT !.requireTLS = q, !.free = f]
    BY <1>a DEF Mail, CountInv
  <2>2. meta'.free = f /\ meta'.asked = meta.asked /\ meta'.override = meta.override
    BY <1>a, <2>1 DEF CountInv
  <2> QED BY <1>a, <2>2 DEF CountInv, MetaKept
<1>1. CASE conns' = conns
  BY <1>1, <1>a, <1>b, <1>c, ConnsSame DEF Sent
<1>2. CASE ~S!MailFails(cur.conn.c)
           /\ conns' = [x \in DOMAIN conns \cup {cur.conn.domain} |-> IF x = cur.conn.domain THEN cur.conn ELSE conns[x]]
  <2> DEFINE e == cur.conn.domain
  <2>1. e \in Domain /\ e \notin DOMAIN conns /\ ConnOf(cur.conn, e) /\ cur.conn.transactions < msgs.started
        /\ SecureEnough(cur.conn) /\ cur.conn.c.cl = "open" /\ Allowed(cur.conn, meta.override)
    BY <1>2, <1>a, <1>b DEF CallInv, Connecting, ConnOf, S!MailFails
  <2>2. DOMAIN conns' = DOMAIN conns \cup {e} /\ conns'[e] = cur.conn
        /\ \A d \in DOMAIN conns : conns'[d] = conns[d]
    BY <1>2, <2>1
  <2>3. /\ conns' = [d \in DOMAIN conns' |-> conns'[d]] /\ DOMAIN conns' \subseteq Domain
        /\ \A d \in DOMAIN conns' :
             /\ ConnOf(conns'[d], d) /\ conns'[d].transactions < msgs'.started
             /\ conns'[d].c.cl = "open" \/ (conns'[d].errored /\ Sent' /\ d \notin sending')
    BY <1>2, <1>a, <1>b, <2>1, <2>2 DEF ConnsInv, Sent
  <2>4. RequireTLSHonoured'
    <3>1. ASSUME meta.asked, NEW d \in DOMAIN conns', d \notin meta'.free  PROVE Authenticated(conns'[d])
      <4>1. CASE d = e
        BY <1>c, <3>1, <4>1, <2>1, <2>2 DEF SecureEnough, Authenticated
      <4>2. CASE d # e
        BY <1>a, <1>c, <3>1, <4>2, <2>2 DEF ConnsInv, RequireTLSHonoured, Authenticated, MetaKept
      <4> QED BY <4>1, <4>2
    <3>2. meta.asked /\ meta'.free # {} => RelaxedREQUIRETLS
      BY <1>a, <1>c DEF ConnsInv, RequireTLSHonoured, MetaKept
    <3> QED BY <1>c, <3>1, <3>2 DEF RequireTLSHonoured, MetaKept, Authenticated
  <2>5. PoliciesInUse'
    BY <1>a, <1>c, <2>1, <2>2 DEF ConnsInv, PoliciesInUse, MetaKept, Allowed, Vetted
  <2> QED BY <1>a, <1>b, <2>3, <2>4, <2>5, PoolKept DEF ConnsInv
<1> QED BY <1>1, <1>2 DEF Mail

\* RCPT accepted: the session remembers the name.
LEMMA ConnsRcpt ==
  ASSUME RemoteInv, AddRcptDone
  PROVE  ConnsInv'
<1> USE RemoteAssumption
<1>a. ConnsInv /\ CallInv /\ CountInv
  BY DEF RemoteInv
<1>b. UNCHANGED <<pool, sending, msgs, meta>> /\ pc = "rcpt" /\ pc' = "ready"
  BY DEF AddRcptDone, Refuse
<1>1. CASE conns' = conns
  BY <1>1, <1>a, <1>b, ConnsSame DEF Sent, MetaKept
<1> DEFINE r == cur.rcpt
           e == DomainOf[r]
           x == S!RcptGiven(conns[e].c, r, Ascii)
<1>2. CASE conns' = [conns EXCEPT ![e].c = S!RcptGiven(@, r, Ascii)]
  <2>1. r \in Rcpt /\ e \in DOMAIN conns /\ e \in Domain /\ ConnOf(conns[e], e)
    BY <1>a, <1>b DEF CallInv, ConnsInv
  <2>2. x \in Session /\ x.rcpts \subseteq NamesOf(e) /\ x.cl = conns[e].c.cl
    <3>1. S!Form(conns[e].c, r, Ascii) \in NamesOf(e)
      BY <2>1 DEF S!Form, NamesOf, Name
    <3>2. conns[e].c \in Session /\ conns[e].c.rcpts \subseteq NamesOf(e) /\ NamesOf(e) \subseteq Name
      BY <2>1 DEF ConnOf, Conn, NamesOf
    <3> QED BY <3>1, <3>2 DEF S!RcptGiven, Session
  <2>3. conns' = [conns EXCEPT ![e] = [conns[e] EXCEPT !.c = x]]
    BY <1>2
  <2> HIDE DEF x
  <2>4. /\ ConnOf([conns[e] EXCEPT !.c = x], e)
        /\ [conns[e] EXCEPT !.c = x].transactions = conns[e].transactions
        /\ [conns[e] EXCEPT !.c = x].mxLevel = conns[e].mxLevel
        /\ [conns[e] EXCEPT !.c = x].tlsLevel = conns[e].tlsLevel
        /\ [conns[e] EXCEPT !.c = x].c.cl = conns[e].c.cl
        /\ [conns[e] EXCEPT !.c = x].checked = conns[e].checked
    BY <2>1, <2>2, SessionChanged
  <2>5. DOMAIN conns' = DOMAIN conns /\ conns'[e] = [conns[e] EXCEPT !.c = x]
        /\ \A d \in DOMAIN conns \ {e} : conns'[d] = conns[d]
    BY <2>1, <2>3
  <2>6. /\ conns' = [d \in DOMAIN conns' |-> conns'[d]] /\ DOMAIN conns' \subseteq Domain
        /\ \A d \in DOMAIN conns' :
             /\ ConnOf(conns'[d], d) /\ conns'[d].transactions < msgs'.started
             /\ conns'[d].c.cl = "open" \/ (conns'[d].errored /\ Sent' /\ d \notin sending')
    <3>1. conns' = [d \in DOMAIN conns' |-> conns'[d]] /\ DOMAIN conns' \subseteq Domain
      BY <1>a, <2>3 DEF ConnsInv
    <3>2. ConnOf(conns'[e], e) /\ conns'[e].transactions < msgs'.started /\ conns'[e].c.cl = "open"
      BY <1>a, <1>b, <2>1, <2>4, <2>5 DEF ConnsInv, Sent
    <3>3. \A d \in DOMAIN conns \ {e} :
            ConnOf(conns'[d], d) /\ conns'[d].transactions < msgs'.started /\ conns'[d].c.cl = "open"
      BY <1>a, <1>b, <2>5 DEF ConnsInv, Sent
    <3> QED BY <2>5, <3>1, <3>2, <3>3
  <2>7. RequireTLSHonoured' /\ PoliciesInUse'
    <3>1. \A d \in DOMAIN conns : SameChecks(conns'[d], conns[d])
      BY <2>4, <2>5 DEF SameChecks
    <3> QED BY <1>a, <1>b, <2>5, <3>1, ChecksKept DEF ConnsInv
  <2> QED BY <1>a, <1>b, <2>6, <2>7, PoolKept DEF ConnsInv
<1> QED BY <1>1, <1>2 DEF AddRcptDone

\* DATA over the connection of e: it may leave the session in the middle of the data.
LEMMA ConnsBody ==
  ASSUME RemoteInv, NEW e \in sending, BodyConn(e)
  PROVE  ConnsInv'
<1>a. ConnsInv /\ StatusInv
  BY DEF RemoteInv
<1>b. /\ UNCHANGED <<pool, msgs, meta>> /\ pc = "body" /\ pc' \in {"body", "sent"}
      /\ sending' = sending \ {e} /\ e \in DOMAIN conns
  BY <1>a DEF BodyConn, StatusInv
<1>1. CASE conns' = conns
  <2>1. \A d \in DOMAIN conns : SameChecks(conns'[d], conns[d])
    BY <1>1 DEF SameChecks
  <2>2. RequireTLSHonoured' /\ PoliciesInUse'
    BY <1>1, <1>a, <1>b, <2>1, ChecksKept DEF ConnsInv
  <2> QED BY <1>1, <1>a, <1>b, <2>2, PoolKept DEF ConnsInv, Sent
<1>2. ASSUME NEW err, conns' = [conns EXCEPT ![e].errored = err # "ok", ![e].c.cl = IF err = "ok" THEN @ ELSE "data"]
      PROVE  ConnsInv'
  <2> DEFINE b == err # "ok"
             x == [conns[e].c EXCEPT !.cl = IF err = "ok" THEN @ ELSE "data"]
             c == [conns[e] EXCEPT !.errored = b, !.c = x]
  <2>1. ConnOf(conns[e], e) /\ conns[e].c.cl = "open"
    BY <1>a, <1>b DEF ConnsInv
  <2>2. b \in BOOLEAN
    OBVIOUS
  <2>3. x \in Session /\ x.rcpts = conns[e].c.rcpts /\ (x.cl = "open" \/ b)
    BY <2>1 DEF Session, ConnOf, Conn
  <2>4. DOMAIN conns' = DOMAIN conns /\ conns'[e] = c /\ \A d \in DOMAIN conns \ {e} : conns'[d] = conns[d]
    BY <1>2, <1>b, <2>1 DEF ConnOf, Conn
  <2> HIDE DEF b, x
  <2>5. /\ ConnOf(c, e) /\ c.transactions = conns[e].transactions /\ c.mxLevel = conns[e].mxLevel
        /\ c.tlsLevel = conns[e].tlsLevel /\ c.checked = conns[e].checked /\ c.c = x /\ c.errored = b
    BY <2>1, <2>2, <2>3 DEF ConnOf, Conn
  <2> HIDE DEF c
  <2>6. conns' = [d \in DOMAIN conns' |-> conns'[d]]
    <3> DEFINE g == [conns EXCEPT ![e].errored = err # "ok"]
               y == [g[e] EXCEPT !.c.cl = IF err = "ok" THEN @ ELSE "data"]
    <3>1. conns' = [g EXCEPT ![e] = y]
      BY <1>2
    <3> HIDE DEF g, y
    <3> QED BY <3>1
  <2>7. \A d \in DOMAIN conns' :
           /\ ConnOf(conns'[d], d) /\ conns'[d].transactions < msgs'.started
           /\ conns'[d].c.cl = "open" \/ (conns'[d].errored /\ Sent' /\ d \notin sending')
    BY <1>a, <1>b, <2>3, <2>4, <2>5 DEF ConnsInv, Sent
  <2>8. RequireTLSHonoured' /\ PoliciesInUse'
    <3>1. \A d \in DOMAIN conns : SameChecks(conns'[d], conns[d])
      BY <2>4, <2>5 DEF SameChecks
    <3> QED BY <1>a, <1>b, <2>4, <3>1, ChecksKept DEF ConnsInv
  <2> QED BY <1>a, <1>b, <2>4, <2>6, <2>7, <2>8, PoolKept DEF ConnsInv
<1> QED BY <1>1, <1>2 DEF BodyConn

\* Close: what goes to the pool is usable.
LEMMA ConnsClose ==
  ASSUME RemoteInv, Close
  PROVE  ConnsInv'
<1> USE RemoteAssumption
<1>a. ConnsInv /\ CountInv
  BY DEF RemoteInv
<1>b. conns' = <<>> /\ pc' = "idle" /\ meta' = NoMeta /\ msgs'.started = msgs.started /\ pc # "idle"
  BY <1>a DEF Close, CountInv
<1>c. /\ conns' = [d \in DOMAIN conns' |-> conns'[d]] /\ DOMAIN conns' = {}
  BY <1>b
<1> DEFINE used(d) == [conns[d] EXCEPT !.transactions = @ + 1]
<1>1. PICK ret \in SUBSET DOMAIN conns :
        /\ \A d \in ret : Usable(used(d))
        /\ pool' = [d \in Domain |-> IF d \in ret THEN used(d) ELSE pool[d]]
  <2>1. PICK dead \in SUBSET DOMAIN conns :
          pool' = [d \in Domain |-> IF d \in {x \in DOMAIN conns \ dead : Usable(used(x))} THEN used(d) ELSE pool[d]]
    BY DEF Close
  <2> DEFINE ret == {x \in DOMAIN conns \ dead : Usable(used(x))}
  <2>2. ret \in SUBSET DOMAIN conns /\ \A d \in ret : Usable(used(d))
    OBVIOUS
  <2> QED BY <2>1, <2>2
<1>2. ASSUME NEW d \in ret
      PROVE  LET c == used(d) IN
             /\ ConnOf(c, d) /\ c.transactions <= msgs.started /\ c.c.cl = "open" /\ ~c.errored
             /\ c.transactions <= ConnReuseLimit /\ Allowed(c, FALSE)
  <2>1. ConnOf(conns[d], d) /\ conns[d].transactions < msgs.started
        /\ (conns[d].c.cl = "open" \/ conns[d].errored)
    BY <1>a, <1>1, <1>2 DEF ConnsInv
  <2>2. /\ ConnOf(used(d), d) /\ used(d).transactions = conns[d].transactions + 1 /\ conns[d].transactions \in Nat
        /\ used(d).c = conns[d].c /\ used(d).errored = conns[d].errored /\ used(d).checked = conns[d].checked
        /\ used(d).tlsLevel = conns[d].tlsLevel /\ used(d).mxLevel = conns[d].mxLevel
    BY <2>1 DEF ConnOf, Conn
  <2>3. Usable(used(d))
    BY <1>1
  <2> HIDE DEF used
  <2>4. Allowed(used(d), FALSE)
    BY <2>2, <1>a DEF ConnsInv, PoliciesInUse, Allowed, Vetted
  <2>5. /\ ConnOf(used(d), d) /\ used(d).transactions <= msgs.started /\ used(d).c.cl = "open" /\ ~used(d).errored
        /\ used(d).transactions <= ConnReuseLimit
    BY <2>1, <2>2, <2>3, <1>a DEF Usable, CountInv
  <2> QED BY <2>4, <2>5
<1>3. ASSUME NEW d \in Domain, pool'[d] # None
      PROVE  /\ ConnOf(pool'[d], d) /\ pool'[d].transactions <= msgs.started
             /\ pool'[d].c.cl = "open" /\ ~pool'[d].errored /\ pool'[d].transactions <= ConnReuseLimit
             /\ Allowed(pool'[d], FALSE)
  <2>1. CASE d \in ret
    <3>1. pool'[d] = used(d)
      BY <1>1, <2>1
    <3> HIDE DEF used
    <3> QED BY <1>2, <2>1, <3>1
  <2>2. CASE d \notin ret
    <3>1. pool'[d] = pool[d]
      BY <1>1, <2>2
    <3>2. ConnOf(pool[d], d) /\ pool[d].transactions + 1 <= msgs.started
          /\ pool[d].c.cl = "open" /\ ~pool[d].errored /\ pool[d].transactions <= ConnReuseLimit
          /\ Allowed(pool[d], FALSE)
      BY <1>3, <1>a, <1>b, <3>1 DEF ConnsInv
    <3>3. pool[d].transactions <= msgs.started
      BY <3>2, <1>a DEF ConnOf, Conn, CountInv
    <3> QED BY <3>1, <3>2, <3>3
  <2> QED BY <2>1, <2>2
<1>4. pool' \in [Domain -> Conn \cup {None}]
  <2>1. \A d \in Domain : pool'[d] = None \/ pool'[d] \in Conn
    BY <1>3 DEF ConnOf
  <2>2. pool' = [d \in Domain |-> pool'[d]]
    <3> HIDE DEF used
    <3> QED BY <1>1
  <2> QED BY <2>1, <2>2
<1>5. RequireTLSHonoured' /\ PoliciesInUse'
  BY <1>b, <1>c DEF RequireTLSHonoured, PoliciesInUse, NoMeta
<1>7. \A d \in Domain : pool'[d] # None => Allowed(pool[d], FALSE)'
  BY <1>3 DEF Allowed, Vetted
<1>6. ASSUME NEW d \in Domain, pool'[d] # None  PROVE pool'[d].transactions + 0 <= msgs'.started
  <2>1. pool'[d].transactions \in Nat /\ pool'[d].transactions <= msgs.started
    BY <1>3, <1>6 DEF ConnOf, Conn
  <2> QED BY <2>1, <1>b
<1> QED BY <1>b, <1>c, <1>3, <1>4, <1>5, <1>6, <1>7 DEF ConnsInv

LEMMA ConnsStep ==
  ASSUME RemoteInv, [Next]_vars
  PROVE  ConnsInv'
<1>a. ConnsInv /\ CountInv
  BY DEF RemoteInv
<1> DEFINE Same == UNCHANGED <<conns, pool, sending, meta>> /\ msgs'.started = msgs.started
<1>b. ASSUME Same, pc # "idle", pc' # "idle", Sent => Sent'  PROVE ConnsInv'
  BY <1>a, <1>b, ConnsSame DEF MetaKept
<1>c. ASSUME UNCHANGED <<conns, pool, meta, msgs>>, pc' = pc \/ (pc # "idle" /\ pc' # "idle"), Sent => Sent',
             \A d \in sending' : d \in sending \/ ~Sent
      PROVE  ConnsInv'
  <2>1. \A d \in DOMAIN conns : SameChecks(conns'[d], conns[d])
    BY <1>c DEF SameChecks
  <2>2. RequireTLSHonoured' /\ PoliciesInUse'
    BY <1>a, <1>c, <2>1, ChecksKept DEF ConnsInv
  <2> QED BY <1>a, <1>c, <2>2, PoolKept DEF ConnsInv
<1>1. CASE Start
  <2>1. /\ DOMAIN conns' = {} /\ conns' = [d \in DOMAIN conns' |-> conns'[d]] /\ pool' = pool /\ pc = "idle"
        /\ msgs'.started = msgs.started + 1 /\ msgs.started \in Nat
    BY <1>1, <1>a DEF Start, ConnsInv, CountInv
  <2>2. ASSUME NEW d \in Domain, pool[d] # None
        PROVE  pool[d].transactions \in Nat /\ pool[d].transactions <= msgs.started
    <3>1. pool[d] \in Conn /\ pool[d].transactions + 0 <= msgs.started
      BY <1>a, <2>1, <2>2 DEF ConnsInv, ConnOf
    <3> QED BY <3>1 DEF Conn
  <2>4. pc' \in {"idle", "ready"}
    BY <1>1 DEF Start
  <2>5. ASSUME NEW d \in Domain, pool'[d] # None
        PROVE  pool'[d].transactions + (IF pc' = "idle" THEN 0 ELSE 1) <= msgs'.started
    BY <2>1, <2>2, <2>4, <2>5
  <2>3. RequireTLSHonoured' /\ PoliciesInUse'
    <3>1. meta'.free = {}
      BY <1>1 DEF Start, NoMeta
    <3> QED BY <2>1, <3>1 DEF RequireTLSHonoured, PoliciesInUse
  <2> QED BY <1>a, <2>1, <2>3, <2>5, PoolKept DEF ConnsInv
<1>2. CASE Quarantine \/ BodyQuarantined
  <2>1. MetaKept /\ UNCHANGED <<conns, pool, sending, msgs>> /\ pc # "idle" /\ pc' # "idle" /\ (Sent => Sent')
    BY <1>2, <1>a DEF Quarantine, BodyQuarantined, CountInv, Sent, MetaKept
  <2> QED BY <2>1, <1>a, ConnsSame
<1>3. CASE Body
  BY <1>3, <1>c DEF Body, Sent
<1>4. CASE UNCHANGED vars
  BY <1>4, <1>c DEF vars, Sent
<1>5. CASE \E r \in Rcpt : AddRcptRejected(r)
  BY <1>5, <1>c DEF AddRcptRejected, vars, Sent
<1>6. CASE \E r \in Rcpt : AddRcptConnected(r)
  BY <1>6, <1>a, <1>b DEF AddRcptConnected, AddRcptCalled, bodyVars, CountInv, Sent
<1>7. CASE \E r \in Rcpt : AddRcptCached(r) \/ AddRcptNew(r)
  BY <1>7, <1>a, PoolTaken DEF AddRcptCached, AddRcptNew, AddRcptCalled, bodyVars, CountInv
<1>8. CASE \E l \in lookups : LookupEnds(l)
  BY <1>8, <1>c DEF LookupEnds, callVars, Sent
<1>9. CASE lookupMX \/ NoUsableMX \/ Admit
  BY <1>9, <1>b DEF lookupMX, NoUsableMX, Admit, Refuse, callVars, Sent
<1>10. CASE CheckMX
  <2>1. Same /\ pc = "checkmx" /\ pc' \in {"checkmx", "connect"}
    BY <1>10 DEF CheckMX, callVars
  <2> QED BY <2>1, <1>b DEF Sent
<1>11. CASE Connect
  <2>1. Same /\ pc = "connect" /\ pc' \in {"checkmx", "checkconn"}
    BY <1>11 DEF Connect, callVars
  <2> QED BY <2>1, <1>b DEF Sent
<1>12. CASE CheckConn
  <2>1. Same /\ pc = "checkconn" /\ pc' \in {"checkmx", "admit"}
    BY <1>12 DEF CheckConn, callVars
  <2> QED BY <2>1, <1>b DEF Sent
<1> QED BY <1>1, <1>2, <1>3, <1>4, <1>5, <1>6, <1>7, <1>8, <1>9, <1>10, <1>11, <1>12,
           ConnsMail, ConnsRcpt, ConnsBody, ConnsClose DEF Next

LEMMA PermitStep ==
  ASSUME RemoteInv, [Next]_vars
  PROVE  PermitInv'
<1> USE RemoteAssumption
<1>a. PermitInv /\ CallInv /\ ConnsInv /\ StatusInv
  BY DEF RemoteInv
<1>b. ASSUME UNCHANGED <<dest, lost>>, DOMAIN conns' = DOMAIN conns, pc # "mail", pc' # "mail"  PROVE PermitInv'
  BY <1>a, <1>b DEF PermitInv
<1>1. CASE Start \/ Quarantine \/ BodyQuarantined \/ Body
  BY <1>1, <1>b DEF Start, Quarantine, BodyQuarantined, Body
<1>2. CASE \E r \in Rcpt : AddRcptConnected(r) \/ AddRcptCached(r) \/ AddRcptNew(r)
  BY <1>2, <1>b DEF AddRcptConnected, AddRcptCached, AddRcptNew, AddRcptCalled
<1>3. CASE UNCHANGED vars \/ \E r \in Rcpt : AddRcptRejected(r)
  BY <1>3, <1>a DEF AddRcptRejected, vars, PermitInv
<1>4. CASE \E l \in lookups : LookupEnds(l)
  BY <1>4, <1>a DEF LookupEnds, PermitInv
<1>5. CASE lookupMX \/ NoUsableMX \/ AddRcptDone
  BY <1>5, <1>b DEF lookupMX, NoUsableMX, AddRcptDone, Refuse
<1>6. CASE CheckMX
  <2>1. UNCHANGED <<dest, lost, conns>> /\ pc = "checkmx" /\ pc' \in {"checkmx", "connect"}
    BY <1>6 DEF CheckMX
  <2> QED BY <2>1, <1>b
<1>7. CASE Connect
  <2>1. UNCHANGED <<dest, lost, conns>> /\ pc = "connect" /\ pc' \in {"checkmx", "checkconn"}
    BY <1>7 DEF Connect
  <2> QED BY <2>1, <1>b
<1>8. CASE CheckConn
  <2>1. UNCHANGED <<dest, lost, conns>> /\ pc = "checkconn" /\ pc' \in {"checkmx", "admit"}
    BY <1>8 DEF CheckConn
  <2> QED BY <2>1, <1>b
<1>9. CASE Admit
  <2>1. cur.conn.domain \in Domain
    BY <1>9, <1>a DEF Admit, CallInv, Connecting, ConnOf
  <2>2. CASE Refuse /\ UNCHANGED dest
    BY <1>9, <2>2, <1>b DEF Admit, Refuse
  <2>3. CASE dest' = [dest EXCEPT ![cur.conn.domain] = @ + 1] /\ pc' = "mail" /\ cur' = [cur EXCEPT !.try = None]
    <3>1. cur'.conn = cur.conn /\ pc = "admit" /\ UNCHANGED <<conns, lost>>
      BY <1>9, <2>3, <1>a DEF Admit, CallInv
    <3> QED BY <2>1, <2>3, <3>1, <1>a DEF PermitInv
  <2> QED BY <1>9, <2>2, <2>3 DEF Admit
<1>10. CASE Mail
  <2> DEFINE d == cur.conn.domain
  <2>1. pc = "mail" /\ d \in Domain /\ d \notin DOMAIN conns /\ dest' = dest /\ pc' # "mail"
    BY <1>10, <1>a DEF Mail, Refuse, CallInv, Connecting, ConnOf
  <2>2. CASE UNCHANGED lost /\ DOMAIN conns' = DOMAIN conns \cup {d}
    BY <2>1, <2>2, <1>a DEF PermitInv
  <2>3. CASE lost' = [lost EXCEPT ![d] = @ + 1] /\ UNCHANGED conns
    BY <2>1, <2>3, <1>a DEF PermitInv
  <2> QED BY <1>10, <2>2, <2>3 DEF Mail
<1>11. CASE \E d \in sending : BodyConn(d)
  <2>1. UNCHANGED <<dest, lost>> /\ DOMAIN conns' = DOMAIN conns /\ pc = "body" /\ pc' \in {"body", "sent"}
    BY <1>11 DEF BodyConn
  <2> QED BY <2>1, <1>b
<1>12. CASE Close
  <2>1. /\ dest' = [d \in Domain |-> IF d \in DOMAIN conns THEN dest[d] - 1 ELSE dest[d]]
        /\ pc' = "idle" /\ DOMAIN conns' = {} /\ UNCHANGED lost /\ pc # "mail"
    BY <1>12 DEF Close
  <2> QED BY <2>1, <1>a DEF PermitInv
<1> QED BY <1>1, <1>2, <1>3, <1>4, <1>5, <1>6, <1>7, <1>8, <1>9, <1>10, <1>11, <1>12 DEF Next

-----------------------------------------------------------------------------
(* The attempts at the MXs.                                                *)

\* CheckMX for the next MX: it is passed over, or tried.
LEMMA TryCheckMX ==
  ASSUME FutureInv, TryInv, CallInv, CheckMX
  PROVE  TryInv'
<1> USE RemoteAssumption
<1> DEFINE host == Head(cur.todo)
           sts == IF "mtasts" \in Active THEN fut.sts ELSE NoFuture
           Mx(m, dn) == [sts |-> IF sts = NoFuture THEN "error" ELSE sts.val, match |-> m, dnssec |-> dn]
           Res(m, dn) == P!ApplyCheckMX(Active, Mx(m, dn), LocalPolicy, P!MXNone)
           prepared(mx) == "dane" \in Active /\ P!mtastsCheckMX(mx.sts, mx.match).err = "ok"
           new == Unset(Lookup("tlsa", host))
<1>1. /\ pc = "checkmx" /\ UNCHANGED meta /\ cur.try = None
      /\ "mtasts" \in Active => ~Awaited(fut.sts) /\ fut.sts # NoFuture
  BY DEF CheckMX, callVars, TryInv
<1>2. PICK m \in BOOLEAN, dn \in BOOLEAN :
        /\ IF Res(m, dn).err = "ok"
           THEN cur' = [cur EXCEPT !.try = Attempt(host, Res(m, dn).level, sts)] /\ pc' = "connect"
           ELSE cur' = [cur EXCEPT !.todo = Tail(@)] /\ pc' = "checkmx"
        /\ IF prepared(Mx(m, dn)) THEN fut' = [fut EXCEPT !.tlsa = new] ELSE fut' = fut
  BY DEF CheckMX
<1> DEFINE mx == Mx(m, dn)
           r == Res(m, dn)
<1>3. /\ mx.match = m /\ mx.dnssec = dn
      /\ "mtasts" \in Active => sts = fut.sts /\ sts.val \in StsAnswer /\ mx.sts = sts.val
      /\ "mtasts" \notin Active => sts = NoFuture /\ mx.sts = "error"
  BY <1>1 DEF FutureInv, Awaited
<1>4. LocalPolicy.mx = MinMX /\ LocalPolicy.mx \in Nat
  BY DEF LocalPolicy
<1>5. r = P!ApplyCheckMX(Active, mx, LocalPolicy, P!MXNone) /\ (prepared(Mx(m, dn)) <=> prepared(mx))
  OBVIOUS
<1> HIDE DEF mx, r, Res, Mx
<1>6. /\ r.level \in 0 .. 2
      /\ r.err = "ok" =>
           /\ "mtasts" \in Active => /\ P!mtastsCheckMX(mx.sts, mx.match).err = "ok"
                                     /\ mx.sts = "enforce" => r.level >= 1
           /\ "local_policy" \in Active => r.level >= MinMX
  BY <1>3, <1>4, <1>5, CheckMXPassed
<1>7. "mtasts" \notin Active => P!mtastsCheckMX(mx.sts, mx.match).err = "ok"
  BY <1>3 DEF P!mtastsCheckMX, P!Raise
<1>8. fut'.sts = fut.sts /\ Active' = Active /\ new # NoFuture
  BY <1>1, <1>2 DEF FutureInv, Active, Unset, NoFuture
<1> HIDE DEF new
<1>9. CASE r.err = "ok"
  <2>1. cur'.try = Attempt(host, r.level, sts) /\ pc' = "connect"
    BY <1>2, <1>9 DEF r, CallInv
  <2>2. "dane" \in Active => fut'.tlsa # NoFuture
    <3>1. "dane" \in Active => prepared(mx)
      BY <1>6, <1>7, <1>9
    <3>2. "dane" \in Active => fut' = [fut EXCEPT !.tlsa = new]
      BY <1>2, <1>5, <3>1
    <3> QED BY <3>2, <1>8 DEF FutureInv
  <2> DEFINE t == Attempt(host, r.level, sts)
  <2>3. /\ t = [host |-> t.host, mxLevel |-> t.mxLevel, sts |-> t.sts, handshake |-> t.handshake,
                verified |-> t.verified, tlsLevel |-> t.tlsLevel, tlsa |-> t.tlsa]
        /\ t.mxLevel = r.level /\ t.sts = sts
    BY DEF Attempt
  <2> HIDE DEF t, host, sts
  <2>4. cur'.try = t
    BY <2>1 DEF t
  <2> QED BY <1>1, <1>3, <1>6, <1>8, <1>9, <2>1, <2>2, <2>3, <2>4 DEF TryInv, PolicyEnforced
<1>10. CASE r.err # "ok"
  <2>1. cur'.try = cur.try /\ pc' = "checkmx"
    BY <1>2, <1>10 DEF r, CallInv
  <2> QED BY <1>1, <1>8, <2>1 DEF TryInv, PolicyEnforced
<1> QED BY <1>9, <1>10

\* The connection is made, or the next MX is tried.
LEMMA TryConnect ==
  ASSUME TryInv, CallInv, Connect
  PROVE  TryInv'
<1>1. pc = "connect" /\ UNCHANGED <<meta, fut>> /\ Active' = Active
  BY DEF Connect, callVars, Active
<1>2. PICK r \in ConnectResults :
        IF r.err
        THEN /\ cur' = [cur EXCEPT !.todo = Tail(@), !.try = None,
                                   !.conn.c.cl = IF r.closed THEN "nil" ELSE @]
             /\ pc' = "checkmx"
        ELSE /\ cur' = [cur EXCEPT
                          !.conn.c = S!Connected(@, FALSE, cur.try.host \in SmtpUtf8),
                          !.try.handshake = r.level > P!TLSNone,
                          !.try.verified = r.level = P!TLSAuthenticated,
                          !.try.tlsLevel = r.level]
             /\ pc' = "checkconn"
  BY DEF Connect
<1>3. CASE r.err
  <2>1. cur'.try = None /\ pc' = "checkmx"
    BY <1>2, <1>3 DEF CallInv
  <2> QED BY <1>1, <2>1 DEF TryInv, PolicyEnforced
<1>4. CASE ~r.err
  <2> DEFINE h == r.level > 0
             v == r.level = 2
             t == cur.try
             u == [host |-> t.host, mxLevel |-> t.mxLevel, sts |-> t.sts, handshake |-> h,
                   verified |-> v, tlsLevel |-> r.level, tlsa |-> t.tlsa]
  <2>1. h \in BOOLEAN /\ v \in BOOLEAN /\ r.level \in 0 .. 2 /\ (h <=> r.level > 0) /\ (v <=> r.level = 2)
    BY ConnectType
  <2>2. cur'.try = [t EXCEPT !.handshake = h, !.verified = v, !.tlsLevel = r.level] /\ pc' = "checkconn"
    BY <1>2, <1>4 DEF CallInv, P!TLSNone, P!TLSAuthenticated
  <2> HIDE DEF h, v
  <2>3. t = [host |-> t.host, mxLevel |-> t.mxLevel, sts |-> t.sts, handshake |-> t.handshake,
             verified |-> t.verified, tlsLevel |-> t.tlsLevel, tlsa |-> t.tlsa]
    BY <1>1 DEF TryInv
  <2> HIDE DEF t
  <2>4. /\ u = [host |-> u.host, mxLevel |-> u.mxLevel, sts |-> u.sts, handshake |-> u.handshake,
                verified |-> u.verified, tlsLevel |-> u.tlsLevel, tlsa |-> u.tlsa]
        /\ u.mxLevel = t.mxLevel /\ u.sts = t.sts /\ u.handshake = h /\ u.verified = v /\ u.tlsLevel = r.level
    OBVIOUS
  <2>6. cur'.try = u
    BY <2>2, <2>3
  <2> HIDE DEF u
  <2>5. /\ t.mxLevel \in 0 .. 2
        /\ "mtasts" \in Active => t.sts.val \in StsAnswer /\ (t.sts.val = "enforce" => t.mxLevel >= 1)
        /\ "mtasts" \notin Active => t.sts = NoFuture
        /\ "local_policy" \in Active => t.mxLevel >= MinMX
        /\ "dane" \in Active => fut.tlsa # NoFuture
        /\ "mtasts" \in Active => fut.sts # NoFuture
    BY <1>1 DEF TryInv, t
  <2> QED BY <1>1, <2>1, <2>2, <2>4, <2>5, <2>6 DEF TryInv, PolicyEnforced
<1> QED BY <1>3, <1>4

\* The connection passes, or the next MX is tried.
LEMMA TryCheckConn ==
  ASSUME FutureInv, TryInv, CallInv, CheckConn
  PROVE  TryInv'
<1> USE RemoteAssumption
<1>1. pc = "checkconn" /\ UNCHANGED meta /\ Active' = Active /\ cur.conn \in Conn
  BY DEF CheckConn, callVars, Active, CallInv, Connecting, ConnOf
<1>2. CASE /\ pc' = "checkmx" /\ fut' = fut
           /\ \E c \in S!Close(cur.conn.c) : cur' = [cur EXCEPT !.todo = Tail(@), !.try = None, !.conn.c = c]
  <2>1. cur'.try = None
    BY <1>2 DEF CallInv
  <2> QED BY <1>1, <1>2, <2>1 DEF TryInv, PolicyEnforced
<1>3. ASSUME pc' = "admit", NEW tlsa, NEW level \in 0 .. 2, ConnPassed(cur.try, tlsa, level)  PROVE TryInv'
  <2> DEFINE t == cur.try
             u == [t EXCEPT !.tlsa = tlsa]
             c == [cur.conn EXCEPT !.mxLevel = t.mxLevel, !.tlsLevel = level, !.checked = Active]
  <2>1. cur'.try = u /\ cur'.conn = c
    BY <1>3 DEF CallInv, ConnPassed
  <2>2. c.mxLevel = t.mxLevel /\ c.tlsLevel = level /\ c.checked = Active
    BY <1>1 DEF Conn
  <2>3. u.sts = t.sts /\ u.handshake = t.handshake /\ u.verified = t.verified /\ u.tlsa = tlsa
    BY <1>1 DEF TryInv
  <2> HIDE DEF u, c
  <2>4. PolicyEnforced'
    BY <1>1, <1>3, <2>1, <2>2, <2>3 DEF TryInv, PolicyEnforced, ConnPassed, P!MX_MTASTS, P!TLSAuthenticated, StsAnswer
  <2> QED BY <1>3, <2>4 DEF TryInv
<1> QED BY <1>2, <1>3, CheckConnResult

LEMMA TryStep ==
  ASSUME RemoteInv, [Next]_vars
  PROVE  TryInv'
<1>a. TryInv /\ FutureInv /\ CallInv /\ CountInv
  BY DEF RemoteInv
<1>b. ASSUME pc' \in {"idle", "ready", "mail", "rcpt", "body", "sent"}  PROVE TryInv'
  BY <1>b DEF TryInv, PolicyEnforced
<1>c. ASSUME UNCHANGED <<pc, meta, cur, fut>>  PROVE TryInv'
  BY <1>a, <1>c DEF TryInv, PolicyEnforced, Active
<1>1. CASE Start \/ Quarantine \/ BodyQuarantined \/ Body \/ Mail \/ AddRcptDone \/ Close
  BY <1>1, <1>b DEF Start, Quarantine, BodyQuarantined, Body, Mail, AddRcptDone, Close, Refuse
<1>2. CASE UNCHANGED vars \/ \E r \in Rcpt : AddRcptRejected(r)
  BY <1>2, <1>c DEF AddRcptRejected, vars
<1>3. CASE \E r \in Rcpt : AddRcptConnected(r)
  BY <1>3, <1>b DEF AddRcptConnected
<1>4. CASE \E r \in Rcpt : AddRcptCached(r)
  <2>1. pc' = "admit" /\ cur'.try = None
    BY <1>4 DEF AddRcptCached, NoCall
  <2> QED BY <2>1 DEF TryInv, PolicyEnforced
<1>5. CASE \E r \in Rcpt : AddRcptNew(r)
  <2>1. pc' = "lookup" /\ cur'.try = None /\ Active' = Active
    BY <1>5 DEF AddRcptNew, NoCall, bodyVars, Active
  <2>2. "mtasts" \in Active => fut'.sts # NoFuture
    BY <1>5, <1>a DEF AddRcptNew, FutureInv, Unset, NoFuture
  <2> QED BY <2>1, <2>2 DEF TryInv, PolicyEnforced
<1>6. ASSUME NEW l \in lookups, LookupEnds(l)  PROVE TryInv'
  <2>1. UNCHANGED <<pc, meta, cur>> /\ Active' = Active
    BY <1>6 DEF LookupEnds, callVars, Active
  <2>2. (fut.sts # NoFuture => fut'.sts # NoFuture) /\ (fut.tlsa # NoFuture => fut'.tlsa # NoFuture)
    <3>1. \/ \E v \in StsAnswer \cup TlsaAnswer :
               fut' = IF Awaited(fut[l.kind]) THEN [fut EXCEPT ![l.kind] = [of |-> l, val |-> v]] ELSE fut
          \/ fut' = IF fut.tlsa = Unset(l) THEN [fut EXCEPT !.tlsa.val = "panicked"] ELSE fut
      BY <1>6, <1>a, DiscoverType DEF LookupEnds, LookupAnswers, FutureInv, StsAnswer
    <3>2. ASSUME NEW v \in StsAnswer \cup TlsaAnswer  PROVE [of |-> l, val |-> v] # NoFuture
      BY DEF NoFuture, StsAnswer, TlsaAnswer
    <3>3. CASE \E v \in StsAnswer \cup TlsaAnswer :
                 fut' = IF Awaited(fut[l.kind]) THEN [fut EXCEPT ![l.kind] = [of |-> l, val |-> v]] ELSE fut
      BY <3>2, <3>3, <1>a DEF FutureInv
    <3>4. CASE fut' = IF fut.tlsa = Unset(l) THEN [fut EXCEPT !.tlsa.val = "panicked"] ELSE fut
      <4>1. CASE fut.tlsa = Unset(l)
        <5>1. fut' = [sts |-> fut.sts, tlsa |-> [of |-> l, val |-> "panicked"]]
          BY <3>4, <4>1, <1>a DEF FutureInv, Unset
        <5> QED BY <5>1 DEF NoFuture
      <4>2. CASE fut.tlsa # Unset(l)
        BY <3>4, <4>2
      <4> QED BY <4>1, <4>2
    <3> QED BY <3>1, <3>3, <3>4
  <2> QED BY <1>a, <2>1, <2>2 DEF TryInv, PolicyEnforced
<1>7. CASE lookupMX
  <2>1. CASE Refuse
    BY <2>1, <1>b DEF Refuse
  <2>2. CASE pc' = "checkmx" /\ UNCHANGED fut /\ cur' = [cur EXCEPT !.todo = cur'.todo]
    <3>1. cur'.try = cur.try /\ Active' = Active /\ pc = "lookup"
      BY <1>7, <2>2, <1>a DEF lookupMX, CallInv, callVars, Active
    <3> QED BY <2>2, <3>1, <1>a DEF TryInv, PolicyEnforced
  <2> QED BY <1>7, <2>1, <2>2, <1>a DEF lookupMX, CallInv
<1>8. CASE NoUsableMX
  <2>1. CASE Refuse
    BY <2>1, <1>b DEF Refuse
  <2>2. CASE pc' = "admit" /\ UNCHANGED cur
    BY <1>8, <2>2, <1>a DEF NoUsableMX, TryInv, PolicyEnforced
  <2> QED BY <1>8, <2>1, <2>2 DEF NoUsableMX
<1>9. CASE Admit
  BY <1>9, <1>b DEF Admit, Refuse
<1>10. CASE \E d \in sending : BodyConn(d)
  BY <1>10, <1>b DEF BodyConn
<1> QED BY <1>a, <1>1, <1>2, <1>3, <1>4, <1>5, <1>6, <1>7, <1>8, <1>9, <1>10, TryCheckMX, TryConnect, TryCheckConn DEF Next

-----------------------------------------------------------------------------
(* Statuses.                                                               *)

\* A name that only recipients of d go by is not a name of another domain.
LEMMA OwnedApart ==
  ASSUME NEW d, NEW e, d # e, NEW n \in NamesOf(e)
  PROVE  ~Owned(n, d)
BY DEF NamesOf, Owned

\* One goroutine of the body reports for its connection, and for no other.
LEMMA StatusBody ==
  ASSUME RemoteInv, NEW e \in sending, BodyConn(e)
  PROVE  StatusInv'
<1> USE RemoteAssumption
<1>a. StatusInv /\ ConnsInv
  BY DEF RemoteInv
<1>b. /\ pc = "body" /\ sending' = sending \ {e} /\ UNCHANGED <<meta, recipients>>
      /\ pc' = (IF sending' = {} THEN "sent" ELSE "body")
      /\ e \in DOMAIN conns /\ ~meta.quarantine
  BY <1>a DEF BodyConn, StatusInv
<1> DEFINE names == conns[e].c.rcpts
           mine == {r \in recipients : DomainOf[r] = e}
<1>1. PICK err \in S!DataOutcomes :
        /\ status' = SetStatus(names, err)
        /\ taken' = IF err = "ok" THEN taken \cup mine ELSE taken
        /\ DOMAIN conns' = DOMAIN conns
        /\ \A d \in DOMAIN conns : conns'[d].c.rcpts = conns[d].c.rcpts
  <2>1. CASE status' = SetStatus(names, "temp") /\ UNCHANGED <<conns, taken>>
    BY <2>1, OutcomesType
  <2>2. ASSUME NEW err \in S!DataOutcomes,
               status' = SetStatus(names, err),
               taken' = IF err = "ok" THEN taken \cup mine ELSE taken,
               conns' = [conns EXCEPT ![e].errored = err # "ok", ![e].c.cl = IF err = "ok" THEN @ ELSE "data"]
        PROVE  DOMAIN conns' = DOMAIN conns /\ \A d \in DOMAIN conns : conns'[d].c.rcpts = conns[d].c.rcpts
    <3>1. conns[e] \in Conn /\ conns[e].c \in Session
      BY <1>a, <1>b DEF ConnsInv, ConnOf, Conn
    <3>2. DOMAIN conns' = DOMAIN conns /\ \A d \in DOMAIN conns \ {e} : conns'[d] = conns[d]
      BY <2>2, <1>b
    <3>3. conns'[e].c = [conns[e].c EXCEPT !.cl = IF err = "ok" THEN @ ELSE "data"]
      BY <2>2, <1>b, <3>1 DEF Conn
    <3>4. conns'[e].c.rcpts = conns[e].c.rcpts
      BY <3>1, <3>3 DEF Session
    <3> QED BY <3>2, <3>4
  <2> QED BY <2>1, <2>2 DEF BodyConn
<1>2. names \subseteq NamesOf(e) /\ NamesOf(e) \subseteq Name
  BY <1>a, <1>b DEF ConnsInv, ConnOf, NamesOf
<1>3. Unreported(e)
  BY <1>a, <1>b DEF StatusInv, Sent
<1> HIDE DEF names
<1>4. /\ DOMAIN status' = names \cup DOMAIN status /\ status' = [n \in DOMAIN status' |-> status'[n]]
      /\ \A n \in names : status'[n] = err
      /\ \A n \in DOMAIN status \ names : status'[n] = status[n]
  BY <1>1 DEF SetStatus
<1>5. Reported(e, err)'
  <2>1. ASSUME NEW n \in NamesOf(e), Owned(n, e)
        PROVE  /\ n \in conns'[e].c.rcpts => n \in DOMAIN status'
               /\ n \in DOMAIN status' => status'[n] = err
    BY <2>1, <1>1, <1>3, <1>4, <1>b DEF Unreported, names
  <2>2. ASSUME NEW r \in recipients', DomainOf[r] = e
        PROVE  r \in taken' <=> err = "ok"
    BY <2>2, <1>1, <1>3, <1>b DEF Unreported
  <2> QED BY <2>1, <2>2 DEF Reported
<1>6. ASSUME NEW d \in DOMAIN conns, d # e, d \in sending  PROVE Unreported(d)'
  <2>1. Unreported(d)
    BY <1>6, <1>a, <1>b DEF StatusInv, Sent
  <2>2. \A n \in NamesOf(d) : Owned(n, d) => n \notin DOMAIN status'
    BY <1>2, <1>4, <1>6, <2>1, OwnedApart DEF Unreported
  <2>3. \A r \in taken' : DomainOf[r] # d
    BY <1>1, <1>6, <2>1 DEF Unreported
  <2> QED BY <2>2, <2>3 DEF Unreported
<1>7. ASSUME NEW d \in DOMAIN conns, d # e, d \notin sending  PROVE \E x \in S!DataOutcomes : Reported(d, x)'
  <2>1. PICK x \in S!DataOutcomes : Reported(d, x)
    BY <1>7, <1>a, <1>b DEF StatusInv, Sent
  <2>2. ASSUME NEW n \in NamesOf(d), Owned(n, d)
        PROVE  /\ n \in conns'[d].c.rcpts => n \in DOMAIN status'
               /\ n \in DOMAIN status' => status'[n] = x
    <3>1. n \notin names
      BY <1>2, <1>7, <2>2, OwnedApart
    <3> QED BY <1>1, <1>4, <1>7, <2>1, <2>2, <3>1 DEF Reported
  <2>3. ASSUME NEW r \in recipients', DomainOf[r] = d
        PROVE  r \in taken' <=> x = "ok"
    BY <1>1, <1>7, <1>b, <2>1, <2>3 DEF Reported
  <2> QED BY <2>2, <2>3 DEF Reported
<1>8. \A d \in DOMAIN conns' :
        IF d \in sending' THEN Unreported(d)' ELSE \E x \in S!DataOutcomes : Reported(d, x)'
  BY <1>1, <1>5, <1>6, <1>7, <1>b
<1>9. /\ recipients' \subseteq Rcpt /\ taken' \subseteq recipients' /\ sending' \subseteq DOMAIN conns'
      /\ DOMAIN status' \subseteq Name
      /\ pc' # "body" => sending' = {}
      /\ Sent' /\ pc' # "idle" /\ ~meta'.quarantine
  BY <1>1, <1>2, <1>4, <1>a, <1>b DEF StatusInv, Sent
<1>10. \A r \in recipients' : DomainOf[r] \in DOMAIN conns' /\ {r, Ascii[r]} \cap conns'[DomainOf[r]].c.rcpts # {}
  BY <1>1, <1>a, <1>b DEF StatusInv
<1> QED BY <1>4, <1>8, <1>9, <1>10 DEF StatusInv

\* RCPT accepted: the recipient goes by one of its names on its connection.
LEMMA StatusRcpt ==
  ASSUME RemoteInv, AddRcptDone
  PROVE  StatusInv'
<1> USE RemoteAssumption
<1>a. StatusInv /\ ConnsInv /\ CallInv
  BY DEF RemoteInv
<1>b. UNCHANGED <<meta, sending, status, taken>> /\ pc = "rcpt" /\ pc' = "ready"
  BY DEF AddRcptDone, Refuse
<1>1. CASE UNCHANGED <<conns, recipients>>
  BY <1>1, <1>a, <1>b DEF StatusInv, Sent
<1> DEFINE r == cur.rcpt
           e == DomainOf[r]
           n == S!Form(conns[e].c, r, Ascii)
<1>2. CASE conns' = [conns EXCEPT ![e].c = S!RcptGiven(@, r, Ascii)] /\ recipients' = recipients \cup {r}
  <2>1. r \in Rcpt /\ e \in DOMAIN conns /\ conns[e] \in Conn /\ conns[e].c \in Session
    BY <1>a, <1>b DEF CallInv, ConnsInv, ConnOf, Conn
  <2>2. n \in {r, Ascii[r]}
    BY DEF S!Form
  <2>3. conns'[e].c = S!RcptGiven(conns[e].c, r, Ascii)
    BY <1>2, <2>1 DEF Conn
  <2>4. conns'[e].c.rcpts = conns[e].c.rcpts \cup {n}
    BY <2>1, <2>3 DEF S!RcptGiven, Session
  <2>5. DOMAIN conns' = DOMAIN conns /\ \A d \in DOMAIN conns \ {e} : conns'[d] = conns[d]
    BY <1>2, <2>1
  <2> HIDE DEF n
  <2>6. \A s \in recipients' : DomainOf[s] \in DOMAIN conns' /\ {s, Ascii[s]} \cap conns'[DomainOf[s]].c.rcpts # {}
    <3>1. ASSUME NEW s \in recipients
          PROVE  DomainOf[s] \in DOMAIN conns' /\ {s, Ascii[s]} \cap conns'[DomainOf[s]].c.rcpts # {}
      <4>1. DomainOf[s] \in DOMAIN conns /\ {s, Ascii[s]} \cap conns[DomainOf[s]].c.rcpts # {}
        BY <1>a, <3>1 DEF StatusInv
      <4>2. conns[DomainOf[s]].c.rcpts \subseteq conns'[DomainOf[s]].c.rcpts
        BY <2>4, <2>5, <4>1
      <4> QED BY <4>1, <4>2, <2>5
    <3>2. e \in DOMAIN conns' /\ {r, Ascii[r]} \cap conns'[e].c.rcpts # {}
      BY <2>1, <2>2, <2>4, <2>5
    <3> QED BY <1>2, <3>1, <3>2
  <2>7. recipients' \subseteq Rcpt /\ taken' \subseteq recipients' /\ sending' \subseteq DOMAIN conns'
    BY <1>2, <1>a, <1>b, <2>1, <2>5 DEF StatusInv
  <2> QED BY <1>a, <1>b, <2>6, <2>7 DEF StatusInv, Sent
<1> QED BY <1>1, <1>2 DEF AddRcptDone

LEMMA StatusStep ==
  ASSUME RemoteInv, [Next]_vars
  PROVE  StatusInv'
<1> USE RemoteAssumption
<1>a. StatusInv /\ ConnsInv /\ CallInv /\ CountInv
  BY DEF RemoteInv
<1> DEFINE Same == UNCHANGED <<conns, recipients, sending, status, taken>>
<1>b. ASSUME Same, ~Sent, ~Sent', pc' = "idle" => pc = "idle"  PROVE StatusInv'
  BY <1>a, <1>b DEF StatusInv, Sent
<1>1. CASE Start \/ Quarantine
  BY <1>1, <1>b DEF Start, Quarantine, Sent
<1>2. CASE UNCHANGED vars \/ \E r \in Rcpt : AddRcptRejected(r)
  BY <1>2, <1>a DEF vars, AddRcptRejected, StatusInv, Sent, Reported, Unreported
<1>3. CASE \E r \in Rcpt : AddRcptConnected(r) \/ AddRcptCached(r) \/ AddRcptNew(r)
  BY <1>3, <1>b DEF AddRcptConnected, AddRcptCached, AddRcptNew, AddRcptCalled, bodyVars, Sent
<1>4. CASE \E l \in lookups : LookupEnds(l)
  BY <1>4, <1>a DEF LookupEnds, callVars, StatusInv, Sent, Reported, Unreported
<1>5. CASE lookupMX \/ NoUsableMX \/ Admit
  BY <1>5, <1>b DEF lookupMX, NoUsableMX, Admit, Refuse, callVars, Sent
<1>6. CASE CheckMX
  <2>1. Same /\ pc = "checkmx" /\ pc' \in {"checkmx", "connect"}
    BY <1>6 DEF CheckMX, callVars
  <2> QED BY <2>1, <1>b DEF Sent
<1>7. CASE Connect
  <2>1. Same /\ pc = "connect" /\ pc' \in {"checkmx", "checkconn"}
    BY <1>7 DEF Connect, callVars
  <2> QED BY <2>1, <1>b DEF Sent
<1>8. CASE CheckConn
  <2>1. Same /\ pc = "checkconn" /\ pc' \in {"checkmx", "admit"}
    BY <1>8 DEF CheckConn, callVars
  <2> QED BY <2>1, <1>b DEF Sent
<1>9. CASE Mail
  <2>1. UNCHANGED <<recipients, sending, status, taken>> /\ pc = "mail" /\ pc' \in {"rcpt", "ready"}
    BY <1>9 DEF Mail, Refuse
  <2>2. DOMAIN conns \subseteq DOMAIN conns' /\ \A d \in DOMAIN conns : conns'[d] = conns[d]
    BY <1>9, <1>a DEF Mail, CallInv, Connecting, ConnOf
  <2>3. \A r \in recipients : DomainOf[r] \in DOMAIN conns' /\ {r, Ascii[r]} \cap conns'[DomainOf[r]].c.rcpts # {}
    BY <1>a, <2>2 DEF StatusInv
  <2> QED BY <1>a, <2>1, <2>2, <2>3 DEF StatusInv, Sent
<1>10. CASE BodyQuarantined
  <2>1. /\ UNCHANGED <<meta, conns, recipients, sending, taken>> /\ pc = "ready" /\ pc' = "sent" /\ meta.quarantine
        /\ status' = SetStatus(recipients, "perm")
    BY <1>10 DEF BodyQuarantined
  <2>2. /\ DOMAIN status' = recipients /\ status' = [n \in DOMAIN status' |-> status'[n]]
        /\ \A r \in recipients : status'[r] = "perm"
    BY <1>a, <2>1 DEF StatusInv, Sent, SetStatus
  <2> QED BY <1>a, <2>1, <2>2 DEF StatusInv, Sent, Name
<1>11. CASE Body
  <2>1. /\ UNCHANGED <<meta, conns, recipients, status, taken>> /\ pc = "ready" /\ pc' = "body" /\ ~meta.quarantine
        /\ sending' = DOMAIN conns
    BY <1>11 DEF Body
  <2>2. \A d \in DOMAIN conns' : d \in sending' /\ Unreported(d)'
    BY <1>a, <2>1 DEF StatusInv, Sent, Unreported
  <2> QED BY <1>a, <2>1, <2>2 DEF StatusInv, Sent
<1>12. CASE Close
  <2>1. /\ recipients' = {} /\ status' = <<>> /\ taken' = {} /\ pc' = "idle" /\ sending' = sending
        /\ pc \in {"ready", "sent"}
    BY <1>12 DEF Close
  <2>2. DOMAIN status' = {} /\ status' = [n \in DOMAIN status' |-> status'[n]] /\ sending = {}
    BY <1>a, <2>1 DEF StatusInv
  <2> QED BY <2>1, <2>2 DEF StatusInv, Sent
<1> QED BY <1>1, <1>2, <1>3, <1>4, <1>5, <1>6, <1>7, <1>8, <1>9, <1>10, <1>11, <1>12, StatusBody, StatusRcpt DEF Next

-----------------------------------------------------------------------------
(* The relay target.                                                       *)

\* Between deliveries: a connection that is not open, and nothing else.
LEMMA RelayIdle ==
  ASSUME NEW c \in RelaySession, c.cl # "open", NEW lmtp \in BOOLEAN, NEW n \in Nat,
         NEW answer \in {"none", "refused", "ok", "close_failed"},
         rel' = [NoRelay EXCEPT !.n = n, !.answer = answer, !.conn = c, !.lmtp = lmtp]
  PROVE  RelayInv'
<1> USE RelayAssumption
<1> DEFINE z == [pc |-> "idle", conn |-> c, lmtp |-> lmtp, starttls |-> FALSE, sasl |-> "off", ep |-> 0, link |-> "none",
                 rcpts |-> <<>>, replies |-> 0, status |-> {}, took |-> {}, answer |-> answer, n |-> n]
<1>1. rel' = z
  BY DEF NoRelay
<1>2. z \in RelayRec
  BY DEF RelayRec, SaslKinds
<1>3. /\ z.pc = "idle" /\ z.rcpts = <<>> /\ z.replies = 0 /\ z.took = {} /\ z.status = {} /\ z.conn = c
  OBVIOUS
<1>4. DOMAIN z.rcpts = {} /\ Len(z.rcpts) = 0
  OBVIOUS
<1> HIDE DEF z
<1>5. RelaySecured' /\ RepliesInv' /\ AnswerInv'
  BY <1>1, <1>3 DEF RepliesInv, AnswerInv, RelaySecured
<1>6. rel' \in RelayRec /\ DOMAIN rel'.rcpts = {} /\ rel'.replies <= Len(rel'.rcpts)
  <2>1. rel' \in RelayRec
    BY <1>1, <1>2
  <2>2. rel'.rcpts = <<>> /\ rel'.replies = 0
    BY <1>1, <1>3
  <2> QED BY <2>1, <2>2
<1>7. rel'.pc = "idle" /\ rel'.took = {} /\ rel'.status = {} /\ rel'.replies = 0 /\ rel'.conn.cl # "open"
  BY <1>1, <1>3
<1> QED BY <1>5, <1>6, <1>7 DEF RelayInv

\* Close gives a session that is not open.
LEMMA RelayCloses ==
  ASSUME NEW c \in RelaySession, NEW x \in C!Close(c)
  PROVE  x \in RelaySession /\ x.cl # "open"
BY DEF C!Close, RelaySession

LEMMA RelayEnded ==
  ASSUME rel \in RelayRec, NEW c \in RelaySession, c.cl # "open",
         NEW answer \in {"refused", "ok", "close_failed"}, Ended(answer, c)
  PROVE  RelayInv'
<1>1. rel.n \in Nat /\ rel.lmtp \in BOOLEAN
  BY DEF RelayRec
<1> QED BY <1>1, RelayIdle DEF Ended

\* smtpToLMTPData answers with the class of an error, or success.
LEMMA LMTPAnswerType ==
  ASSUME NEW R, NEW st \in [R -> C!DataOutcomes]
  PROVE  C!smtpToLMTPData(st) \in {"ok", "temp", "perm"}
<1> DEFINE failed == {r \in DOMAIN st : st[r] # "ok"}
<1>1. failed # {} => (CHOOSE r \in failed : TRUE) \in R
  OBVIOUS
<1> HIDE DEF failed
<1>2. /\ C!smtpToLMTPData(st) \in {"ok", "temp", st[CHOOSE r \in failed : TRUE]}
      /\ failed = {} => C!smtpToLMTPData(st) = "ok"
  BY DEF C!smtpToLMTPData, failed
<1> QED BY <1>1, <1>2, OutcomesType

LEMMA LMTPOk ==
  ASSUME NEW R, NEW st \in [R -> C!DataOutcomes], C!smtpToLMTPData(st) = "ok"
  PROVE  \A r \in R : st[r] = "ok"
<1> DEFINE failed == {r \in DOMAIN st : st[r] # "ok"}
<1>1. failed # {} => st[CHOOSE r \in failed : TRUE] # "ok"
  OBVIOUS
<1> HIDE DEF failed
<1>2. failed # {} => C!smtpToLMTPData(st) \in {"temp", st[CHOOSE r \in failed : TRUE]}
  BY DEF C!smtpToLMTPData, failed
<1>3. failed = {}
  BY <1>1, <1>2
<1> QED BY <1>3 DEF failed

\* The last place where a name was sent.
LEMMA LastPlace ==
  ASSUME NEW m \in Nat, NEW I \in SUBSET (1 .. m), I # {}
  PROVE  \E i \in I : \A j \in I : j <= i
<1> DEFINE T == {m - i : i \in I}
<1>1. T \subseteq Nat /\ T # {}
  <2>1. \A i \in I : i \in Nat /\ m - i \in Nat
    OBVIOUS
  <2>2. PICK i \in I : TRUE
    OBVIOUS
  <2>3. m - i \in T
    BY <2>2
  <2>4. \A t \in T : t \in Nat
    BY <2>1
  <2> QED BY <2>3, <2>4
<1>2. PICK t \in T : \A u \in T : ~(<<u, t>> \in OpToRel(<, Nat))
  BY <1>1, NatLessThanWellFounded, WFMin
<1>3. PICK i \in I : t = m - i
  OBVIOUS
<1>4. ASSUME NEW j \in I  PROVE j <= i
  <2>1. m - j \in T /\ m - j \in Nat /\ t \in Nat
    BY <1>1
  <2>2. ~(m - j < t)
    BY <1>2, <2>1 DEF OpToRel
  <2> QED BY <1>3, <2>1, <2>2
<1> QED BY <1>4

\* Body of target.lmtp: the answer is success only if every name was taken once.
LEMMA LMTPAnswer ==
  ASSUME NEW m \in Nat, NEW st \in [1 .. m -> C!DataOutcomes]
  PROVE  /\ C!smtpToLMTPData(ByName(st)) \in {"ok", "temp", "perm"}
         /\ C!smtpToLMTPData(ByName(st)) = "ok" =>
              \A i \in 1 .. m : \E j \in {k \in DOMAIN st : st[k] = "ok"} : SentAs(j) = SentAs(i)
<1> DEFINE N == {SentAs(i) : i \in DOMAIN st}
           last(n) == CHOOSE i \in DOMAIN st : SentAs(i) = n /\ \A j \in DOMAIN st : SentAs(j) = n => j <= i
           b == ByName(st)
<1>1. ASSUME NEW n \in N  PROVE last(n) \in DOMAIN st /\ SentAs(last(n)) = n
  <2> DEFINE I == {i \in 1 .. m : SentAs(i) = n}
  <2>1. I \in SUBSET (1 .. m) /\ I # {}
    OBVIOUS
  <2>2. \E i \in I : \A j \in I : j <= i
    BY <2>1, LastPlace
  <2>3. \E i \in DOMAIN st : SentAs(i) = n /\ \A j \in DOMAIN st : SentAs(j) = n => j <= i
    BY <2>2
  <2> QED BY <2>3
<1>2. b = [n \in N |-> st[last(n)]]
  BY DEF ByName
<1>3. b \in [N -> C!DataOutcomes]
  BY <1>1, <1>2
<1>4. C!smtpToLMTPData(b) \in {"ok", "temp", "perm"}
  BY <1>3, LMTPAnswerType
<1>5. ASSUME C!smtpToLMTPData(b) = "ok"  PROVE \A n \in N : b[n] = "ok"
  BY <1>3, <1>5, LMTPOk
<1>6. ASSUME C!smtpToLMTPData(b) = "ok", NEW i \in 1 .. m
      PROVE  \E j \in {k \in DOMAIN st : st[k] = "ok"} : SentAs(j) = SentAs(i)
  <2>1. SentAs(i) \in N
    OBVIOUS
  <2>2. b[SentAs(i)] = "ok" /\ b[SentAs(i)] = st[last(SentAs(i))]
    BY <1>2, <1>5, <1>6, <2>1
  <2>3. last(SentAs(i)) \in DOMAIN st /\ SentAs(last(SentAs(i))) = SentAs(i)
    BY <1>1, <2>1
  <2> QED BY <2>2, <2>3
<1> QED BY <1>4, <1>6

LEMMA RelayStep ==
  ASSUME RelayInv, RelayNext
  PROVE  RelayInv'
<1> USE RelayAssumption
<1>a. rel \in RelayRec /\ rel.conn \in RelaySession /\ rel.rcpts \in Seq(RelayRcpt)
  BY DEF RelayInv, RelayRec
<1>1. CASE RelayStart
  <2>1. PICK l \in BOOLEAN, st \in BOOLEAN, a \in SaslKinds :
          rel' = [NoRelay EXCEPT !.pc = "connect", !.ep = 1, !.lmtp = l, !.starttls = st, !.sasl = a, !.n = rel.n + 1]
    BY <1>1 DEF RelayStart
  <2> DEFINE z == [pc |-> "connect", conn |-> C!New, lmtp |-> l, starttls |-> st, sasl |-> a, ep |-> 1, link |-> "none",
                   rcpts |-> <<>>, replies |-> 0, status |-> {}, took |-> {}, answer |-> "none", n |-> rel.n + 1]
  <2>2. rel' = z
    BY <2>1 DEF NoRelay
  <2>3. C!New \in RelaySession /\ C!New.cl = "nil"
    BY DEF C!New, RelaySession
  <2>4. z \in RelayRec
    BY <1>a, <2>3 DEF RelayRec
  <2>5. /\ z.pc = "connect" /\ z.rcpts = <<>> /\ z.replies = 0 /\ z.took = {} /\ z.status = {} /\ z.conn = C!New
        /\ z.ep = 1
    OBVIOUS
  <2>6. DOMAIN z.rcpts = {} /\ Len(z.rcpts) = 0
    OBVIOUS
  <2> HIDE DEF z
  <2> QED BY <2>2, <2>3, <2>4, <2>5, <2>6 DEF RelayInv, RepliesInv, AnswerInv, RelaySecured
<1>2. CASE relayConnect
  <2>1. PICK o \in C!ConnectOutcomes(rel.starttls), utf8 \in BOOLEAN :
          IF o \in {"plain", "tls"}
          THEN rel' = [rel EXCEPT !.pc = "auth", !.link = o, !.conn = C!Connected(@, rel.lmtp, utf8)]
          ELSE IF rel.ep = Endpoints THEN Ended("refused", rel.conn) ELSE rel' = [rel EXCEPT !.ep = @ + 1]
    BY <1>2 DEF relayConnect
  <2>2. rel.pc = "connect" /\ rel.conn.cl # "open" /\ rel.lmtp \in BOOLEAN /\ rel.ep \in 1 .. Endpoints
    BY <1>2, <1>a DEF relayConnect, At, RelayInv, RelayRec
  <2>3. CASE o \in {"plain", "tls"}
    <3>1. rel.starttls => o = "tls"
      BY <2>3 DEF C!ConnectOutcomes, C!attemptConnect
    <3>2. C!Connected(rel.conn, rel.lmtp, utf8) \in RelaySession
      BY <1>a, <2>2 DEF C!Connected, RelaySession
    <3> DEFINE x == C!Connected(rel.conn, rel.lmtp, utf8)
    <3>4. rel' = [rel EXCEPT !.pc = "auth", !.link = o, !.conn = x]
      BY <2>1, <2>3
    <3> HIDE DEF x
    <3>3. /\ rel' \in RelayRec /\ rel'.pc = "auth" /\ rel'.link = o /\ rel'.starttls = rel.starttls
          /\ rel'.rcpts = rel.rcpts /\ rel'.replies = rel.replies /\ rel'.took = rel.took /\ rel'.status = rel.status
      <4>1. x \in RelaySession
        BY <3>2 DEF x
      <4> QED BY <1>a, <2>3, <3>4, <4>1 DEF RelayRec
    <3> QED BY <2>2, <3>1, <3>3 DEF RelayInv, RepliesInv, AnswerInv, RelaySecured
  <2>4. CASE o \notin {"plain", "tls"} /\ rel.ep = Endpoints
    BY <1>a, <2>1, <2>2, <2>4, RelayEnded
  <2>5. CASE o \notin {"plain", "tls"} /\ rel.ep # Endpoints
    <3>1. /\ rel' \in RelayRec /\ rel'.pc = "connect" /\ rel'.conn = rel.conn /\ rel'.ep >= 1
          /\ rel'.rcpts = rel.rcpts /\ rel'.replies = rel.replies /\ rel'.took = rel.took /\ rel'.status = rel.status
      BY <1>a, <2>1, <2>2, <2>5 DEF RelayRec
    <3> QED BY <2>2, <3>1 DEF RelayInv, RepliesInv, AnswerInv, RelaySecured
  <2> QED BY <2>3, <2>4, <2>5
<1>b. ASSUME Refused(rel.conn)  PROVE RelayInv'
  BY <1>a, <1>b, RelayCloses, RelayEnded DEF Refused
<1>3. CASE relayAuth \/ relayMail
  <2>1. ASSUME NEW p \in {"mail", "ready"}, rel' = [rel EXCEPT !.pc = p], rel.pc \in {"auth", "mail"}  PROVE RelayInv'
    <3>1. /\ rel' \in RelayRec /\ rel'.pc = p /\ rel'.conn = rel.conn /\ rel'.link = rel.link /\ rel'.starttls = rel.starttls
          /\ rel'.rcpts = rel.rcpts /\ rel'.replies = rel.replies /\ rel'.took = rel.took /\ rel'.status = rel.status
      BY <1>a, <2>1 DEF RelayRec
    <3> QED BY <2>1, <3>1 DEF RelayInv, RepliesInv, AnswerInv, RelaySecured
  <2> QED BY <1>3, <1>b, <2>1 DEF relayAuth, relayMail, At
<1>4. ASSUME NEW r \in RelayRcpt, relayAddRcpt(r)  PROVE RelayInv'
  <2>1. CASE UNCHANGED rel
    BY <2>1 DEF RelayInv, RepliesInv, AnswerInv, SentAs, StatusOf, RelaySecured
  <2>2. CASE rel' = [rel EXCEPT !.rcpts = Append(@, r), !.conn = C!RcptGiven(@, r, RelayAscii)]
    <3>1. rel.pc = "ready"
      BY <1>4 DEF relayAddRcpt, At
    <3>2. C!RcptGiven(rel.conn, r, RelayAscii) \in RelaySession
      BY <1>a DEF C!RcptGiven, C!Form, RelaySession, RelayName
    <3> DEFINE x == C!RcptGiven(rel.conn, r, RelayAscii)
               q == Append(rel.rcpts, r)
    <3>6. rel' = [rel EXCEPT !.rcpts = q, !.conn = x] /\ q \in Seq(RelayRcpt)
      BY <1>a, <2>2
    <3> HIDE DEF x, q
    <3>3. /\ rel' \in RelayRec /\ rel'.pc = rel.pc /\ rel'.link = rel.link /\ rel'.starttls = rel.starttls
          /\ rel'.rcpts = Append(rel.rcpts, r) /\ rel'.replies = rel.replies /\ rel'.took = rel.took /\ rel'.status = rel.status
      <4>1. x \in RelaySession
        BY <3>2 DEF x
      <4>2. /\ rel' \in RelayRec /\ rel'.pc = rel.pc /\ rel'.link = rel.link /\ rel'.starttls = rel.starttls
            /\ rel'.rcpts = q /\ rel'.replies = rel.replies /\ rel'.took = rel.took /\ rel'.status = rel.status
        BY <1>a, <3>6, <4>1 DEF RelayRec
      <4> QED BY <4>2 DEF q
    <3>5. Len(rel'.rcpts) = Len(rel.rcpts) + 1 /\ rel.took = {} /\ rel.replies = 0
      BY <1>a, <3>1, <3>3 DEF RelayInv
    <3> QED BY <1>a, <3>1, <3>3, <3>5 DEF RelayInv, RepliesInv, AnswerInv, RelaySecured
  <2> QED BY <1>4, <2>1, <2>2 DEF relayAddRcpt
<1> DEFINE Keeps == /\ rel' \in RelayRec
                    /\ rel'.conn = rel.conn /\ rel'.link = rel.link /\ rel'.starttls = rel.starttls
                    /\ rel'.rcpts = rel.rcpts /\ rel'.replies = rel.replies
<1>5. CASE relayBody
  <2>1. rel.pc = "ready" /\ rel.took = {}
    BY <1>5 DEF relayBody, At, RelayInv
  <2>a. DOMAIN rel.rcpts = 1 .. Len(rel.rcpts) /\ Len(rel.rcpts) \in Nat
    BY <1>a
  <2>2. ASSUME NEW a \in {"ok", "temp", "perm"}, NEW T \in SUBSET DOMAIN rel.rcpts,
               a = "ok" => \A i \in DOMAIN rel.rcpts : \E j \in T : SentAs(j) = SentAs(i),
               rel' = [rel EXCEPT !.pc = "sent", !.answer = a, !.took = T]
        PROVE  RelayInv'
    <3>1. T \subseteq Nat
      BY <2>a
    <3>2. Keeps /\ rel'.pc = "sent" /\ rel'.answer = a /\ rel'.took = T
      BY <1>a, <2>2, <3>1 DEF RelayRec
    <3>3. AnswerInv'
      BY <2>2, <3>2 DEF AnswerInv, SentAs
    <3> QED BY <2>1, <3>2, <3>3 DEF RelayInv, RepliesInv, RelaySecured
  <2>3. CASE rel' = [rel EXCEPT !.pc = "sent", !.answer = "temp"]
    <3>1. Keeps /\ rel'.pc = "sent" /\ rel'.answer = "temp" /\ rel'.took = rel.took
      BY <1>a, <2>3 DEF RelayRec
    <3> QED BY <2>1, <3>1 DEF RelayInv, RepliesInv, AnswerInv, RelaySecured
  <2>4. CASE \E o \in C!DataOutcomes :
               rel' = [rel EXCEPT !.pc = "sent", !.answer = o, !.took = IF o = "ok" THEN DOMAIN rel.rcpts ELSE {}]
    BY <2>2, <2>4, OutcomesType
  <2>5. CASE \E st \in [DOMAIN rel.rcpts -> C!DataOutcomes] :
               rel' = [rel EXCEPT !.pc = "sent", !.answer = C!smtpToLMTPData(ByName(st)), !.took = {i \in DOMAIN st : st[i] = "ok"}]
    <3>1. PICK st \in [DOMAIN rel.rcpts -> C!DataOutcomes] :
            rel' = [rel EXCEPT !.pc = "sent", !.answer = C!smtpToLMTPData(ByName(st)), !.took = {i \in DOMAIN st : st[i] = "ok"}]
      BY <2>5
    <3> DEFINE T == {i \in DOMAIN st : st[i] = "ok"}
    <3>2. T \in SUBSET DOMAIN rel.rcpts
      OBVIOUS
    <3>3. /\ C!smtpToLMTPData(ByName(st)) \in {"ok", "temp", "perm"}
          /\ C!smtpToLMTPData(ByName(st)) = "ok" => \A i \in DOMAIN rel.rcpts : \E j \in T : SentAs(j) = SentAs(i)
      BY <2>a, LMTPAnswer
    <3> HIDE DEF T
    <3>4. rel' = [rel EXCEPT !.pc = "sent", !.answer = C!smtpToLMTPData(ByName(st)), !.took = T]
      BY <3>1 DEF T
    <3> QED BY <2>2, <3>2, <3>3, <3>4
  <2>6. CASE \E e \in C!CommandErrors, replied \in SUBSET (1 .. Len(rel.rcpts) - 1) :
               rel' = [rel EXCEPT !.pc = "sent", !.answer = e, !.took = replied]
    <3>1. PICK e \in C!CommandErrors, replied \in SUBSET (1 .. Len(rel.rcpts) - 1) :
            rel' = [rel EXCEPT !.pc = "sent", !.answer = e, !.took = replied]
      BY <2>6
    <3>2. e \in {"temp", "perm"} /\ replied \in SUBSET DOMAIN rel.rcpts
      BY <2>a, OutcomesType
    <3> QED BY <2>2, <3>1, <3>2
  <2> QED BY <1>5, <2>3, <2>4, <2>5, <2>6 DEF relayBody
<1>6. CASE lmtpBodyOpenFails
  <2>1. {<<r, "temp">> : r \in ToSet(rel.rcpts)} \subseteq RelayName \X {"ok", "temp", "perm"}
    BY <1>a DEF ToSet, RelayName
  <2>2. Keeps /\ rel'.pc = "panicked" /\ rel'.took = rel.took /\ rel.pc = "ready"
    BY <1>6, <1>a, <2>1 DEF lmtpBodyOpenFails, At, RelayRec
  <2> QED BY <2>2 DEF RelayInv, RepliesInv, AnswerInv, RelaySecured
<1>7. CASE lmtpBodyStarts
  <2>1. Keeps /\ rel'.pc = "replies" /\ rel'.took = rel.took /\ rel'.status = rel.status /\ rel.pc = "ready" /\ rel'.answer = "partial"
    BY <1>7, <1>a DEF lmtpBodyStarts, At, RelayRec
  <2>2. rel.took = {} /\ rel.status = {} /\ rel.replies = 0
    BY <2>1 DEF RelayInv
  <2>3. \A i \in DOMAIN rel.rcpts : ~(i <= 0)
    BY <1>a
  <2> QED BY <2>1, <2>2, <2>3 DEF RelayInv, RepliesInv, AnswerInv, RelaySecured
<1>8. CASE lmtpReply
  <2>a. PICK k : k = rel.replies + 1
    OBVIOUS
  <2>c. PICK nm : nm = SentAs(k)
    OBVIOUS
  <2>1. PICK o \in C!DataOutcomes :
          rel' = [rel EXCEPT !.replies = k, !.status = @ \cup {<<nm, o>>}, !.took = IF o = "ok" THEN @ \cup {k} ELSE @]
    BY <1>8, <2>a, <2>c DEF lmtpReply
  <2>2. rel.pc = "replies" /\ k \in DOMAIN rel.rcpts /\ k \in Nat /\ rel.rcpts[k] \in RelayRcpt /\ rel.replies \in Nat
    BY <1>8, <1>a, <2>a DEF lmtpReply, At, RelayRec
  <2>3. nm \in {rel.rcpts[k], RelayAscii[rel.rcpts[k]]} /\ nm \in RelayName /\ o \in {"ok", "temp", "perm"}
    BY <2>2, <2>c, OutcomesType DEF SentAs, C!Form, RelayName
  <2> DEFINE T == IF o = "ok" THEN rel.took \cup {k} ELSE rel.took
             R == rel.status \cup {<<nm, o>>}
  <2>4. /\ rel' \in RelayRec /\ rel'.pc = rel.pc /\ rel'.link = rel.link /\ rel'.starttls = rel.starttls
        /\ rel'.rcpts = rel.rcpts /\ rel'.replies = k /\ rel'.status = R /\ rel'.took = T
        /\ rel'.conn = rel.conn /\ rel'.answer = rel.answer
    <3>1. T \subseteq Nat /\ R \subseteq RelayName \X {"ok", "temp", "perm"}
      BY <1>a, <2>2, <2>3 DEF RelayRec
    <3>2. rel' = [rel EXCEPT !.replies = k, !.status = R, !.took = T]
      BY <2>1
    <3> HIDE DEF T, R
    <3> QED BY <1>a, <2>2, <3>1, <3>2 DEF RelayRec
  <2>5. k \notin rel.took
    BY <2>a, <2>2 DEF RelayInv, RepliesInv
  <2>7. \A i \in DOMAIN rel.rcpts \ {k} : \A st : StatusOf(st, i)' <=> StatusOf(st, i)
    BY <2>4 DEF StatusOf
  <2>8. StatusOf(<<nm, o>>, k)'
    <3>1. k \in rel'.took <=> o = "ok"
      BY <2>4, <2>5
    <3>2. rel'.rcpts[k] = rel.rcpts[k]
      BY <2>4
    <3>3. <<nm, o>>[1] = nm /\ <<nm, o>>[2] = o
      OBVIOUS
    <3> QED BY <2>3, <3>1, <3>2, <3>3 DEF StatusOf
  <2>9. \A st \in rel.status : \E i \in DOMAIN rel.rcpts \ {k} : i <= rel.replies /\ StatusOf(st, i)
    BY <2>a, <2>2 DEF RelayInv, RepliesInv
  <2>10. ASSUME NEW st \in rel'.status  PROVE \E i \in DOMAIN rel'.rcpts : i <= rel'.replies /\ StatusOf(st, i)'
    <3>1. CASE st = <<nm, o>>
      BY <2>2, <2>4, <2>8, <3>1
    <3>2. CASE st \in rel.status
      <4>1. PICK i \in DOMAIN rel.rcpts \ {k} : i <= rel.replies /\ StatusOf(st, i)
        BY <2>9, <3>2
      <4>2. i <= k /\ StatusOf(st, i)'
        BY <1>a, <2>a, <2>2, <2>7, <4>1
      <4> QED BY <2>4, <4>2
    <3> QED BY <2>4, <2>10, <3>1, <3>2
  <2>11. ASSUME NEW i \in DOMAIN rel'.rcpts
         PROVE  IF i <= k THEN \E st \in rel'.status : StatusOf(st, i)' ELSE i \notin rel'.took
    <3>1. CASE i = k
      BY <2>2, <2>4, <2>8, <3>1
    <3>2. CASE i # k /\ i <= rel.replies
      <4>1. PICK st \in rel.status : StatusOf(st, i)
        BY <2>2, <2>4, <3>2 DEF RelayInv, RepliesInv
      <4>2. StatusOf(st, i)' /\ st \in rel'.status
        BY <2>4, <2>7, <3>2, <4>1
      <4> QED BY <1>a, <2>a, <2>2, <2>4, <3>2, <4>2
    <3>3. CASE i # k /\ ~(i <= rel.replies)
      <4>1. i \notin rel.took /\ i \in Nat
        BY <1>a, <2>2, <2>4, <3>3 DEF RelayInv, RepliesInv
      <4> QED BY <2>a, <2>2, <2>4, <3>3, <4>1
    <3> QED BY <3>1, <3>2, <3>3
  <2>12. RepliesInv' /\ AnswerInv'
    BY <2>2, <2>4, <2>10, <2>11 DEF RepliesInv, AnswerInv
  <2>13. rel'.took \subseteq DOMAIN rel'.rcpts /\ rel'.replies <= Len(rel'.rcpts)
    BY <1>a, <2>2, <2>4 DEF RelayInv
  <2> QED BY <2>2, <2>4, <2>12, <2>13 DEF RelayInv, RelaySecured
<1>9. CASE lmtpBreaks
  <2> DEFINE Rest == (rel.replies + 1) .. Len(rel.rcpts)
  <2>1. PICK e \in C!CommandErrors :
          rel' = [rel EXCEPT !.pc = "sent", !.status = @ \cup {<<rel.rcpts[i], e>> : i \in Rest}]
    BY <1>9 DEF lmtpBreaks
  <2>2. rel.pc = "replies" /\ e \in {"temp", "perm"} /\ Rest \subseteq DOMAIN rel.rcpts /\ rel.replies \in Nat
    BY <1>9, <1>a, OutcomesType DEF lmtpBreaks, At, RelayRec
  <2> DEFINE N == {<<rel.rcpts[i], e>> : i \in Rest}
             R == rel.status \cup N
  <2>3. N \subseteq RelayName \X {"ok", "temp", "perm"}
    BY <1>a, <2>2 DEF RelayName
  <2>4. Keeps /\ rel'.pc = "sent" /\ rel'.took = rel.took /\ rel'.status = R /\ rel'.answer = rel.answer
    <3>1. R \subseteq RelayName \X {"ok", "temp", "perm"}
      BY <1>a, <2>3 DEF RelayRec
    <3>2. rel' = [rel EXCEPT !.pc = "sent", !.status = R]
      BY <2>1
    <3> HIDE DEF R
    <3> QED BY <1>a, <3>1, <3>2 DEF RelayRec
  <2>5. \A i, st : StatusOf(st, i)' <=> StatusOf(st, i)
    BY <2>4 DEF StatusOf
  <2>6. ASSUME NEW i \in Rest  PROVE StatusOf(<<rel.rcpts[i], e>>, i) /\ <<rel.rcpts[i], e>> \in rel'.status
    <3>1. i \notin rel.took
      BY <1>a, <2>2, <2>6 DEF RelayInv, RepliesInv
    <3>2. <<rel.rcpts[i], e>> \in N
      OBVIOUS
    <3> QED BY <2>2, <2>4, <3>1, <3>2 DEF StatusOf
  <2>7. ASSUME NEW st \in rel'.status  PROVE \E i \in DOMAIN rel'.rcpts : StatusOf(st, i)'
    <3>1. CASE st \in rel.status
      BY <2>2, <2>4, <2>5, <3>1 DEF RelayInv, RepliesInv
    <3>2. CASE st \in N
      BY <2>2, <2>4, <2>5, <2>6, <3>2
    <3> QED BY <2>4, <2>7, <3>1, <3>2
  <2>8. ASSUME NEW i \in DOMAIN rel'.rcpts  PROVE \E st \in rel'.status : StatusOf(st, i)'
    <3>1. CASE i <= rel.replies
      BY <2>2, <2>4, <2>5, <3>1 DEF RelayInv, RepliesInv
    <3>2. CASE ~(i <= rel.replies)
      <4>1. i \in Rest
        BY <1>a, <2>2, <2>4, <3>2
      <4> QED BY <2>5, <2>6, <4>1
    <3> QED BY <3>1, <3>2
  <2>9. RepliesInv' /\ AnswerInv'
    <3>1. rel'.answer = "partial"
      BY <2>2, <2>4 DEF RelayInv
    <3> QED BY <2>4, <2>7, <2>8, <3>1 DEF RepliesInv, AnswerInv
  <2> QED BY <2>2, <2>4, <2>9 DEF RelayInv, RelaySecured
<1>10. CASE lmtpBodyEnds
  <2>1. Keeps /\ rel'.pc = "sent" /\ rel'.took = rel.took /\ rel'.status = rel.status /\ rel'.answer = rel.answer
        /\ rel.pc = "replies" /\ rel.replies = Len(rel.rcpts)
    BY <1>10, <1>a DEF lmtpBodyEnds, At, RelayRec
  <2>2. rel'.answer = "partial"
    BY <2>1 DEF RelayInv
  <2> QED BY <2>1, <2>2, <1>a DEF RelayInv, RepliesInv, AnswerInv, RelaySecured, StatusOf
<1>11. CASE relayEnds
  BY <1>11, <1>a, RelayCloses, RelayEnded DEF relayEnds
<1> QED BY <1>1, <1>2, <1>3, <1>4, <1>5, <1>6, <1>7, <1>8, <1>9, <1>10, <1>11 DEF RelayNext

-----------------------------------------------------------------------------
(* The invariant holds.                                                    *)

OutboundInv == RemoteInv /\ RelayInv

LEMMA OutboundInitial == OutboundInit => OutboundInv
<1> USE RemoteAssumption, RelayAssumption
<1> SUFFICES ASSUME Init, RelayInit  PROVE RemoteInv /\ RelayInv
  BY DEF OutboundInit, OutboundInv
<1>1. FutureInv
  BY DEF Init, FutureInv, FuturesPending, NoFutures, NoFuture
<1>2. CountInv /\ CallInv
  BY DEF Init, CountInv, NoMeta, CallInv, NoCall, Connecting
<1>3. ConnsInv
  BY DEF Init, ConnsInv, RequireTLSHonoured, PoliciesInUse, NoMeta
<1>4. PermitInv /\ TryInv
  BY DEF Init, PermitInv, TryInv, PolicyEnforced
<1>5. StatusInv
  BY DEF Init, StatusInv, Sent
<1>6. RelayInv
  <2>1. C!New \in RelaySession /\ C!New.cl = "nil"
    BY DEF C!New, RelaySession
  <2>2. rel \in RelayRec
    BY <2>1 DEF RelayInit, NoRelay, RelayRec, SaslKinds
  <2>3. /\ rel.pc = "idle" /\ rel.rcpts = <<>> /\ rel.replies = 0 /\ rel.took = {} /\ rel.status = {} /\ rel.conn = C!New
    BY DEF RelayInit, NoRelay
  <2>4. DOMAIN rel.rcpts = {} /\ Len(rel.rcpts) = 0
    BY <2>3
  <2> QED BY <2>1, <2>2, <2>3, <2>4 DEF RelayInv, RepliesInv, AnswerInv, RelaySecured
<1> QED BY <1>1, <1>2, <1>3, <1>4, <1>5, <1>6 DEF RemoteInv

\* A step of the one target leaves the other alone.
LEMMA OutboundStep == OutboundInv /\ [OutboundNext]_ovars => OutboundInv'
<1> SUFFICES ASSUME RemoteInv, RelayInv, [OutboundNext]_ovars  PROVE RemoteInv' /\ RelayInv'
  BY DEF OutboundInv
<1>1. ASSUME [Next]_vars  PROVE RemoteInv'
  BY <1>1, FutureStep, CountStep, CallStep, ConnsStep, PermitStep, TryStep, StatusStep DEF RemoteInv
<1>2. ASSUME UNCHANGED rel  PROVE RelayInv'
  BY <1>2 DEF RelayInv, RepliesInv, AnswerInv, SentAs, StatusOf, RelaySecured
<1>3. \/ Next /\ UNCHANGED rel
      \/ RelayNext /\ UNCHANGED vars
      \/ UNCHANGED <<vars, rel>>
  BY DEF OutboundNext, ovars
<1> QED BY <1>1, <1>2, <1>3, RelayStep

LEMMA OutboundInvariant == OutboundSpec => []OutboundInv
BY OutboundInitial, OutboundStep, PTL DEF OutboundSpec

-----------------------------------------------------------------------------
(* What it says.                                                           *)

\* Policies, REQUIRETLS and the relay's STARTTLS: for every set of policies and minimal
\* levels, whatever the servers, the resolver and the lookup goroutines do, a connection
\* is admitted only if attemptMX's checks allow it, the ones in use passed all policies
\* apart from those of overrides, and a message that came with REQUIRETLS goes over
\* authenticated connections: all of them in the strict mode, in the relaxed mode those
\* up to the first server without the extension.
THEOREM OutboundSecure == OutboundSpec => []SecurityHonoured
<1>1. OutboundInv => SecurityHonoured
  BY DEF OutboundInv, RemoteInv, ConnsInv, TryInv, RelayInv, SecurityHonoured
<1> QED BY <1>1, OutboundInvariant, PTL

\* One or no element.
LEMMA OneOrNone ==
  ASSUME NEW d, NEW b \in BOOLEAN
  PROVE  Cardinality({c \in {d} : b}) = IF b THEN 1 ELSE 0
<1>1. CASE b
  <2>1. {c \in {d} : b} = {d}
    BY <1>1
  <2> QED BY <1>1, <2>1, FS_Singleton
<1>2. CASE ~b
  <2>1. {c \in {d} : b} = {}
    BY <1>2
  <2> QED BY <1>2, <2>1, FS_EmptySet
<1> QED BY <1>1, <1>2

LEMMA PermitsCounted == RemoteInv => PermitsAccounted
<1> SUFFICES ASSUME RemoteInv  PROVE PermitsAccounted
  OBVIOUS
<1>1. ASSUME NEW d \in Domain
      PROVE  dest[d] = lost[d] + Cardinality({c \in {d} : c \in DOMAIN conns})
                               + Cardinality({c \in {d} : pc = "mail" /\ cur.conn.domain = d})
  <2> DEFINE b1 == d \in DOMAIN conns
             b2 == pc = "mail" /\ cur.conn.domain = d
  <2>1. b1 \in BOOLEAN /\ b2 \in BOOLEAN
    OBVIOUS
  <2>2. dest[d] = lost[d] + (IF b1 THEN 1 ELSE 0) + (IF b2 THEN 1 ELSE 0)
    BY DEF RemoteInv, PermitInv
  <2>3. {c \in {d} : c \in DOMAIN conns} = {c \in {d} : b1}
    OBVIOUS
  <2> HIDE DEF b1, b2
  <2>4. Cardinality({c \in {d} : b1}) = (IF b1 THEN 1 ELSE 0) /\ Cardinality({c \in {d} : b2}) = (IF b2 THEN 1 ELSE 0)
    BY <2>1, OneOrNone
  <2> QED BY <2>2, <2>3, <2>4 DEF b2
<1> QED BY <1>1 DEF PermitsAccounted, RemoteInv, CountInv

LEMMA RemoteTyped == RemoteInv => TypeOK /\ PoolClean
<1> USE RemoteAssumption
<1> SUFFICES ASSUME RemoteInv  PROVE TypeOK /\ PoolClean
  OBVIOUS
<1>1. ASSUME NEW c, NEW d \in Domain, ConnOf(c, d), c.transactions <= msgs.started
      PROVE  ConnOK(c) /\ c.domain = d
  BY <1>1 DEF RemoteInv, CountInv, ConnOf, ConnOK, Conn, Session
<1>2. \A d \in DOMAIN conns : ConnOK(conns[d]) /\ conns[d].domain = d
  BY <1>1 DEF RemoteInv, ConnsInv, CountInv, ConnOf, Conn
<1>3. ASSUME NEW d \in Domain, pool[d] # None
      PROVE  ConnOK(pool[d]) /\ pool[d].domain = d
  <2>1. ConnOf(pool[d], d) /\ pool[d].transactions + (IF pc = "idle" THEN 0 ELSE 1) <= msgs.started
    BY <1>3 DEF RemoteInv, ConnsInv
  <2>2. pool[d].transactions <= msgs.started
    BY <2>1 DEF RemoteInv, CountInv, ConnOf, Conn
  <2> QED BY <1>1, <2>1, <2>2
<1> QED BY <1>2, <1>3 DEF TypeOK, PoolClean, RemoteInv, CountInv, ConnsInv, StatusInv, PermitInv

\* Permits, the pool and the relay's connection: for every set of domains, limit of reuse
\* and number of messages, Commit and Abort give back what the delivery took, and the pool
\* only gets sessions it may hand out again.
THEOREM OutboundReturns == OutboundSpec => []ResourcesReturned
<1>1. RelayInv => RelayTypeOK /\ RelayClosed
  BY DEF RelayInv, RelayRec, RelayTypeOK, RelayClosed, At, ToSet
<1>2. OutboundInv => ResourcesReturned
  BY <1>1, PermitsCounted, RemoteTyped DEF OutboundInv, ResourcesReturned
<1> QED BY <1>2, OutboundInvariant, PTL

LEMMA RemoteTruthful == RemoteInv => StatusTruthful /\ BodyAnswersForAll
<1> USE RemoteAssumption
<1> SUFFICES ASSUME RemoteInv, pc = "sent"  PROVE StatusTruthful /\ BodyAnswersForAll
  BY DEF StatusTruthful, BodyAnswersForAll
<1>1. ASSUME NEW r \in recipients, OwnNames(r)
      PROVE  (r \notin taken) <=> (Failed(r) \/ Failed(Ascii[r]))
  <2>1. CASE meta.quarantine
    BY <2>1 DEF RemoteInv, StatusInv, Failed
  <2>2. CASE ~meta.quarantine
    <3> DEFINE d == DomainOf[r]
    <3>1. r \in Rcpt /\ d \in DOMAIN conns /\ {r, Ascii[r]} \cap conns[d].c.rcpts # {} /\ d \notin sending
      BY DEF RemoteInv, StatusInv
    <3>2. PICK err \in S!DataOutcomes : Reported(d, err)
      BY <2>2, <3>1 DEF RemoteInv, StatusInv, Sent
    <3>3. \A n \in {r, Ascii[r]} : n \in NamesOf(d) /\ Owned(n, d)
      BY <1>1, <3>1 DEF NamesOf, Name, OwnNames
    <3>4. r \in taken <=> err = "ok"
      BY <3>2 DEF Reported
    <3>5. ASSUME NEW n \in {r, Ascii[r]}
          PROVE  /\ n \in conns[d].c.rcpts => n \in DOMAIN status
                 /\ n \in DOMAIN status => status[n] = err
      BY <3>2, <3>3, <3>5 DEF Reported
    <3> QED BY <3>1, <3>4, <3>5 DEF Failed
  <2> QED BY <2>1, <2>2
<1>2. StatusTruthful
  BY <1>1 DEF StatusTruthful
<1> DEFINE bad == {n \in DOMAIN status : status[n] # "ok"}
<1>3. bodyAnswer(status) = IF bad = {} THEN "ok" ELSE IF \E n \in bad : status[n] = "temp" THEN "temp" ELSE "perm"
  BY DEF bodyAnswer
<1>4. bodyAnswer(status) = "ok" => {r \in recipients : OwnNames(r)} \subseteq taken
  <2>1. bodyAnswer(status) = "ok" => bad = {}
    BY <1>3
  <2>2. bad = {} => \A n : ~Failed(n)
    BY DEF Failed
  <2> QED BY <1>1, <2>1, <2>2
<1>5. (\E r \in recipients : r \in DOMAIN status /\ status[r] = "temp") => bodyAnswer(status) = "temp"
  BY <1>3
<1> QED BY <1>2, <1>4, <1>5 DEF BodyAnswersForAll

LEMMA RelayTruthful == RelayInv => RelayStatusTruthful
<1> SUFFICES ASSUME RelayInv, rel.pc = "sent", NEW r \in ToSet(rel.rcpts), ~SharesName(r)
             PROVE  /\ rel.answer = "partial" =>
                         /\ (\E st \in StatusesOf(r) : st[2] # "ok") <=> Places(r) \ rel.took # {}
                         /\ (\E st \in StatusesOf(r) : st[2] = "ok") <=> Places(r) \cap rel.took # {}
                    /\ rel.answer = "ok" => Places(r) \cap rel.took # {}
  BY DEF RelayStatusTruthful, At
<1>1. PICK i \in DOMAIN rel.rcpts : r = rel.rcpts[i]
  BY DEF ToSet
<1>a. ASSUME NEW j \in DOMAIN rel.rcpts, {rel.rcpts[j], RelayAscii[rel.rcpts[j]]} \cap {r, RelayAscii[r]} # {}
      PROVE  j \in Places(r)
  BY <1>a DEF SharesName, Places, ToSet
<1>2. ASSUME rel.answer = "partial"
      PROVE  /\ \A st \in StatusesOf(r) : \E j \in Places(r) : st[2] = "ok" <=> j \in rel.took
             /\ \A j \in Places(r) : \E st \in StatusesOf(r) : st[2] = "ok" <=> j \in rel.took
  <2>1. ASSUME NEW st \in StatusesOf(r)  PROVE \E j \in Places(r) : st[2] = "ok" <=> j \in rel.took
    <3>1. PICK j \in DOMAIN rel.rcpts : StatusOf(st, j)
      BY <1>2 DEF RelayInv, RepliesInv, StatusesOf
    <3>2. st[1] \in {rel.rcpts[j], RelayAscii[rel.rcpts[j]]} /\ st[1] \in {r, RelayAscii[r]}
      BY <3>1 DEF StatusOf, StatusesOf
    <3>3. j \in Places(r)
      BY <3>2, <1>a
    <3> QED BY <3>1, <3>3 DEF StatusOf
  <2>2. ASSUME NEW j \in Places(r)  PROVE \E st \in StatusesOf(r) : st[2] = "ok" <=> j \in rel.took
    <3>1. j \in DOMAIN rel.rcpts /\ rel.rcpts[j] = r
      BY DEF Places
    <3>2. PICK st \in rel.status : StatusOf(st, j)
      BY <1>2, <3>1 DEF RelayInv, RepliesInv
    <3> QED BY <3>1, <3>2 DEF StatusOf, StatusesOf
  <2> QED BY <2>1, <2>2
<1>3. ASSUME rel.answer = "ok"  PROVE Places(r) \cap rel.took # {}
  <2>1. PICK j \in rel.took : SentAs(j) = SentAs(i)
    BY <1>3 DEF RelayInv, AnswerInv
  <2>2. j \in DOMAIN rel.rcpts
    BY DEF RelayInv
  <2>3. SentAs(i) \in {r, RelayAscii[r]} /\ SentAs(j) \in {rel.rcpts[j], RelayAscii[rel.rcpts[j]]}
    BY <1>1 DEF SentAs, C!Form
  <2>4. j \in Places(r)
    BY <1>a, <2>1, <2>2, <2>3
  <2> QED BY <2>1, <2>4
<1> QED BY <1>2, <1>3

\* Statuses: for every set of recipients and domains, a recipient with names of its own is
\* reported as failed exactly if its server did not take the message, however the goroutines
\* of the body interleave and wherever an LMTP session breaks; and Body does not succeed
\* for a message that one of their servers did not take.  At the relay an address may be
\* given several times, and is then reported as each of its copies fared.
THEOREM OutboundTruthful == OutboundSpec => []StatusesTruthful
<1>1. OutboundInv => StatusesTruthful
  BY RemoteTruthful, RelayTruthful DEF OutboundInv, StatusesTruthful
<1> QED BY <1>1, OutboundInvariant, PTL

\* Futures: however late the lookups of earlier domains and MXs end, a future that CheckMX
\* or CheckConn may wait for has its own goroutine running, unless that is a DANE lookup
\* that panicked.
THEOREM OutboundFutures == OutboundSpec => []FuturesPending
<1>1. OutboundInv => FuturesPending
  BY DEF OutboundInv, RemoteInv, FutureInv
<1> QED BY <1>1, OutboundInvariant, PTL
=============================================================================
