---------------------------- MODULE RemoteTarget ----------------------------
(***************************************************************************)
(* internal/target/remote/remote.go and connect.go: delivery of messages   *)
(* to the MXs of the recipients' domains.                                  *)
(*                                                                         *)
(* A delivery keeps one connection per domain.  A connection comes from    *)
(* the pool (ConnPool; here one idle connection per domain) or is made:    *)
(* the policies (MxPolicy) start their lookups in goroutines, the MXs are  *)
(* tried in order, each is checked before and after the connection is      *)
(* made (SmtpConn).  Body sends the message over all connections at once.  *)
(* Close gives permits back and returns usable connections to the pool.    *)
(*                                                                         *)
(* Lookups are goroutines that may end late: a future set by one of them   *)
(* is the one the policy object points to at that time.  A DANE lookup may *)
(* panic; the panic is recovered and the future stays unset.               *)
(***************************************************************************)
EXTENDS Integers, Sequences, FiniteSets, SequencesExt

CONSTANTS
  Rcpt,              \* recipients as the caller writes them
  AsciiName,         \* the ASCII forms of those whose domain is not ASCII
  Ascii,             \* Ascii[r]: the form sent to a server without SMTPUTF8
  DomainOf,          \* DomainOf[r]
  Domain, Host,
  HostsOf,           \* HostsOf[d]: hosts its MX records name
  Pref,              \* Pref[h]
  SmtpUtf8,          \* hosts with the SMTPUTF8 extension
  None,
  Policies,          \* names of the configured mx_auth blocks
  MinTLS, MinMX,     \* local_policy
  ConnReuseLimit, AllowSecOverride, RelaxedREQUIRETLS,
  MaxMsgs,           \* bound: messages
  MaxCalls           \* bound: calls of AddRcpt per message

ASSUME RemoteAssumption ==
  /\ DomainOf \in [Rcpt -> Domain \cup {None}]
  /\ Ascii \in [Rcpt -> Rcpt \cup AsciiName]
  /\ HostsOf \in [Domain -> SUBSET Host] /\ Pref \in [Host -> Nat]
  /\ MinTLS \in 0 .. 2 /\ MinMX \in 0 .. 2
  /\ AllowSecOverride \in BOOLEAN /\ RelaxedREQUIRETLS \in BOOLEAN
  /\ ConnReuseLimit \in Nat /\ MaxMsgs \in Nat /\ MaxCalls \in Nat

P == INSTANCE MxPolicy
S == INSTANCE SmtpConn

VARIABLES
  pc,          \* where the caller of the delivery is
  meta,        \* msgMeta: requireTLS, override, quarantine; ghosts: what the
               \* message asked for, and the domains reached after the flag was cleared
  conns,       \* rd.connections
  recipients,  \* rd.recipients
  cur,         \* the AddRcpt call under way: rcpt, conn (being made), todo
               \* (MXs left), try (what the current attempt established)
  fut,         \* the futures of the policy objects: sts and tlsa
  lookups,     \* lookup goroutines that have not ended
  sending,     \* domains whose body goroutine runs
  status,      \* statuses given to the collector
  taken,       \* recipients whose server took the message
  pool,        \* pool[d]: the idle connection
  dest,        \* dest[d]: destination permits taken
  msgs,        \* messages started, message permits held, calls of AddRcpt
  lost         \* ghost: permits of refused MAIL commands

vars == <<pc, meta, conns, recipients, cur, fut, lookups, sending, status, taken, pool, dest, msgs, lost>>
callVars == <<meta, recipients, sending, status, taken, msgs>>
bodyVars == <<meta, recipients, sending, status, taken>>

LocalPolicy == [tls |-> MinTLS, mx |-> MinMX]
\* A future: the lookup whose answer it has or waits for, and the answer.
NoFuture == [of |-> None, val |-> "nil"]
Unset(l) == [of |-> l, val |-> "unset"]     \* future.New, with the goroutine that is to set it
\* GetContext blocks on it.  "panicked": unset, and its own lookup is gone.
Awaited(f) == f.val \in {"unset", "panicked"}
NullMX == "."
NoCall == [rcpt |-> None, conn |-> None, todo |-> <<>>, try |-> None]
\* What an attempt at one MX established: by CheckMX, by connect and by CheckConn.
Attempt(host, level, sts) ==
  [host |-> host, mxLevel |-> level, sts |-> sts,
   handshake |-> FALSE, verified |-> FALSE, tlsLevel |-> P!TLSNone, tlsa |-> NoFuture]
NoMeta == [requireTLS |-> FALSE, override |-> FALSE, quarantine |-> FALSE, asked |-> FALSE, free |-> {}]
\* Futures nobody reads any more; newConn and attemptMX replace them first.
NoFutures == [sts |-> NoFuture, tlsa |-> NoFuture]
Name == Rcpt \cup AsciiName

\* mxConn: the session, what it was used for and the security established.
\* checked is a ghost: the policies that were applied.
mxConn(d) ==
  [c |-> S!New, domain |-> d, errored |-> FALSE, transactions |-> 0,
   mxLevel |-> P!MXNone, tlsLevel |-> P!TLSNone, checked |-> {}]

\* Policies of this delivery.
Active == IF meta.override /\ AllowSecOverride THEN {} ELSE Policies

Init ==
  /\ pc = "idle" /\ meta = NoMeta
  /\ conns = <<>> /\ recipients = {}
  /\ cur = NoCall
  /\ fut = NoFutures
  /\ lookups = {} /\ sending = {}
  /\ status = <<>> /\ taken = {}
  /\ pool = [d \in Domain |-> None]
  /\ dest = [d \in Domain |-> 0]
  /\ msgs = [started |-> 0, permit |-> 0, calls |-> 0]
  /\ lost = [d \in Domain |-> 0]

-----------------------------------------------------------------------------
(* Start.                                                                   *)

Start ==
  /\ pc = "idle" /\ msgs.started < MaxMsgs
  /\ \E rt, ov \in BOOLEAN : meta' = [NoMeta EXCEPT !.requireTLS = rt, !.override = ov, !.asked = rt]
  /\ \/ /\ pc' = "ready"                        \* limits.TakeMsg granted
        /\ msgs' = [started |-> msgs.started + 1, permit |-> 1, calls |-> 0]
     \/ /\ pc' = "idle"                         \* refused, or a malformed sender
        /\ msgs' = [msgs EXCEPT !.started = @ + 1]
  /\ UNCHANGED <<conns, recipients, cur, fut, lookups, sending, status, taken, pool, dest, lost>>

\* A body check of the pipeline quarantines the message.
Quarantine ==
  /\ pc = "ready" /\ ~meta.quarantine /\ recipients # {}
  /\ meta' = [meta EXCEPT !.quarantine = TRUE]
  /\ UNCHANGED <<pc, conns, recipients, cur, fut, lookups, sending, status, taken, pool, dest, msgs, lost>>

-----------------------------------------------------------------------------
(* AddRcpt and connectionForDomain.                                         *)

\* The call returns an error.
Refuse ==
  /\ pc' = "ready"
  /\ cur' = NoCall
  /\ fut' = NoFutures

\* Addresses AddRcpt itself rejects: quarantine, no domain, an IP literal.
AddRcptRejects(r) == meta.quarantine \/ DomainOf[r] = None

AddRcptRejected(r) ==
  /\ pc = "ready" /\ AddRcptRejects(r)
  /\ UNCHANGED vars

AddRcptCalled(r) ==
  /\ pc = "ready" /\ ~AddRcptRejects(r) /\ msgs.calls < MaxCalls
  /\ msgs' = [msgs EXCEPT !.calls = @ + 1]

\* The delivery already has a connection.
AddRcptConnected(r) ==
  /\ AddRcptCalled(r)
  /\ DomainOf[r] \in DOMAIN conns
  /\ cur' = [NoCall EXCEPT !.rcpt = r]
  /\ pc' = "rcpt"
  /\ UNCHANGED <<bodyVars, conns, fut, lookups, pool, dest, lost>>

\* A usable connection from the pool; not for REQUIRETLS.
AddRcptCached(r) ==
  LET d == DomainOf[r] IN
  /\ AddRcptCalled(r)
  /\ d \notin DOMAIN conns
  /\ pool[d] # None /\ ~meta.requireTLS
  /\ cur' = [NoCall EXCEPT !.rcpt = r, !.conn = pool[d]]
  /\ pool' = [pool EXCEPT ![d] = None]
  /\ pc' = "admit"
  /\ UNCHANGED <<bodyVars, conns, fut, lookups, dest, lost>>

\* The goroutine a policy object starts, told apart by the call of AddRcpt.
Lookup(kind, name) == [kind |-> kind, of |-> name, call |-> msgs.calls]

\* No connection in the pool, an unusable one (the pool closed it), or one
\* that is left alone because of REQUIRETLS: newConn, up to PrepareDomain.
AddRcptNew(r) ==
  LET d == DomainOf[r]
      l == Lookup("sts", d)
  IN
  /\ AddRcptCalled(r)
  /\ d \notin DOMAIN conns
  /\ cur' = [NoCall EXCEPT !.rcpt = r, !.conn = mxConn(d)]
  /\ pool' = [pool EXCEPT ![d] = None]
  /\ IF "mtasts" \in Active
     THEN /\ fut' = [fut EXCEPT !.sts = Unset(l)]
          /\ lookups' = lookups \cup {l}
     ELSE UNCHANGED <<fut, lookups>>
  /\ pc' = "lookup"
  /\ UNCHANGED <<bodyVars, conns, dest, lost>>

LookupAnswers(l) == IF l.kind = "sts" THEN {"error", "testing", "enforce"} ELSE P!DiscoverOutcomes

\* Mutant: a failed lookup does not set the future.
LookupEndsSilently(l) ==
  /\ l \in lookups
  /\ lookups' = lookups \ {l}
  /\ \E v \in LookupAnswers(l) :
       fut' = IF Awaited(fut[l.kind]) /\ v # "error"
              THEN [fut EXCEPT ![l.kind] = [of |-> l, val |-> v]] ELSE fut
  /\ UNCHANGED <<pc, callVars, conns, cur, pool, dest, lost>>

\* A lookup goroutine ends and sets the future its policy object has now.
\* Future.Set on a future that is set only logs.  The panic of a DANE lookup
\* is recovered before anything is set.
LookupEnds(l) ==
  /\ l \in lookups
  /\ lookups' = lookups \ {l}
  /\ \/ \E v \in LookupAnswers(l) :
          fut' = IF Awaited(fut[l.kind]) THEN [fut EXCEPT ![l.kind] = [of |-> l, val |-> v]] ELSE fut
     \/ /\ l.kind = "tlsa"
        /\ fut' = IF fut.tlsa = Unset(l) THEN [fut EXCEPT !.tlsa.val = "panicked"] ELSE fut
  /\ UNCHANGED <<pc, callVars, conns, cur, pool, dest, lost>>

\* Records by preference; none: the domain itself is the host.
MXRecords(d) ==
  IF HostsOf[d] = {} THEN <<d>>
  ELSE SetToSortSeq(HostsOf[d], LAMBDA a, b : Pref[a] < Pref[b])

lookupMX ==
  /\ pc = "lookup"
  /\ \/ /\ cur' = [cur EXCEPT !.todo = MXRecords(cur.conn.domain)]
        /\ pc' = "checkmx" /\ UNCHANGED fut
     \/ /\ cur' = [cur EXCEPT !.todo = <<NullMX>>]
        /\ pc' = "checkmx" /\ UNCHANGED fut
     \/ Refuse
  /\ UNCHANGED <<callVars, conns, lookups, pool, dest, lost>>

-----------------------------------------------------------------------------
(* attemptMX.                                                               *)

\* CheckMX of all policies for the next MX.  PrepareConn of the DANE policy
\* is called once CheckMX of the policies up to it passed.
CheckMX ==
  LET host == Head(cur.todo)
      sts == IF "mtasts" \in Active THEN fut.sts ELSE NoFuture
      l == Lookup("tlsa", host)
      danePrepared(mx) == "dane" \in Active /\ P!mtastsCheckMX(mx.sts, mx.match).err = "ok"
  IN
  /\ pc = "checkmx" /\ cur.todo # <<>> /\ host # NullMX
  /\ "mtasts" \in Active => ~Awaited(fut.sts)
  /\ \E match, dnssec \in BOOLEAN :
       LET mx == [sts |-> IF sts = NoFuture THEN "error" ELSE sts.val, match |-> match, dnssec |-> dnssec]
           r == P!ApplyCheckMX(Active, mx, LocalPolicy, P!MXNone)
       IN  /\ IF r.err = "ok"
              THEN /\ cur' = [cur EXCEPT !.try = Attempt(host, r.level, sts)]
                   /\ pc' = "connect"
              ELSE /\ cur' = [cur EXCEPT !.todo = Tail(@)]
                   /\ pc' = "checkmx"
           /\ IF danePrepared(mx)
              THEN /\ fut' = [fut EXCEPT !.tlsa = Unset(l)]
                   /\ lookups' = lookups \cup {l}
              ELSE UNCHANGED <<fut, lookups>>
  /\ UNCHANGED <<callVars, conns, pool, dest, lost>>

\* connect: up to three attempts, with verification (2), without (1), and
\* without TLS (0).  script[k] is what the server does in attempt k.
Behaviour == {"dial_fails", "no_starttls", "starttls_fails", "verify_error", "tls_error", "ok"}
Attempts(script) ==
  LET Made(level, fails, closed) == [level |-> level, err |-> fails, closed |-> closed]
      plain == Made(P!TLSNone, script[0] = "dial_fails", TRUE)
      Try(k, unverified, level) ==
        CASE script[k] = "dial_fails"     -> Made(P!TLSNone, TRUE, k < 2)
          [] script[k] = "no_starttls"    -> Made(P!TLSNone, FALSE, k < 2)
          [] script[k] = "starttls_fails" -> Made(P!TLSNone, TRUE, TRUE)
          [] script[k] = "ok"             -> Made(level, FALSE, k < 2)
          [] script[k] = "verify_error"   -> unverified
          [] OTHER                        -> plain
  IN  Try(2, Try(1, plain, P!TLSEncrypted), P!TLSAuthenticated)
ConnectResults == {Attempts(s) : s \in [0 .. 2 -> Behaviour]}

Connect ==
  /\ pc = "connect"
  /\ \E r \in ConnectResults :
       IF r.err
       THEN /\ cur' = [cur EXCEPT !.todo = Tail(@), !.try = None,
                                  !.conn.c.cl = IF r.closed THEN "nil" ELSE @]
            /\ pc' = "checkmx"
       ELSE /\ cur' = [cur EXCEPT
                         !.conn.c = S!Connected(@, FALSE, cur.try.host \in SmtpUtf8),
                         !.try.handshake = r.level > P!TLSNone,
                         !.try.verified = r.level = P!TLSAuthenticated,
                         !.try.tlsLevel = r.level]
            /\ pc' = "checkconn"
  /\ UNCHANGED <<callVars, conns, fut, lookups, pool, dest, lost>>

\* CheckConn of all policies; a rejected connection is closed.
CheckConn ==
  LET stsVal == IF cur.try.sts = NoFuture THEN "error" ELSE cur.try.sts.val
      daneReached == P!mtastsCheckConn(stsVal, cur.try).err = "ok"
      tlsa == IF "dane" \in Active /\ daneReached THEN fut.tlsa ELSE NoFuture
  IN
  /\ pc = "checkconn"
  /\ ~Awaited(tlsa)
  /\ \E match \in BOOLEAN :
       LET tls == [handshake |-> cur.try.handshake, verified |-> cur.try.verified, sts |-> stsVal,
                   tlsa |-> IF tlsa = NoFuture THEN "none" ELSE tlsa.val, tlsaMatch |-> match]
           r == P!ApplyCheckConn(Active, tls, LocalPolicy, cur.try.tlsLevel)
       IN  IF r.err = "ok"
           THEN /\ cur' = [cur EXCEPT !.todo = <<>>, !.try.tlsa = tlsa,
                             !.conn.mxLevel = cur.try.mxLevel, !.conn.tlsLevel = r.level,
                             !.conn.checked = Active]
                /\ pc' = "admit" /\ fut' = NoFutures
           ELSE /\ \E c \in S!Close(cur.conn.c) :
                     cur' = [cur EXCEPT !.todo = Tail(@), !.try = None, !.conn.c = c]
                /\ pc' = "checkmx" /\ UNCHANGED fut
  /\ UNCHANGED <<callVars, conns, lookups, pool, dest, lost>>

\* All MXs failed, or a null MX: newConn fails, unless the client of a
\* rejected connection is still referenced.
NoUsableMX ==
  /\ pc = "checkmx"
  /\ \/ /\ cur.todo = <<>> /\ cur.conn.c.cl # "nil"
        /\ pc' = "admit" /\ fut' = NoFutures /\ UNCHANGED cur
     \/ /\ cur.todo = <<>> /\ cur.conn.c.cl = "nil" /\ Refuse
     \/ /\ cur.todo # <<>> /\ Head(cur.todo) = NullMX /\ Refuse
  /\ UNCHANGED <<callVars, conns, lookups, pool, dest, lost>>

-----------------------------------------------------------------------------
(* The rest of connectionForDomain, and Rcpt.                               *)

\* REQUIRETLS.
SecureEnough(conn) ==
  meta.requireTLS => conn.tlsLevel >= P!TLSAuthenticated /\ conn.mxLevel >= P!MX_MTASTS

\* The connection must satisfy REQUIRETLS and get a destination permit;
\* otherwise it is closed.
Admit ==
  /\ pc = "admit"
  /\ \/ /\ SecureEnough(cur.conn)
        /\ dest' = [dest EXCEPT ![cur.conn.domain] = @ + 1]
        /\ pc' = "mail" /\ cur' = [cur EXCEPT !.try = None] /\ UNCHANGED fut
     \/ /\ Refuse /\ UNCHANGED dest
  /\ UNCHANGED <<callVars, conns, lookups, pool, lost>>

\* MAIL.  A server without REQUIRETLS clears the flag of the message when the
\* configuration is relaxed.  A refused MAIL closes the connection and keeps
\* the permit.
Mail ==
  LET d == cur.conn.domain IN
  /\ pc = "mail"
  /\ \E ext \in BOOLEAN :
       meta' = [meta EXCEPT !.requireTLS = @ /\ (ext \/ ~RelaxedREQUIRETLS),
                            !.free = IF meta.asked /\ ~meta.requireTLS THEN @ \cup {d} ELSE @]
  /\ \/ /\ ~S!MailFails(cur.conn.c)
        /\ conns' = [x \in DOMAIN conns \cup {d} |-> IF x = d THEN cur.conn ELSE conns[x]]
        /\ cur' = [NoCall EXCEPT !.rcpt = cur.rcpt]
        /\ pc' = "rcpt" /\ UNCHANGED <<fut, lost>>
     \/ /\ Refuse
        /\ lost' = [lost EXCEPT ![d] = @ + 1]
        /\ UNCHANGED conns
  /\ UNCHANGED <<recipients, sending, status, taken, msgs, lookups, pool, dest>>

\* RCPT, accepted or not.
AddRcptDone ==
  LET r == cur.rcpt
      d == DomainOf[r]
  IN
  /\ pc = "rcpt"
  /\ \/ /\ conns' = [conns EXCEPT ![d].c = S!RcptGiven(@, r, Ascii)]
        /\ recipients' = recipients \cup {r}
     \/ UNCHANGED <<conns, recipients>>
  /\ Refuse
  /\ UNCHANGED <<meta, sending, status, taken, msgs, lookups, pool, dest, lost>>

-----------------------------------------------------------------------------
(* BodyNonAtomic, and Body, which waits for the same goroutines.            *)

SetStatus(names, err) == [n \in names \cup DOMAIN status |-> IF n \in names THEN err ELSE status[n]]

\* A quarantined message fails for every recipient of the delivery.
BodyQuarantined ==
  /\ pc = "ready" /\ meta.quarantine
  /\ status' = SetStatus(recipients, "perm")
  /\ pc' = "sent"
  /\ UNCHANGED <<meta, conns, recipients, cur, fut, lookups, sending, taken, pool, dest, msgs, lost>>

Body ==
  /\ pc = "ready" /\ ~meta.quarantine /\ recipients # {}
  /\ sending' = DOMAIN conns
  /\ pc' = "body"
  /\ UNCHANGED <<meta, conns, recipients, cur, fut, lookups, status, taken, pool, dest, msgs, lost>>

\* Mutant: a failed DATA sets no status.
BodyConnSilent(d) ==
  /\ pc = "body" /\ d \in sending
  /\ sending' = sending \ {d}
  /\ pc' = IF sending' = {} THEN "sent" ELSE "body"
  /\ \E err \in S!DataOutcomes :
       /\ status' = IF err = "ok" THEN SetStatus(conns[d].c.rcpts, err) ELSE status
       /\ taken' = IF err = "ok" THEN taken \cup {r \in recipients : DomainOf[r] = d} ELSE taken
       /\ conns' = [conns EXCEPT ![d].errored = err # "ok"]
  /\ UNCHANGED <<meta, recipients, cur, fut, lookups, pool, dest, msgs, lost>>

\* One goroutine of the body: opening the buffer fails, or DATA gives one
\* result, set for every recipient the connection ever accepted.  A failed
\* DATA leaves the session in the middle of the data.
BodyConn(d) ==
  /\ pc = "body" /\ d \in sending
  /\ sending' = sending \ {d}
  /\ pc' = IF sending' = {} THEN "sent" ELSE "body"
  /\ \/ /\ status' = SetStatus(conns[d].c.rcpts, "temp")
        /\ UNCHANGED <<conns, taken>>
     \/ \E err \in S!DataOutcomes :
          /\ status' = SetStatus(conns[d].c.rcpts, err)
          /\ taken' = IF err = "ok" THEN taken \cup {r \in recipients : DomainOf[r] = d} ELSE taken
          /\ conns' = [conns EXCEPT ![d].errored = err # "ok",
                                    ![d].c.cl = IF err = "ok" THEN @ ELSE "data"]
  /\ UNCHANGED <<meta, recipients, cur, fut, lookups, pool, dest, msgs, lost>>

\* What Body makes of the statuses: nothing, the only one, or multipleErrs,
\* which is temporary if one of them is.
bodyAnswer(errs) ==
  LET bad == {n \in DOMAIN errs : errs[n] # "ok"}
  IN  IF bad = {} THEN "ok" ELSE IF \E n \in bad : errs[n] = "temp" THEN "temp" ELSE "perm"

-----------------------------------------------------------------------------
(* Close: Commit and Abort.                                                 *)

\* Usable, apart from the RSET command it sends.
Usable(conn) == conn.transactions <= ConnReuseLimit /\ conn.c.cl # "nil" /\ ~conn.errored

\* Mutant: the permit of a connection that is not returned is kept.
CloseReleasesUsable ==
  /\ pc \in {"ready", "sent"}
  /\ \E dead \in SUBSET DOMAIN conns :
       LET used(d) == [conns[d] EXCEPT !.transactions = @ + 1]
           returned == {d \in DOMAIN conns \ dead : Usable(used(d))}
       IN  /\ pool' = [d \in Domain |-> IF d \in returned THEN used(d) ELSE pool[d]]
           /\ dest' = [d \in Domain |-> IF d \in returned THEN dest[d] - 1 ELSE dest[d]]
  /\ pc' = "idle" /\ meta' = NoMeta
  /\ conns' = <<>> /\ recipients' = {} /\ status' = <<>> /\ taken' = {}
  /\ lookups' = {} /\ fut' = NoFutures
  /\ msgs' = [msgs EXCEPT !.permit = 0]
  /\ UNCHANGED <<cur, sending, lost>>

\* Every connection gives its permit back; the usable ones that answer RSET
\* go to the pool.  dead: connections that do not answer.
Close ==
  /\ pc \in {"ready", "sent"}
  /\ \E dead \in SUBSET DOMAIN conns :
       LET used(d) == [conns[d] EXCEPT !.transactions = @ + 1]
           returned == {d \in DOMAIN conns \ dead : Usable(used(d))}
       IN  pool' = [d \in Domain |-> IF d \in returned THEN used(d) ELSE pool[d]]
  /\ dest' = [d \in Domain |-> IF d \in DOMAIN conns THEN dest[d] - 1 ELSE dest[d]]
  /\ pc' = "idle" /\ meta' = NoMeta
  /\ conns' = <<>> /\ recipients' = {} /\ status' = <<>> /\ taken' = {}
  /\ lookups' = {} /\ fut' = NoFutures
  /\ msgs' = [msgs EXCEPT !.permit = 0]
  /\ UNCHANGED <<cur, sending, lost>>

Next ==
  \/ Start \/ Quarantine
  \/ \E r \in Rcpt : AddRcptRejected(r) \/ AddRcptConnected(r) \/ AddRcptCached(r) \/ AddRcptNew(r)
  \/ \E l \in lookups : LookupEnds(l)
  \/ lookupMX \/ CheckMX \/ Connect \/ CheckConn \/ NoUsableMX \/ Admit \/ Mail \/ AddRcptDone
  \/ BodyQuarantined \/ Body \/ \E d \in sending : BodyConn(d)
  \/ Close

Spec == Init /\ [][Next]_vars

-----------------------------------------------------------------------------
(* Properties.                                                              *)

ConnOK(c) ==
  /\ c.domain \in Domain /\ c.transactions \in 0 .. MaxMsgs
  /\ c.mxLevel \in 0 .. 2 /\ c.tlsLevel \in 0 .. 2
  /\ c.c.cl \in {"nil", "open", "closed", "data"} /\ c.c.rcpts \subseteq Name

\* Every variable has its type; connections are kept under their domain.
TypeOK ==
  /\ pc \in {"idle", "ready", "lookup", "checkmx", "connect", "checkconn", "admit", "mail", "rcpt", "body", "sent"}
  /\ \A d \in DOMAIN conns : ConnOK(conns[d]) /\ conns[d].domain = d
  /\ \A d \in Domain : pool[d] # None => ConnOK(pool[d]) /\ pool[d].domain = d
  /\ recipients \subseteq Rcpt /\ taken \subseteq recipients
  /\ sending \subseteq DOMAIN conns
  /\ DOMAIN status \subseteq Name
  /\ dest \in [Domain -> Nat] /\ lost \in [Domain -> Nat]

\* Permits of remote.limits: a delivery holds one message permit, given back
\* by Commit or Abort, and one destination permit for each connection it
\* uses, given back by Close.  A destination permit leaks in one way only: a
\* MAIL command that is refused after TakeDest (connect.go:275) drops the
\* connection and nothing releases its permit.  lost counts those.
PermitsAccounted ==
  /\ \A d \in Domain :
       dest[d] = lost[d] + Cardinality({c \in {d} : c \in DOMAIN conns})
                         + Cardinality({c \in {d} : pc = "mail" /\ cur.conn.domain = d})
  /\ msgs.permit = IF pc = "idle" THEN 0 ELSE 1

Authenticated(conn) == conn.tlsLevel >= P!TLSAuthenticated /\ conn.mxLevel >= P!MX_MTASTS

\* connect.go:256 takes a permit for a connection and remote.go:450 releases one
\* per connection: between two deliveries none is held.
DestPermitsReturned == pc = "idle" => \A d \in Domain : dest[d] = 0

\* REQUIRETLS: every server that a message with REQUIRETLS goes to was
\* authenticated and its MX record, too.  The exception is the relaxed mode
\* (connect.go:271): the first server without the extension, itself
\* authenticated, makes the delivery forget the requirement, and the domains
\* reached after it are free.  In the strict mode no domain is.
RequireTLSHonoured ==
  meta.asked =>
    /\ \A d \in DOMAIN conns \ meta.free : Authenticated(conns[d])
    /\ meta.free # {} => RelaxedREQUIRETLS

\* connect.go:267: "it is enough to enforce strict security only on the path
\* to the MX".
PathToMXSecured == meta.asked => \A d \in DOMAIN conns : Authenticated(conns[d])

\* Policies: a connection that passed all checks complies with what the
\* lookups consulted for it demand, through retries without verification,
\* fallback to plain text, several MXs and rejected attempts before it.
PolicyEnforced ==
  LET c == cur.conn
      t == cur.try
  IN  pc = "admit" /\ t # None =>
        /\ "mtasts" \in c.checked =>
             /\ t.sts.val \in {"error", "testing", "enforce"}
             /\ t.sts.val = "enforce" => t.verified /\ c.mxLevel >= P!MX_MTASTS
        /\ "dane" \in c.checked =>
             /\ t.tlsa.val \in {"none", "unusable", "usable"}
             /\ t.tlsa.val = "unusable" => t.handshake
             /\ t.tlsa.val = "usable" => t.handshake /\ c.tlsLevel = P!TLSAuthenticated
        /\ "local_policy" \in c.checked => c.tlsLevel >= MinTLS /\ c.mxLevel >= MinMX
        /\ c.tlsLevel = P!TLSAuthenticated => t.handshake

\* What the policies left on a connection that passed all of them.
Vetted(c) ==
  /\ c.checked = Policies
  /\ "local_policy" \in c.checked => c.tlsLevel >= MinTLS /\ c.mxLevel >= MinMX

\* Connections in use, new and pooled: each passed all configured policies,
\* or none, where overrides are allowed and this message has one or an
\* earlier message, whose connection was pooled, may have had one.
PoliciesInUse ==
  \A d \in DOMAIN conns :
    \/ Vetted(conns[d])
    \/ /\ conns[d].checked = {} /\ AllowSecOverride
       /\ meta.override \/ conns[d].transactions > 0

\* The pool only gets sessions that are between transactions, whose last DATA
\* did not fail and that were not used more often than configured.
PoolClean ==
  \A d \in Domain : pool[d] # None =>
    pool[d].c.cl = "open" /\ ~pool[d].errored /\ pool[d].transactions <= ConnReuseLimit

Failed(n) == n \in DOMAIN status /\ status[n] # "ok"

\* No recipient of another connection goes by a name of r.  Connections are
\* kept by the domain as it is written, so the two forms of one domain have
\* two, which report under one name, and the later report replaces the first.
Owned(n, d) == \A s \in Rcpt : n \in {s, Ascii[s]} => DomainOf[s] = d
OwnNames(r) == Owned(r, DomainOf[r]) /\ Owned(Ascii[r], DomainOf[r])

\* BodyNonAtomic: a recipient of the delivery is reported as failed, under
\* the name given or the one that was sent, exactly if its server did not
\* take the message.
StatusTruthful ==
  pc = "sent" => \A r \in recipients : OwnNames(r) =>
    ((r \notin taken) <=> (Failed(r) \/ Failed(Ascii[r])))

\* Body, for callers that want one answer: it succeeds only if every server
\* took the message, although the connections carry recipients of earlier
\* messages, and asks for a retry as long as one recipient may still get it.
\* (It may fail although every server took the message: a connection without
\* recipients fails, and reports that for recipients of earlier messages.)
BodyAnswersForAll ==
  pc = "sent" =>
    /\ bodyAnswer(status) = "ok" => {r \in recipients : OwnNames(r)} \subseteq taken
    /\ (\E r \in recipients : r \in DOMAIN status /\ status[r] = "temp") => bodyAnswer(status) = "temp"

\* module.StatusCollector: "SetStatus sets the error associated with the
\* recipient", the one given to AddRcpt.
FailureReported ==
  pc = "sent" => \A r \in recipients \ taken : Failed(r)

\* The MTA-STS policy applied to a connection is the one of its domain.
PolicyOfDomain ==
  pc = "admit" /\ cur.try # None /\ "mtasts" \in Active => cur.try.sts.of.of = cur.conn.domain

\* Without an override every connection was checked by the policies.
PoliciesApplied ==
  pc = "rcpt" /\ ~meta.override => \A d \in DOMAIN conns : conns[d].checked = Policies

\* A future AddRcpt may have to wait for has its own lookup running, although
\* a late lookup for another domain or MX may be the one that sets it, and
\* although what is found first wins.  The exception is a DANE lookup that
\* panicked ("panicked", security.go:482): unless a late lookup of another MX
\* sets its future, CheckConn waits until the caller's context ends.
FuturesPending ==
  \A k \in {"sts", "tlsa"} : fut[k].val = "unset" => fut[k].of \in lookups /\ fut[k].of.kind = k

\* future.go:29: a pair that "will be populated later".
FuturesPopulated == \A k \in {"sts", "tlsa"} : Awaited(fut[k]) => \E l \in lookups : l.kind = k
=============================================================================
