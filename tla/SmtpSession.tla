---------------------------- MODULE SmtpSession ----------------------------
(***************************************************************************)
(* internal/endpoint/smtp/session.go and smtp.go: SMTP/LMTP sessions of    *)
(* one endpoint, which share its source-domain limits (internal/limits).   *)
(*                                                                         *)
(* The go-smtp library (external) reads commands and calls the Session     *)
(* methods one at a time: RCPT only after a MAIL, DATA only after an       *)
(* accepted RCPT, no MAIL inside a transaction, Reset after DATA.  When    *)
(* the endpoint is closed, Logout comes from another goroutine, possibly   *)
(* between reading a command and taking msgLock.  A method body runs under *)
(* msgLock and is one action.                                              *)
(*                                                                         *)
(* msgMeta, msgCtx and msgTask are set and cleared together with delivery. *)
(* Only the source scope of the limits is kept: the key of the other       *)
(* scopes cannot change during a session.  A refused command leaves no     *)
(* trace but the ones modelled; reply texts and log counters are left out. *)
(***************************************************************************)
EXTENDS Integers, Sequences, FiniteSets

CONSTANTS
  Session,       \* sessions
  Addr,          \* MAIL FROM arguments
  NoAddr,        \* the empty string
  Clean,         \* Clean[a]: address.CleanDomain(a), Refused where it fails
  Refused,       \* no address
  DomainOf,      \* DomainOf[a]: domain part, as address.Split returns it
  Modes,         \* values of defer_sender_reject to consider
  AuthRequired,  \* authAlwaysRequired
  SourceLimit,   \* concurrent messages allowed for one source domain
  MaxMails       \* bound: MAIL commands in a session

ASSUME SessionAssumption ==
  /\ NoAddr \in Addr
  /\ Refused \notin Addr
  /\ Clean \in [Addr -> Addr \cup {Refused}]
  /\ Clean[NoAddr] = NoAddr
  /\ \A a \in Addr : Clean[a] # Refused => Clean[Clean[a]] = Clean[a]
  /\ DOMAIN DomainOf = Addr
  \* CleanDomain leaves a domain that is in canonical form as it is.
  /\ \A a, b \in Addr : Clean[a] # Refused /\ Clean[b] # Refused
                          /\ DomainOf[a] = DomainOf[Clean[b]] => DomainOf[Clean[a]] = DomainOf[a]
  /\ Modes \subseteq {"immediate", "deferred"}
  /\ AuthRequired \in BOOLEAN
  /\ SourceLimit \in Nat \ {0}
  /\ MaxMails \in Nat

VARIABLES
  mode,        \* endp.deferServerReject
  conn,        \* conn[s]: what go-smtp knows: state, sender accepted (from),
               \* a recipient accepted (rcpt), the command being handled (cmd)
  sess,        \* sess[s]: the Session: auth, mailFrom, delivery, deliveryErr
  txn,         \* txn[s]: number of transactions MAIL opened in the session
  deliveries,  \* deliveries[s]: the deliveries the session started, in order
  taken,       \* taken[d]: permits in use in the bucket of domain d
  buckets,     \* domains that have a bucket
  sessionCnt   \* endp.sessionCnt

vars == <<mode, conn, sess, txn, deliveries, taken, buckets, sessionCnt>>

Domains == {DomainOf[a] : a \in Addr}

\* The zero Session, and a connection that go-smtp knows nothing about.
NewSess == [auth |-> FALSE, mailFrom |-> NoAddr, delivery |-> 0, deliveryErr |-> 0]
NoConn == [state |-> "none", from |-> Refused, rcpt |-> FALSE, cmd |-> "none", arg |-> NoAddr]

Init ==
  /\ mode \in Modes
  /\ conn = [s \in Session |-> NoConn]
  /\ sess = [s \in Session |-> NewSess]
  /\ txn = [s \in Session |-> 0]
  /\ deliveries = [s \in Session |-> <<>>]
  /\ taken = [d \in Domains |-> 0]
  /\ buckets = {}
  /\ sessionCnt = 0

-----------------------------------------------------------------------------
(* Pieces of the handlers.                                                  *)

\* TakeMsg: a new or existing bucket gives a permit.  At the limit the call
\* waits for a permit, up to five seconds (the failure is in StartFails).
TakeMsg(d) ==
  /\ taken[d] < SourceLimit
  /\ taken' = [taken EXCEPT ![d] = @ + 1]
  /\ buckets' = buckets \cup {d}

\* Mutant: cleanSession clears mailFrom before it releases the limits.
ReleaseLimitsLate(s) ==
  LET d == DomainOf[NoAddr]
  IN  taken' = IF d \in buckets THEN [taken EXCEPT ![d] = @ - 1] ELSE taken

\* releaseLimits: the key comes from the session's mailFrom; releasing in a
\* bucket that does not exist does nothing.
ReleaseLimits(s) ==
  LET d == DomainOf[sess[s].mailFrom]
  IN  taken' = IF d \in buckets THEN [taken EXCEPT ![d] = @ - 1] ELSE taken

\* The session fields after cleanSession.
Cleaned(s) == [sess[s] EXCEPT !.mailFrom = NoAddr, !.delivery = 0, !.deliveryErr = 0]

\* startDelivery fails for the argument a: the sender is refused, no permit
\* comes in time, or pipeline.Start fails and the permit is given back.
StartFails(a) == UNCHANGED <<deliveries, taken, buckets>>

\* startDelivery succeeds for the argument a, in transaction txn'.
StartSucceeds(s, a) ==
  /\ Clean[a] # Refused
  /\ TakeMsg(DomainOf[Clean[a]])
  /\ deliveries' = [deliveries EXCEPT ![s] =
                      Append(@, [from |-> Clean[a], txn |-> txn'[s], ended |-> 0])]

\* One Commit or Abort call to the session's delivery.
EndDelivery(s) ==
  deliveries' = [deliveries EXCEPT ![s][sess[s].delivery].ended = @ + 1]

\* abort: Abort on the delivery (errors are logged), then cleanSession.
Abort(s) ==
  /\ EndDelivery(s)
  /\ ReleaseLimits(s)
  /\ sess' = [sess EXCEPT ![s] = Cleaned(s)]

\* What Reset and Logout do to the message in progress.
AbortIfOpen(s) ==
  \/ /\ sess[s].delivery # 0
     /\ Abort(s)
  \/ /\ sess[s].delivery = 0
     /\ UNCHANGED <<sess, deliveries, taken>>

\* The handler returned: go-smtp is ready for a command.
Handled(s, c) == conn' = [conn EXCEPT ![s] = [c EXCEPT !.cmd = "none", !.arg = NoAddr]]

-----------------------------------------------------------------------------
(* Connections and go-smtp's command loop.                                  *)

\* NewSession, early checks passed.
NewSession(s) ==
  /\ conn[s].state = "none"
  /\ conn' = [conn EXCEPT ![s].state = "open"]
  /\ sessionCnt' = sessionCnt + 1
  /\ UNCHANGED <<mode, sess, txn, deliveries, taken, buckets>>

\* NewSession, early checks failed: the session is logged out and dropped.
NewSessionRefused(s) ==
  /\ conn[s].state = "none"
  /\ conn' = [conn EXCEPT ![s].state = "closed"]
  /\ sessionCnt' = sessionCnt - 1
  /\ UNCHANGED <<mode, sess, txn, deliveries, taken, buckets>>

\* AuthPlain or a SASL exchange succeeded (a failed one changes nothing).
AuthPlain(s) ==
  /\ conn[s].state = "open" /\ conn[s].cmd = "none"
  /\ ~sess[s].auth
  /\ sess' = [sess EXCEPT ![s].auth = TRUE]
  /\ UNCHANGED <<mode, conn, txn, deliveries, taken, buckets, sessionCnt>>

\* go-smtp reads a command its own state allows and calls the handler.
Allowed(s) ==
  {"reset"}
    \cup (IF conn[s].from = Refused /\ txn[s] < MaxMails THEN {"mail"} ELSE {})
    \cup (IF conn[s].from # Refused THEN {"rcpt"} ELSE {})
    \cup (IF conn[s].rcpt THEN {"data"} ELSE {})

ReadCommand(s) ==
  /\ conn[s].state = "open" /\ conn[s].cmd = "none"
  /\ \E c \in Allowed(s), a \in Addr :
       /\ c = "mail" \/ a = NoAddr
       /\ conn' = [conn EXCEPT ![s].cmd = c, ![s].arg = a]
  /\ UNCHANGED <<mode, sess, txn, deliveries, taken, buckets, sessionCnt>>

-----------------------------------------------------------------------------
(* Handlers.                                                                *)

\* Mail: refused without authentication, or because startDelivery fails.
MailRefused(s) ==
  /\ conn[s].cmd = "mail"
  /\ \/ AuthRequired /\ ~sess[s].auth
     \/ mode = "immediate"
  /\ StartFails(conn[s].arg)
  /\ Handled(s, conn[s])
  /\ UNCHANGED <<mode, sess, txn, sessionCnt>>

\* Mail accepted: started at once, or remembered for the first Rcpt.  Either
\* way mailFrom becomes the argument as the client sent it.
Mail(s) ==
  LET a == conn[s].arg IN
  /\ conn[s].cmd = "mail"
  /\ AuthRequired => sess[s].auth
  /\ txn' = [txn EXCEPT ![s] = @ + 1]
  /\ \/ /\ mode = "immediate"
        /\ StartSucceeds(s, a)
        /\ sess' = [sess EXCEPT ![s].mailFrom = a, ![s].delivery = Len(deliveries'[s])]
     \/ /\ mode = "deferred"
        /\ sess' = [sess EXCEPT ![s].mailFrom = a]
        /\ UNCHANGED <<deliveries, taken, buckets>>
  /\ Handled(s, [conn[s] EXCEPT !.from = a])
  /\ UNCHANGED <<mode, sessionCnt>>

\* Rcpt without a delivery, after startDelivery failed before: same error.
RcptRepeated(s) ==
  /\ conn[s].cmd = "rcpt"
  /\ sess[s].delivery = 0 /\ sess[s].deliveryErr # 0
  /\ Handled(s, conn[s])
  /\ UNCHANGED <<mode, sess, txn, deliveries, taken, buckets, sessionCnt>>

\* Rcpt without a delivery: startDelivery fails and the error is kept.
RcptStartFails(s) ==
  /\ conn[s].cmd = "rcpt"
  /\ sess[s].delivery = 0 /\ sess[s].deliveryErr = 0
  /\ StartFails(sess[s].mailFrom)
  /\ sess' = [sess EXCEPT ![s].deliveryErr = txn[s]]
  /\ Handled(s, conn[s])
  /\ UNCHANGED <<mode, txn, sessionCnt>>

\* Rcpt: starts the deferred delivery if there is none, then the recipient
\* is accepted or refused (bad address, AddRcpt error).
Rcpt(s) ==
  /\ conn[s].cmd = "rcpt"
  /\ \/ /\ sess[s].delivery # 0
        /\ UNCHANGED <<sess, txn, deliveries, taken, buckets>>
     \/ /\ sess[s].delivery = 0 /\ sess[s].deliveryErr = 0
        /\ UNCHANGED txn
        /\ StartSucceeds(s, sess[s].mailFrom)
        /\ sess' = [sess EXCEPT ![s].mailFrom = Clean[@],
                                ![s].delivery = Len(deliveries'[s])]
  /\ \E ok \in BOOLEAN : Handled(s, [conn[s] EXCEPT !.rcpt = @ \/ ok])
  /\ UNCHANGED <<mode, sessionCnt>>

\* After DATA go-smtp calls Reset before it reads another command.
ThenReset(s) == conn' = [conn EXCEPT ![s].cmd = "reset"]

\* Data and LMTPData when prepareBody fails: the delivery is left to Reset.
DataUnreadable(s) ==
  /\ conn[s].cmd = "data"
  /\ sess[s].delivery # 0
  /\ ThenReset(s)
  /\ UNCHANGED <<mode, sess, txn, deliveries, taken, buckets, sessionCnt>>

\* Data and LMTPData when the Received count is too high, and Data when
\* Body fails: only the deferred cleanSession runs.
DataRejected(s) ==
  /\ conn[s].cmd = "data"
  /\ sess[s].delivery # 0
  /\ ReleaseLimits(s)
  /\ sess' = [sess EXCEPT ![s] = Cleaned(s)]
  /\ ThenReset(s)
  /\ UNCHANGED <<mode, txn, deliveries, buckets, sessionCnt>>

\* Data with Body done (or LMTPData with its per-recipient statuses): Commit
\* is called, its error goes to the client, then cleanSession runs.
DataCommitted(s) ==
  /\ conn[s].cmd = "data"
  /\ sess[s].delivery # 0
  /\ EndDelivery(s)
  /\ ReleaseLimits(s)
  /\ sess' = [sess EXCEPT ![s] = Cleaned(s)]
  /\ ThenReset(s)
  /\ UNCHANGED <<mode, txn, buckets, sessionCnt>>

\* Data after Logout took the delivery away: the nil msgCtx panics, go-smtp
\* recovers and gives up the connection.
DataPanics(s) ==
  /\ conn[s].cmd = "data"
  /\ sess[s].delivery = 0
  /\ Handled(s, conn[s])
  /\ UNCHANGED <<mode, sess, txn, deliveries, taken, buckets, sessionCnt>>

\* Mutant: RSET does not abort the delivery.
ResetKeepsDelivery(s) ==
  /\ conn[s].cmd = "reset"
  /\ Handled(s, [conn[s] EXCEPT !.from = Refused, !.rcpt = FALSE])
  /\ UNCHANGED <<mode, sess, txn, deliveries, taken, buckets, sessionCnt>>

\* Reset: RSET, EHLO, or the end of DATA.
Reset(s) ==
  /\ conn[s].cmd = "reset"
  /\ AbortIfOpen(s)
  /\ Handled(s, [conn[s] EXCEPT !.from = Refused, !.rcpt = FALSE])
  /\ UNCHANGED <<mode, txn, buckets, sessionCnt>>

\* Logout: the connection ends, or the endpoint is closed by another
\* goroutine while a command is on its way to the handler.
Logout(s) ==
  /\ conn[s].state = "open"
  /\ AbortIfOpen(s)
  /\ conn' = [conn EXCEPT ![s].state = "closed"]
  /\ sessionCnt' = sessionCnt - 1
  /\ UNCHANGED <<mode, txn, buckets>>

Next ==
  \E s \in Session :
    \/ NewSession(s) \/ NewSessionRefused(s) \/ AuthPlain(s) \/ ReadCommand(s)
    \/ MailRefused(s) \/ Mail(s)
    \/ RcptRepeated(s) \/ RcptStartFails(s) \/ Rcpt(s)
    \/ DataUnreadable(s) \/ DataRejected(s) \/ DataCommitted(s) \/ DataPanics(s)
    \/ Reset(s) \/ Logout(s)

Spec == Init /\ [][Next]_vars

-----------------------------------------------------------------------------
(* Properties.                                                              *)

\* Every variable has its type; a bucket never exceeds its limit.
TypeOK ==
  /\ mode \in Modes
  /\ conn \in [Session -> [state: {"none", "open", "closed"}, from: Addr \cup {Refused},
                           rcpt: BOOLEAN, cmd: {"none", "mail", "rcpt", "data", "reset"},
                           arg: Addr]]
  /\ sess \in [Session -> [auth: BOOLEAN, mailFrom: Addr, delivery: Nat, deliveryErr: Nat]]
  /\ txn \in [Session -> 0..MaxMails]
  /\ deliveries \in [Session -> Seq([from: Addr, txn: Nat, ended: Nat])]
  /\ taken \in [Domains -> 0..SourceLimit]
  /\ buckets \subseteq Domains
  /\ sessionCnt \in Int

\* The deliveries in progress that hold a permit of domain d.
Holders(d) ==
  {s \in Session : sess[s].delivery # 0 /\ DomainOf[deliveries[s][sess[s].delivery].from] = d}

\* Commit and Abort are called at most once on a delivery between them, and a
\* session never keeps (and so never adds a recipient or a body to) a
\* delivery that is finished: not when DATA fails half-way, nor when Reset
\* follows DATA, nor when Logout overtakes a command.
NoUseAfterEnd ==
  \A s \in Session : \A i \in DOMAIN deliveries[s] :
    /\ deliveries[s][i].ended <= 1
    /\ sess[s].delivery = i => deliveries[s][i].ended = 0

\* What go-smtp lets a client do and what the Session made of it: a delivery is
\* only open inside a transaction (or after Logout), with the sender of MAIL.
SessionShaped ==
  \A s \in Session :
    /\ sess[s].delivery \in 0..Len(deliveries[s])
    /\ conn[s].state = "none" => conn[s].cmd = "none" /\ conn[s].from = Refused
    /\ conn[s].from = Refused => ~conn[s].rcpt
    /\ conn[s].from = Refused /\ conn[s].state # "closed" => sess[s].delivery = 0
    /\ conn[s].cmd = "mail" => conn[s].from = Refused /\ sess[s].delivery = 0 /\ txn[s] < MaxMails
    /\ conn[s].cmd = "rcpt" => conn[s].from # Refused
    /\ conn[s].cmd = "data" => conn[s].rcpt
    /\ conn[s].state = "open" /\ conn[s].from # Refused /\ conn[s].cmd # "reset" =>
         Clean[sess[s].mailFrom] = Clean[conn[s].from]

\* While go-smtp is inside a transaction, the delivery the session works on
\* was started for that MAIL command: its normalised sender, not the sender
\* of an earlier transaction that failed or was reset; and a message body
\* only ever arrives when there is such a delivery (unless the session was
\* logged out under the command).
DeliveryIsCurrent ==
  \A s \in Session : conn[s].state = "open" /\ conn[s].from # Refused =>
    /\ sess[s].delivery # 0 =>
         /\ deliveries[s][sess[s].delivery].txn = txn[s]
         /\ deliveries[s][sess[s].delivery].from = Clean[conn[s].from]
    /\ conn[s].cmd # "reset" /\ conn[s].rcpt => sess[s].delivery # 0

\* A session only ever works on the delivery of the transaction it is in: one
\* that was neither committed nor aborted before, started for this MAIL.
DeliveriesCurrent == TypeOK /\ SessionShaped /\ NoUseAfterEnd /\ DeliveryIsCurrent

\* The sender by which a permit will be released is the one it was taken for,
\* up to normalisation, and its bucket exists.
ReleasableSender ==
  /\ \A s \in Session : sess[s].delivery # 0 =>
       LET from == deliveries[s][sess[s].delivery].from
       IN  /\ Clean[sess[s].mailFrom] = from /\ DomainOf[from] \in buckets
           /\ mode = "deferred" => sess[s].mailFrom = from
  /\ \A d \in buckets : \E a \in Addr : Clean[a] # Refused /\ d = DomainOf[Clean[a]]
  /\ \A d \in Domains : IsFiniteSet(Holders(d))

\* A permit is never given back twice, nor in the name of another domain that
\* still has a message in progress: Semaphore.Release would panic with
\* "mismatched Release call", or let one message too many in.
NoMismatchedRelease == \A d \in Domains : taken[d] >= Cardinality(Holders(d))

\* Exactly the messages in progress hold permits: nothing a client or the
\* pipeline does leaves a permit of its domain taken for ever.
PermitsMatch == \A d \in Domains : taken[d] = Cardinality(Holders(d))

\* With deferred sender rejection startDelivery runs on the mailFrom that is
\* released later, so every permit is given back.
DeferredPermitsMatch == mode = "deferred" => PermitsMatch

\* The permits releaseLimits gives back are those startDelivery took: never more,
\* and with deferred rejection never fewer.
PermitsBalanced == NoMismatchedRelease /\ DeferredPermitsMatch /\ ReleasableSender

=============================================================================
