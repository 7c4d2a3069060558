-------------------------------- MODULE Relay -------------------------------
(***************************************************************************)
(* internal/target/smtp: target.smtp and target.lmtp, which hand messages  *)
(* to one of the configured servers over a connection of their own.        *)
(* The whole delivery is one record: rel.                                  *)
(***************************************************************************)
EXTENDS Integers, Sequences, SequencesExt, FiniteSets

CONSTANTS RelayRcpt,       \* recipients
          RelayAscii,      \* the forms sent to a server without SMTPUTF8
          Endpoints,       \* number of configured targets
          MaxRelays,       \* bound: deliveries
          MaxRelayRcpts    \* bound: recipients accepted per delivery

ASSUME RelayAssumption ==
  Endpoints \in Nat \ {0} /\ MaxRelays \in Nat /\ MaxRelayRcpts \in Nat /\ DOMAIN RelayAscii = RelayRcpt

VARIABLE rel   \* took is a ghost: the places in rcpts the server took the message for

C == INSTANCE SmtpConn

\* saslAuthDirective
SaslKinds == {"off", "forward", "plain", "external"}

NoRelay == [pc |-> "idle", conn |-> C!New, lmtp |-> FALSE, starttls |-> FALSE, sasl |-> "off", ep |-> 0, link |-> "none",
            rcpts |-> <<>>, replies |-> 0, status |-> {}, took |-> {}, answer |-> "none", n |-> 0]

RelayInit == rel = NoRelay

At(pc) == rel.pc = pc
Ended(answer, c) == rel' = [NoRelay EXCEPT !.n = rel.n, !.answer = answer, !.conn = c, !.lmtp = rel.lmtp]
\* Close is tried, its outcome is the server's.
Refused(c) == \E closed \in C!Close(c) : Ended("refused", closed)

RelayStart ==
  /\ At("idle") /\ rel.n < MaxRelays
  /\ \E l, s \in BOOLEAN, a \in SaslKinds :
       rel' = [NoRelay EXCEPT !.pc = "connect", !.ep = 1, !.lmtp = l, !.starttls = s, !.sasl = a, !.n = rel.n + 1]

\* The endpoints in order; the last error is the answer.  STARTTLS that is
\* configured and not offered is an error of the endpoint.
relayConnect ==
  /\ At("connect")
  /\ \E o \in C!ConnectOutcomes(rel.starttls), utf8 \in BOOLEAN :
       IF o \in {"plain", "tls"}
       THEN rel' = [rel EXCEPT !.pc = "auth", !.link = o, !.conn = C!Connected(@, rel.lmtp, utf8)]
       ELSE IF rel.ep = Endpoints THEN Ended("refused", rel.conn) ELSE rel' = [rel EXCEPT !.ep = @ + 1]

\* saslFactory: forward needs the credentials of the client.  Then AUTH.
relayAuth ==
  /\ At("auth")
  /\ \/ rel' = [rel EXCEPT !.pc = "mail"]
     \/ rel.sasl # "off" /\ Refused(rel.conn)

relayMail ==
  /\ At("mail")
  /\ \/ rel' = [rel EXCEPT !.pc = "ready"]
     \/ Refused(rel.conn)

\* An address may be given again: it is sent and listed again.
relayAddRcpt(r) ==
  /\ At("ready") /\ Len(rel.rcpts) < MaxRelayRcpts
  /\ \/ rel' = [rel EXCEPT !.rcpts = Append(@, r), !.conn = C!RcptGiven(@, r, RelayAscii)]
     \/ UNCHANGED rel

-----------------------------------------------------------------------------
(* Body *)

\* The name under which the i-th recipient was sent.
SentAs(i) == C!Form(rel.conn, rel.rcpts[i], RelayAscii)
\* lmtpError: one status per name, the last reply for it.
ByName(st) ==
  [n \in {SentAs(i) : i \in DOMAIN st} |->
     st[CHOOSE i \in DOMAIN st : SentAs(i) = n /\ \A j \in DOMAIN st : SentAs(j) = n => j <= i]]

\* target.smtp: one answer.  Body is also used for target.lmtp by callers
\* that want a single answer: then Data makes one of the statuses, or gives
\* the error of a connection that breaks before the last reply.
relayBody ==
  /\ At("ready") /\ rel.rcpts # <<>>
  /\ \/ rel' = [rel EXCEPT !.pc = "sent", !.answer = "temp"]                  \* body.Open fails
     \/ ~rel.lmtp /\ \E o \in C!DataOutcomes :
          rel' = [rel EXCEPT !.pc = "sent", !.answer = o, !.took = IF o = "ok" THEN DOMAIN rel.rcpts ELSE {}]
     \/ rel.lmtp /\ \E st \in [DOMAIN rel.rcpts -> C!DataOutcomes] :
          rel' = [rel EXCEPT !.pc = "sent", !.answer = C!smtpToLMTPData(ByName(st)), !.took = {i \in DOMAIN st : st[i] = "ok"}]
     \/ rel.lmtp /\ \E e \in C!CommandErrors, replied \in SUBSET (1 .. Len(rel.rcpts) - 1) :
          rel' = [rel EXCEPT !.pc = "sent", !.answer = e, !.took = replied]

\* BodyNonAtomic of target.lmtp: a body that cannot be opened sets every
\* status and is sent all the same: the nil reader panics.
lmtpBodyOpenFails ==
  /\ At("ready") /\ rel.lmtp /\ rel.rcpts # <<>>
  /\ rel' = [rel EXCEPT !.pc = "panicked", !.answer = "panic", !.status = {<<r, "temp">> : r \in ToSet(rel.rcpts)}]
lmtpBodyStarts ==
  /\ At("ready") /\ rel.lmtp /\ rel.rcpts # <<>>
  /\ rel' = [rel EXCEPT !.pc = "replies", !.answer = "partial"]

\* The replies come in the order of the recipients and are reported under
\* the name that was sent.
lmtpReply ==
  /\ At("replies") /\ rel.replies < Len(rel.rcpts)
  /\ \E o \in C!DataOutcomes :
       rel' = [rel EXCEPT !.replies = @ + 1, !.status = @ \cup {<<SentAs(rel.replies + 1), o>>},
                          !.took = IF o = "ok" THEN @ \cup {rel.replies + 1} ELSE @]

\* The connection breaks: the recipients without a reply get the error.
lmtpBreaks ==
  /\ At("replies") /\ rel.replies < Len(rel.rcpts)
  /\ \E e \in C!CommandErrors :
       rel' = [rel EXCEPT !.pc = "sent", !.status = @ \cup {<<rel.rcpts[i], e>> : i \in (rel.replies + 1) .. Len(rel.rcpts)}]

lmtpBodyEnds ==
  /\ At("replies") /\ rel.replies = Len(rel.rcpts)
  /\ rel' = [rel EXCEPT !.pc = "sent"]

\* Commit and Abort close the connection; Commit answers with what Close says.
relayEnds ==
  /\ rel.pc \in {"ready", "sent", "panicked"}
  /\ \E closed \in C!Close(rel.conn) : Ended(IF closed.cl = "nil" THEN "ok" ELSE "close_failed", closed)

RelayNext ==
  \/ RelayStart \/ relayConnect \/ relayAuth \/ relayMail \/ (\E r \in RelayRcpt : relayAddRcpt(r))
  \/ relayBody \/ lmtpBodyOpenFails \/ lmtpBodyStarts \/ lmtpReply \/ lmtpBreaks \/ lmtpBodyEnds \/ relayEnds

-----------------------------------------------------------------------------
(* Properties *)

\* Type invariant.
RelayTypeOK ==
  /\ rel.pc \in {"idle", "connect", "auth", "mail", "ready", "replies", "sent", "panicked"}
  /\ ToSet(rel.rcpts) \subseteq RelayRcpt /\ rel.took \subseteq DOMAIN rel.rcpts
  /\ rel.replies \in 0 .. Len(rel.rcpts) /\ rel.ep \in 0 .. Endpoints

\* The downstream server is never given credentials or a message over a
\* plain connection where STARTTLS is configured, whichever endpoint of the
\* list was reached in the end.
RelaySecured ==
  rel.pc \in {"auth", "mail", "ready", "replies", "sent"} /\ rel.starttls => rel.link = "tls"

\* Whatever step of Start fails, and however a delivery ends, the connection
\* it made is not left open.
RelayClosed == At("idle") => rel.conn.cl # "open"

\* Another recipient of the delivery has a name of r: one address in two forms.
SharesName(r) ==
  \E s \in ToSet(rel.rcpts) \ {r} : {s, RelayAscii[s]} \cap {r, RelayAscii[r]} # {}

\* The places where r was given, and the statuses under its names.
Places(r) == {i \in DOMAIN rel.rcpts : rel.rcpts[i] = r}
StatusesOf(r) == {st \in rel.status : st[1] \in {r, RelayAscii[r]}}

\* The statuses of a partial delivery are those of the server: under a name of
\* a recipient a failure is reported exactly if the server did not take the
\* message at one of the places where it was given, and success exactly if it
\* took it at one of them, also when the connection breaks between two replies.
\* An address given twice may so be reported both ways; which of the two the
\* caller keeps is up to it.  A single answer is "ok" only if every recipient
\* was taken once.  Two recipients that share a name are not told apart.
RelayStatusTruthful ==
  At("sent") =>
    \A r \in ToSet(rel.rcpts) : ~SharesName(r) =>
      /\ rel.answer = "partial" =>
           /\ (\E st \in StatusesOf(r) : st[2] # "ok") <=> Places(r) \ rel.took # {}
           /\ (\E st \in StatusesOf(r) : st[2] = "ok") <=> Places(r) \cap rel.took # {}
      /\ rel.answer = "ok" => Places(r) \cap rel.took # {}
=============================================================================
