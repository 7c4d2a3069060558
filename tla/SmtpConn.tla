------------------------------ MODULE SmtpConn ------------------------------
(***************************************************************************)
(* internal/smtpconn/smtpconn.go: the client side of one SMTP or LMTP      *)
(* session.  A connection is a record; an operation that depends on the    *)
(* server is the set of records it may leave behind.                       *)
(***************************************************************************)
EXTENDS Integers, FiniteSets

\* C: the client (nil, open, or closed but still referenced) and rcpts, the
\* recipients accepted in the life of the object.
New == [cl |-> "nil", rcpts |-> {}, utf8 |-> FALSE, lmtp |-> FALSE]

-----------------------------------------------------------------------------
(* Errors.                                                                  *)

\* What a command may fail with.
ClientError == {"552", "4xx", "5xx", "io", "dns_temp", "dns_perm", "tls"}

\* wrapClientErr: temporary or permanent.  552 becomes 452.
wrapClientErr(e) ==
  IF e \in {"552", "4xx", "io", "dns_temp", "tls"} THEN "temp" ELSE "perm"

CommandErrors == {wrapClientErr(e) : e \in ClientError}

-----------------------------------------------------------------------------
(* Connecting.                                                              *)

\* attemptConnect: what dial, greeting, STARTTLS and the second greeting
\* give.  Every failure closes what was opened and leaves the object as is.
ConnectScript == [dial: {"ok", "fail"}, hello: {"ok", "fail"}, starttls: {"absent", "ok", "fail"},
                  again: {"ok", "fail", "unverified"}]
attemptConnect(script, starttls) ==
  IF script.dial = "fail" \/ script.hello = "fail" THEN "error"
  ELSE IF ~starttls THEN "plain"
  ELSE IF script.starttls = "absent" THEN "error"
  ELSE IF script.starttls = "fail" \/ script.again = "unverified" THEN "tls_error"
  ELSE IF script.again = "fail" THEN "error" ELSE "tls"

ConnectOutcomes(starttls) == {attemptConnect(s, starttls) : s \in ConnectScript}

\* Connect and ConnectLMTP on success.  utf8: does the server have SMTPUTF8.
Connected(c, lmtp, utf8) == [c EXCEPT !.cl = "open", !.utf8 = utf8, !.lmtp = lmtp]

\* Close: the client is forgotten only when QUIT succeeded.
Close(c) == {[c EXCEPT !.cl = "nil"], [c EXCEPT !.cl = "closed"]}
DirectClose(c) == [c EXCEPT !.cl = "nil"]

-----------------------------------------------------------------------------
(* The transaction.                                                         *)

\* The form in which an address is sent: ASCII unless the server knows
\* SMTPUTF8.  Ascii maps an address to its ASCII form.
Form(c, addr, Ascii) == IF c.utf8 THEN addr ELSE Ascii[addr]

\* Mail on a client whose connection is gone always fails.
MailFails(c) == c.cl # "open"

RcptGiven(c, addr, Ascii) == [c EXCEPT !.rcpts = @ \cup {Form(c, addr, Ascii)}]

\* Data: one outcome for all recipients.
DataOutcomes == {"ok"} \cup CommandErrors

\* smtpToLMTPData: any failed recipient fails the command; a single error is
\* returned as it is, several make an error without a class, which callers
\* take for a temporary one.
smtpToLMTPData(statuses) ==
  LET failed == {r \in DOMAIN statuses : statuses[r] # "ok"}
  IN  IF failed = {} THEN "ok"
      ELSE IF Cardinality(failed) = 1 THEN statuses[CHOOSE r \in failed : TRUE] ELSE "temp"
=============================================================================
