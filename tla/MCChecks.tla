------------------------------ MODULE MCChecks ------------------------------
(* Small instances of Checks: one family of setups per group of checks. *)
EXTENDS Checks

CONSTANTS r1, r2
MCRcpt == {r1, r2}

\* Configurations: the defaults, and one in which a few directives were changed.
Parsed(args) == ParseActionDirective(args).action
Strict == [d \in DOMAIN DefaultActions |-> Parsed(<<"reject", "4">>)]

BaseConf ==
  [act |-> DefaultActions, enforceEarly |-> FALSE, failOpen |-> FALSE, checkEarly |-> FALSE,
   checkHeader |-> TRUE, dmarc |-> FALSE, runOn |-> "body", milterNo |-> {},
   lists |-> <<>>, quarantineThres |-> 1, rejectThres |-> 9999,
   prepare |-> [a \in {"own", "alias", "foreign"} |-> IF a = "alias" THEN {"own"} ELSE {}],
   domain |-> [a \in {"own", "alias", "foreign"} |-> IF a = "foreign" THEN "other" ELSE "org"],
   entries |-> [u \in {"u", "admin"} |-> IF u = "u" THEN {"own"} ELSE {"other"}]]

Record == [policy |-> "reject", sp |-> "", adkim |-> "relaxed", aspf |-> "strict", pct |-> 100]
NoZone == [d \in {"org", "sub", "other", "psl", ""} |-> "empty"]

BaseMeta ==
  [conn |-> "tcp", tls |-> TRUE, ptr |-> "org", helo |-> "org", from |-> "org", user |-> "u",
   mx |-> "ok", hdrFrom |-> "org", zone |-> NoZone, rec |-> Record, sigs |-> <<>>, ipv6 |-> FALSE,
   listed |-> {}, sender |-> "own", fromHdr |-> "own", senderHdr |-> ""]

Sig(v, d) == [value |-> v, domain |-> d]
Conns == {"local", "tcp", "unix"}

\* SPF and DKIM, with and without DMARC.
Authentication ==
  {[rcpts |-> {r1}, checks |-> {"spf", "dkim"},
    meta |-> [BaseMeta EXCEPT !.from = f, !.hdrFrom = h, !.sigs = s,
                              !.zone = [NoZone EXCEPT !["org"] = z, !["other"] = "many"],
                              !.rec = [Record EXCEPT !.sp = sp, !.pct = IF h = "sub" /\ f = "other" THEN 0 ELSE 100]],
    conf |-> [BaseConf EXCEPT !.act = a, !.dmarc = d, !.failOpen = (f = "sub")]] :
      f \in {"sub", "other"}, h \in {"org", "sub", "psl", "multiple"},
      s \in {<<>>, <<Sig("pass", "org")>>, <<Sig("temperror", "org"), Sig("partial", "sub")>>},
      z \in {"one", "bad"}, sp \in {"quarantine", "none"},
      a \in {DefaultActions, Strict}, d \in BOOLEAN}

Early ==
  {[rcpts |-> {r1}, checks |-> {"spf", "require_tls", "require_matching_rdns", "require_mx_record"},
    meta |-> [BaseMeta EXCEPT !.conn = c, !.from = f, !.tls = (f # "other"), !.mx = m, !.ptr = n],
    conf |-> [BaseConf EXCEPT !.act = a, !.enforceEarly = TRUE]] :
      c \in Conns, f \in {"", "other", "malformed"}, m \in {"ok", "empty", "null"},
      n \in {"org", "off"}, a \in {DefaultActions, Strict}}

Listing(zone, v4, v6, ehlo, score) ==
  [zone |-> zone, ipv4 |-> v4, ipv6 |-> v6, ehlo |-> ehlo, mailfrom |-> ehlo, score |-> score]

Listed ==
  {[rcpts |-> {r1}, checks |-> {"dnsbl"},
    meta |-> [BaseMeta EXCEPT !.conn = c, !.helo = h, !.ipv6 = v,
                              !.listed = {<<"bl", "ip", n>>, <<"wl", "ip", "in">>, <<"bl", "org", "out">>}],
    conf |-> [BaseConf EXCEPT !.lists = <<Listing("bl", TRUE, TRUE, TRUE, 2), Listing("wl", w, FALSE, FALSE, -1)>>,
                              !.rejectThres = t, !.checkEarly = e]] :
      c \in {"tcp", "unix"}, h \in {"org", "literal", "other"}, v \in BOOLEAN, n \in {"in", "out"},
      w \in BOOLEAN, t \in {2, 3}, e \in BOOLEAN}

Milters ==
  {[rcpts |-> {r1, r2}, checks |-> {"milter", "command"}, meta |-> [BaseMeta EXCEPT !.conn = c],
    conf |-> [BaseConf EXCEPT !.failOpen = o, !.milterNo = n, !.runOn = "rcpt"]] :
      c \in {"tcp", "local"}, o \in BOOLEAN, n \in {{}, {"conn", "mail"}}}

Programs ==
  {[rcpts |-> IF s = "rcpt" THEN {r1, r2} ELSE {r1}, checks |-> {"rspamd", "command"}, meta |-> [BaseMeta EXCEPT !.conn = c, !.ptr = n],
    conf |-> [BaseConf EXCEPT !.runOn = s, !.act = a]] :
      c \in Conns, n \in {"org", "off"}, s \in {"conn", "sender", "rcpt", "body"}, a \in {DefaultActions, Strict}}

Senders ==
  {[rcpts |-> {r1}, checks |-> {"authorize_sender"},
    meta |-> [BaseMeta EXCEPT !.conn = c, !.user = u, !.sender = s, !.fromHdr = f, !.senderHdr = h],
    conf |-> [BaseConf EXCEPT !.checkHeader = b]] :
      c \in {"tcp", "local"}, u \in {"", "u", "admin", "bad"}, s \in {"Own", "alias", "foreign"},
      f \in {"own", "foreign", "multiple"}, h \in {"", "Own", "foreign", "malformed"}, b \in BOOLEAN}

MCSetup == Authentication \cup Early \cup Listed \cup Milters \cup Programs \cup Senders
=============================================================================
