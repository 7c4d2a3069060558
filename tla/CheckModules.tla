---------------------------- MODULE CheckModules ----------------------------
(***************************************************************************)
(* The check modules: for each callback of module.CheckState, the set of   *)
(* answers it may give.  meta is what is known of the message and of its   *)
(* surroundings (DNS, tables), conf the configuration of the checks; what  *)
(* a daemon, a program or a resolver does at run time is a choice.         *)
(*                                                                         *)
(* An answer is the result, whether the check ignores the rest of the      *)
(* message, the milter commands it sent, and two ghosts: a cause, which    *)
(* names the directive the answer falls under or what the check itself     *)
(* asked for, and whether the answer was left to DMARC.                    *)
(***************************************************************************)
EXTENDS Dmarc, Integers, FiniteSets, SequencesExt

-----------------------------------------------------------------------------
(* module.CheckResult and modconfig.FailAction: what a check answers and what the      *)
(* configuration makes of it.  An error reply is kept as its class: "temp" for a 4xx   *)
(* code, "perm" for a 5xx code, "" for no error.                                       *)

Reason == {"", "temp", "perm"}

AuthResult  == [method : {"spf", "dkim"}, value : AuthValue, domain : DomainName]
CheckResult == [reason : Reason, reject : BOOLEAN, quarantine : BOOLEAN, auth : Seq(AuthResult)]

Says(reason) == [reason |-> reason, reject |-> FALSE, quarantine |-> FALSE, auth |-> <<>>]
Clean        == Says("")
Rejects(reason)  == [Says(reason) EXCEPT !.reject = TRUE]
WithAuth(res, a) == [res EXCEPT !.auth = a]

-----------------------------------------------------------------------------
(* FailAction: override is the class of the code given with the action. *)

FailAction == [reject : BOOLEAN, quarantine : BOOLEAN, override : Reason]
Ignore     == [reject |-> FALSE, quarantine |-> FALSE, override |-> ""]
Quarantine == [Ignore EXCEPT !.quarantine = TRUE]
Reject     == [Ignore EXCEPT !.reject = TRUE]

\* ParseRejectDirective: [error, reason] for the arguments after the action.
\* A code is "4" or "5" by its first digit, or "bad"; an enhanced code, when it
\* is given, is checked on its own and never against the code.
ParseRejectDirective(codes) ==
  LET wrong == \/ Len(codes) > 3
               \/ \E i \in DOMAIN codes : codes[i] = "bad"
  IN [error |-> wrong,
      reason |-> IF ~wrong /\ Len(codes) > 0 /\ codes[1] = "4" THEN "temp" ELSE "perm"]

\* ParseActionDirective: the action a directive names, or an error.
ParseActionDirective(args) ==
  LET codes == ParseRejectDirective(Tail(args))
      known == args # <<>> /\ args[1] \in {"reject", "quarantine", "ignore"}
      over  == known /\ args[1] # "ignore" /\ Len(args) > 1
  IN [error  |-> ~known \/ (over /\ codes.error),
      action |-> [reject     |-> known /\ args[1] = "reject",
                  quarantine |-> known /\ args[1] = "quarantine",
                  override   |-> IF over THEN codes.reason ELSE ""]]

\* FailAction.Apply
Apply(act, res) ==
  IF res.reason = "" THEN res
  ELSE [res EXCEPT !.reason     = IF act.override = "" THEN @ ELSE act.override,
                   !.quarantine = act.quarantine \/ @,
                   !.reject     = act.reject \/ @]

-----------------------------------------------------------------------------
(* Answers *)

Answer(res, cause) ==
  [res |-> res, cause |-> cause, skip |-> FALSE, sent |-> <<>>, deferred |-> FALSE]
Nothing   == Answer(Clean, "")
Internal(reason) == Answer(Rejects(reason), "internal")
Panics    == Answer(Clean, "panic")     \* recovered by runAndMergeResults

\* The answer under a directive: the check's reason and the configured action.
By(conf, directive, reason) == Answer(Apply(conf.act[directive], Says(reason)), directive)

\* The directives that take an action, and the actions in effect when the configuration
\* names none: the Init functions.
Directive ==
  {"none_action", "neutral_action", "fail_action", "softfail_action", "permerr_action", "temperr_action",
   "broken_sig_action", "no_sig_action", "io_error_action", "error_resp_action",
   "add_header_action", "rewrite_subj_action", "code_1", "code_2", "require_tls",
   "require_matching_rdns", "require_mx_record", "unauth_action", "no_match_action", "err_action"}

DefaultActions ==
  [d \in Directive |->
     IF d \in {"fail_action", "add_header_action", "rewrite_subj_action", "code_2",
              "require_matching_rdns", "require_mx_record"} THEN Quarantine
     ELSE IF d \in {"unauth_action", "no_match_action", "err_action", "require_tls", "code_1"} THEN Reject
     ELSE Ignore]

-----------------------------------------------------------------------------
(* require_tls, require_matching_rdns, require_mx_record *)

requireTLS(meta, conf) ==
  IF meta.conn # "local" /\ meta.tls THEN Nothing ELSE By(conf, "require_tls", "perm")

\* rdns is the name, "none", the class of the error of the lookup, or "off" when the
\* endpoint looks up no names (RDNSName is nil).
requireMatchingRDNS(meta, conf, rdns) ==
  IF meta.conn = "local" \/ rdns \in {"off", meta.helo} THEN Nothing
  ELSE By(conf, "require_matching_rdns", IF rdns = "temp" THEN "temp" ELSE "perm")

\* The lookup may fail, for the moment or for good, whatever records there are.
requireMXRecord(meta, conf) ==
  LET Wrong(class) == By(conf, "require_mx_record", class)
  IN IF meta.from = "" THEN {Nothing}
     ELSE IF meta.from = "malformed" THEN {Wrong("perm")}
     ELSE {Wrong("temp"), Wrong("perm")} \cup (IF meta.mx \in {"empty", "null"} THEN {} ELSE {Nothing})

-----------------------------------------------------------------------------
(* check.spf *)

SpfDirective(v) ==
  CASE v = "none" -> "none_action"         [] v = "neutral" -> "neutral_action"
    [] v = "fail" -> "fail_action"         [] v = "softfail" -> "softfail_action"
    [] v = "temperror" -> "temperr_action" [] v = "permerror" -> "permerr_action"
    [] OTHER -> ""

SpfValues == {"none", "neutral", "pass", "fail", "softfail", "temperror", "permerror"}

\* spfResult.  The identity is the MAIL FROM domain, or the HELO name when that is empty.
spfResult(meta, conf, v) ==
  LET auth == <<[method |-> "spf", value |-> v,
                 domain |-> IF meta.from = "" THEN meta.helo ELSE meta.from]>>
      a == IF v = "pass" THEN Nothing
           ELSE By(conf, SpfDirective(v), IF v = "temperror" THEN "temp" ELSE "perm")
  IN [a EXCEPT !.res.auth = auth]

\* CheckConnection, before the result is known: skipping, refusing, or deciding at once.
spfCheckConnection(meta, conf) ==
  CASE meta.conn # "tcp"       -> {[Nothing EXCEPT !.skip = TRUE]}
    [] meta.from = "malformed" -> {[Internal("perm") EXCEPT !.skip = TRUE]}
    [] OTHER -> IF conf.enforceEarly THEN {spfResult(meta, conf, v) : v \in SpfValues}
                ELSE {Nothing}      \* the evaluation goes on in a goroutine

\* Mutant: the action is left to DMARC without a policy to leave it to.
spfCheckBodyDefersAll(meta, conf, fetched) ==
  IF fetched = "panic" THEN {Internal("temp")} ELSE {LET a == spfResult(meta, conf, fetched)
   IN [a EXCEPT !.res.reject = FALSE, !.res.quarantine = FALSE, !.deferred = TRUE]}

\* CheckBody, with the goroutine's result.
spfCheckBody(meta, conf, fetched) ==
  LET a    == spfResult(meta, conf, fetched)
      left == [a EXCEPT !.res.reject = FALSE, !.res.quarantine = FALSE, !.deferred = TRUE]
      from == ExtractFromDomain(meta.hdrFrom)
  IN IF fetched = "panic" THEN {Internal("temp")}
     ELSE IF from = "error" THEN {a}
     ELSE {IF relyOnDMARC(d, from) THEN left ELSE a : d \in FetchRecord(meta.zone, meta.rec, from)}

-----------------------------------------------------------------------------
(* check.dkim: meta.sigs is what verification finds out about each signature. *)

\* A signature that does not cover the required fields is a permanent error.
DkimValue(sig) == IF sig.value = "partial" THEN "permerror" ELSE sig.value

dkimCheckBody(meta, conf) ==
  LET n == Len(meta.sigs)
      auth == [i \in 1..n |-> [method |-> "dkim", value |-> DkimValue(meta.sigs[i]),
                               domain |-> meta.sigs[i].domain]]
      unsure == \E i \in 1..n : meta.sigs[i].value = "temperror"
      good   == \E i \in 1..n : meta.sigs[i].value = "pass"
      none   == [By(conf, "no_sig_action", "perm") EXCEPT
                   !.res.auth = <<[method |-> "dkim", value |-> "none", domain |-> ""]>>]
      broken == [By(conf, "broken_sig_action", "perm") EXCEPT !.res.auth = auth]
      clear  == [Nothing EXCEPT !.res.auth = auth]
  IN IF n = 0 THEN {none}
     ELSE {Internal("temp"),
           IF unsure /\ ~conf.failOpen THEN Internal("temp")
           ELSE IF good THEN clear ELSE broken}

-----------------------------------------------------------------------------
(* check.dnsbl.  meta.listed[l] gives the identities list l names: "in" with an answer *)
(* inside its responses networks, "out" with another one.                              *)

\* One lookup after another, as long as nothing was found.
Then(found, next) == UNION {IF f = "clean" THEN next ELSE {f} : f \in found}

checkIP(meta, list) ==
  IF (meta.ipv6 /\ ~list.ipv6) \/ (~meta.ipv6 /\ ~list.ipv4) THEN {"clean"}
  ELSE {"error", IF <<list.zone, "ip", "in">> \in meta.listed THEN "listed" ELSE "clean"}

checkDomain(meta, list, d) ==
  {"error", IF \E net \in {"in", "out"} : <<list.zone, d, net>> \in meta.listed
            THEN "listed" ELSE "clean"}

\* checkList.  An address literal as EHLO name ends the list's checks.
checkList(meta, list, mailFrom) ==
  LET names == IF list.mailfrom /\ mailFrom # "" /\ ~(list.ehlo /\ mailFrom = meta.helo)
               THEN checkDomain(meta, list, mailFrom) ELSE {"clean"}
      ehlo  == IF ~list.ehlo \/ meta.helo = "" THEN names
               ELSE IF meta.helo = "literal" THEN {"clean"}
               ELSE Then(checkDomain(meta, list, meta.helo), names)
  IN IF list.ipv4 \/ list.ipv6 THEN Then(checkIP(meta, list), ehlo) ELSE ehlo

\* The score of the lists at the places that found something.
Score(lists, places) == MapThenSumSet(LAMBDA i : lists[i].score, places)

\* checkLists: lists are asked in parallel; the score decides, unless a lookup failed.
checkLists(meta, conf, found) ==
  LET score == Score(conf.lists, {i \in DOMAIN conf.lists : found[i] = "listed"})
  IN IF \E i \in DOMAIN conf.lists : found[i] = "error" THEN Internal("temp")
     ELSE IF score >= conf.rejectThres THEN Answer(Rejects("perm"), "reject")
     ELSE IF score >= conf.quarantineThres THEN Answer([Says("perm") EXCEPT !.quarantine = TRUE], "quarantine")
     ELSE Nothing

\* All that one round of lookups may find; early checks know no sender.
Findings(meta, conf) ==
  {f \in [DOMAIN conf.lists -> {"clean", "listed", "error"}] :
     \A i \in DOMAIN conf.lists : f[i] \in checkList(meta, conf.lists[i], "")}

-----------------------------------------------------------------------------
(* check.milter *)

\* handleAction, for the actions that end the milter's part.
handleAction(act) ==
  CASE act = "accept"                  -> [Nothing EXCEPT !.skip = TRUE]
    [] act \in {"reject", "reply"}     -> Answer(Rejects("perm"), "reject")
    [] act \in {"tempfail", "discard"} -> Answer(Rejects("temp"), "reject")
    [] OTHER                           -> Nothing

\* ioError
ioError(conf) == IF conf.failOpen THEN [Nothing EXCEPT !.skip = TRUE] ELSE Internal("temp")

MilterActs == {"continue", "accept", "reply", "discard", "tempfail", "reject", "unknown"}

\* The commands are sent one by one until one is not answered by "continue".
Dialogue(conf, cmds) ==
  IF cmds = <<>> THEN {Nothing}
  ELSE {[handleAction("continue") EXCEPT !.sent = cmds]} \cup
       UNION {{[handleAction(a) EXCEPT !.sent = SubSeq(cmds, 1, i)] : a \in MilterActs \ {"continue"}}
              \cup {[ioError(conf) EXCEPT !.sent = SubSeq(cmds, 1, i)]} : i \in DOMAIN cmds}

\* CheckConnection.  A local message is announced whatever the protocol options say.
milterCheckConnection(meta, conf) ==
  LET Unless(cmd) == IF meta.conn # "local" /\ cmd \in conf.milterNo THEN <<>> ELSE <<cmd>>
  IN Dialogue(conf, Unless("conn") \o Unless("helo"))

\* CheckSender reads meta.Conn, which a local message does not have.
milterCheckSender(meta, conf, skipped) ==
  IF skipped \/ "mail" \in conf.milterNo THEN {Nothing}
  ELSE IF meta.conn = "local" THEN {Panics}
  ELSE Dialogue(conf, <<"mail">>)

\* Mutant: the milter is asked although it has accepted the message.
milterCheckRcptAlways(meta, conf, skipped) == Dialogue(conf, <<"rcpt">>)

milterCheckRcpt(meta, conf, skipped) ==
  IF skipped THEN {Nothing} ELSE Dialogue(conf, <<"rcpt">>)

\* apply: of the changes a milter may ask for, only quarantine bears on the decision.  It
\* comes on top of the milter's last word, which may be to reject.
milterApply(a, quarantined) ==
  IF quarantined
  THEN [a EXCEPT !.res.quarantine = TRUE, !.res.reason = "perm",
                 !.cause = IF a.res.reject THEN "reject and quarantine" ELSE "quarantine"]
  ELSE a

milterCheckBody(meta, conf, skipped) ==
  LET Sends(a, cmds) == [a EXCEPT !.sent = cmds]
  IN IF skipped THEN {Nothing}
     ELSE (Dialogue(conf, <<"header">>) \ {[Nothing EXCEPT !.sent = <<"header">>]})
          \cup {Sends(Internal("temp"), <<"header">>), Sends(ioError(conf), <<"header", "end">>)}
          \cup {Sends(milterApply(handleAction(p[1]), p[2]), <<"header", "end">>) :
                  p \in MilterActs \X BOOLEAN}

-----------------------------------------------------------------------------
(* check.rspamd and check.command *)

\* Both read the name of the client, and panic in an endpoint that looks up none.
rspamdCheckBody(conf, rdns) ==
  IF rdns = "off" THEN {Panics} ELSE
  {Internal("perm"), By(conf, "io_error_action", "temp"), By(conf, "error_resp_action", "temp"),
   Nothing,                                             \* no action, greylist, unknown
   By(conf, "add_header_action", "temp"), By(conf, "rewrite_subj_action", "temp"),
   Answer(Rejects("temp"), "soft reject"), Answer(Rejects("perm"), "reject")}

\* run and errorRes: the program may not run, or exit with a code; codes 1 and 2 have
\* actions unless the configuration changes them, other codes are errors.  Whether the
\* name of the client is among the arguments is up to the configuration.
commandRun(conf, rdns) ==
  (IF rdns = "off" THEN {Panics} ELSE {}) \cup
  {Internal("temp"), Nothing, By(conf, "code_1", "perm"), By(conf, "code_2", "perm")}

commandCheck(conf, rdns, stage) == IF conf.runOn = stage THEN commandRun(conf, rdns) ELSE {Nothing}

-----------------------------------------------------------------------------
(* check.authorize_sender *)

\* NormalizeAuto, for the spellings in use: "Own" folds to "own".
normalize(addr) == IF addr = "Own" THEN "own" ELSE addr

\* authz.AuthorizeEmailUse: an entry names an address, a domain or everything.
AuthorizeEmailUse(entries, addrs) ==
  \E a \in addrs, e \in entries : e = a.addr \/ e = a.domain \/ e = "*"

\* authzSender.  meta.user is the authenticated name, "bad" one that auth_normalize
\* refuses; conf.prepare the addresses a sender address stands for; conf.entries what
\* the user may send as.
authzSender(meta, conf, addr) ==
  LET norm  == normalize(addr)
      addrs == IF conf.prepare[norm] = {} THEN {norm} ELSE conf.prepare[norm]
      Full(a) == [addr |-> a, domain |-> conf.domain[a]]
  IN IF meta.user = "" THEN {By(conf, "unauth_action", "perm")}
     ELSE IF norm = "broken" \/ meta.user = "bad" THEN {By(conf, "err_action", "perm")}
     ELSE {By(conf, "err_action", "temp"),
           IF AuthorizeEmailUse(conf.entries[meta.user], {Full(a) : a \in addrs})
           THEN Nothing ELSE By(conf, "no_match_action", "perm")}

authorizeCheckSender(meta, conf) ==
  IF meta.conn = "local" THEN {Nothing} ELSE authzSender(meta, conf, meta.sender)

\* CheckBody: From or, failing that, Sender has to be the user's.
authorizeCheckBody(meta, conf) ==
  LET Wrong == By(conf, "err_action", "perm")
      from  == authzSender(meta, conf, meta.fromHdr)
      other == meta.senderHdr # "" /\ meta.senderHdr # meta.fromHdr
      second == IF other THEN authzSender(meta, conf, meta.senderHdr) ELSE {Wrong}
      NoMatch == By(conf, "no_match_action", "perm")
  IN IF ~conf.checkHeader \/ meta.conn = "local" THEN {Nothing}
     ELSE IF meta.fromHdr \in {"missing", "malformed", "multiple"} \/ meta.senderHdr = "malformed"
     THEN {Wrong}
     ELSE {IF Nothing \in {p[1], p[2]} THEN Nothing ELSE NoMatch : p \in from \X second}
=============================================================================
