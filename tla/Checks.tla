------------------------------- MODULE Checks -------------------------------
(***************************************************************************)
(* One message under one list of checks: the early check of the connection,*)
(* then the callbacks of every check's state in the order the check runner *)
(* makes them, the DMARC verifier, and the close of the states.            *)
(*                                                                         *)
(* The states of a list are asked in parallel: a step of a batch is the    *)
(* answer of one of them.  Three goroutines run beside them and hand over  *)
(* their result once: the reverse lookup of the connection, the evaluation *)
(* of SPF and the fetch of the DMARC policy.                               *)
(***************************************************************************)
EXTENDS CheckModules

CONSTANTS
  Setup,    \* [checks, meta, conf, rcpts] the instance is about
  Rcpt      \* recipients; a setup's rcpts are offered in any order

Check == {"spf", "dkim", "dnsbl", "milter", "rspamd", "command", "authorize_sender",
          "require_tls", "require_matching_rdns", "require_mx_record"}
Stage == {"early", "states", "conn", "sender", "rcpt", "ready", "body", "apply", "close", "over"}

\* What the configuration parser leaves of the directives: an action rejects or
\* quarantines, never both.
ConfShape(conf) ==
  /\ conf.act \in [Directive -> FailAction]
  /\ \A d \in Directive : ~(conf.act[d].reject /\ conf.act[d].quarantine)

\* What may be known of a message: "error" is no domain, a DMARC record has a policy, and
\* an address is one the sender tables were asked about or one that does not normalise.
DmarcRecord ==
  [policy : {"none", "quarantine", "reject"}, sp : {"", "none", "quarantine", "reject"},
   adkim : {"strict", "relaxed"}, aspf : {"strict", "relaxed"}, pct : 0..100]
MetaShape(meta, conf) ==
  /\ meta.rec \in DmarcRecord /\ "error" \notin DOMAIN meta.zone
  /\ meta.hdrFrom \in DOMAIN meta.zone \cup {"missing", "malformed", "multiple"}
  /\ meta.from \in DomainName /\ meta.helo \in DomainName
  /\ meta.sigs \in Seq([value : AuthValue \cup {"partial"}, domain : DomainName])
  /\ LET Known == DOMAIN conf.prepare \cup {"broken"}
     IN /\ normalize(meta.sender) \in Known /\ normalize(meta.fromHdr) \in Known \cup {"missing", "malformed", "multiple"}
        /\ normalize(meta.senderHdr) \in Known \cup {"", "malformed"}

ASSUME ChecksAssumption ==
  \A s \in Setup :
    /\ s.checks \subseteq Check /\ s.rcpts \subseteq Rcpt
    /\ ConfShape(s.conf) /\ MetaShape(s.meta, s.conf)

VARIABLES
  setup,
  stage,      \* what the list of checks is asked about
  todo,       \* the states that have not answered yet
  batch,      \* runAndMergeResults: rejectErr and quarantineErr
  merged,     \* cr.mergedRes: AuthResult and Quarantine
  offered,    \* recipients still to come
  rcpt,       \* the recipient in question, or "none"
  accepted,   \* recipients that passed
  skip,       \* spf.skip and milter.skipChecks
  modData,    \* ModData of the connection: the answer of the early check
  rdns,       \* the future of the reverse lookup, "off" without one
  spfFetch,   \* the channel of check.spf: "idle", "running" or a value
  dmarcFetch, \* the verifier's channel, with the same conventions
  session,    \* the milter session: none, open, closed
  decision,    \* what the client hears: "", accepted, refused
  quarantine, \* MsgMetadata.Quarantine
  dialogue,   \* ghost: commands the milter got
  causes,     \* ghost: <<check, cause, stage, recipient>> of every answer that has a cause
  dmarc       \* ghost: value and policy of the verifier

batchVars == <<todo, batch, merged, skip, dialogue, causes>>
rcptVars  == <<offered, rcpt, accepted>>
futures   == <<rdns, spfFetch, dmarcFetch>>
outVars   == <<decision, quarantine, dmarc>>
checksVars == <<setup, stage, batchVars, rcptVars, modData, futures, session, outVars>>

meta == setup.meta
conf == setup.conf
Uses(c) == c \in setup.checks

Fresh == [reject |-> "", quarantine |-> FALSE]
NotFetched == Fetched("", NoRecord, "pending")

ChecksInit ==
  /\ setup \in Setup
  /\ stage = "early" /\ todo = {} /\ batch = Fresh
  /\ merged = [auth |-> <<>>, quarantine |-> FALSE]
  /\ offered = setup.rcpts /\ rcpt = "none" /\ accepted = {}
  /\ skip = {} /\ modData = Nothing
  /\ rdns = (IF meta.ptr = "off" THEN "off" ELSE "pending") /\ spfFetch = "idle" /\ dmarcFetch = NotFetched
  /\ session = "none" /\ decision = "" /\ quarantine = FALSE
  /\ dialogue = <<>> /\ causes = {} /\ dmarc = [value |-> "", policy |-> "none"]

-----------------------------------------------------------------------------
(* The connection: reverse lookup and early checks. *)

\* fetchRDNSName; only for the setups in which some check reads the name.
FetchRDNSName ==
  /\ meta.conn # "local" /\ rdns = "pending"
  /\ setup.checks \cap {"require_matching_rdns", "rspamd", "command"} # {}
  /\ rdns' \in IF meta.conn = "tcp" THEN {"none", "temp", "perm", meta.ptr} ELSE {"none"}
  /\ UNCHANGED <<setup, stage, batchVars, rcptVars, modData, spfFetch, dmarcFetch, session, outVars>>

\* RunEarlyChecks with DNSBL.CheckConnection: refuse now, or keep the result for later.
RunEarlyChecks ==
  /\ stage = "early"
  /\ \E a \in IF Uses("dnsbl") /\ meta.conn = "tcp"
              THEN {checkLists(meta, conf, f) : f \in Findings(meta, conf)} ELSE {Nothing} :
       IF a.res.reject /\ conf.checkEarly
       THEN stage' = "over" /\ decision' = "refused" /\ UNCHANGED modData
       ELSE stage' = "states" /\ modData' = a /\ UNCHANGED decision
  /\ UNCHANGED <<setup, batchVars, rcptVars, futures, session, quarantine, dmarc>>

-----------------------------------------------------------------------------
(* The check runner. *)

Ask(s) == stage' = s /\ todo' = setup.checks /\ batch' = Fresh

\* checkStates, CheckStateForMsg of each check: only a milter can be missing.
CheckStates ==
  /\ stage = "states"
  /\ \/ /\ Ask("conn")
        /\ session' = IF Uses("milter") THEN "open" ELSE "none"
        /\ UNCHANGED <<decision>>
     \/ /\ Uses("milter")
        /\ stage' = "over" /\ decision' = "refused"
        /\ UNCHANGED <<todo, batch, session>>
  /\ UNCHANGED <<setup, merged, skip, dialogue, causes, rcptVars, modData, futures, quarantine, dmarc>>

\* The check waits for the goroutine that looks up the name of the client.
WaitsForName == meta.conn # "local" /\ rdns = "pending"
\* Nobody asks for the name of a message that has no connection.
NameOf == IF meta.conn = "local" THEN "none" ELSE rdns

SpfAnswers ==
  CASE stage = "conn" -> spfCheckConnection(meta, conf)
    [] stage = "body" /\ ~conf.enforceEarly /\ "spf" \notin skip ->
         IF spfFetch \in SpfValues \cup {"panic"} THEN spfCheckBody(meta, conf, spfFetch) ELSE {}
    [] OTHER -> {Nothing}

MilterAnswers ==
  CASE stage = "conn"   -> milterCheckConnection(meta, conf)
    [] stage = "sender" -> milterCheckSender(meta, conf, "milter" \in skip)
    [] stage = "rcpt"   -> milterCheckRcpt(meta, conf, "milter" \in skip)
    [] OTHER            -> milterCheckBody(meta, conf, "milter" \in skip)

AuthorizeAnswers ==
  CASE stage = "sender" -> authorizeCheckSender(meta, conf)
    [] stage = "body"   -> authorizeCheckBody(meta, conf)
    [] OTHER            -> {Nothing}

\* All that check c may answer at this stage; no answer while it waits for a goroutine.
Answers(c) ==
  CASE c = "spf"    -> SpfAnswers
    [] c = "milter" -> MilterAnswers
    [] c = "authorize_sender" -> AuthorizeAnswers
    [] c = "dkim"   -> IF stage = "body" THEN dkimCheckBody(meta, conf) ELSE {Nothing}
    [] c = "dnsbl"  -> {IF stage = "conn" /\ meta.conn # "local" THEN modData ELSE Nothing}
    [] c = "rspamd" -> IF stage # "body" THEN {Nothing} ELSE IF WaitsForName THEN {} ELSE rspamdCheckBody(conf, NameOf)
    [] c = "command" -> IF conf.runOn = stage /\ WaitsForName THEN {} ELSE commandCheck(conf, NameOf, stage)
    [] c = "require_tls" -> {IF stage = "conn" THEN requireTLS(meta, conf) ELSE Nothing}
    [] c = "require_matching_rdns" ->
         IF stage # "conn" THEN {Nothing} ELSE IF WaitsForName THEN {}
         ELSE {requireMatchingRDNS(meta, conf, rdns)}
    [] OTHER -> IF stage = "sender" THEN requireMXRecord(meta, conf) ELSE {Nothing}

\* runAndMergeResults, one goroutine: quarantine is looked at before rejection.
MergeInto(b, res) ==
  IF res.quarantine THEN [b EXCEPT !.quarantine = TRUE]
  ELSE IF res.reject /\ b.reject = "" THEN [b EXCEPT !.reject = res.reason]
  ELSE b

\* One state answers.
RunCheck ==
  /\ stage \in {"conn", "sender", "rcpt", "body"}
  /\ \E c \in todo : \E a \in Answers(c) :
       /\ todo' = todo \ {c}
       /\ batch' = MergeInto(batch, a.res)
       /\ merged' = [merged EXCEPT !.auth = @ \o a.res.auth]
       /\ skip' = IF a.skip THEN skip \cup {c} ELSE skip
       /\ dialogue' = dialogue \o a.sent
       /\ causes' = IF a.cause = "" THEN causes
                    ELSE causes \cup {<<c, IF a.deferred THEN "deferred" ELSE a.cause, stage, rcpt>>}
       /\ spfFetch' = IF c = "spf" /\ stage = "conn" /\ ~a.skip /\ ~conf.enforceEarly
                      THEN "running" ELSE spfFetch
  /\ UNCHANGED <<setup, stage, rcptVars, modData, rdns, dmarcFetch, session, outVars>>

\* Mutant: the goroutine recovers and says nothing.
SpfEvaluatedQuietly ==
  /\ spfFetch = "running"
  /\ spfFetch' \in SpfValues \cup {"lost"}
  /\ UNCHANGED <<setup, stage, batchVars, rcptVars, modData, rdns, dmarcFetch, session, outVars>>

\* spf.CheckHostWithSender in its goroutine; a panic closes the channel.
SpfEvaluated ==
  /\ spfFetch = "running"
  /\ spfFetch' \in SpfValues \cup {"panic"}
  /\ UNCHANGED <<setup, stage, batchVars, rcptVars, modData, rdns, dmarcFetch, session, outVars>>

\* What the batch comes to when all states have answered; a rejection drops the
\* quarantine of its batch.
Passed == batch.reject = ""
MergedQuarantine == merged' = [merged EXCEPT !.quarantine = @ \/ (Passed /\ batch.quarantine)]

\* Mutant: the rejection of a batch that also quarantines is lost.
ConnSenderDoneLax ==
  /\ stage \in {"conn", "sender"} /\ todo = {}
  /\ MergedQuarantine
  /\ IF Passed \/ batch.quarantine
     THEN (IF stage = "conn" THEN Ask("sender") ELSE stage' = "ready" /\ UNCHANGED <<todo, batch>>)
          /\ UNCHANGED <<decision, session>>
     ELSE stage' = "over" /\ decision' = "refused"
          /\ session' = (IF session = "open" THEN "closed" ELSE session) /\ UNCHANGED <<todo, batch>>
  /\ UNCHANGED <<setup, skip, dialogue, causes, rcptVars, modData, futures, quarantine, dmarc>>

\* checkConnSender: CheckConnection of all, then CheckSender of all; a failure closes
\* the states and fails MAIL.
ConnSenderDone ==
  /\ stage \in {"conn", "sender"} /\ todo = {}
  /\ MergedQuarantine
  /\ IF Passed
     THEN (IF stage = "conn" THEN Ask("sender") ELSE stage' = "ready" /\ UNCHANGED <<todo, batch>>)
          /\ UNCHANGED <<decision, session>>
     ELSE stage' = "over" /\ decision' = "refused"
          /\ session' = (IF session = "open" THEN "closed" ELSE session) /\ UNCHANGED <<todo, batch>>
  /\ UNCHANGED <<setup, skip, dialogue, causes, rcptVars, modData, futures, quarantine, dmarc>>

\* checkRcpt
CheckRcpt(r) ==
  /\ stage = "ready" /\ r \in offered
  /\ Ask("rcpt") /\ rcpt' = r /\ offered' = offered \ {r}
  /\ UNCHANGED <<setup, merged, skip, dialogue, causes, accepted, modData, futures, session, outVars>>

RcptDone ==
  /\ stage = "rcpt" /\ todo = {}
  /\ MergedQuarantine
  /\ accepted' = IF Passed THEN accepted \cup {rcpt} ELSE accepted
  /\ rcpt' = "none" /\ stage' = "ready"
  /\ UNCHANGED <<setup, todo, batch, skip, dialogue, causes, offered, modData, futures, session, outVars>>

\* checkBody: the policy fetch is started before the checks see the body.
CheckBody ==
  /\ stage = "ready" /\ accepted # {}
  /\ Ask("body")
  /\ dmarcFetch' = IF ~conf.dmarc THEN dmarcFetch
                   ELSE IF ExtractFromDomain(meta.hdrFrom) = "error"
                   THEN Fetched("", NoRecord, "perm")
                   ELSE [NotFetched EXCEPT !.err = "running"]
  /\ UNCHANGED <<setup, merged, skip, dialogue, causes, rcptVars, modData, rdns, spfFetch, session, outVars>>

\* The verifier's goroutine; a panic is handed over as an error.
DmarcFetched ==
  /\ dmarcFetch.err = "running"
  /\ dmarcFetch' \in FetchRecord(meta.zone, meta.rec, ExtractFromDomain(meta.hdrFrom))
                     \cup {Fetched("", NoRecord, "panic")}
  /\ UNCHANGED <<setup, stage, batchVars, rcptVars, modData, rdns, spfFetch, session, outVars>>

BodyDone ==
  /\ stage = "body" /\ todo = {}
  /\ MergedQuarantine
  /\ IF Passed THEN stage' = "apply" /\ UNCHANGED decision
     ELSE stage' = "close" /\ decision' = "refused"
  /\ UNCHANGED <<setup, todo, batch, skip, dialogue, causes, rcptVars, modData, futures, session, quarantine, dmarc>>

\* applyResults
ApplyResults ==
  /\ stage = "apply"
  /\ \/ /\ ~conf.dmarc
        /\ quarantine' = merged.quarantine /\ decision' = "accepted" /\ UNCHANGED dmarc
     \/ /\ conf.dmarc /\ dmarcFetch.err \notin {"pending", "running"}
        /\ \E roll \in 0..99 :
             dmarc' = VerifierApply(dmarcFetch, ExtractFromDomain(meta.hdrFrom), merged.auth, roll)
        /\ decision' = IF dmarc'.policy = "reject" THEN "refused" ELSE "accepted"
        /\ quarantine' = (merged.quarantine \/ dmarc'.policy = "quarantine")
  /\ stage' = "close"
  /\ UNCHANGED <<setup, batchVars, rcptVars, modData, futures, session>>

\* The client gives up between commands.
Abort ==
  /\ stage = "ready"
  /\ stage' = "close" /\ decision' = "refused"
  /\ UNCHANGED <<setup, batchVars, rcptVars, modData, futures, session, quarantine, dmarc>>

\* checkRunner.close
Close ==
  /\ stage = "close"
  /\ stage' = "over"
  /\ session' = IF session = "open" THEN "closed" ELSE session
  /\ UNCHANGED <<setup, batchVars, rcptVars, modData, futures, outVars>>

ChecksNext ==
  \/ FetchRDNSName \/ RunEarlyChecks \/ CheckStates \/ RunCheck \/ SpfEvaluated
  \/ ConnSenderDone \/ (\E r \in Rcpt : CheckRcpt(r)) \/ RcptDone
  \/ CheckBody \/ DmarcFetched \/ BodyDone \/ ApplyResults \/ Abort \/ Close

ChecksSpec == ChecksInit /\ [][ChecksNext]_checksVars

\* Lookups have timeouts and checks are ordinary calls: each of them ends.
ChecksFairness ==
  /\ WF_checksVars(FetchRDNSName) /\ WF_checksVars(SpfEvaluated) /\ WF_checksVars(DmarcFetched)
  /\ WF_checksVars(RunEarlyChecks \/ CheckStates \/ RunCheck \/ ConnSenderDone \/ RcptDone \/ BodyDone
             \/ ApplyResults \/ Close)

ChecksFairSpec == ChecksSpec /\ ChecksFairness

-----------------------------------------------------------------------------
(* Properties *)

\* Types of the runner's state and of what it collected.
ChecksTypeOK ==
  /\ stage \in Stage /\ todo \subseteq setup.checks
  /\ batch \in [reject : Reason, quarantine : BOOLEAN]
  /\ merged.quarantine \in BOOLEAN
  /\ \A i \in DOMAIN merged.auth : merged.auth[i].method \in {"spf", "dkim"}
  /\ offered \cup accepted \subseteq Rcpt /\ offered \cap accepted = {}
  /\ skip \subseteq setup.checks
  /\ session \in {"none", "open", "closed"} /\ decision \in {"", "accepted", "refused"}
  /\ quarantine \in BOOLEAN

\* What a cause asks for: the configured action, or what the check decided by itself.  A
\* check that panicked, or left its answer to DMARC, asks for nothing.
Wanted(cause) ==
  IF cause \in DOMAIN conf.act THEN conf.act[cause]
  ELSE [Ignore EXCEPT !.reject     = cause \in {"internal", "soft reject", "reject", "reject and quarantine"},
                      !.quarantine = cause \in {"quarantine", "reject and quarantine"}]

\* What is said of a recipient counts when the recipient was accepted; the rest always.
Counted(x) == x[3] # "rcpt" \/ x[4] \in accepted

\* A message is accepted only if nothing any check met is to be rejected, by the
\* configuration, a milter, rspamd, the lists or an error of the check, be it at the
\* connection, the sender, an accepted recipient or the body: rejections survive
\* FailAction.Apply, the merge of answers given in any order and the stages in between.
\* The one exception is in the formula: of a milter that asks for both, runAndMergeResults
\* only takes the quarantine.
ActionsEnforced ==
  decision = "accepted" =>
    \A x \in causes : Counted(x) /\ Wanted(x[2]).reject => x[2] = "reject and quarantine"

\* An accepted message that some check wanted quarantined is marked for the targets,
\* whichever stage and whichever other checks of the batch it was said in.  What was said
\* of a recipient that the same batch rejected goes with that recipient: the other
\* recipients get the message unmarked.
QuarantineReachesMessage ==
  decision = "accepted" =>
    \A x \in causes : Counted(x) /\ Wanted(x[2]).quarantine => quarantine

\* SPF leaves a failure to DMARC: the message then is not accepted as if there were no
\* policy.  It passed DMARC, was quarantined, fell outside pct=, or the verifier's own
\* fetch of the policy failed for good.  (With the dmarc directive and check.dkim on.)
SpfLeftToDmarc ==
  /\ decision = "accepted" /\ conf.dmarc /\ Uses("dkim")
  /\ \E x \in causes : x[2] = "deferred"
  => \/ dmarc.value = "pass" \/ quarantine \/ meta.rec.pct < 99
     \/ dmarcFetch.err \in {"perm", "panic"}

\* Without a policy in hand a message is accepted only when the fetch failed for good or
\* panicked: then no policy is applied and the result says permerror.  A fetch that failed
\* for the moment refuses the message.
DmarcFetchFails ==
  decision = "accepted" /\ conf.dmarc =>
    \/ dmarcFetch.err = ""
    \/ dmarcFetch.err \in {"perm", "panic"} /\ dmarc.value = "permerror" /\ dmarc.policy = "none"

\* verifier.go:83 says of the fetch "If panic occurs in the lookup goroutine - call to Apply
\* will panic".  Apply returns a permerror instead, and the message goes on: this fails.
DmarcPanicPropagates == dmarcFetch.err = "panic" => decision # "accepted"

\* An identifier that passes and is aligned in the mode the record asks for carries the
\* message past DMARC.
Aligned(method, mode) ==
  \E i \in DOMAIN merged.auth :
    /\ merged.auth[i].method = method /\ merged.auth[i].value = "pass"
    /\ \/ merged.auth[i].domain = meta.hdrFrom
       \/ mode = "relaxed" /\ OrgDomain(meta.hdrFrom) # "error"
          /\ OrgDomain(merged.auth[i].domain) = OrgDomain(meta.hdrFrom)
DmarcNeedsAlignment ==
  dmarc.value = "pass" <=>
    /\ dmarc.value # "" /\ dmarcFetch.err = "" /\ dmarcFetch.rec # NoRecord
    /\ \E i \in DOMAIN merged.auth : merged.auth[i].method = "dkim"
    /\ \E i \in DOMAIN merged.auth : merged.auth[i].method = "spf"
    /\ Aligned("dkim", meta.rec.adkim) \/ Aligned("spf", meta.rec.aspf)

\* DMARC decides what SPF leaves to it, by aligned identifiers only; when the policy could
\* not be had, the message is refused if that may change, and goes on without a policy
\* if not.
DmarcDecides == SpfLeftToDmarc /\ DmarcFetchFails /\ DmarcNeedsAlignment

\* An authenticated user gets a message through authorize_sender, when its actions
\* reject, only under an envelope sender and a From or Sender that are the user's.
MayUse(addr) ==
  LET n == normalize(addr)
      own == IF conf.prepare[n] = {} THEN {n} ELSE conf.prepare[n]
  IN n \in DOMAIN conf.prepare /\ \E a \in own : {a, conf.domain[a], "*"} \cap conf.entries[meta.user] # {}
SenderAuthorized ==
  /\ decision = "accepted" /\ Uses("authorize_sender") /\ meta.conn # "local"
  /\ conf.act["unauth_action"].reject /\ conf.act["no_match_action"].reject
  /\ conf.act["err_action"].reject
  => /\ meta.user \notin {"", "bad"} /\ MayUse(meta.sender)
     /\ conf.checkHeader => MayUse(meta.fromHdr) \/ MayUse(meta.senderHdr)

\* A connection is not accepted with the score of the lists that name it at or above the
\* reject threshold, nor unmarked at or above the other one; no list that the address
\* families and names in use exclude adds to the score.
Counts(l) ==
  \/ /\ IF meta.ipv6 THEN l.ipv6 ELSE l.ipv4
     /\ <<l.zone, "ip", "in">> \in meta.listed
  \/ /\ l.ehlo /\ meta.helo \notin {"", "literal"}
     /\ \E net \in {"in", "out"} : <<l.zone, meta.helo, net>> \in meta.listed
ScoreOfLists == Score(conf.lists, {i \in DOMAIN conf.lists : Counts(conf.lists[i])})
ListedScore ==
  decision = "accepted" /\ setup.checks = {"dnsbl"} /\ meta.conn = "tcp" =>
    /\ ~(ScoreOfLists >= conf.rejectThres)
    /\ ScoreOfLists >= conf.quarantineThres <=> quarantine

\* What the checks found is what happens to the message: what they asked for is not lost
\* on the way to the decision (but for the two losses the parts name), and the senders and
\* lists that are to be refused are.
AnswersEnforced ==
  ChecksTypeOK /\ ActionsEnforced /\ QuarantineReachesMessage /\ SenderAuthorized /\ ListedScore

\* The milter of a message from a client hears the commands in the order of its
\* protocol, each at most once but for rcpt.
Rank == [conn |-> 1, helo |-> 2, mail |-> 3, rcpt |-> 4, header |-> 5, end |-> 6]
MilterInOrder ==
  meta.conn # "local" =>
    \A i \in 1 .. Len(dialogue) - 1 :
      \/ Rank[dialogue[i]] < Rank[dialogue[i + 1]]
      \/ dialogue[i] = "rcpt" /\ dialogue[i + 1] = "rcpt"

\* What a milter accepted, or could not be asked about with fail_open, it is not asked
\* about again.
MilterAcceptIsFinal ==
  [][dialogue' # dialogue => "milter" \notin skip]_checksVars

\* Every milter session is closed when the message is over, on every path to its end.
SessionsClosed == stage = "over" => session # "open"

\* The dialogue with a milter: in order, over once the milter accepted, and closed.
MilterDialogue == []MilterInOrder /\ MilterAcceptIsFinal /\ []SessionsClosed

\* Once asked, every list of checks answers: no check waits for ever on the reverse
\* lookup, the SPF evaluation or the policy fetch, panics in them included.
EveryStageAnswered ==
  /\ stage \in {"conn", "sender"} ~> stage \in {"ready", "over"}
  /\ stage \in {"body", "apply"} ~> stage = "over"

-----------------------------------------------------------------------------
(* The inductive strengthening of the properties above.  A message goes through the     *)
(* stages once, but for the recipients; what a check said in a stage is in the batch as *)
(* long as the stage lasts, and in the decision or in merged afterwards.                *)

Going == stage \in {"ready", "rcpt", "body", "apply"} \/ decision = "accepted"
\* Check c has answered in stage s, and nothing that stage found refuses the message.
Settled(c, s) ==
  \/ stage = s /\ c \notin todo /\ batch.reject = ""
  \/ s = "sender" /\ Going
  \/ s = "body" /\ (stage = "apply" \/ decision = "accepted")
\* There is a result of this method.
Has(method) == \E i \in DOMAIN merged.auth : merged.auth[i].method = method
FromDomain == ExtractFromDomain(meta.hdrFrom)

\* The order of the stages.
StagesInOrder ==
  /\ stage \notin {"close", "over"} => decision = ""
  /\ decision = "accepted" => stage \in {"close", "over"}
  /\ stage \in {"early", "states"} => causes = {} /\ merged.auth = <<>> /\ dialogue = <<>> /\ session = "none"
                                    /\ skip = {} /\ ~merged.quarantine
  /\ \A x \in causes :
       /\ stage = "conn" => x[3] = "conn"
       /\ stage = "sender" => x[3] \in {"conn", "sender"}
       /\ stage \in {"ready", "rcpt"} => x[3] # "body"

CausesStaged ==
  \A x \in causes :
    /\ x[3] \in {"conn", "sender", "rcpt", "body"}
    /\ x[3] = "rcpt" => x[4] \notin offered

\* The recipient in question is one of those offered, and is not offered again.
RcptInHand == stage = "rcpt" => rcpt \in Rcpt /\ rcpt \notin offered \cup accepted

\* What was said is in the batch, and later in merged or in the decision.
OfBatch(x) == stage = x[3] /\ (stage = "rcpt" => rcpt = x[4])
CausesKept ==
  \A x \in causes :
    LET w == Wanted(x[2])
    IN IF OfBatch(x)
       THEN (w.reject /\ ~w.quarantine => batch.reject # "") /\ (w.quarantine => batch.quarantine)
       ELSE decision # "refused" /\ Counted(x) =>
              (w.reject => x[2] = "reject and quarantine") /\ (w.quarantine => merged.quarantine)

\* The result of SPF is there once, from the stage that decides it on.
SpfOnce ==
  /\ \A i, j \in DOMAIN merged.auth :
       merged.auth[i].method = "spf" /\ merged.auth[j].method = "spf" => i = j
  /\ Has("spf") =>
       /\ Uses("spf")
       /\ IF conf.enforceEarly THEN stage = "conn" => "spf" \notin todo
          ELSE stage \in {"body", "apply", "close", "over"} /\ (stage = "body" => "spf" \notin todo)
  /\ Has("dkim") => Uses("dkim")
  /\ Uses("dkim") /\ Settled("dkim", "body") => Has("dkim")

\* SPF left its answer to a policy it had seen.
LeftToPolicy ==
  \A x \in causes : x[2] = "deferred" =>
    /\ Has("spf") /\ FromDomain # "error"
    /\ \E d \in FetchRecord(meta.zone, meta.rec, FromDomain) : relyOnDMARC(d, FromDomain)

\* The policy in hand is one that may be fetched, and the verdict is made of it.
VerdictOfPolicy ==
  /\ \/ dmarcFetch.err \in {"pending", "running", "perm", "panic"}
     \/ FromDomain # "error" /\ dmarcFetch \in FetchRecord(meta.zone, meta.rec, FromDomain)
  /\ dmarcFetch.err = "running" => FromDomain # "error"
  /\ dmarc.value # "" =>
       /\ stage \in {"close", "over"} /\ dmarcFetch.err \notin {"pending", "running"}
       /\ \E roll \in 0..99 : dmarc = VerifierApply(dmarcFetch, FromDomain, merged.auth, roll)
  /\ decision = "accepted" =>
       /\ merged.quarantine => quarantine
       /\ conf.dmarc => dmarc.value # "" /\ dmarc.policy # "reject"
       /\ conf.dmarc /\ dmarc.policy = "quarantine" => quarantine
       /\ quarantine => merged.quarantine \/ (conf.dmarc /\ dmarc.policy = "quarantine")

\* A user who may not send under the addresses is refused when they are looked at.
SendersHeard ==
  /\ Uses("authorize_sender") /\ meta.conn # "local"
  /\ conf.act["unauth_action"].reject /\ conf.act["no_match_action"].reject
  /\ conf.act["err_action"].reject
  => /\ Settled("authorize_sender", "sender") => meta.user \notin {"", "bad"} /\ MayUse(meta.sender)
     /\ Settled("authorize_sender", "body") /\ conf.checkHeader =>
          MayUse(meta.fromHdr) \/ MayUse(meta.senderHdr)

\* The score of the early check is in the answer kept for the message, then in the batch,
\* then in merged.
ScoreKept ==
  setup.checks = {"dnsbl"} /\ meta.conn = "tcp" =>
    LET high == ScoreOfLists >= conf.rejectThres
        some == ScoreOfLists >= conf.quarantineThres
    IN /\ stage \in {"states", "conn"} =>
            /\ ~merged.quarantine
            /\ modData.res.reject \/ (~high /\ (modData.res.quarantine <=> some))
       /\ stage = "conn" /\ "dnsbl" \in todo => ~batch.quarantine
       /\ stage = "conn" /\ "dnsbl" \notin todo => batch.reject # "" \/ (~high /\ (batch.quarantine <=> some))
       /\ stage \in {"sender", "rcpt", "body"} => ~batch.quarantine
       /\ stage = "sender" \/ Going => ~high /\ (merged.quarantine <=> some)

\* What the early check leaves behind.
EarlyAnswer ==
  modData \in {Nothing, Internal("temp"), Answer(Rejects("perm"), "reject"),
              Answer([Says("perm") EXCEPT !.quarantine = TRUE], "quarantine")}

\* How far the dialogue with the milter may have come.
MilterStage ==
  LET told == "milter" \notin todo
  IN CASE stage = "conn"   -> IF told THEN 2 ELSE 0
       [] stage = "sender" -> IF told THEN 3 ELSE 2
       [] stage \in {"early", "states"} -> 0
       [] stage \in {"ready", "rcpt"}   -> 4
       [] stage = "body" /\ ~told       -> 4
       [] OTHER -> 6
DialogueKept ==
  /\ dialogue \in Seq(DOMAIN Rank)
  /\ \A i \in 1 .. Len(dialogue) : Rank[dialogue[i]] <= MilterStage
  /\ \A i \in 1 .. Len(dialogue) - 1 :
       \/ Rank[dialogue[i]] < Rank[dialogue[i + 1]]
       \/ dialogue[i] = "rcpt" /\ dialogue[i + 1] = "rcpt"
  /\ stage = "conn" /\ "milter" \in todo => "milter" \notin skip
  /\ stage = "over" => session # "open"

ChecksInv ==
  /\ setup \in Setup /\ ChecksTypeOK /\ merged \in [auth : Seq(AuthResult), quarantine : BOOLEAN]
  /\ StagesInOrder /\ CausesStaged /\ RcptInHand /\ CausesKept /\ SpfOnce /\ LeftToPolicy
  /\ VerdictOfPolicy /\ SendersHeard /\ EarlyAnswer /\ ScoreKept /\ DialogueKept
=============================================================================
