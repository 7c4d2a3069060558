---------------------------- MODULE MsgPipeline ----------------------------
(***************************************************************************)
(* internal/msgpipeline: what happens to one message between an endpoint   *)
(* and the delivery targets.  Start runs the global and source checks and  *)
(* modifiers; AddRcpt checks and rewrites a recipient, routes each address *)
(* it became to a destination block and hands it to the targets of that    *)
(* block; Body or BodyNonAtomic passes the message to all targets; Commit  *)
(* or Abort ends it.                                                       *)
(*                                                                         *)
(* The caller makes one call at a time.  A call is an agenda of tasks, one *)
(* per call the code makes to a check, modifier, table or target; those    *)
(* are external and may answer anything.  An error replaces the agenda by  *)
(* the error return.  Loops over Go maps take their elements in any order. *)
(* Checks of a list run in parallel, and only their merged result matters; *)
(* a check that panics counts as one that has nothing to say.              *)
(* Header fields and error texts are left out.                             *)
(***************************************************************************)
EXTENDS Naturals, Sequences, FiniteSets

CONSTANTS
  Addr,      \* addresses, as given by the client or made by modifiers
  DomainOf,  \* DomainOf[a]: the domain of an address
  Check, Target,
  Partial,   \* targets whose deliveries implement PartialDelivery
  Global,    \* [checks, sender, rewrite, route, dmarc]: the pipeline itself
  Source,    \* Source[s]: source blocks [checks, rejects, rewrite, route]
  Block,     \* Block[b]: destination blocks [checks, rejects, rewrite, targets]
  Protocols, \* kinds of endpoint to consider: smtp (Body), lmtp (BodyNonAtomic)
  MaxRcpts   \* bound: AddRcpt calls

Sources == DOMAIN Source
Blocks  == DOMAIN Block
Groups  == {"global", "source"} \cup Blocks
Rewrite == [Addr -> Seq(Addr)]
RouteTo(B) == [in : Seq([table : SUBSET Addr, block : B]),
               rules : UNION {[K -> B] : K \in SUBSET (Addr \cup {DomainOf[a] : a \in Addr})},
               default : B]

ASSUME PipelineAssumption ==
  /\ DOMAIN DomainOf = Addr /\ Addr # {}
  /\ Partial \subseteq Target
  /\ Global.checks \subseteq Check /\ Global.rewrite \in Rewrite
  /\ Global.sender \in [Addr -> Addr] /\ Global.route \in RouteTo(Sources)
  /\ Global.dmarc \in BOOLEAN
  /\ \A s \in Sources : /\ Source[s].checks \subseteq Check /\ Source[s].rejects \in BOOLEAN
                        /\ Source[s].rewrite \in Rewrite /\ Source[s].route \in RouteTo(Blocks)
  /\ \A b \in Blocks : /\ Block[b].checks \subseteq Check /\ Block[b].rejects \in BOOLEAN
                       /\ Block[b].rewrite \in Rewrite /\ Block[b].targets \in Seq(Target)
  /\ {"global", "source"} \cap Blocks = {}
  /\ Protocols \subseteq {"smtp", "lmtp"} /\ MaxRcpts \in Nat

VARIABLES
  protocol,   \* the endpoint the message came through
  phase,      \* new, open, ready (for Commit), failed (Body failed), refused, ended
  call,       \* the call in progress, or none
  agenda,     \* the tasks that remain of it
  orig,       \* originalTo of the AddRcpt in progress
  calls,      \* AddRcpt calls made
  sender, src,   \* mailFrom, dd.sourceBlock
  cstate,     \* cstate[c]: check state in cr.states: none, open, closed
  asked,      \* asked[c]: cr.checkedRcptsPerCheck of that state
  checkedRcpts,  \* cr.checkedRcpts
  quarantine, \* cr.mergedRes.Quarantine
  msgQuarantine, \* msgMeta.Quarantine
  mods,       \* mods[g]: modifier state of a group: none, open, closed, leaked
  deliveries, \* deliveries[t]: [stage, taken, recipients, body]
  originalRcpts, \* msgMeta.OriginalRcpts, as a partial function
  accepted,   \* recipients AddRcpt accepted
  statuses,   \* recipients for which a failure was reported (SetStatus)
  \* What happened, for the properties only.
  routed,     \* [orig, addr, block, to]: addresses handed to a block's targets
  refused,    \* refused[c]: recipients check c rejected
  missed      \* missed[t]: addresses a partial target failed for

checkVars  == <<cstate, asked, checkedRcpts, quarantine>>
targetVars == <<deliveries, originalRcpts, statuses, routed, missed>>
callerVars == <<protocol, phase, call, orig, calls, accepted>>
vars == <<callerVars, agenda, sender, src, checkVars, msgQuarantine, mods, targetVars, refused>>

NoDelivery == [stage |-> "none", taken |-> {}, recipients |-> {}, body |-> FALSE]
Started == {t \in Target : deliveries[t].stage # "none"}
StoredBlocks == {b \in Blocks : mods[b] # "none"}

-----------------------------------------------------------------------------
(* Tasks *)

States(C)      == [op |-> "states", checks |-> C]
AskRcpt(C, a)  == [op |-> "rcpt", checks |-> C, addr |-> a]
AskBody(C)     == [op |-> "body", checks |-> C]
InitMods(g)    == [op |-> "mods", group |-> g]
Rewriting(g, a) == [op |-> "rewrite", group |-> g, addr |-> a]
Routing(a)     == [op |-> "route", addr |-> a]
Handing(b, a, x) == [op |-> "hand", block |-> b, addr |-> a, to |-> x]
Giving(t, x)   == [op |-> "give", target |-> t, to |-> x]
Simple(op)     == [op |-> op]
Each(op, S)    == [op |-> op, left |-> S]

Doing(op) == agenda # <<>> /\ Head(agenda).op = op
Task == Head(agenda)
Continue(tasks) == agenda' = tasks \o Tail(agenda)
Fail == agenda' = <<Simple("error")>>

\* checkRcpt and checkBody with one list of checks.
CheckRcpt(C, a) == <<States(C), AskRcpt(C, a)>>
CheckBody(C)    == <<States(C), AskBody(C)>>

-----------------------------------------------------------------------------
(* Checks: check_runner.go *)

\* checkStates: states that do not exist yet are made, shown the sender and all
\* recipients so far, and stored only if nothing fails.  On failure every state
\* collected for the list is closed, also those stored before.
CheckStates ==
  LET C == Task.checks
      old == {c \in C : cstate[c] # "none"}
      Close(S) == cstate' = [c \in Check |-> IF c \in S THEN "closed" ELSE cstate[c]]
  IN
  /\ Doing("states")
  /\ \/ C = old /\ Continue(<<>>) /\ UNCHANGED <<cstate, asked, quarantine>>
     \/ /\ C # old /\ Continue(<<>>)
        /\ cstate' = [c \in Check |-> IF c \in C \ old THEN "open" ELSE cstate[c]]
        /\ asked' = [c \in Check |-> IF c \in C THEN asked[c] \cup checkedRcpts ELSE asked[c]]
        /\ quarantine' \in {quarantine, TRUE}
     \/ \* CheckStateForMsg fails: the states collected so far are closed.
        /\ C # old /\ Fail
        /\ \E S \in SUBSET old : Close(S)
        /\ UNCHANGED <<asked, quarantine>>
     \/ \* A replayed call rejects.
        /\ C # old /\ Fail
        /\ Close(old)
        /\ \E R \in SUBSET checkedRcpts :
             asked' = [c \in Check |-> IF c \in old THEN asked[c] \cup R ELSE asked[c]]
        /\ quarantine' \in {quarantine, TRUE}
  /\ UNCHANGED <<callerVars, sender, src, checkedRcpts, msgQuarantine, mods, targetVars, refused>>

\* runAndMergeResults over the checks in C: a rejection wins over quarantine.
Merge(C, rej) ==
  \E quar \in SUBSET (C \ rej) :
    IF rej # {} THEN Fail /\ UNCHANGED quarantine
    ELSE Continue(<<>>) /\ quarantine' = (quarantine \/ quar # {})

\* Mutant: the addresses are remembered, but the checks are not run.
CheckRcptSkipped ==
  /\ Doing("rcpt") /\ Continue(<<>>)
  /\ checkedRcpts' = checkedRcpts \cup {Task.addr}
  /\ UNCHANGED <<callerVars, sender, src, cstate, asked, quarantine, msgQuarantine, mods, targetVars, refused>>

\* checkRcpt, after checkStates: a state is asked once about an address.
CheckRcptRun ==
  LET C == Task.checks
      fresh == {c \in C : Task.addr \notin asked[c]}
  IN
  /\ Doing("rcpt")
  /\ \E rej \in SUBSET fresh :
       /\ Merge(fresh, rej)
       /\ refused' = [c \in Check |-> IF c \in rej THEN refused[c] \cup {Task.addr} ELSE refused[c]]
  /\ asked' = [c \in Check |-> IF c \in C THEN asked[c] \cup {Task.addr} ELSE asked[c]]
  /\ checkedRcpts' = checkedRcpts \cup {Task.addr}
  /\ UNCHANGED <<callerVars, sender, src, cstate, msgQuarantine, mods, targetVars>>

\* checkBody, after checkStates.
CheckBodyRun ==
  /\ Doing("body")
  /\ \E rej \in SUBSET Task.checks : Merge(Task.checks, rej)
  /\ UNCHANGED <<callerVars, sender, src, cstate, asked, checkedRcpts, msgQuarantine, mods, targetVars, refused>>

\* applyResults, with GenerateReceived before it: DMARC may reject or quarantine.
ApplyResults ==
  /\ Doing("apply")
  /\ \/ Fail /\ UNCHANGED msgQuarantine
     \/ Continue(<<>>) /\ msgQuarantine' = (msgQuarantine \/ quarantine)
     \/ Global.dmarc /\ Fail /\ msgQuarantine' = (msgQuarantine \/ quarantine)
     \/ Global.dmarc /\ Continue(<<>>) /\ msgQuarantine' = TRUE
  /\ UNCHANGED <<callerVars, sender, src, checkVars, mods, targetVars, refused>>

-----------------------------------------------------------------------------
(* Modifiers *)

\* ModStateForMsg and RewriteSender: initRunGlobalModifiers closes the state it
\* could not use, start does not, getRcptModifiers ignores the error.
InitModifiers ==
  LET g == Task.group IN
  /\ Doing("mods")
  /\ \/ mods[g] # "none" /\ Continue(<<>>) /\ UNCHANGED <<mods, sender>>
     \/ /\ mods[g] = "none" /\ Continue(<<>>)
        /\ mods' = [mods EXCEPT ![g] = "open"]
        /\ sender' = IF g = "global" THEN Global.sender[sender] ELSE sender
     \/ mods[g] = "none" /\ Fail /\ UNCHANGED <<mods, sender>>
     \/ /\ mods[g] = "none" /\ g \in {"global", "source"} /\ Fail
        /\ mods' = [mods EXCEPT ![g] = IF g = "global" THEN "closed" ELSE "leaked"]
        /\ UNCHANGED sender
  /\ UNCHANGED <<callerVars, src, checkVars, msgQuarantine, targetVars, refused>>

\* RewriteRcpt of the global, then of the source modifiers on each result; the
\* addresses they end with are routed after that.  The modifiers of a block are
\* closed when they fail, though they stay in the map.
RewriteRcpt ==
  LET g == Task.group
      a == Task.addr
      Map(s, Make(_)) == [i \in DOMAIN s |-> Make(s[i])]
  IN
  /\ Doing("rewrite")
  /\ \/ /\ g = "global"
        /\ Continue(Map(Global.rewrite[a], LAMBDA x : Rewriting("source", x)))
        /\ UNCHANGED mods
     \/ /\ g = "source"
        /\ agenda' = Tail(agenda) \o Map(Source[src].rewrite[a], Routing)
        /\ UNCHANGED mods
     \/ /\ g \in Blocks
        /\ Continue(Map(Block[g].rewrite[a], LAMBDA x : Handing(g, a, x)))
        /\ UNCHANGED mods
     \/ /\ Fail
        /\ mods' = IF g \in Blocks THEN [mods EXCEPT ![g] = "closed"] ELSE mods
  /\ UNCHANGED <<callerVars, sender, src, checkVars, msgQuarantine, targetVars, refused>>

\* RewriteBody of every group: it changes the header only, and may fail.
RewriteBody ==
  /\ Doing("rewriteBody")
  /\ Continue(<<>>) \/ Fail
  /\ UNCHANGED <<callerVars, sender, src, checkVars, msgQuarantine, mods, targetVars, refused>>

-----------------------------------------------------------------------------
(* Routing *)

\* srcBlockForAddr and rcptBlockForAddr: the first table that has the address,
\* then a rule for the address, for its domain, and the default.  A table whose
\* lookup fails is skipped.
Select(route, a, broken) ==
  LET hits == {i \in DOMAIN route.in \ broken : a \in route.in[i].table}
  IN  IF hits # {} THEN route.in[CHOOSE i \in hits : \A j \in hits : i <= j].block
      ELSE IF a \in DOMAIN route.rules THEN route.rules[a]
      ELSE IF DomainOf[a] \in DOMAIN route.rules THEN route.rules[DomainOf[a]]
      ELSE route.default

RouteSource ==
  /\ Doing("source")
  /\ \/ \E broken \in SUBSET DOMAIN Global.route.in :
          LET s == Select(Global.route, sender, broken)
          IN  IF Source[s].rejects THEN Fail /\ UNCHANGED src
              ELSE /\ src' = s
                   /\ Continue(<<States(Source[s].checks), InitMods("source")>>)
     \/ Fail /\ UNCHANGED src
  /\ UNCHANGED <<callerVars, sender, checkVars, msgQuarantine, mods, targetVars, refused>>

RouteRcpt ==
  LET a == Task.addr IN
  /\ Doing("route")
  /\ \/ \E broken \in SUBSET DOMAIN Source[src].route.in :
          LET b == Select(Source[src].route, a, broken)
          IN  IF Block[b].rejects THEN Fail
              ELSE Continue(CheckRcpt(Block[b].checks, a) \o <<InitMods(b), Rewriting(b, a)>>)
     \/ Fail
  /\ UNCHANGED <<callerVars, sender, src, checkVars, msgQuarantine, mods, targetVars, refused>>

-----------------------------------------------------------------------------
(* Targets *)

\* An effective address: remember where it came from, then visit the targets.
HandToTargets ==
  LET b == Task.block
      x == Task.to
  IN
  /\ Doing("hand")
  /\ originalRcpts' = IF x = orig THEN originalRcpts
                      ELSE [y \in DOMAIN originalRcpts \cup {x} |->
                              IF y = x THEN orig ELSE originalRcpts[y]]
  /\ routed' = routed \cup {[orig |-> orig, addr |-> Task.addr, block |-> b, to |-> x]}
  /\ Continue([i \in DOMAIN Block[b].targets |-> Giving(Block[b].targets[i], x)])
  /\ UNCHANGED <<callerVars, sender, src, checkVars, msgQuarantine, mods, deliveries, statuses, missed, refused>>

\* getDelivery, then AddRcpt of the target.
GiveToTarget ==
  LET t == Task.target
      d == [deliveries[t] EXCEPT !.stage = "started"]
  IN
  /\ Doing("give")
  /\ \/ /\ Continue(<<>>)
        /\ deliveries' = [deliveries EXCEPT ![t] =
             [d EXCEPT !.taken = @ \cup {Task.to}, !.recipients = @ \cup {orig}]]
     \/ Fail /\ deliveries' = [deliveries EXCEPT ![t] = d]
     \/ deliveries[t].stage = "none" /\ Fail /\ UNCHANGED deliveries
  /\ UNCHANGED <<callerVars, sender, src, checkVars, msgQuarantine, mods, originalRcpts, statuses, routed, missed, refused>>

\* Mutant: Body goes on with the other targets when one fails.
GiveBodyToAll ==
  /\ Doing("bodies")
  /\ \/ Task.left = {} /\ Continue(<<>>) /\ UNCHANGED deliveries
     \/ \E t \in Task.left, ok \in BOOLEAN :
          /\ deliveries' = [deliveries EXCEPT ![t].body = ok]
          /\ Continue(<<Each("bodies", Task.left \ {t})>>)
  /\ UNCHANGED <<callerVars, sender, src, checkVars, msgQuarantine, mods, originalRcpts, statuses, routed, missed, refused>>

\* Body of every delivery, up to the first failure.
GiveBody ==
  /\ Doing("bodies")
  /\ \/ Task.left = {} /\ Continue(<<>>) /\ UNCHANGED deliveries
     \/ \E t \in Task.left :
          \/ /\ deliveries' = [deliveries EXCEPT ![t].body = TRUE]
             /\ Continue(<<Each("bodies", Task.left \ {t})>>)
          \/ Fail /\ UNCHANGED deliveries
  /\ UNCHANGED <<callerVars, sender, src, checkVars, msgQuarantine, mods, originalRcpts, statuses, routed, missed, refused>>

\* Mutant: statuses keep the rewritten address.
OriginalUntranslated(x) == x

\* statusCollector: statuses are reported for the original recipient.
Original(x) == IF x \in DOMAIN originalRcpts THEN originalRcpts[x] ELSE x

\* BodyNonAtomic of partial deliveries, Body of the others.
GiveBodyPartially ==
  /\ Doing("partBodies")
  /\ \/ Task.left = {} /\ Continue(<<>>) /\ UNCHANGED <<deliveries, statuses, missed>>
     \/ \E t \in Task.left :
          /\ Continue(<<Each("partBodies", Task.left \ {t})>>)
          /\ \/ /\ t \in Partial
                /\ \E F \in SUBSET deliveries[t].taken :
                     /\ missed' = [missed EXCEPT ![t] = F]
                     /\ statuses' = statuses \cup {Original(x) : x \in F}
                /\ deliveries' = [deliveries EXCEPT ![t].body = TRUE]
             \/ /\ t \notin Partial
                /\ deliveries' = [deliveries EXCEPT ![t].body = TRUE]
                /\ UNCHANGED <<statuses, missed>>
             \/ /\ t \notin Partial
                /\ statuses' = statuses \cup deliveries[t].recipients
                /\ UNCHANGED <<deliveries, missed>>
  /\ UNCHANGED <<callerVars, sender, src, checkVars, msgQuarantine, mods, originalRcpts, routed, refused>>

\* Commit of every delivery, up to the first failure.
CommitTargets ==
  /\ Doing("commits")
  /\ \/ Task.left = {} /\ Continue(<<>>) /\ UNCHANGED deliveries
     \/ \E t \in Task.left :
          \/ /\ deliveries' = [deliveries EXCEPT ![t].stage = "committed"]
             /\ Continue(<<Each("commits", Task.left \ {t})>>)
          \/ Fail /\ UNCHANGED deliveries
  /\ UNCHANGED <<callerVars, sender, src, checkVars, msgQuarantine, mods, originalRcpts, statuses, routed, missed, refused>>

-----------------------------------------------------------------------------
(* The calls *)

Idle == call = "none"
Begin(name, tasks) == call' = name /\ agenda' = tasks

Start(a) ==
  /\ phase = "new" /\ Idle
  /\ sender' = a
  /\ Begin("Start", <<States(Global.checks), InitMods("global"), Simple("source")>>)
  /\ UNCHANGED <<protocol, phase, orig, calls, accepted, src, checkVars, msgQuarantine, mods, targetVars, refused>>

AddRcpt(a) ==
  /\ phase = "open" /\ Idle /\ calls < MaxRcpts
  /\ orig' = a /\ calls' = calls + 1
  /\ Begin("AddRcpt", CheckRcpt(Global.checks, a) \o CheckRcpt(Source[src].checks, a)
                        \o <<Rewriting("global", a)>>)
  /\ UNCHANGED <<protocol, phase, accepted, sender, src, checkVars, msgQuarantine, mods, targetVars, refused>>

\* The checks of the blocks in use, in any order.
CheckBlocks ==
  /\ Doing("blocks")
  /\ \/ Task.left = {} /\ Continue(<<>>)
     \/ \E b \in Task.left :
          Continue(CheckBody(Block[b].checks) \o <<Each("blocks", Task.left \ {b})>>)
  /\ UNCHANGED <<callerVars, sender, src, checkVars, msgQuarantine, mods, targetVars, refused>>

\* The endpoint asks for the body only after a recipient was accepted.
CanSend == phase = "open" /\ Idle /\ accepted # {}

Body ==
  /\ CanSend /\ protocol = "smtp"
  /\ Begin("Body", CheckBody(Global.checks) \o CheckBody(Source[src].checks)
                     \o <<Each("blocks", StoredBlocks), Simple("apply"), Simple("rewriteBody"),
                          Each("bodies", Started)>>)
  /\ UNCHANGED <<protocol, phase, orig, calls, accepted, sender, src, checkVars, msgQuarantine, mods, targetVars, refused>>

BodyNonAtomic ==
  /\ CanSend /\ protocol = "lmtp"
  /\ Begin("BodyNonAtomic", CheckBody(Global.checks) \o CheckBody(Source[src].checks)
                              \o <<Simple("rewriteBody"), Each("partBodies", Started)>>)
  /\ UNCHANGED <<protocol, phase, orig, calls, accepted, sender, src, checkVars, msgQuarantine, mods, targetVars, refused>>

\* close: every stored check and modifier state is closed.
Close ==
  /\ cstate' = [c \in Check |-> IF cstate[c] = "none" THEN "none" ELSE "closed"]
  /\ mods' = [g \in Groups |-> IF mods[g] = "open" THEN "closed" ELSE mods[g]]

Commit ==
  /\ phase = "ready" /\ Idle
  /\ Close
  /\ Begin("Commit", <<Each("commits", Started)>>)
  /\ UNCHANGED <<protocol, phase, orig, calls, accepted, sender, src, asked, checkedRcpts, quarantine,
                 msgQuarantine, targetVars, refused>>

\* Abort tries all deliveries, whatever they answer.
Abort ==
  /\ phase \in {"open", "failed"} /\ Idle
  /\ Close
  /\ phase' = "ended"
  /\ deliveries' = [t \in Target |-> IF t \in Started THEN [deliveries[t] EXCEPT !.stage = "aborted"]
                                     ELSE deliveries[t]]
  /\ UNCHANGED <<protocol, call, agenda, orig, calls, accepted, sender, src, asked, checkedRcpts, quarantine,
                 msgQuarantine, originalRcpts, statuses, routed, missed, refused>>

\* The call in progress returns without an error.
Return ==
  /\ call # "none" /\ agenda = <<>>
  /\ call' = "none"
  /\ phase' = CASE call = "Start" -> "open"
                [] call = "AddRcpt" -> "open"
                [] call \in {"Body", "BodyNonAtomic"} -> "ready"
                [] call = "Commit" -> "ended"
  /\ accepted' = IF call = "AddRcpt" THEN accepted \cup {orig} ELSE accepted
  /\ UNCHANGED <<protocol, agenda, orig, calls, sender, src, checkVars, msgQuarantine, mods, targetVars, refused>>

\* It returns an error: Start closes what it has made, BodyNonAtomic reports the
\* error for the recipients of all deliveries (setStatusAll).
ReturnError ==
  /\ Doing("error")
  /\ agenda' = <<>> /\ call' = "none"
  /\ \/ call = "Start" /\ Close /\ phase' = "refused" /\ UNCHANGED statuses
     \/ call = "AddRcpt" /\ UNCHANGED <<cstate, mods, phase, statuses>>
     \/ call = "Body" /\ phase' = "failed" /\ UNCHANGED <<cstate, mods, statuses>>
     \/ /\ call = "BodyNonAtomic"
        /\ phase' = "ready"
        /\ statuses' = statuses \cup UNION {deliveries[t].recipients : t \in Target}
        /\ UNCHANGED <<cstate, mods>>
     \/ call = "Commit" /\ phase' = "ended" /\ UNCHANGED <<cstate, mods, statuses>>
  /\ UNCHANGED <<protocol, orig, calls, accepted, sender, src, asked, checkedRcpts, quarantine, msgQuarantine,
                 deliveries, originalRcpts, routed, missed, refused>>

Init ==
  /\ protocol \in Protocols
  /\ phase = "new" /\ call = "none" /\ agenda = <<>> /\ calls = 0
  /\ orig = CHOOSE a \in Addr : TRUE
  /\ sender = CHOOSE a \in Addr : TRUE
  /\ src = CHOOSE s \in Sources : TRUE
  /\ cstate = [c \in Check |-> "none"] /\ asked = [c \in Check |-> {}] /\ checkedRcpts = {}
  /\ quarantine = FALSE /\ msgQuarantine = FALSE
  /\ mods = [g \in Groups |-> "none"]
  /\ deliveries = [t \in Target |-> NoDelivery] /\ originalRcpts = [a \in {} |-> a]
  /\ accepted = {} /\ statuses = {} /\ routed = {}
  /\ refused = [c \in Check |-> {}] /\ missed = [t \in Target |-> {}]

CallerStep == (\E a \in Addr : Start(a) \/ AddRcpt(a)) \/ Body \/ BodyNonAtomic \/ Commit \/ Abort

TaskStep ==
  \/ CheckStates \/ CheckRcptRun \/ CheckBodyRun \/ CheckBlocks \/ ApplyResults
  \/ InitModifiers \/ RewriteRcpt \/ RewriteBody \/ RouteSource \/ RouteRcpt
  \/ HandToTargets \/ GiveToTarget \/ GiveBody \/ GiveBodyPartially \/ CommitTargets
  \/ Return \/ ReturnError

Next == CallerStep \/ TaskStep

Spec == Init /\ [][Next]_vars

-----------------------------------------------------------------------------
(* Properties *)

\* Every variable has its type.
TypeOK ==
  /\ protocol \in Protocols
  /\ phase \in {"new", "open", "ready", "failed", "refused", "ended"}
  /\ call \in {"none", "Start", "AddRcpt", "Body", "BodyNonAtomic", "Commit"}
  /\ agenda # <<>> => call # "none"
  /\ calls \in 0..MaxRcpts /\ orig \in Addr /\ sender \in Addr /\ src \in Sources
  /\ cstate \in [Check -> {"none", "open", "closed"}] /\ asked \in [Check -> SUBSET checkedRcpts]
  /\ checkedRcpts \subseteq Addr /\ accepted \subseteq Addr /\ statuses \subseteq Addr
  /\ quarantine \in BOOLEAN /\ msgQuarantine \in BOOLEAN
  /\ mods \in [Groups -> {"none", "open", "closed", "leaked"}]
  /\ deliveries \in [Target -> [stage : {"none", "started", "committed", "aborted"},
                                taken : SUBSET Addr, recipients : SUBSET Addr, body : BOOLEAN]]
  /\ DOMAIN originalRcpts \subseteq Addr /\ missed \in [Target -> SUBSET Addr]

\* An SMTP message is all or nothing up to Commit: no target is committed unless
\* every target that knows of the message has taken its body.
AtomicDelivery ==
  protocol = "smtp" /\ (\E t \in Target : deliveries[t].stage = "committed") =>
    \A t \in Started : deliveries[t].body

Members(s) == {s[i] : i \in DOMAIN s}

\* The blocks that the tables of the source may choose for an address, whichever of
\* them cannot be read.
Choices(z) == {Select(Source[src].route, z, broken) : broken \in SUBSET DOMAIN Source[src].route.in}

\* A recipient that was accepted has reached, for each of the addresses it was
\* rewritten to, every target of a block that the tables chose for that address and
\* that does not reject, whatever failed for the recipients before it.
AcceptedReachesTargets ==
  \A o \in accepted : \A y \in Members(Global.rewrite[o]) : \A z \in Members(Source[src].rewrite[y]) :
    \E b \in Choices(z) :
      /\ ~Block[b].rejects
      /\ \A x \in Members(Block[b].rewrite[z]) :
           /\ [orig |-> o, addr |-> z, block |-> b, to |-> x] \in routed
           /\ \A t \in Members(Block[b].targets) : x \in deliveries[t].taken

\* No target hears of an address before the checks that apply to it were asked:
\* the global and source checks about the recipient as given, those of the block
\* about the address that was routed.
CheckedBeforeTargets ==
  \A h \in routed :
    /\ \A c \in Global.checks \cup Source[src].checks : h.orig \in asked[c]
    /\ \A c \in Block[h.block].checks : h.addr \in asked[c]

\* A message that a check put into quarantine, at any stage and for any list of
\* checks, is marked before an SMTP target gets its body.
QuarantineKept ==
  protocol = "smtp" /\ quarantine /\ (\E t \in Target : deliveries[t].body) => msgQuarantine

DisjointLists ==
  /\ \A b \in Blocks : Block[b].checks \cap (Global.checks \cup Source[src].checks) = {}
  /\ \A b, d \in Blocks : b # d => Block[b].checks \cap Block[d].checks = {}
  /\ Global.checks \cap Source[src].checks = {}

\* With no check in two lists, check states are closed when the message ends, not
\* before, however many of their calls fail.
ChecksClosedAtEnd ==
  DisjointLists =>
    \A c \in Check : cstate[c] # "none" =>
      (cstate[c] = "closed" <=> phase \in {"refused", "ended"} \/ call = "Commit")

OriginsOf(x) == {h.orig : h \in {k \in routed : k.to = x}}

\* Over LMTP a recipient learns of the failure of the address it was rewritten to,
\* unless another recipient was rewritten to the same address.
FailureReported ==
  \A t \in Target : \A x \in missed[t] :
    \A o \in Addr : OriginsOf(x) = {o} => o \in statuses

\* Rewriting and routing lose nobody: an accepted recipient is at every target of
\* its routes, and a target's failure is reported under the name that was accepted.
RecipientsTracked == AcceptedReachesTargets /\ FailureReported

\* The checks have their say: they are asked before any target, a quarantine
\* mark lasts, and each check state is closed when the delivery ends, not before.
ChecksCount == TypeOK /\ CheckedBeforeTargets /\ QuarantineKept /\ ChecksClosedAtEnd

-----------------------------------------------------------------------------
(* The inductive strengthening of AtomicDelivery and ChecksCount *)

Tasks ==
  [op : {"states", "body"}, checks : SUBSET Check]
    \cup [op : {"rcpt"}, checks : SUBSET Check, addr : Addr]
    \cup [op : {"mods"}, group : Groups]
    \cup [op : {"rewrite"}, group : Groups, addr : Addr]
    \cup [op : {"route"}, addr : Addr]
    \cup [op : {"hand"}, block : Blocks, addr : Addr, to : Addr]
    \cup [op : {"give"}, target : Target, to : Addr]
    \cup [op : {"source", "apply", "rewriteBody", "error"}]
    \cup [op : {"blocks"}, left : SUBSET Blocks]
    \cup [op : {"bodies", "partBodies", "commits"}, left : SUBSET Target]

Lists == {Global.checks, Source[src].checks} \cup {Block[b].checks : b \in Blocks}

Typed ==
  /\ TypeOK /\ agenda \in Seq(Tasks)
  /\ originalRcpts \in [DOMAIN originalRcpts -> Addr]
  /\ routed \subseteq [orig : Addr, addr : Addr, block : Blocks, to : Addr]

Ops(c) ==
  CASE c = "Start"         -> {"states", "mods", "source", "error"}
    [] c = "AddRcpt"       -> {"states", "rcpt", "mods", "rewrite", "route", "hand", "give", "error"}
    [] c = "Body"          -> {"states", "body", "blocks", "apply", "rewriteBody", "bodies", "error"}
    [] c = "BodyNonAtomic" -> {"states", "body", "rewriteBody", "partBodies", "error"}
    [] c = "Commit"        -> {"commits", "error"}
    [] OTHER               -> {}

\* What a call may do, and when it is made.
CallShape ==
  /\ call = "Start" => phase = "new"
  /\ call \in {"AddRcpt", "Body", "BodyNonAtomic"} => phase = "open"
  /\ call = "Commit" => phase = "ready"
  /\ call = "Body" => protocol = "smtp"
  /\ call = "BodyNonAtomic" => protocol = "lmtp"
  /\ phase = "new" => routed = {}
  /\ \A i \in DOMAIN agenda : /\ agenda[i].op \in Ops(call)
                              /\ agenda[i].op \in {"states", "rcpt", "body"} => agenda[i].checks \in Lists

Failing == agenda = <<Simple("error")>>

\* Start: the checks of the source have no states before the source is known.
StartShape ==
  /\ phase = "new" /\ call = "none" => \A c \in Check : cstate[c] = "none"
  /\ call = "Start" =>
       \/ Failing
       \/ /\ agenda = <<States(Global.checks), InitMods("global"), Simple("source")>>
          /\ \A c \in Check : cstate[c] = "none"
       \/ /\ agenda \in {<<InitMods("global"), Simple("source")>>, <<Simple("source")>>}
          /\ \A c \in Check : cstate[c] = IF c \in Global.checks THEN "open" ELSE "none"
       \/ agenda \in {<<States(Source[src].checks), InitMods("source")>>, <<InitMods("source")>>, <<>>}

\* AddRcpt: the global checks, those of the source, then the addresses; what a block
\* gets was asked about, or is asked before.
Asked(C, a) == \A c \in C : a \in asked[c]
Rewritten(i) ==
  LET k == agenda[i] IN
  k.op = "rewrite" /\ k.group \in Blocks =>
    Asked(Block[k.group].checks, k.addr) \/ (i >= 3 /\ agenda[i - 2] = AskRcpt(Block[k.group].checks, k.addr))
AddShape ==
  call = "AddRcpt" =>
    LET G == Global.checks
        S == Source[src].checks
        last == Rewriting("global", orig)
    IN
    \/ Failing
    \/ agenda = <<States(G), AskRcpt(G, orig), States(S), AskRcpt(S, orig), last>>
    \/ agenda = <<AskRcpt(G, orig), States(S), AskRcpt(S, orig), last>>
    \/ Asked(G, orig) /\ agenda \in {<<States(S), AskRcpt(S, orig), last>>, <<AskRcpt(S, orig), last>>}
    \/ /\ Asked(G, orig) /\ Asked(S, orig)
       /\ \A i \in DOMAIN agenda : /\ Rewritten(i)
                                   /\ agenda[i].op = "hand" => Asked(Block[agenda[i].block].checks, agenda[i].addr)

\* Body: the results are applied after the last check and before the first target.
NoBodies == \A t \in Target : ~deliveries[t].body
Given(left) == \A t \in Started \ left : deliveries[t].body
Applied == quarantine => msgQuarantine
BodyShape ==
  /\ phase \in {"new", "open"} /\ call \notin {"Body", "BodyNonAtomic"} => NoBodies
  /\ phase = "ready" /\ protocol = "smtp" => Given({}) /\ Applied
  /\ call = "Body" =>
       LET n == Len(agenda) IN
       \/ Failing
       \/ /\ NoBodies /\ n >= 3
          /\ agenda[n - 2] = Simple("apply") /\ agenda[n - 1] = Simple("rewriteBody")
          /\ agenda[n] = Each("bodies", Started)
          /\ \A i \in 1 .. n - 3 : agenda[i].op \in {"states", "body", "blocks"}
       \/ Applied /\ agenda = <<Simple("rewriteBody"), Each("bodies", Started)>>
       \/ Applied /\ n = 1 /\ agenda[1].op = "bodies" /\ Given(agenda[1].left)
       \/ Applied /\ n = 0 /\ Given({})

\* Only Commit commits, and only what was started.
CommitShape ==
  /\ phase \notin {"ready", "ended"} => \A t \in Target : deliveries[t].stage # "committed"
  /\ \A i \in DOMAIN agenda : agenda[i].op = "commits" => agenda[i].left \subseteq Started

\* With no check in two lists, the checks of a list get their states together.
ListsUniform ==
  DisjointLists =>
    \A C \in Lists : (\A c \in C : cstate[c] = "none") \/ (\A c \in C : cstate[c] # "none")

PipelineInv ==
  /\ Typed /\ CallShape /\ StartShape /\ AddShape /\ BodyShape /\ CommitShape
  /\ AtomicDelivery /\ CheckedBeforeTargets /\ QuarantineKept /\ ListsUniform /\ ChecksClosedAtEnd

-----------------------------------------------------------------------------
(* The inductive strengthening of RecipientsTracked *)

\* AddRcpt forgets no address: each one that the recipient became is where it has to
\* be, or the task that takes it a step further is on the agenda.
Left(k) == \E i \in DOMAIN agenda : agenda[i] = k
CoversAddress(b, z, x) ==
  \/ Left(Handing(b, z, x))
  \/ /\ [orig |-> orig, addr |-> z, block |-> b, to |-> x] \in routed
     /\ \A t \in Members(Block[b].targets) : x \in deliveries[t].taken \/ Left(Giving(t, x))
CoversBlock(z) ==
  \E b \in Choices(z) :
    /\ ~Block[b].rejects
    /\ Left(Rewriting(b, z)) \/ \A x \in Members(Block[b].rewrite[z]) : CoversAddress(b, z, x)
CoversRewritten(y) ==
  \/ Left(Rewriting("source", y))
  \/ \A z \in Members(Source[src].rewrite[y]) : Left(Routing(z)) \/ CoversBlock(z)
CoversRcpt ==
  \/ Left(Rewriting("global", orig))
  \/ \A y \in Members(Global.rewrite[orig]) : CoversRewritten(y)
AgendaCovers == call = "AddRcpt" /\ ~Failing => CoversRcpt

\* msgMeta.OriginalRcpts names a recipient that became the address, and an address that
\* it does not have is a recipient.  Targets are given addresses with an origin.
HasOrigin(x) == OriginsOf(x) # {}
OriginsKept ==
  /\ \A x \in DOMAIN originalRcpts : originalRcpts[x] \in OriginsOf(x)
  /\ \A h \in routed : h.to \notin DOMAIN originalRcpts => h.to \in OriginsOf(h.to)
  /\ \A i \in DOMAIN agenda : agenda[i].op = "give" => HasOrigin(agenda[i].to)
  /\ \A t \in Target : \A x \in deliveries[t].taken : HasOrigin(x)

\* A target misses an address only once the origins are settled.
FailuresKept ==
  /\ \A t \in Target : \A x \in missed[t] : HasOrigin(x) /\ Original(x) \in statuses
  /\ phase \in {"new", "open"} /\ call # "BodyNonAtomic" => \A t \in Target : missed[t] = {}

TrackInv ==
  /\ phase = "new" => accepted = {}
  /\ AcceptedReachesTargets /\ AgendaCovers /\ OriginsKept /\ FailuresKept

-----------------------------------------------------------------------------
(* Claims of the repository that the code does not keep *)

\* module.CheckResult: Reject "specifies that the message should be rejected":
\* a recipient that a check rejected is not handed to targets.
RefusedStaysOut ==
  \A h \in routed : \A c \in Global.checks \cup Source[src].checks : h.orig \notin refused[c]

\* LMTPData: "always commit. Should be harmless, anyway": a target is committed
\* only if it has taken the body.
CommitNeedsBody ==
  \A t \in Target : deliveries[t].stage = "committed" => deliveries[t].body
=============================================================================
