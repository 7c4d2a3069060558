------------------------- MODULE MsgPipelineProofs -------------------------
(***************************************************************************)
(* Proofs about MsgPipeline: an SMTP message is delivered to all targets   *)
(* or committed to none, every check has its say, and no recipient is lost *)
(* on the way from AddRcpt to the targets and back.                        *)
(***************************************************************************)
EXTENDS MsgPipeline, Integers, WellFoundedInduction, TLAPS

-----------------------------------------------------------------------------
(* Sequences of tasks *)

\* Short sequences, written out.
LEMMA Short ==
  ASSUME NEW a, NEW b, NEW c, NEW d, NEW e
  PROVE  /\ Head(<<a>>) = a /\ Tail(<<a>>) = <<>>
         /\ Head(<<a, b>>) = a /\ Tail(<<a, b>>) = <<b>>
         /\ Head(<<a, b, c>>) = a /\ Tail(<<a, b, c>>) = <<b, c>>
         /\ Head(<<a, b, c, d>>) = a /\ Tail(<<a, b, c, d>>) = <<b, c, d>>
         /\ Head(<<a, b, c, d, e>>) = a /\ Tail(<<a, b, c, d, e>>) = <<b, c, d, e>>
<1>1. /\ Head(<<a>>) = a /\ Tail(<<a>>) = <<>>
      /\ Head(<<a, b>>) = a /\ Tail(<<a, b>>) = <<b>>
  OBVIOUS
<1>2. Head(<<a, b, c>>) = a /\ Tail(<<a, b, c>>) = <<b, c>>
  OBVIOUS
<1>3. Head(<<a, b, c, d>>) = a /\ Tail(<<a, b, c, d>>) = <<b, c, d>>
  OBVIOUS
<1>4. Head(<<a, b, c, d, e>>) = a /\ Tail(<<a, b, c, d, e>>) = <<b, c, d, e>>
  OBVIOUS
<1> QED BY <1>1, <1>2, <1>3, <1>4

\* The calls that begin with two lists of checks, or with one.
LEMMA Begun ==
  ASSUME NEW a, NEW b, NEW c, NEW d
  PROVE  /\ <<a, b>> \o <<c, d>> = <<a, b, c, d>>
         /\ \A e : <<a, b>> \o <<c, d>> \o <<e>> = <<a, b, c, d, e>>
<1>1. <<a, b>> \o <<c, d>> = <<a, b, c, d>>
  <2> DEFINE S == {a, b, c, d}
             x == <<a, b>> \o <<c, d>>
  <2>0. <<a, b>> \in Seq(S) /\ <<c, d>> \in Seq(S)
    OBVIOUS
  <2>1. x \in Seq(S) /\ Len(x) = 4 /\ x[1] = a /\ x[2] = b /\ x[3] = c /\ x[4] = d
    BY <2>0
  <2> HIDE DEF x
  <2>2. x = <<a, b, c, d>>
    BY <2>1
  <2> QED BY <2>2 DEF x
<1>2. ASSUME NEW e PROVE <<a, b, c, d>> \o <<e>> = <<a, b, c, d, e>>
  <2> DEFINE S == {a, b, c, d, e}
             x == <<a, b, c, d>> \o <<e>>
  <2>0. <<a, b, c, d>> \in Seq(S) /\ <<e>> \in Seq(S)
    OBVIOUS
  <2>1. x \in Seq(S) /\ Len(x) = 5 /\ x[1] = a /\ x[2] = b /\ x[3] = c /\ x[4] = d /\ x[5] = e
    BY <2>0
  <2> HIDE DEF x
  <2>2. x = <<a, b, c, d, e>>
    BY <2>1
  <2> QED BY <2>2 DEF x
<1> QED BY <1>1, <1>2

\* The elements of a sequence.
LEMMA Elements ==
  ASSUME NEW S, NEW s \in Seq(S) PROVE \A i \in DOMAIN s : s[i] \in S
OBVIOUS

\* Two sequences, one after the other.
LEMMA Joined ==
  ASSUME NEW S, NEW r \in Seq(S), NEW t \in Seq(S), NEW u, u = r \o t
  PROVE  /\ DOMAIN u = 1 .. Len(r) + Len(t) /\ Len(u) = Len(r) + Len(t) /\ Len(t) \in Nat /\ DOMAIN t = 1 .. Len(t)
         /\ \A k \in 1 .. Len(r) + Len(t) : u[k] = IF k <= Len(r) THEN r[k] ELSE t[k - Len(r)]
OBVIOUS

\* The first task is replaced by others.
LEMMA Replaced ==
  ASSUME NEW S, NEW s \in Seq(S), s # <<>>, NEW t \in Seq(S), NEW u, u = t \o Tail(s)
  PROVE  /\ u \in Seq(S) /\ Len(u) = Len(t) + Len(s) - 1 /\ Len(u) \in Nat /\ Len(s) \in Nat /\ Len(t) \in Nat
         /\ Head(s) \in S /\ Head(s) = s[1] /\ 1 \in DOMAIN s /\ Len(s) >= 1
         /\ DOMAIN u = 1 .. Len(u) /\ DOMAIN s = 1 .. Len(s) /\ DOMAIN t = 1 .. Len(t)
         /\ \A i \in DOMAIN u : \/ i \in DOMAIN t /\ u[i] = t[i]
                                \/ /\ i > Len(t) /\ i - Len(t) + 1 \in DOMAIN s /\ i - Len(t) + 1 > 1
                                   /\ u[i] = s[i - Len(t) + 1]
         /\ \A i \in DOMAIN s : i > 1 => i - 1 + Len(t) \in DOMAIN u /\ u[i - 1 + Len(t)] = s[i]
<1>1. /\ Tail(s) \in Seq(S) /\ Len(Tail(s)) = Len(s) - 1 /\ Head(s) \in S /\ Head(s) = s[1] /\ Len(s) >= 1
      /\ \A i \in 1 .. Len(s) - 1 : Tail(s)[i] = s[i + 1]
  OBVIOUS
<1> DEFINE r == Tail(s)
<1> HIDE DEF r
<1>2. /\ u \in Seq(S) /\ Len(u) = Len(t) + Len(r) /\ Len(u) \in Nat /\ Len(s) \in Nat /\ Len(t) \in Nat
      /\ DOMAIN u = 1 .. Len(u) /\ DOMAIN s = 1 .. Len(s) /\ DOMAIN t = 1 .. Len(t)
      /\ \A i \in 1 .. Len(u) : u[i] = IF i <= Len(t) THEN t[i] ELSE r[i - Len(t)]
  BY <1>1 DEF r
<1>3. Len(r) = Len(s) - 1 /\ \A i \in 1 .. Len(s) - 1 : r[i] = s[i + 1]
  BY <1>1 DEF r
<1>4. ASSUME NEW i \in DOMAIN u
      PROVE  \/ i \in DOMAIN t /\ u[i] = t[i]
             \/ /\ i > Len(t) /\ i - Len(t) + 1 \in DOMAIN s /\ i - Len(t) + 1 > 1
                /\ u[i] = s[i - Len(t) + 1]
  <2>1. CASE i <= Len(t)
    BY <1>2, <2>1
  <2>2. CASE i > Len(t)
    <3>1. i - Len(t) \in 1 .. Len(s) - 1 /\ u[i] = r[i - Len(t)]
      BY <1>2, <1>3, <2>2
    <3> QED BY <1>2, <1>3, <2>2, <3>1
  <2> QED BY <1>2, <2>1, <2>2
<1>5. ASSUME NEW i \in DOMAIN s, i > 1
      PROVE  i - 1 + Len(t) \in DOMAIN u /\ u[i - 1 + Len(t)] = s[i]
  <2>1. i - 1 \in 1 .. Len(s) - 1 /\ i - 1 + Len(t) \in 1 .. Len(u) /\ ~(i - 1 + Len(t) <= Len(t))
    BY <1>2, <1>3, <1>5
  <2> DEFINE j == i - 1 + Len(t)
  <2>0. j \in 1 .. Len(u) /\ ~(j <= Len(t)) /\ j - Len(t) = i - 1
    BY <1>2, <2>1
  <2> HIDE DEF j
  <2>4. u[j] = r[j - Len(t)]
    BY <1>2, <2>0
  <2>2. u[i - 1 + Len(t)] = r[i - 1]
    BY <2>0, <2>4 DEF j
  <2>3. r[i - 1] = s[i - 1 + 1] /\ i - 1 + 1 = i
    BY <1>2, <1>3, <2>1
  <2> QED BY <1>2, <2>1, <2>2, <2>3
<1>6. Len(u) = Len(t) + Len(s) - 1 /\ 1 \in DOMAIN s
  BY <1>1, <1>2, <1>3
<1> QED BY <1>1, <1>2, <1>4, <1>5, <1>6

\* Which fields a task has.
LEMMA TaskFacts ==
  ASSUME NEW k \in Tasks
  PROVE  /\ k.op \in {"states", "body", "rcpt"} => k.checks \in SUBSET Check
         /\ k.op \in {"rcpt", "rewrite", "route", "hand"} => k.addr \in Addr
         /\ k.op \in {"mods", "rewrite"} => k.group \in Groups
         /\ k.op \in {"hand", "give"} => k.to \in Addr
         /\ k.op = "hand" => k.block \in Blocks
         /\ k.op = "give" => k.target \in Target
         /\ k.op = "blocks" => k.left \in SUBSET Blocks
         /\ k.op \in {"bodies", "partBodies", "commits"} => k.left \in SUBSET Target
BY DEF Tasks

\* What the calls and the steps put on the agenda are tasks.
LEMMA MadeTasks ==
  /\ \A C \in SUBSET Check : States(C) \in Tasks /\ AskBody(C) \in Tasks /\ \A a \in Addr : AskRcpt(C, a) \in Tasks
  /\ \A g \in Groups : InitMods(g) \in Tasks /\ \A a \in Addr : Rewriting(g, a) \in Tasks
  /\ \A a \in Addr : Routing(a) \in Tasks
  /\ \A b \in Blocks, a \in Addr, x \in Addr : Handing(b, a, x) \in Tasks
  /\ \A t \in Target, x \in Addr : Giving(t, x) \in Tasks
  /\ \A op \in {"source", "apply", "rewriteBody", "error"} : Simple(op) \in Tasks
  /\ \A S \in SUBSET Blocks : Each("blocks", S) \in Tasks
  /\ \A op \in {"bodies", "partBodies", "commits"}, S \in SUBSET Target : Each(op, S) \in Tasks
<1> USE DEF Tasks
<1>1. \A C \in SUBSET Check : States(C) \in Tasks /\ AskBody(C) \in Tasks /\ \A a \in Addr : AskRcpt(C, a) \in Tasks
  BY DEF States, AskBody, AskRcpt
<1>2. \A g \in Groups : InitMods(g) \in Tasks /\ \A a \in Addr : Rewriting(g, a) \in Tasks
  BY DEF InitMods, Rewriting
<1>3. /\ \A a \in Addr : Routing(a) \in Tasks
      /\ \A b \in Blocks, a \in Addr, x \in Addr : Handing(b, a, x) \in Tasks
      /\ \A t \in Target, x \in Addr : Giving(t, x) \in Tasks
  BY DEF Routing, Handing, Giving
<1>4. /\ \A op \in {"source", "apply", "rewriteBody", "error"} : Simple(op) \in Tasks
      /\ \A S \in SUBSET Blocks : Each("blocks", S) \in Tasks
      /\ \A op \in {"bodies", "partBodies", "commits"}, S \in SUBSET Target : Each(op, S) \in Tasks
  BY DEF Simple, Each
<1> QED BY <1>1, <1>2, <1>3, <1>4

\* The operation and the fields of each kind of task.
LEMMA TaskFields ==
  /\ \A C : States(C).op = "states" /\ States(C).checks = C /\ AskBody(C).op = "body" /\ AskBody(C).checks = C
  /\ \A C, a : AskRcpt(C, a).op = "rcpt" /\ AskRcpt(C, a).checks = C /\ AskRcpt(C, a).addr = a
  /\ \A g : InitMods(g).op = "mods" /\ InitMods(g).group = g
  /\ \A g, a : Rewriting(g, a).op = "rewrite" /\ Rewriting(g, a).group = g /\ Rewriting(g, a).addr = a
  /\ \A a : Routing(a).op = "route" /\ Routing(a).addr = a
  /\ \A b, a, x : /\ Handing(b, a, x).op = "hand" /\ Handing(b, a, x).block = b
                  /\ Handing(b, a, x).addr = a /\ Handing(b, a, x).to = x
  /\ \A t, x : Giving(t, x).op = "give" /\ Giving(t, x).target = t /\ Giving(t, x).to = x
  /\ \A op : Simple(op).op = op
  /\ \A op, S : Each(op, S).op = op /\ Each(op, S).left = S
BY DEF States, AskBody, AskRcpt, InitMods, Rewriting, Routing, Handing, Giving, Simple, Each

\* Which steps change what.
LEMMA Frame ==
  ASSUME [Next]_vars
  PROVE  /\ UNCHANGED <<protocol>>
         /\ UNCHANGED <<phase, call, calls, orig, accepted>> \/ CallerStep \/ Return \/ ReturnError
         /\ UNCHANGED sender \/ (\E a \in Addr : Start(a)) \/ InitModifiers
         /\ UNCHANGED src \/ RouteSource
         /\ UNCHANGED cstate \/ CheckStates \/ Commit \/ Abort \/ ReturnError
         /\ UNCHANGED asked \/ CheckStates \/ CheckRcptRun
         /\ UNCHANGED checkedRcpts \/ CheckRcptRun
         /\ UNCHANGED quarantine \/ CheckStates \/ CheckRcptRun \/ CheckBodyRun
         /\ UNCHANGED msgQuarantine \/ ApplyResults
         /\ UNCHANGED mods \/ InitModifiers \/ RewriteRcpt \/ Commit \/ Abort \/ ReturnError
         /\ UNCHANGED deliveries \/ GiveToTarget \/ GiveBody \/ GiveBodyPartially \/ CommitTargets \/ Abort
         /\ UNCHANGED <<originalRcpts, routed>> \/ HandToTargets
         /\ UNCHANGED statuses \/ GiveBodyPartially \/ ReturnError
         /\ UNCHANGED missed \/ GiveBodyPartially
<1> USE DEF checkVars, targetVars, callerVars
<1>1. CASE UNCHANGED vars
  BY <1>1 DEF vars
<1>2. ASSUME NEW a \in Addr, Start(a) \/ AddRcpt(a) PROVE
        /\ CallerStep /\ UNCHANGED <<protocol, src, cstate, asked, checkedRcpts, quarantine, msgQuarantine, mods,
                                     deliveries, originalRcpts, routed, statuses, missed>>
        /\ UNCHANGED sender \/ (\E x \in Addr : Start(x))
  BY <1>2 DEF CallerStep, Start, AddRcpt
<1>3. CASE Body \/ BodyNonAtomic
  BY <1>3 DEF CallerStep, Body, BodyNonAtomic
<1>4. CASE Commit \/ Abort
  BY <1>4 DEF CallerStep, Commit, Abort
<1>5. CASE CheckStates \/ CheckRcptRun \/ CheckBodyRun \/ CheckBlocks \/ ApplyResults
  BY <1>5 DEF CheckStates, CheckRcptRun, CheckBodyRun, CheckBlocks, ApplyResults
<1>6. CASE InitModifiers \/ RewriteRcpt \/ RewriteBody \/ RouteSource \/ RouteRcpt
  BY <1>6 DEF InitModifiers, RewriteRcpt, RewriteBody, RouteSource, RouteRcpt
<1>7. CASE HandToTargets \/ GiveToTarget \/ GiveBody \/ GiveBodyPartially \/ CommitTargets
  BY <1>7 DEF HandToTargets, GiveToTarget, GiveBody, GiveBodyPartially, CommitTargets
<1>8. CASE Return \/ ReturnError
  BY <1>8 DEF Return, ReturnError
<1> QED
  BY <1>1, <1>2, <1>3, <1>4, <1>5, <1>6, <1>7, <1>8 DEF Next, CallerStep, TaskStep

\* The configuration, piece by piece.
LEMMA Config ==
  /\ Global.checks \in SUBSET Check /\ Global.rewrite \in [Addr -> Seq(Addr)] /\ Global.sender \in [Addr -> Addr]
  /\ Global.route \in RouteTo(Sources)
  /\ \A s \in Sources : /\ Source[s].checks \in SUBSET Check /\ Source[s].rewrite \in [Addr -> Seq(Addr)]
                        /\ Source[s].route \in RouteTo(Blocks)
  /\ \A b \in Blocks : /\ Block[b].checks \in SUBSET Check /\ Block[b].rewrite \in [Addr -> Seq(Addr)]
                       /\ Block[b].targets \in Seq(Target)
  /\ {"global", "source"} \subseteq Groups /\ Blocks \subseteq Groups /\ "global" \notin Blocks /\ "source" \notin Blocks
BY PipelineAssumption DEF Rewrite, Groups

\* A route leads to one of the blocks it may lead to.
LEMMA SelectTyped ==
  ASSUME NEW B, NEW route \in RouteTo(B), NEW a, NEW broken
  PROVE  Select(route, a, broken) \in B
<1> DEFINE hits == {i \in DOMAIN route.in \ broken : a \in route.in[i].table}
<1>1. route.in \in Seq([table : SUBSET Addr, block : B]) /\ route.default \in B
  BY DEF RouteTo
<1>2. \A k \in DOMAIN route.rules : route.rules[k] \in B
  <2>1. route.rules \in UNION {[K -> B] : K \in SUBSET (Addr \cup {DomainOf[x] : x \in Addr})}
    BY DEF RouteTo
  <2>2. PICK K : route.rules \in [K -> B]
    BY <2>1
  <2> QED BY <2>2
<1>3. ASSUME hits # {} PROVE route.in[CHOOSE i \in hits : \A j \in hits : i <= j].block \in B
  <2>1. hits \subseteq Nat
    BY <1>1
  <2>2. \E i \in hits : \A j \in hits : ~(<<j, i>> \in OpToRel(<, Nat))
    <3> HIDE DEF hits
    <3> QED BY <1>3, <2>1, NatLessThanWellFounded, WFMin
  <2>3. \E i \in hits : \A j \in hits : i <= j
    <3>1. \A i, j \in Nat : ~(<<j, i>> \in OpToRel(<, Nat)) => i <= j
      BY DEF OpToRel
    <3> HIDE DEF hits
    <3> QED BY <2>1, <2>2, <3>1
  <2>4. (CHOOSE i \in hits : \A j \in hits : i <= j) \in hits
    <3> HIDE DEF hits
    <3> QED BY <2>3
  <2>5. \A i \in hits : route.in[i].block \in B
    <3> DEFINE r == route.in
    <3>0. r \in Seq([table : SUBSET Addr, block : B])
      BY <1>1
    <3> HIDE DEF r
    <3>3. \A i \in DOMAIN r : r[i] \in [table : SUBSET Addr, block : B]
      BY <3>0, Elements
    <3>1. \A i \in DOMAIN route.in : route.in[i] \in [table : SUBSET Addr, block : B]
      BY <3>3 DEF r
    <3>2. \A i \in DOMAIN route.in : route.in[i].block \in B
      BY <3>1
    <3> QED BY <3>2
  <2> HIDE DEF hits
  <2> QED BY <2>4, <2>5
<1> HIDE DEF hits
<1> QED BY <1>1, <1>2, <1>3 DEF Select, hits

-----------------------------------------------------------------------------
(* The agenda *)

\* The first task.
LEMMA HeadTask ==
  ASSUME agenda \in Seq(Tasks), NEW op, Doing(op)
  PROVE  Task \in Tasks /\ Task = agenda[1] /\ 1 \in DOMAIN agenda /\ Task.op = op /\ agenda # <<>>
BY DEF Doing, Task

-----------------------------------------------------------------------------
(* Types *)

Deliveries == [Target -> [stage : {"none", "started", "committed", "aborted"},
                          taken : SUBSET Addr, recipients : SUBSET Addr, body : BOOLEAN]]
CallNames == {"none", "Start", "AddRcpt", "Body", "BodyNonAtomic", "Commit"}
Phases == {"new", "open", "ready", "failed", "refused", "ended"}

\* The parts of the types.
CallerTyped == /\ protocol \in Protocols /\ phase \in Phases /\ call \in CallNames
               /\ calls \in 0 .. MaxRcpts /\ orig \in Addr /\ accepted \subseteq Addr
CheckTyped == /\ cstate \in [Check -> {"none", "open", "closed"}] /\ asked \in [Check -> SUBSET checkedRcpts]
              /\ checkedRcpts \subseteq Addr
TargetTyped == /\ statuses \subseteq Addr /\ DOMAIN originalRcpts \subseteq Addr /\ missed \in [Target -> SUBSET Addr]
               /\ originalRcpts \in [DOMAIN originalRcpts -> Addr]
               /\ routed \subseteq [orig : Addr, addr : Addr, block : Blocks, to : Addr]

\* Typed is its parts.
LEMMA TypeParts ==
  Typed <=> /\ CallerTyped /\ (agenda # <<>> => call # "none") /\ sender \in Addr /\ src \in Sources
            /\ CheckTyped /\ quarantine \in BOOLEAN /\ msgQuarantine \in BOOLEAN
            /\ mods \in [Groups -> {"none", "open", "closed", "leaked"}]
            /\ deliveries \in Deliveries /\ TargetTyped /\ agenda \in Seq(Tasks)
BY DEF Typed, TypeOK, CallerTyped, CheckTyped, TargetTyped, Deliveries, CallNames, Phases

\* The same after a step.
LEMMA TypePartsAfter ==
  Typed' <=> /\ CallerTyped' /\ (agenda' # <<>> => call' # "none") /\ sender' \in Addr /\ src' \in Sources
             /\ CheckTyped' /\ quarantine' \in BOOLEAN /\ msgQuarantine' \in BOOLEAN
             /\ mods' \in [Groups -> {"none", "open", "closed", "leaked"}]
             /\ deliveries' \in Deliveries /\ TargetTyped' /\ agenda' \in Seq(Tasks)
BY DEF Typed, TypeOK, CallerTyped, CheckTyped, TargetTyped, Deliveries, CallNames, Phases

\* The operations of each call.
LEMMA OpsOf ==
  /\ Ops("Start") = {"states", "mods", "source", "error"}
  /\ Ops("AddRcpt") = {"states", "rcpt", "mods", "rewrite", "route", "hand", "give", "error"}
  /\ Ops("Body") = {"states", "body", "blocks", "apply", "rewriteBody", "bodies", "error"}
  /\ Ops("BodyNonAtomic") = {"states", "body", "rewriteBody", "partBodies", "error"}
  /\ Ops("Commit") = {"commits", "error"}
  /\ Ops("none") = {}
BY DEF Ops

\* The call that may make an operation.
LEMMA CallOf ==
  ASSUME NEW c \in CallNames, NEW op \in Ops(c)
  PROVE  /\ op \in {"rcpt", "rewrite", "route", "hand", "give"} => c = "AddRcpt"
         /\ op \in {"blocks", "apply", "bodies"} => c = "Body"
         /\ op = "partBodies" => c = "BodyNonAtomic"
         /\ op = "source" => c = "Start"
         /\ op = "commits" => c = "Commit"
         /\ op \in {"body", "rewriteBody"} => c \in {"Body", "BodyNonAtomic"}
         /\ op = "states" => c \in {"Start", "AddRcpt", "Body", "BodyNonAtomic"}
         /\ op = "mods" => c \in {"Start", "AddRcpt"}
         /\ c # "none" /\ "error" \in Ops(c)
BY OpsOf DEF CallNames

\* The tasks that a call may have, given its lists of checks.
Allowed(c, L) ==
  {k \in Tasks : k.op \in Ops(c) /\ (k.op \in {"states", "rcpt", "body"} => k.checks \in L)}

\* The task at hand is one that the call may have.
LEMMA CallOfTask ==
  ASSUME Typed, CallShape, NEW op, Doing(op)
  PROVE  /\ op \in Ops(call) /\ call \in CallNames
         /\ op \in {"states", "rcpt", "body"} => Task.checks \in Lists
<1>1. agenda \in Seq(Tasks) /\ call \in CallNames
  BY TypeParts DEF CallerTyped
<1>2. Task = agenda[1] /\ 1 \in DOMAIN agenda /\ Task.op = op
  BY <1>1, HeadTask
<1> QED BY <1>1, <1>2 DEF CallShape

\* The tasks of each kind that a call may have.
LEMMA MadeAllowed ==
  ASSUME NEW c, NEW L
  PROVE  LET A == Allowed(c, L) IN
         /\ "states" \in Ops(c) => \A C \in SUBSET Check : C \in L => States(C) \in A
         /\ "body" \in Ops(c) => \A C \in SUBSET Check : C \in L => AskBody(C) \in A
         /\ "rcpt" \in Ops(c) => \A C \in SUBSET Check, a \in Addr : C \in L => AskRcpt(C, a) \in A
         /\ "mods" \in Ops(c) => \A g \in Groups : InitMods(g) \in A
         /\ "rewrite" \in Ops(c) => \A g \in Groups, a \in Addr : Rewriting(g, a) \in A
         /\ "route" \in Ops(c) => \A a \in Addr : Routing(a) \in A
         /\ "hand" \in Ops(c) => \A b \in Blocks, a \in Addr, x \in Addr : Handing(b, a, x) \in A
         /\ "give" \in Ops(c) => \A t \in Target, x \in Addr : Giving(t, x) \in A
         /\ \A op \in {"source", "apply", "rewriteBody", "error"} : op \in Ops(c) => Simple(op) \in A
         /\ "blocks" \in Ops(c) => \A S \in SUBSET Blocks : Each("blocks", S) \in A
         /\ \A op \in {"bodies", "partBodies", "commits"}, S \in SUBSET Target : op \in Ops(c) => Each(op, S) \in A
BY MadeTasks, TaskFields DEF Allowed

\* The lists of checks of a message.
LEMMA ListsTyped ==
  ASSUME src \in Sources
  PROVE  /\ Lists \subseteq SUBSET Check
         /\ Global.checks \in Lists /\ Source[src].checks \in Lists /\ \A b \in Blocks : Block[b].checks \in Lists
BY Config DEF Lists

\* A task ends with an error, is replaced by others (t), or the addresses that the source
\* modifiers make are routed after the rest.
LEMMA TaskSteps ==
  ASSUME Typed, CallShape, TaskStep, ~Return, ~ReturnError, ~RouteSource
  PROVE  /\ agenda \in Seq(Tasks) /\ agenda # <<>> /\ call # "none" /\ call \in CallNames
         /\ \/ Failing'
            \/ \E t \in Seq(Allowed(call, Lists)) : agenda' = t \o Tail(agenda)
            \/ \E t \in Seq(Allowed(call, Lists)) : agenda' = Tail(agenda) \o t
<1> DEFINE A == Allowed(call, Lists)
           Goes == \/ Failing'
                   \/ \E t \in Seq(A) : agenda' = t \o Tail(agenda)
                   \/ \E t \in Seq(A) : agenda' = Tail(agenda) \o t
<1>0. agenda \in Seq(Tasks) /\ src \in Sources /\ call \in CallNames
  BY TypeParts DEF CallerTyped
<1>e. <<>> \in Seq(A) /\ \A k \in A : <<k>> \in Seq(A)
  OBVIOUS
<1>f. Fail => Failing'
  BY DEF Fail, Failing
<1>c. \A t \in Seq(A) : Continue(t) => Goes
  BY DEF Continue
<1>d. Continue(<<>>) => Goes
  BY <1>c, <1>e
<1>n. agenda # <<>>
  BY DEF TaskStep, CheckStates, CheckRcptRun, CheckBodyRun, CheckBlocks, ApplyResults,
         InitModifiers, RewriteRcpt, RewriteBody, RouteRcpt,
         HandToTargets, GiveToTarget, GiveBody, GiveBodyPartially, CommitTargets, Doing
<1>m. call # "none"
  BY <1>n, TypeParts
<1>l. \A b \in Blocks : Block[b].checks \in Lists /\ Block[b].checks \in SUBSET Check
  BY <1>0, ListsTyped, Config
<1> SUFFICES Goes
  BY <1>0, <1>n, <1>m
<1> HIDE DEF Goes, A
<1>1. CASE CheckStates \/ CheckRcptRun \/ CheckBodyRun \/ ApplyResults
  <2>1. Fail \/ Continue(<<>>)
    BY <1>1 DEF CheckStates, CheckRcptRun, CheckBodyRun, ApplyResults, Merge
  <2> QED BY <1>f, <1>d, <2>1 DEF Goes
<1>2. CASE InitModifiers \/ RewriteBody \/ GiveToTarget
  <2>1. Fail \/ Continue(<<>>)
    BY <1>2 DEF InitModifiers, RewriteBody, GiveToTarget
  <2> QED BY <1>f, <1>d, <2>1 DEF Goes
<1>3. CASE CheckBlocks
  <2>1. Task.left \in SUBSET Blocks /\ call = "Body"
    BY <1>0, <1>3, HeadTask, TaskFacts, CallOfTask, CallOf DEF CheckBlocks
  <2>2. ASSUME NEW b \in Task.left
        PROVE  CheckBody(Block[b].checks) \o <<Each("blocks", Task.left \ {b})>> \in Seq(A)
    <3>1. b \in Blocks /\ Task.left \ {b} \in SUBSET Blocks
      BY <2>1, <2>2
    <3>2. States(Block[b].checks) \in A /\ AskBody(Block[b].checks) \in A /\ Each("blocks", Task.left \ {b}) \in A
      BY <1>l, <2>1, <3>1, MadeAllowed, OpsOf DEF A
    <3>3. CheckBody(Block[b].checks) \in Seq(A) /\ <<Each("blocks", Task.left \ {b})>> \in Seq(A)
      BY <3>2 DEF CheckBody
    <3> QED BY <3>3
  <2>3. \/ Continue(<<>>)
        \/ \E b \in Task.left : Continue(CheckBody(Block[b].checks) \o <<Each("blocks", Task.left \ {b})>>)
    BY <1>3 DEF CheckBlocks
  <2> QED BY <1>c, <1>d, <2>2, <2>3
<1>4. CASE RewriteRcpt
  <2>0. Task.addr \in Addr /\ call = "AddRcpt"
    BY <1>0, <1>4, HeadTask, TaskFacts, CallOfTask, CallOf DEF RewriteRcpt
  <2>1. ASSUME NEW s \in Seq(Addr)
        PROVE  /\ [i \in DOMAIN s |-> Rewriting("source", s[i])] \in Seq(A)
               /\ [i \in DOMAIN s |-> Routing(s[i])] \in Seq(A)
               /\ \A b \in Blocks : [i \in DOMAIN s |-> Handing(b, Task.addr, s[i])] \in Seq(A)
    <3>1. \A i \in 1 .. Len(s) : /\ Rewriting("source", s[i]) \in A /\ Routing(s[i]) \in A
                                 /\ \A b \in Blocks : Handing(b, Task.addr, s[i]) \in A
      <4>1. \A x \in Addr : /\ Rewriting("source", x) \in A /\ Routing(x) \in A
                            /\ \A b \in Blocks : Handing(b, Task.addr, x) \in A
        BY <2>0, MadeAllowed, Config, OpsOf DEF A
      <4>2. \A i \in 1 .. Len(s) : s[i] \in Addr
        OBVIOUS
      <4> QED BY <4>1, <4>2
    <3>2. DOMAIN s = 1 .. Len(s) /\ Len(s) \in Nat
      OBVIOUS
    <3> QED BY <3>1, <3>2
  <2>3. /\ Global.rewrite[Task.addr] \in Seq(Addr) /\ Source[src].rewrite[Task.addr] \in Seq(Addr)
        /\ \A b \in Blocks : Block[b].rewrite[Task.addr] \in Seq(Addr)
    BY <1>0, <2>0, Config
  <2>4. \/ Continue([i \in DOMAIN Global.rewrite[Task.addr] |-> Rewriting("source", Global.rewrite[Task.addr][i])])
        \/ agenda' = Tail(agenda) \o [i \in DOMAIN Source[src].rewrite[Task.addr] |-> Routing(Source[src].rewrite[Task.addr][i])]
        \/ /\ Task.group \in Blocks
           /\ Continue([i \in DOMAIN Block[Task.group].rewrite[Task.addr] |->
                          Handing(Task.group, Task.addr, Block[Task.group].rewrite[Task.addr][i])])
        \/ Fail
    BY <1>4 DEF RewriteRcpt
  <2> QED BY <1>f, <1>c, <2>0, <2>1, <2>3, <2>4 DEF Goes
<1>6. CASE RouteRcpt
  <2>0. Task.addr \in Addr /\ call = "AddRcpt"
    BY <1>0, <1>6, HeadTask, TaskFacts, CallOfTask, CallOf DEF RouteRcpt
  <2>1. ASSUME NEW broken PROVE Select(Source[src].route, Task.addr, broken) \in Blocks
    BY <1>0, SelectTyped, Config
  <2>2. \/ Fail
        \/ \E b \in Blocks : Continue(CheckRcpt(Block[b].checks, Task.addr) \o <<InitMods(b), Rewriting(b, Task.addr)>>)
    BY <1>6, <2>1 DEF RouteRcpt
  <2>3. ASSUME NEW b \in Blocks
        PROVE  CheckRcpt(Block[b].checks, Task.addr) \o <<InitMods(b), Rewriting(b, Task.addr)>> \in Seq(A)
    <3>1. /\ States(Block[b].checks) \in A /\ AskRcpt(Block[b].checks, Task.addr) \in A
          /\ InitMods(b) \in A /\ Rewriting(b, Task.addr) \in A
      BY <1>l, <2>0, Config, MadeAllowed, OpsOf DEF A
    <3>2. CheckRcpt(Block[b].checks, Task.addr) \in Seq(A) /\ <<InitMods(b), Rewriting(b, Task.addr)>> \in Seq(A)
      BY <3>1 DEF CheckRcpt
    <3> QED BY <3>2
  <2> QED BY <1>f, <1>c, <2>2, <2>3 DEF Goes
<1>7. CASE HandToTargets
  <2>0. Task.to \in Addr /\ Task.block \in Blocks /\ call = "AddRcpt"
    BY <1>0, <1>7, HeadTask, TaskFacts, CallOfTask, CallOf DEF HandToTargets
  <2> DEFINE s == Block[Task.block].targets
             t == [i \in DOMAIN s |-> Giving(s[i], Task.to)]
  <2>1. s \in Seq(Target)
    BY <2>0, Config
  <2>2. t \in Seq(A)
    <3> HIDE DEF s
    <3>1. \A i \in 1 .. Len(s) : Giving(s[i], Task.to) \in A
      BY <2>0, <2>1, MadeAllowed, OpsOf DEF A
    <3>2. DOMAIN s = 1 .. Len(s) /\ Len(s) \in Nat
      BY <2>1
    <3> QED BY <3>1, <3>2
  <2>3. Continue(t)
    BY <1>7 DEF HandToTargets
  <2> HIDE DEF t
  <2> QED BY <1>c, <2>2, <2>3
<1>8. CASE GiveBody \/ GiveBodyPartially \/ CommitTargets
  <2>0. Task.left \in SUBSET Target
    BY <1>0, <1>8, HeadTask, TaskFacts DEF GiveBody, GiveBodyPartially, CommitTargets
  <2>1. \/ Fail \/ Continue(<<>>)
        \/ \E t \in Task.left, op \in {"bodies", "partBodies", "commits"} :
             op \in Ops(call) /\ Continue(<<Each(op, Task.left \ {t})>>)
    <3>1. CASE GiveBody
      BY <3>1, CallOfTask DEF GiveBody
    <3>2. CASE GiveBodyPartially
      BY <3>2, CallOfTask DEF GiveBodyPartially
    <3>3. CASE CommitTargets
      BY <3>3, CallOfTask DEF CommitTargets
    <3> QED BY <1>8, <3>1, <3>2, <3>3
  <2>2. ASSUME NEW t \in Task.left, NEW op \in {"bodies", "partBodies", "commits"}, op \in Ops(call)
        PROVE  <<Each(op, Task.left \ {t})>> \in Seq(A)
    <3>1. Task.left \ {t} \in SUBSET Target
      BY <2>0
    <3>2. Each(op, Task.left \ {t}) \in A
      BY <2>2, <3>1, MadeAllowed DEF A
    <3> QED BY <3>2
  <2> QED BY <1>f, <1>c, <1>d, <2>1, <2>2 DEF Goes
<1> QED
  BY <1>1, <1>2, <1>3, <1>4, <1>6, <1>7, <1>8 DEF TaskStep

\* The agenda of a call has tasks that the call may have.
LEMMA AgendaAllowed ==
  ASSUME Typed, CallShape, StartShape, [Next]_vars
  PROVE  agenda' \in Seq(Allowed(call', Lists'))
<1> USE DEF callerVars, checkVars, targetVars
<1>0. agenda \in Seq(Tasks) /\ src \in Sources /\ call \in CallNames
  BY TypeParts DEF CallerTyped
<1>a. agenda \in Seq(Allowed(call, Lists))
  <2>1. \A i \in 1 .. Len(agenda) : agenda[i] \in Allowed(call, Lists)
    BY <1>0 DEF CallShape, Allowed
  <2> HIDE DEF Allowed
  <2> QED BY <1>0, <2>1
<1>l. UNCHANGED src => Lists' = Lists
  BY DEF Lists
<1>1. CASE UNCHANGED vars
  <2>1. UNCHANGED <<src, call, agenda>>
    BY <1>1 DEF vars
  <2> QED BY <1>a, <1>l, <2>1
<1>2. ASSUME TaskStep, ~Return, ~ReturnError, ~RouteSource PROVE agenda' \in Seq(Allowed(call', Lists'))
  <2>0. UNCHANGED <<src, call>>
    BY <1>2 DEF TaskStep, CheckStates, CheckRcptRun, CheckBodyRun, CheckBlocks, ApplyResults,
         InitModifiers, RewriteRcpt, RewriteBody, RouteRcpt,
         HandToTargets, GiveToTarget, GiveBody, GiveBodyPartially, CommitTargets
  <2> DEFINE A == Allowed(call, Lists)
  <2>1. /\ agenda # <<>> /\ call # "none" /\ call \in CallNames
        /\ \/ Failing'
           \/ \E t \in Seq(A) : agenda' = t \o Tail(agenda)
           \/ \E t \in Seq(A) : agenda' = Tail(agenda) \o t
    BY <1>2, TaskSteps
  <2>3. Failing' => agenda' \in Seq(A)
    <3>1. "error" \in Ops(call)
      BY <2>1, OpsOf DEF CallNames
    <3>2. Simple("error") \in A
      BY <3>1, MadeAllowed
    <3> HIDE DEF A
    <3> QED BY <3>2 DEF Failing
  <2>5. agenda \in Seq(A)
    BY <1>a
  <2> HIDE DEF A
  <2>2. Tail(agenda) \in Seq(A)
    BY <2>1, <2>5
  <2>4. ASSUME NEW t \in Seq(A) PROVE t \o Tail(agenda) \in Seq(A) /\ Tail(agenda) \o t \in Seq(A)
    BY <2>2
  <2>6. agenda' \in Seq(A)
    BY <2>1, <2>3, <2>4
  <2> QED BY <1>l, <2>0, <2>6 DEF A
<1>9. CASE RouteSource
  <2>1. ASSUME NEW broken PROVE Select(Global.route, sender, broken) \in Sources
    BY SelectTyped, Config
  <2>2. \/ Fail
        \/ \E s \in Sources : src' = s /\ Continue(<<States(Source[s].checks), InitMods("source")>>)
    BY <1>9, <2>1 DEF RouteSource
  <2>3. call = "Start" /\ call' = "Start"
    <3>1. Doing("source") /\ UNCHANGED call
      BY <1>9 DEF RouteSource
    <3> QED BY <3>1, CallOfTask, CallOf
  <2>4. agenda = <<Simple("source")>>
    <3>1. Head(agenda).op = "source"
      BY <1>9 DEF RouteSource, Doing
    <3>2. /\ Head(<<Simple("error")>>) = Simple("error")
          /\ Head(<<States(Global.checks), InitMods("global"), Simple("source")>>) = States(Global.checks)
          /\ Head(<<InitMods("global"), Simple("source")>>) = InitMods("global")
          /\ Head(<<States(Source[src].checks), InitMods("source")>>) = States(Source[src].checks)
          /\ Head(<<InitMods("source")>>) = InitMods("source")
      BY Short
    <3>3. agenda # <<>>
      BY <1>9 DEF RouteSource, Doing
    <3> QED BY <2>3, <3>1, <3>2, <3>3, TaskFields DEF StartShape, Failing
  <2>5. CASE Fail
    <3>1. Simple("error") \in Allowed("Start", Lists')
      BY MadeAllowed, OpsOf
    <3> QED BY <2>3, <2>5, <3>1 DEF Fail
  <2>6. ASSUME NEW s \in Sources, src' = s, Continue(<<States(Source[s].checks), InitMods("source")>>)
        PROVE  agenda' \in Seq(Allowed(call', Lists'))
    <3>1. Tail(agenda) = <<>>
      BY <2>4, Short
    <3>2. agenda' = <<States(Source[s].checks), InitMods("source")>>
      <4> DEFINE x == States(Source[s].checks)
                 y == InitMods("source")
      <4> HIDE DEF x, y
      <4>1. agenda' = <<x, y>> \o <<>>
        BY <2>6, <3>1 DEF Continue, x, y
      <4>2. agenda' = <<x, y>>
        BY <4>1
      <4> QED BY <4>2 DEF x, y
    <3>3. Source[s].checks \in Lists' /\ Source[s].checks \in SUBSET Check
      BY <2>6, Config DEF Lists
    <3>4. States(Source[s].checks) \in Allowed("Start", Lists') /\ InitMods("source") \in Allowed("Start", Lists')
      BY <3>3, MadeAllowed, OpsOf, Config
    <3> QED BY <2>3, <3>2, <3>4
  <2> QED BY <2>2, <2>5, <2>6
<1>3. CASE Return \/ ReturnError \/ Abort
  <2>1. /\ agenda' = <<>> \/ (UNCHANGED <<agenda, src, call>>)
    BY <1>3 DEF Return, ReturnError, Abort
  <2>2. <<>> \in Seq(Allowed(call', Lists'))
    OBVIOUS
  <2> QED BY <1>a, <1>l, <2>1, <2>2
<1>4. ASSUME NEW a \in Addr, Start(a) PROVE agenda' \in Seq(Allowed(call', Lists'))
  <2> DEFINE A == Allowed("Start", Lists)
  <2>1. States(Global.checks) \in A /\ InitMods("global") \in A /\ Simple("source") \in A
    BY <1>0, MadeAllowed, Config, OpsOf, ListsTyped
  <2>2. call' = "Start" /\ UNCHANGED src /\ agenda' = <<States(Global.checks), InitMods("global"), Simple("source")>>
    BY <1>4 DEF Start, Begin
  <2> HIDE DEF A
  <2>3. agenda' \in Seq(A)
    BY <2>1, <2>2
  <2> QED BY <1>l, <2>2, <2>3 DEF A
<1>5. ASSUME NEW a \in Addr, AddRcpt(a) PROVE agenda' \in Seq(Allowed(call', Lists'))
  <2> DEFINE A == Allowed("AddRcpt", Lists)
  <2>1. /\ States(Global.checks) \in A /\ AskRcpt(Global.checks, a) \in A /\ States(Source[src].checks) \in A
        /\ AskRcpt(Source[src].checks, a) \in A /\ Rewriting("global", a) \in A
    BY <1>0, MadeAllowed, Config, OpsOf, ListsTyped
  <2> HIDE DEF A
  <2>2. /\ CheckRcpt(Global.checks, a) \in Seq(A) /\ CheckRcpt(Source[src].checks, a) \in Seq(A)
        /\ <<Rewriting("global", a)>> \in Seq(A)
    BY <2>1 DEF CheckRcpt
  <2>3. /\ call' = "AddRcpt" /\ UNCHANGED src
        /\ agenda' = CheckRcpt(Global.checks, a) \o CheckRcpt(Source[src].checks, a) \o <<Rewriting("global", a)>>
    BY <1>5 DEF AddRcpt, Begin
  <2>4. agenda' \in Seq(A)
    BY <2>2, <2>3
  <2> QED BY <1>l, <2>3, <2>4 DEF A
<1>6. CASE Body
  <2> DEFINE A == Allowed("Body", Lists)
  <2>1. /\ States(Global.checks) \in A /\ AskBody(Global.checks) \in A /\ States(Source[src].checks) \in A
        /\ AskBody(Source[src].checks) \in A /\ Simple("apply") \in A /\ Simple("rewriteBody") \in A
    BY <1>0, MadeAllowed, Config, OpsOf, ListsTyped
  <2>2. Each("blocks", StoredBlocks) \in A /\ Each("bodies", Started) \in A
    <3>1. StoredBlocks \in SUBSET Blocks /\ Started \in SUBSET Target
      BY DEF StoredBlocks, Started
    <3> QED BY <3>1, MadeAllowed, OpsOf
  <2> HIDE DEF A
  <2> DEFINE rest == <<Each("blocks", StoredBlocks), Simple("apply"), Simple("rewriteBody"), Each("bodies", Started)>>
  <2>3. CheckBody(Global.checks) \in Seq(A) /\ CheckBody(Source[src].checks) \in Seq(A) /\ rest \in Seq(A)
    BY <2>1, <2>2 DEF CheckBody
  <2>4. call' = "Body" /\ UNCHANGED src /\ agenda' = CheckBody(Global.checks) \o CheckBody(Source[src].checks) \o rest
    BY <1>6 DEF Body, Begin
  <2> HIDE DEF rest
  <2>5. agenda' \in Seq(A)
    BY <2>3, <2>4
  <2> QED BY <1>l, <2>4, <2>5 DEF A
<1>7. CASE BodyNonAtomic
  <2> DEFINE A == Allowed("BodyNonAtomic", Lists)
  <2>1. /\ States(Global.checks) \in A /\ AskBody(Global.checks) \in A /\ States(Source[src].checks) \in A
        /\ AskBody(Source[src].checks) \in A /\ Simple("rewriteBody") \in A
    BY <1>0, MadeAllowed, Config, OpsOf, ListsTyped
  <2>2. Each("partBodies", Started) \in A
    <3>1. Started \in SUBSET Target
      BY DEF Started
    <3> QED BY <3>1, MadeAllowed, OpsOf
  <2> HIDE DEF A
  <2> DEFINE rest == <<Simple("rewriteBody"), Each("partBodies", Started)>>
  <2>3. CheckBody(Global.checks) \in Seq(A) /\ CheckBody(Source[src].checks) \in Seq(A) /\ rest \in Seq(A)
    BY <2>1, <2>2 DEF CheckBody
  <2>4. /\ call' = "BodyNonAtomic" /\ UNCHANGED src
        /\ agenda' = CheckBody(Global.checks) \o CheckBody(Source[src].checks) \o rest
    BY <1>7 DEF BodyNonAtomic, Begin
  <2> HIDE DEF rest
  <2>5. agenda' \in Seq(A)
    BY <2>3, <2>4
  <2> QED BY <1>l, <2>4, <2>5 DEF A
<1>8. CASE Commit
  <2> DEFINE A == Allowed("Commit", Lists)
  <2>1. Each("commits", Started) \in A
    <3>1. Started \in SUBSET Target
      BY DEF Started
    <3> QED BY <3>1, MadeAllowed, OpsOf
  <2>2. call' = "Commit" /\ UNCHANGED src /\ agenda' = <<Each("commits", Started)>>
    BY <1>8 DEF Commit, Begin
  <2> HIDE DEF A
  <2>3. agenda' \in Seq(A)
    BY <2>1, <2>2
  <2> QED BY <1>l, <2>2, <2>3 DEF A
<1> QED
  BY <1>1, <1>2, <1>3, <1>4, <1>5, <1>6, <1>7, <1>8, <1>9 DEF Next, CallerStep

\* The caller and the call.
LEMMA CallerTypedStep ==
  ASSUME Typed, [Next]_vars
  PROVE  CallerTyped'
<1> USE DEF callerVars
<1>0. CallerTyped
  BY TypeParts
<1>1. CASE UNCHANGED <<protocol, phase, call, calls, orig, accepted>>
  BY <1>0, <1>1 DEF CallerTyped
<1>2. ASSUME NEW a \in Addr, Start(a) \/ AddRcpt(a) PROVE CallerTyped'
  BY <1>0, <1>2, PipelineAssumption DEF Start, AddRcpt, Begin, CallerTyped, CallNames
<1>3. CASE Body \/ BodyNonAtomic \/ Commit \/ Abort
  BY <1>0, <1>3 DEF Body, BodyNonAtomic, Commit, Abort, Begin, CallerTyped, CallNames, Phases
<1>4. CASE Return
  <2>1. /\ phase' \in Phases /\ call' = "none" /\ UNCHANGED <<protocol, calls, orig>>
        /\ accepted' = IF call = "AddRcpt" THEN accepted \cup {orig} ELSE accepted
    <3>1. call \in CallNames \ {"none"}
      BY <1>0, <1>4 DEF Return, CallerTyped
    <3>2. phase' \in Phases
      BY <1>4, <3>1 DEF Return, CallNames, Phases
    <3> QED BY <1>4, <3>2 DEF Return
  <2> QED BY <1>0, <2>1 DEF CallerTyped, CallNames
<1>5. CASE ReturnError
  BY <1>0, <1>5 DEF ReturnError, CallerTyped, CallNames, Phases
<1> QED
  BY <1>1, <1>2, <1>3, <1>4, <1>5, Frame DEF CallerStep

\* The states of checks and modifiers, the sender and the source.
LEMMA CheckTypedStep ==
  ASSUME Typed, [Next]_vars
  PROVE  /\ CheckTyped' /\ quarantine' \in BOOLEAN /\ msgQuarantine' \in BOOLEAN
         /\ mods' \in [Groups -> {"none", "open", "closed", "leaked"}]
         /\ sender' \in Addr /\ src' \in Sources
<1> USE DEF callerVars, checkVars, targetVars
<1>0. /\ CheckTyped /\ quarantine \in BOOLEAN /\ msgQuarantine \in BOOLEAN /\ agenda \in Seq(Tasks)
      /\ mods \in [Groups -> {"none", "open", "closed", "leaked"}]
      /\ sender \in Addr /\ src \in Sources
  BY TypeParts
<1>1. src' \in Sources
  <2>1. ASSUME NEW broken PROVE Select(Global.route, sender, broken) \in Sources
    BY SelectTyped, Config
  <2>2. CASE RouteSource
    BY <1>0, <2>1, <2>2 DEF RouteSource
  <2> QED BY <1>0, <2>2, Frame
<1>2. sender' \in Addr
  <2>1. CASE InitModifiers
    BY <1>0, <2>1, Config DEF InitModifiers
  <2> QED BY <1>0, <2>1, Frame DEF Start
<1>3. mods' \in [Groups -> {"none", "open", "closed", "leaked"}]
  <2>1. CASE InitModifiers
    BY <1>0, <2>1 DEF InitModifiers
  <2>2. CASE RewriteRcpt
    BY <1>0, <2>2 DEF RewriteRcpt
  <2>3. CASE Commit \/ Abort \/ ReturnError
    BY <1>0, <2>3 DEF Commit, Abort, ReturnError, Close
  <2> QED BY <1>0, <2>1, <2>2, <2>3, Frame
<1>4. msgQuarantine' \in BOOLEAN
  <2>1. CASE ApplyResults
    BY <1>0, <2>1 DEF ApplyResults
  <2> QED BY <1>0, <2>1, Frame
<1>5. quarantine' \in BOOLEAN
  <2>1. CASE CheckStates
    BY <1>0, <2>1 DEF CheckStates
  <2>2. CASE CheckRcptRun \/ CheckBodyRun
    BY <1>0, <2>2 DEF CheckRcptRun, CheckBodyRun, Merge
  <2> QED BY <1>0, <2>1, <2>2, Frame
<1>6. cstate' \in [Check -> {"none", "open", "closed"}]
  <2>1. CASE CheckStates
    BY <1>0, <2>1 DEF CheckStates, CheckTyped
  <2>2. CASE Commit \/ Abort \/ ReturnError
    BY <1>0, <2>2 DEF Commit, Abort, ReturnError, Close, CheckTyped
  <2> QED BY <1>0, <2>1, <2>2, Frame DEF CheckTyped
<1>7. checkedRcpts' \subseteq Addr /\ checkedRcpts \subseteq checkedRcpts'
  <2>1. CASE CheckRcptRun
    <3>1. Task.addr \in Addr
      BY <1>0, <2>1, HeadTask, TaskFacts DEF CheckRcptRun
    <3> QED BY <1>0, <2>1, <3>1 DEF CheckRcptRun, CheckTyped
  <2> QED BY <1>0, <2>1, Frame DEF CheckTyped
<1>8. asked' \in [Check -> SUBSET checkedRcpts']
  <2>1. CASE CheckStates
    <3>1. UNCHANGED checkedRcpts
      BY <2>1 DEF CheckStates
    <3>2. \/ asked' = asked
          \/ asked' = [c \in Check |-> IF c \in Task.checks THEN asked[c] \cup checkedRcpts ELSE asked[c]]
          \/ \E R \in SUBSET checkedRcpts : \E S : asked' = [c \in Check |-> IF c \in S THEN asked[c] \cup R ELSE asked[c]]
      BY <2>1, ZenonT(60) DEF CheckStates
    <3> QED BY <1>0, <3>1, <3>2 DEF CheckTyped
  <2>2. CASE CheckRcptRun
    <3>1. /\ asked' = [c \in Check |-> IF c \in Task.checks THEN asked[c] \cup {Task.addr} ELSE asked[c]]
          /\ checkedRcpts' = checkedRcpts \cup {Task.addr}
      BY <2>2 DEF CheckRcptRun
    <3> QED BY <1>0, <3>1 DEF CheckTyped
  <2>3. CASE asked' = asked
    BY <1>0, <1>7, <2>3 DEF CheckTyped
  <2> QED BY <2>1, <2>2, <2>3, Frame
<1>9. CheckTyped'
  BY <1>6, <1>7, <1>8 DEF CheckTyped
<1> QED BY <1>1, <1>2, <1>3, <1>4, <1>5, <1>9

\* The deliveries.
LEMMA DeliveryTypedStep ==
  ASSUME Typed, [Next]_vars
  PROVE  deliveries' \in Deliveries
<1>0. deliveries \in Deliveries /\ agenda \in Seq(Tasks) /\ orig \in Addr
  BY TypeParts DEF CallerTyped
<1>1. CASE GiveToTarget
  <2>1. Task.target \in Target /\ Task.to \in Addr
    BY <1>0, <1>1, HeadTask, TaskFacts DEF GiveToTarget
  <2> DEFINE t == Task.target
             d == [deliveries[t] EXCEPT !.stage = "started"]
  <2>2. \/ UNCHANGED deliveries
        \/ deliveries' = [deliveries EXCEPT ![t] = d]
        \/ deliveries' = [deliveries EXCEPT ![t] = [d EXCEPT !.taken = d.taken \cup {Task.to},
                                                             !.recipients = d.recipients \cup {orig}]]
    BY <1>1 DEF GiveToTarget
  <2>3. d \in [stage : {"none", "started", "committed", "aborted"},
               taken : SUBSET Addr, recipients : SUBSET Addr, body : BOOLEAN]
    BY <1>0, <2>1 DEF Deliveries
  <2> HIDE DEF d
  <2>4. [d EXCEPT !.taken = d.taken \cup {Task.to}, !.recipients = d.recipients \cup {orig}] \in
          [stage : {"none", "started", "committed", "aborted"},
           taken : SUBSET Addr, recipients : SUBSET Addr, body : BOOLEAN]
    BY <1>0, <2>1, <2>3
  <2> QED BY <1>0, <2>1, <2>2, <2>3, <2>4 DEF Deliveries
<1>2. ASSUME NEW t \in Target
      PROVE  /\ [deliveries EXCEPT ![t].body = TRUE] \in Deliveries
             /\ [deliveries EXCEPT ![t].stage = "committed"] \in Deliveries
             /\ [deliveries[t] EXCEPT !.stage = "aborted"] \in
                  [stage : {"none", "started", "committed", "aborted"},
                   taken : SUBSET Addr, recipients : SUBSET Addr, body : BOOLEAN]
  BY <1>0 DEF Deliveries
<1>3. CASE GiveBody \/ GiveBodyPartially \/ CommitTargets
  <2>1. Task.left \in SUBSET Target
    BY <1>0, <1>3, HeadTask, TaskFacts DEF GiveBody, GiveBodyPartially, CommitTargets
  <2>2. \/ UNCHANGED deliveries
        \/ \E t \in Task.left : \/ deliveries' = [deliveries EXCEPT ![t].body = TRUE]
                                \/ deliveries' = [deliveries EXCEPT ![t].stage = "committed"]
    BY <1>3 DEF GiveBody, GiveBodyPartially, CommitTargets
  <2>3. ASSUME NEW t \in Task.left, \/ deliveries' = [deliveries EXCEPT ![t].body = TRUE]
                                    \/ deliveries' = [deliveries EXCEPT ![t].stage = "committed"]
        PROVE  deliveries' \in Deliveries
    <3>1. t \in Target
      BY <2>1
    <3>2. /\ [deliveries EXCEPT ![t].body = TRUE] \in Deliveries
          /\ [deliveries EXCEPT ![t].stage = "committed"] \in Deliveries
      BY <1>2, <3>1
    <3> QED BY <2>3, <3>2 DEF Deliveries
  <2> QED BY <1>0, <2>2, <2>3
<1>4. CASE Abort
  <2>1. deliveries' = [t \in Target |-> IF t \in Started THEN [deliveries[t] EXCEPT !.stage = "aborted"]
                                        ELSE deliveries[t]]
    BY <1>4 DEF Abort
  <2> QED BY <1>0, <1>2, <2>1 DEF Deliveries
<1> QED BY <1>0, <1>1, <1>3, <1>4, Frame

\* What is known of the targets.
LEMMA TargetTypedStep ==
  ASSUME Typed, [Next]_vars
  PROVE  TargetTyped'
<1>0. TargetTyped /\ deliveries \in Deliveries /\ agenda \in Seq(Tasks) /\ orig \in Addr
  BY TypeParts DEF CallerTyped
<1>1. CASE HandToTargets
  <2>1. Task.block \in Blocks /\ Task.to \in Addr /\ Task.addr \in Addr
    BY <1>0, <1>1, HeadTask, TaskFacts DEF HandToTargets
  <2>2. /\ UNCHANGED <<statuses, missed>>
        /\ routed' = routed \cup {[orig |-> orig, addr |-> Task.addr, block |-> Task.block, to |-> Task.to]}
        /\ originalRcpts' = IF Task.to = orig THEN originalRcpts
                            ELSE [y \in DOMAIN originalRcpts \cup {Task.to} |->
                                    IF y = Task.to THEN orig ELSE originalRcpts[y]]
    BY <1>1 DEF HandToTargets
  <2>3. routed' \subseteq [orig : Addr, addr : Addr, block : Blocks, to : Addr]
    BY <1>0, <2>1, <2>2 DEF TargetTyped
  <2>4. DOMAIN originalRcpts' \subseteq Addr /\ originalRcpts' \in [DOMAIN originalRcpts' -> Addr]
    BY <1>0, <2>1, <2>2 DEF TargetTyped
  <2> QED BY <1>0, <2>2, <2>3, <2>4 DEF TargetTyped
<1>2. CASE UNCHANGED <<originalRcpts, routed>>
  <2>1. CASE GiveBodyPartially
    <3>1. Task.left \in SUBSET Target
      BY <1>0, <2>1, HeadTask, TaskFacts DEF GiveBodyPartially
    <3>2. \/ UNCHANGED <<statuses, missed>>
          \/ \E t \in Task.left : \E F \in SUBSET deliveries[t].taken :
               /\ missed' = [missed EXCEPT ![t] = F] /\ statuses' = statuses \cup {Original(x) : x \in F}
          \/ \E t \in Task.left : statuses' = statuses \cup deliveries[t].recipients /\ UNCHANGED missed
      BY <2>1 DEF GiveBodyPartially
    <3>3. \A t \in Target : deliveries[t].taken \subseteq Addr /\ deliveries[t].recipients \subseteq Addr
      BY <1>0 DEF Deliveries
    <3>4. \A x \in Addr : Original(x) \in Addr
      BY <1>0 DEF Original, TargetTyped
    <3>5. statuses' \subseteq Addr
      BY <1>0, <3>1, <3>2, <3>3, <3>4 DEF TargetTyped
    <3>6. missed' \in [Target -> SUBSET Addr]
      BY <1>0, <3>1, <3>2, <3>3 DEF TargetTyped
    <3> QED BY <1>0, <1>2, <3>5, <3>6 DEF TargetTyped
  <2>2. CASE ReturnError
    <3>1. /\ UNCHANGED missed
          /\ statuses' = statuses \/ statuses' = statuses \cup UNION {deliveries[t].recipients : t \in Target}
      BY <2>2 DEF ReturnError
    <3>2. \A t \in Target : deliveries[t].recipients \subseteq Addr
      BY <1>0 DEF Deliveries
    <3>3. statuses' \subseteq Addr
      BY <1>0, <3>1, <3>2 DEF TargetTyped
    <3> QED BY <1>0, <1>2, <3>1, <3>3 DEF TargetTyped
  <2>3. CASE UNCHANGED <<statuses, missed>>
    BY <1>0, <1>2, <2>3 DEF TargetTyped
  <2> QED BY <2>1, <2>2, <2>3, Frame
<1> QED BY <1>1, <1>2, Frame

\* A call is made when the caller may make it, and does what it may do.
LEMMA CallShapeStep ==
  ASSUME Typed, CallShape, StartShape, [Next]_vars
  PROVE  CallShape' /\ (agenda' # <<>> => call' # "none") /\ agenda' \in Seq(Tasks)
<1> USE DEF callerVars
<1>0. call \in CallNames /\ phase \in Phases /\ agenda \in Seq(Tasks)
  BY TypeParts DEF CallerTyped
<1> DEFINE Calls == /\ call = "Start" => phase = "new"
                    /\ call \in {"AddRcpt", "Body", "BodyNonAtomic"} => phase = "open"
                    /\ call = "Commit" => phase = "ready"
                    /\ call = "Body" => protocol = "smtp"
                    /\ call = "BodyNonAtomic" => protocol = "lmtp"
<1>1. Calls'
  <2>1. CASE UNCHANGED <<protocol, phase, call>>
    BY <2>1 DEF CallShape
  <2>2. ASSUME NEW a \in Addr, Start(a) \/ AddRcpt(a) PROVE Calls'
    BY <2>2 DEF Start, AddRcpt, Begin
  <2>3. CASE Body \/ BodyNonAtomic \/ Commit \/ Abort
    BY <2>3 DEF Body, BodyNonAtomic, Commit, Abort, Begin, CanSend, Idle
  <2>4. CASE Return \/ ReturnError
    <3>1. call' = "none"
      BY <2>4 DEF Return, ReturnError
    <3> QED BY <3>1
  <2> QED BY <2>1, <2>2, <2>3, <2>4, Frame DEF CallerStep
<1>2. phase' = "new" => routed' = {}
  <2>1. phase' = "new" => phase = "new"
    <3>1. CASE Return
      <4>1. call \in {"Start", "AddRcpt", "Body", "BodyNonAtomic", "Commit"}
        BY <1>0, <3>1 DEF Return, CallNames
      <4>2. phase' # "new"
        BY <3>1, <4>1 DEF Return
      <4> QED BY <4>2
    <3>2. CASE ReturnError
      BY <3>2 DEF ReturnError
    <3>3. CASE CallerStep
      BY <3>3 DEF CallerStep, Start, AddRcpt, Body, BodyNonAtomic, Commit, Abort
    <3> QED BY <3>1, <3>2, <3>3, Frame
  <2>2. CASE HandToTargets
    <3>1. call = "AddRcpt"
      BY <2>2, CallOfTask, CallOf DEF HandToTargets
    <3> QED BY <2>1, <3>1 DEF CallShape
  <2> QED BY <2>1, <2>2, Frame DEF CallShape
<1> DEFINE A == Allowed(call', Lists')
<1>3. agenda' \in Seq(A)
  BY AgendaAllowed
<1>4. \A k \in A : /\ k \in Tasks /\ k.op \in Ops(call')
                   /\ k.op \in {"states", "rcpt", "body"} => k.checks \in Lists'
  BY DEF Allowed
<1> HIDE DEF A
<1>5. \A i \in DOMAIN agenda' : agenda'[i] \in A
  BY <1>3
<1>6. agenda' \in Seq(Tasks)
  BY <1>3, <1>4
<1>7. agenda' # <<>> => call' # "none"
  <2>1. agenda' # <<>> => agenda'[1] \in A
    BY <1>3
  <2> QED BY <1>4, <2>1, OpsOf
<1> QED BY <1>1, <1>2, <1>4, <1>5, <1>6, <1>7 DEF CallShape

\* The types are kept.
LEMMA TypedStep ==
  ASSUME Typed, CallShape, StartShape, [Next]_vars
  PROVE  Typed'
BY CallShapeStep, CallerTypedStep, CheckTypedStep, DeliveryTypedStep, TargetTypedStep, TypePartsAfter

-----------------------------------------------------------------------------
(* All or nothing *)

\* What happens to the deliveries in each step that touches them.
LEMMA DeliveryMoves ==
  ASSUME Typed, CommitShape, [Next]_vars
  PROVE  /\ GiveToTarget => \A t \in Target : /\ deliveries'[t].body = deliveries[t].body
                                              /\ deliveries'[t].stage \in {deliveries[t].stage, "started"}
         /\ GiveBody \/ GiveBodyPartially => \A t \in Target : deliveries'[t].stage = deliveries[t].stage
         /\ CommitTargets => \A t \in Target : /\ deliveries'[t].body = deliveries[t].body
                                               /\ t \in Started' <=> t \in Started
         /\ Abort => \A t \in Target : /\ deliveries'[t].body = deliveries[t].body
                                       /\ deliveries'[t].stage \in {"none", "aborted"}
                                       /\ t \in Started' <=> t \in Started
<1>0. deliveries \in Deliveries /\ agenda \in Seq(Tasks)
  BY TypeParts
<1>1. ASSUME GiveToTarget PROVE
        \A t \in Target : /\ deliveries'[t].body = deliveries[t].body
                          /\ deliveries'[t].stage \in {deliveries[t].stage, "started"}
  <2>1. Task.target \in Target
    BY <1>0, <1>1, HeadTask, TaskFacts DEF GiveToTarget
  <2> DEFINE k == Task.target
             d == [deliveries[k] EXCEPT !.stage = "started"]
             f == [d EXCEPT !.taken = d.taken \cup {Task.to}, !.recipients = d.recipients \cup {orig}]
  <2>2. \/ UNCHANGED deliveries
        \/ deliveries' = [deliveries EXCEPT ![k] = d]
        \/ deliveries' = [deliveries EXCEPT ![k] = f]
    BY <1>1 DEF GiveToTarget
  <2>3. d.body = deliveries[k].body /\ d.stage = "started" /\ f.body = deliveries[k].body /\ f.stage = "started"
    BY <1>0, <2>1 DEF Deliveries
  <2> HIDE DEF d, f
  <2> QED BY <1>0, <2>1, <2>2, <2>3 DEF Deliveries
<1>2. ASSUME GiveBody \/ GiveBodyPartially PROVE \A t \in Target : deliveries'[t].stage = deliveries[t].stage
  <2>1. UNCHANGED deliveries \/ \E t \in Target : deliveries' = [deliveries EXCEPT ![t].body = TRUE]
    <3>1. Task.left \in SUBSET Target
      BY <1>0, <1>2, HeadTask, TaskFacts DEF GiveBody, GiveBodyPartially
    <3> QED BY <1>2, <3>1 DEF GiveBody, GiveBodyPartially
  <2>2. ASSUME NEW t \in Target, deliveries' = [deliveries EXCEPT ![t].body = TRUE], NEW u \in Target
        PROVE  deliveries'[u].stage = deliveries[u].stage
    BY <1>0, <2>2 DEF Deliveries
  <2> QED BY <2>1, <2>2
<1>3. ASSUME CommitTargets PROVE
        \A t \in Target : deliveries'[t].body = deliveries[t].body /\ (t \in Started' <=> t \in Started)
  <2>1. Task.left \subseteq Started
    BY <1>0, <1>3, HeadTask DEF CommitTargets, CommitShape
  <2>2. UNCHANGED deliveries \/ \E t \in Started : deliveries' = [deliveries EXCEPT ![t].stage = "committed"]
    BY <1>3, <2>1 DEF CommitTargets
  <2>3. CASE UNCHANGED deliveries
    BY <2>3 DEF Started
  <2>4. ASSUME NEW t \in Started, deliveries' = [deliveries EXCEPT ![t].stage = "committed"],
               NEW u \in Target
        PROVE  deliveries'[u].body = deliveries[u].body /\ (u \in Started' <=> u \in Started)
    <3>1. t \in Target /\ deliveries[t].stage # "none"
      BY DEF Started
    <3>2. /\ deliveries'[u].body = deliveries[u].body
          /\ deliveries'[u].stage = IF u = t THEN "committed" ELSE deliveries[u].stage
      BY <1>0, <2>4, <3>1 DEF Deliveries
    <3> QED BY <3>1, <3>2 DEF Started
  <2> QED BY <2>2, <2>3, <2>4
<1>4. ASSUME Abort, NEW t \in Target PROVE
        /\ deliveries'[t].body = deliveries[t].body
        /\ deliveries'[t].stage \in {"none", "aborted"}
        /\ t \in Started' <=> t \in Started
  <2>1. deliveries'[t] = IF t \in Started THEN [deliveries[t] EXCEPT !.stage = "aborted"] ELSE deliveries[t]
    BY <1>4 DEF Abort
  <2>2. /\ [deliveries[t] EXCEPT !.stage = "aborted"].stage = "aborted"
        /\ [deliveries[t] EXCEPT !.stage = "aborted"].body = deliveries[t].body
    BY <1>0 DEF Deliveries
  <2> QED BY <2>1, <2>2 DEF Started
<1> QED BY <1>1, <1>2, <1>3, <1>4

\* When a phase is entered.
LEMMA PhaseMoves ==
  ASSUME Typed, CallShape, [Next]_vars
  PROVE  /\ phase' \notin {"ready", "ended"} => phase \notin {"ready", "ended"}
         /\ phase' = "ready" /\ phase # "ready" => /\ call \in {"Body", "BodyNonAtomic"}
                                                   /\ call = "Body" => Return
         /\ phase' = "ready" /\ phase = "ready" => call \in {"none", "Commit"}
<1> USE DEF callerVars
<1>0. call \in CallNames /\ phase \in Phases
  BY TypeParts DEF CallerTyped
<1>c. /\ call = "Start" => phase = "new"
      /\ call \in {"AddRcpt", "Body", "BodyNonAtomic"} => phase = "open"
      /\ call = "Commit" => phase = "ready"
  BY DEF CallShape
<1>1. CASE Return
  <2>1. \/ call = "Start" /\ phase' = "open"
        \/ call = "AddRcpt" /\ phase' = "open"
        \/ call \in {"Body", "BodyNonAtomic"} /\ phase' = "ready"
        \/ call = "Commit" /\ phase' = "ended"
    BY <1>0, <1>1 DEF Return, CallNames
  <2> QED BY <1>1, <1>c, <2>1
<1>2. CASE ReturnError
  <2>1. \/ call = "Start" /\ phase' = "refused"
        \/ call = "AddRcpt" /\ phase' = phase
        \/ call = "Body" /\ phase' = "failed"
        \/ call = "BodyNonAtomic" /\ phase' = "ready"
        \/ call = "Commit" /\ phase' = "ended"
    BY <1>2 DEF ReturnError
  <2> QED BY <1>c, <2>1
<1>3. CASE CallerStep
  <2>1. call = "none" /\ (UNCHANGED phase \/ (phase \in {"open", "failed"} /\ phase' = "ended"))
    BY <1>3 DEF CallerStep, Start, AddRcpt, Body, BodyNonAtomic, Commit, Abort, CanSend, Idle
  <2> QED BY <2>1
<1>4. CASE UNCHANGED phase
  BY <1>0, <1>4, <1>c DEF CallNames
<1> QED BY <1>1, <1>2, <1>3, <1>4, Frame


\* The steps of each call.
LEMMA StepsOfCall ==
  ASSUME Typed, CallShape, [Next]_vars
  PROVE  /\ call = "none" => CallerStep \/ UNCHANGED vars
         /\ call = "Start" => \/ CheckStates \/ InitModifiers \/ RouteSource
                              \/ Return \/ ReturnError \/ UNCHANGED vars
         /\ call = "AddRcpt" => \/ CheckStates \/ CheckRcptRun \/ InitModifiers \/ RewriteRcpt \/ RouteRcpt
                                \/ HandToTargets \/ GiveToTarget \/ Return \/ ReturnError \/ UNCHANGED vars
         /\ call = "Body" => \/ CheckStates \/ CheckBodyRun \/ CheckBlocks \/ ApplyResults \/ RewriteBody \/ GiveBody
                             \/ Return \/ ReturnError \/ UNCHANGED vars
         /\ call = "BodyNonAtomic" => \/ CheckStates \/ CheckBodyRun \/ RewriteBody \/ GiveBodyPartially
                                      \/ Return \/ ReturnError \/ UNCHANGED vars
         /\ call = "Commit" => CommitTargets \/ Return \/ ReturnError \/ UNCHANGED vars
         /\ CallerStep => call = "none"
         /\ GiveToTarget \/ HandToTargets => call = "AddRcpt"
         /\ GiveBody \/ ApplyResults => call = "Body"
         /\ GiveBodyPartially => call = "BodyNonAtomic"
         /\ CommitTargets => call = "Commit"
         /\ RouteSource => call = "Start"
         /\ CheckRcptRun => call = "AddRcpt"
         /\ CheckBodyRun => call \in {"Body", "BodyNonAtomic"}
         /\ Return \/ ReturnError => call # "none"
<1>0. call \in CallNames
  BY TypeParts DEF CallerTyped
<1>1. \A op : Doing(op) => op \in Ops(call)
  <2>1. ASSUME NEW op, Doing(op) PROVE op \in Ops(call)
    BY <2>1, CallOfTask
  <2> QED BY <2>1
<1>2. /\ CheckStates => "states" \in Ops(call)
      /\ CheckRcptRun => "rcpt" \in Ops(call)
      /\ CheckBodyRun => "body" \in Ops(call)
      /\ CheckBlocks => "blocks" \in Ops(call)
      /\ ApplyResults => "apply" \in Ops(call)
  BY <1>1 DEF CheckStates, CheckRcptRun, CheckBodyRun, CheckBlocks, ApplyResults
<1>3. /\ InitModifiers => "mods" \in Ops(call)
      /\ RewriteRcpt => "rewrite" \in Ops(call)
      /\ RewriteBody => "rewriteBody" \in Ops(call)
      /\ RouteSource => "source" \in Ops(call)
      /\ RouteRcpt => "route" \in Ops(call)
  BY <1>1 DEF InitModifiers, RewriteRcpt, RewriteBody, RouteSource, RouteRcpt
<1>4. /\ HandToTargets => "hand" \in Ops(call)
      /\ GiveToTarget => "give" \in Ops(call)
      /\ GiveBody => "bodies" \in Ops(call)
      /\ GiveBodyPartially => "partBodies" \in Ops(call)
      /\ CommitTargets => "commits" \in Ops(call)
      /\ ReturnError => "error" \in Ops(call)
  BY <1>1 DEF HandToTargets, GiveToTarget, GiveBody, GiveBodyPartially, CommitTargets, ReturnError
<1>5. CallerStep => call = "none"
  BY DEF CallerStep, Start, AddRcpt, Body, BodyNonAtomic, Commit, Abort, CanSend, Idle
<1>6. Return => call # "none"
  BY DEF Return
<1> QED BY <1>0, <1>2, <1>3, <1>4, <1>5, <1>6, OpsOf DEF CallNames, Next, TaskStep

\* Only what was started is committed.
LEMMA CommitsStarted ==
  ASSUME Typed, CallShape, StartShape, CommitShape, [Next]_vars
  PROVE  \A i \in DOMAIN agenda' : agenda'[i].op = "commits" => agenda'[i].left \subseteq Started'
<1> USE DEF callerVars, targetVars
<1>0. agenda \in Seq(Tasks) /\ agenda' \in Seq(Tasks) /\ call' \in CallNames
  BY TypeParts, CallShapeStep, CallerTypedStep DEF CallerTyped
<1> SUFFICES ASSUME NEW i \in DOMAIN agenda', agenda'[i].op = "commits" PROVE agenda'[i].left \subseteq Started'
  OBVIOUS
<1>1. call' = "Commit"
  <2>1. agenda'[i].op \in Ops(call')
    BY CallShapeStep DEF CallShape
  <2> QED BY <1>0, <2>1, CallOf
<1>2. CASE UNCHANGED vars
  BY <1>2 DEF vars, CommitShape, Started
<1>3. CASE Commit
  <2>1. agenda' = <<Each("commits", Started)>> /\ UNCHANGED deliveries
    BY <1>3 DEF Commit, Begin
  <2>2. agenda'[i] = Each("commits", Started)
    BY <2>1
  <2>3. Started' = Started
    BY <2>1 DEF Started
  <2> QED BY <2>2, <2>3, TaskFields
<1>4. CASE CommitTargets
  <2>1. Started' = Started
    BY <1>4, DeliveryMoves DEF Started
  <2>2. Doing("commits") /\ Task = agenda[1] /\ 1 \in DOMAIN agenda /\ Task.op = "commits" /\ agenda # <<>>
    BY <1>0, <1>4, HeadTask DEF CommitTargets
  <2>3. Task.left \subseteq Started
    BY <2>2 DEF CommitShape
  <2>4. \/ Fail \/ Continue(<<>>) \/ \E t \in Task.left : Continue(<<Each("commits", Task.left \ {t})>>)
    BY <1>4 DEF CommitTargets
  <2>5. CASE Fail
    <3>1. agenda'[i] = Simple("error")
      BY <2>5 DEF Fail
    <3> QED BY <3>1, TaskFields
  <2>6. CASE Continue(<<>>)
    <3>1. agenda'[i] = agenda[i + 1] /\ i + 1 \in DOMAIN agenda
      BY <1>0, <2>2, <2>6 DEF Continue
    <3> QED BY <2>1, <3>1 DEF CommitShape
  <2>7. ASSUME NEW t \in Task.left, Continue(<<Each("commits", Task.left \ {t})>>)
        PROVE  agenda'[i].left \subseteq Started'
    <3> DEFINE e == Each("commits", Task.left \ {t})
    <3>1. e \in Tasks /\ e.left \subseteq Started
      <4>1. Task.left \ {t} \in SUBSET Target
        BY <2>3 DEF Started
      <4> QED BY <2>3, <4>1, MadeTasks, TaskFields
    <3>2. agenda' = <<e>> \o Tail(agenda)
      BY <2>7 DEF Continue
    <3> HIDE DEF e
    <3>3. agenda'[i] = e \/ (i \in DOMAIN agenda /\ agenda'[i] = agenda[i])
      <4>1. <<e>> \in Seq(Tasks) /\ Len(<<e>>) = 1 /\ <<e>>[1] = e /\ DOMAIN <<e>> = {1}
        BY <3>1
      <4>3. i \in Int
        BY <1>0
      <4>2. \/ i = 1 /\ agenda'[i] = e
            \/ i - 1 + 1 \in DOMAIN agenda /\ agenda'[i] = agenda[i - 1 + 1]
        BY <1>0, <2>2, <3>2, <4>1, Replaced
      <4> QED BY <4>2, <4>3
    <3> QED BY <2>1, <3>1, <3>3 DEF CommitShape
  <2> QED BY <2>4, <2>5, <2>6, <2>7
<1>5. CASE CallerStep /\ ~Commit
  <2>1. call' # "Commit" \/ UNCHANGED call
    BY <1>5 DEF CallerStep, Start, AddRcpt, Body, BodyNonAtomic, Abort, Begin
  <2> QED BY <1>1, <1>5, <2>1, StepsOfCall
<1>6. CASE call # "none" /\ ~CommitTargets
  <2>1. UNCHANGED call \/ Return \/ ReturnError
    BY <1>6, StepsOfCall, Frame
  <2>2. ~Return /\ ~ReturnError
    BY <1>1 DEF Return, ReturnError
  <2>3. call = "Commit"
    BY <1>1, <2>1, <2>2
  <2> QED BY <1>2, <1>6, <2>2, <2>3, StepsOfCall
<1> QED BY <1>2, <1>3, <1>4, <1>5, <1>6, StepsOfCall

\* No target is committed before all have the body.
LEMMA AtomicStep ==
  ASSUME Typed, CallShape, StartShape, BodyShape, CommitShape, AtomicDelivery, [Next]_vars
  PROVE  AtomicDelivery' /\ CommitShape'
<1> DEFINE Clean == \A t \in Target : deliveries[t].stage # "committed"
<1>0. agenda \in Seq(Tasks) /\ call \in CallNames /\ deliveries \in Deliveries
  BY TypeParts DEF CallerTyped
<1>c. CommitShape' <=> (phase' \notin {"ready", "ended"} => Clean')
  BY CommitsStarted DEF CommitShape
<1>1. CASE UNCHANGED deliveries
  <2>1. AtomicDelivery'
    BY <1>1, Frame DEF AtomicDelivery, Started
  <2>2. phase' \notin {"ready", "ended"} => Clean'
    BY <1>1, PhaseMoves DEF CommitShape
  <2> QED BY <1>c, <2>1, <2>2
<1>2. CASE GiveToTarget \/ GiveBody \/ GiveBodyPartially
  <2>1. Clean
    <3>1. phase = "open"
      BY <1>2, StepsOfCall DEF CallShape
    <3> QED BY <3>1 DEF CommitShape
  <2>2. Clean'
    BY <1>2, <2>1, DeliveryMoves
  <2> QED BY <1>c, <2>2 DEF AtomicDelivery
<1>3. CASE CommitTargets
  <2>1. phase = "ready" /\ UNCHANGED <<phase, protocol>>
    BY <1>3, StepsOfCall DEF CallShape, CommitTargets, callerVars
  <2>2. protocol = "smtp" => \A t \in Started : deliveries[t].body
    BY <2>1 DEF BodyShape, Given
  <2>3. Started' = Started /\ \A t \in Target : deliveries'[t].body = deliveries[t].body
    BY <1>3, DeliveryMoves DEF Started
  <2>4. AtomicDelivery'
    BY <2>1, <2>2, <2>3 DEF AtomicDelivery, Started
  <2> QED BY <1>c, <2>1, <2>4
<1>4. CASE Abort
  <2>1. Clean'
    BY <1>4, DeliveryMoves
  <2> QED BY <1>c, <2>1 DEF AtomicDelivery
<1> QED BY <1>1, <1>2, <1>3, <1>4, Frame

-----------------------------------------------------------------------------
(* The body *)

\* The first task of a sequence is replaced, the last three are not.
LEMMA EndKept ==
  ASSUME NEW S, NEW s \in Seq(S), Len(s) > 3, NEW t \in Seq(S), NEW u, u = t \o Tail(s), NEW G,
         \A i \in 1 .. Len(s) - 3 : s[i] \in G, \A i \in DOMAIN t : t[i] \in G
  PROVE  /\ Len(u) >= 3 /\ Len(u) \in Nat
         /\ u[Len(u)] = s[Len(s)] /\ u[Len(u) - 1] = s[Len(s) - 1] /\ u[Len(u) - 2] = s[Len(s) - 2]
         /\ \A i \in 1 .. Len(u) - 3 : u[i] \in G
<1>0. s # <<>>
  OBVIOUS
<1>1. /\ Len(u) = Len(t) + Len(s) - 1 /\ Len(u) \in Nat /\ Len(s) \in Nat /\ Len(t) \in Nat
      /\ DOMAIN u = 1 .. Len(u) /\ DOMAIN s = 1 .. Len(s) /\ DOMAIN t = 1 .. Len(t)
  BY <1>0, Replaced
<1>2. \A i \in DOMAIN u : \/ i \in DOMAIN t /\ u[i] = t[i]
                          \/ /\ i > Len(t) /\ i - Len(t) + 1 \in DOMAIN s /\ i - Len(t) + 1 > 1
                             /\ u[i] = s[i - Len(t) + 1]
  BY <1>0, Replaced
<1>3. ASSUME NEW k \in 0 .. 2 PROVE u[Len(u) - k] = s[Len(s) - k]
  <2>1. Len(u) - k \in DOMAIN u /\ ~(Len(u) - k \in DOMAIN t) /\ Len(u) - k - Len(t) + 1 = Len(s) - k
    BY <1>1
  <2> DEFINE j == Len(u) - k
  <2>2. j \in DOMAIN u /\ ~(j \in DOMAIN t) /\ j - Len(t) + 1 = Len(s) - k
    BY <2>1
  <2> HIDE DEF j
  <2>3. u[j] = s[Len(s) - k]
    BY <1>2, <2>2
  <2> QED BY <2>3 DEF j
<1>4. ASSUME NEW i \in 1 .. Len(u) - 3 PROVE u[i] \in G
  <2>1. i \in DOMAIN u
    BY <1>1
  <2>2. CASE i \in DOMAIN t /\ u[i] = t[i]
    BY <2>2
  <2>3. CASE i > Len(t) /\ i - Len(t) + 1 > 1 /\ u[i] = s[i - Len(t) + 1]
    <3> DEFINE j == i - Len(t) + 1
    <3>1. j \in 1 .. Len(s) - 3
      BY <1>1, <2>3
    <3> QED BY <2>3, <3>1
  <2> QED BY <1>2, <2>1, <2>2, <2>3
<1>5. u[Len(u) - 0] = s[Len(s) - 0] /\ Len(u) - 0 = Len(u) /\ Len(s) - 0 = Len(s)
  BY <1>1, <1>3
<1>6. u[Len(u) - 1] = s[Len(s) - 1] /\ u[Len(u) - 2] = s[Len(s) - 2]
  <2>1. 1 \in 0 .. 2 /\ 2 \in 0 .. 2
    OBVIOUS
  <2>2. \A k \in 0 .. 2 : u[Len(u) - k] = s[Len(s) - k]
    BY <1>3
  <2> HIDE <1>3
  <2>3. u[Len(u) - 1] = s[Len(s) - 1]
    BY ONLY <2>1, <2>2
  <2>4. u[Len(u) - 2] = s[Len(s) - 2]
    BY ONLY <2>1, <2>2
  <2> QED BY <2>3, <2>4
<1>7. Len(u) >= 3 /\ u[Len(u)] = s[Len(s)]
  <2>1. Len(u) >= 3
    BY <1>1
  <2>2. u[Len(u)] = s[Len(s)]
    BY <1>5
  <2> QED BY <2>1, <2>2
<1> QED BY <1>1, <1>4, <1>6, <1>7

\* The checks of the body, and the last three steps of Body.
CheckTasks == {k \in Tasks : k.op \in {"states", "body", "blocks"}}
Waiting ==
  /\ Len(agenda) >= 3
  /\ agenda[Len(agenda) - 2] = Simple("apply") /\ agenda[Len(agenda) - 1] = Simple("rewriteBody")
  /\ agenda[Len(agenda)] = Each("bodies", Started)
  /\ \A i \in 1 .. Len(agenda) - 3 : agenda[i] \in CheckTasks
Body3 ==
  \/ Failing
  \/ NoBodies /\ Waiting
  \/ Applied /\ agenda = <<Simple("rewriteBody"), Each("bodies", Started)>>
  \/ Applied /\ Len(agenda) = 1 /\ agenda[1].op = "bodies" /\ Given(agenda[1].left)
  \/ Applied /\ Len(agenda) = 0 /\ Given({})

\* BodyShape is its three parts.
LEMMA BodyParts ==
  ASSUME agenda \in Seq(Tasks)
  PROVE  BodyShape <=> /\ phase \in {"new", "open"} /\ call \notin {"Body", "BodyNonAtomic"} => NoBodies
                       /\ phase = "ready" /\ protocol = "smtp" => Given({}) /\ Applied
                       /\ call = "Body" => Body3
<1>1. Len(agenda) \in Nat /\ \A i \in 1 .. Len(agenda) : agenda[i] \in Tasks
  OBVIOUS
<1>2. \A i \in 1 .. Len(agenda) - 3 : agenda[i].op \in {"states", "body", "blocks"} <=> agenda[i] \in CheckTasks
  BY <1>1 DEF CheckTasks
<1> QED BY <1>2 DEF BodyShape, Body3, Waiting

\* The same after a step.
LEMMA BodyPartsAfter ==
  ASSUME agenda' \in Seq(Tasks)
  PROVE  BodyShape' <=> /\ phase' \in {"new", "open"} /\ call' \notin {"Body", "BodyNonAtomic"} => NoBodies'
                        /\ phase' = "ready" /\ protocol' = "smtp" => Given({})' /\ Applied'
                        /\ call' = "Body" => Body3'
<1>1. Len(agenda') \in Nat /\ \A i \in 1 .. Len(agenda') : agenda'[i] \in Tasks
  OBVIOUS
<1>2. \A i \in 1 .. Len(agenda') - 3 : agenda'[i].op \in {"states", "body", "blocks"} <=> agenda'[i] \in CheckTasks
  BY <1>1 DEF CheckTasks
<1> QED BY <1>2 DEF BodyShape, Body3, Waiting

\* How far Body has come, by the task at hand.
LEMMA BodyForms ==
  ASSUME Typed, BodyShape, call = "Body", NEW op, Doing(op)
  PROVE  /\ op \in {"states", "body", "blocks"} => NoBodies /\ Waiting /\ Len(agenda) > 3
         /\ op = "apply" => NoBodies /\ agenda = <<Simple("apply"), Simple("rewriteBody"), Each("bodies", Started)>>
         /\ op = "rewriteBody" => Applied /\ agenda = <<Simple("rewriteBody"), Each("bodies", Started)>>
         /\ op = "bodies" => /\ Applied /\ Len(agenda) = 1 /\ Given(Task.left)
                             /\ agenda = <<Task>>
<1>0. agenda \in Seq(Tasks)
  BY TypeParts
<1>1. Task = agenda[1] /\ 1 \in DOMAIN agenda /\ agenda[1].op = op /\ agenda # <<>>
  BY <1>0, HeadTask
<1>2. Len(agenda) \in Nat /\ Len(agenda) >= 1 /\ DOMAIN agenda = 1 .. Len(agenda)
  BY <1>0, <1>1
<1>3. Body3
  BY <1>0, BodyParts
<1>4. CASE Failing
  <2>1. agenda[1] = Simple("error")
    BY <1>4 DEF Failing
  <2> QED BY <1>1, <2>1, TaskFields
<1>5. CASE NoBodies /\ Waiting /\ Len(agenda) > 3
  <2>1. op \in {"states", "body", "blocks"}
    BY <1>1, <1>2, <1>5 DEF Waiting, CheckTasks
  <2> QED BY <1>5, <2>1
<1>6. CASE NoBodies /\ Waiting /\ Len(agenda) = 3
  <2>1. /\ agenda[1] = Simple("apply") /\ agenda[2] = Simple("rewriteBody")
        /\ agenda[3] = Each("bodies", Started)
    BY <1>2, <1>6 DEF Waiting
  <2>2. agenda = <<Simple("apply"), Simple("rewriteBody"), Each("bodies", Started)>>
    BY <1>0, <1>6, <2>1
  <2>3. op = "apply"
    BY <1>1, <2>1, TaskFields
  <2> QED BY <1>6, <2>2, <2>3
<1>7. CASE Applied /\ agenda = <<Simple("rewriteBody"), Each("bodies", Started)>>
  <2>1. agenda[1] = Simple("rewriteBody")
    BY <1>7
  <2>2. op = "rewriteBody"
    BY <1>1, <2>1, TaskFields
  <2> QED BY <1>7, <2>2
<1>8. CASE Applied /\ Len(agenda) = 1 /\ agenda[1].op = "bodies" /\ Given(agenda[1].left)
  <2>1. agenda = <<Task>>
    BY <1>0, <1>1, <1>8
  <2> QED BY <1>1, <1>8, <2>1
<1> QED BY <1>2, <1>3, <1>4, <1>5, <1>6, <1>7, <1>8 DEF Body3, Waiting

\* Where the bodies and the marks change.
LEMMA BodyMoves ==
  ASSUME Typed, CommitShape, [Next]_vars
  PROVE  /\ (\A t \in Target : deliveries'[t].body = deliveries[t].body) \/ GiveBody \/ GiveBodyPartially
         /\ Started' = Started \/ GiveToTarget
         /\ msgQuarantine => msgQuarantine'
<1>0. msgQuarantine \in BOOLEAN
  BY TypeParts
<1>1. msgQuarantine => msgQuarantine'
  BY <1>0, Frame DEF ApplyResults
<1>2. CASE UNCHANGED deliveries
  BY <1>1, <1>2 DEF Started
<1>3. CASE GiveToTarget
  BY <1>1, <1>3, DeliveryMoves
<1>4. CASE GiveBody \/ GiveBodyPartially
  BY <1>1, <1>4, DeliveryMoves DEF Started
<1>5. CASE CommitTargets
  <2>1. Started' = Started
    BY <1>5, DeliveryMoves DEF Started
  <2> QED BY <1>1, <1>5, <2>1, DeliveryMoves
<1>6. CASE Abort
  <2>1. Started' = Started
    BY <1>6, DeliveryMoves DEF Started
  <2> QED BY <1>1, <1>6, <2>1, DeliveryMoves
<1> QED BY <1>2, <1>3, <1>4, <1>5, <1>6, Frame

\* Before the body, and between the body and Commit.
LEMMA BodyOutside ==
  ASSUME Typed, CallShape, BodyShape, CommitShape, [Next]_vars
  PROVE  /\ phase' \in {"new", "open"} /\ call' \notin {"Body", "BodyNonAtomic"} => NoBodies'
         /\ phase' = "ready" /\ protocol' = "smtp" => Given({})' /\ Applied'
<1>0. /\ agenda \in Seq(Tasks) /\ call \in CallNames /\ phase \in Phases
      /\ quarantine \in BOOLEAN /\ msgQuarantine \in BOOLEAN
  BY TypeParts DEF CallerTyped
<1>p. UNCHANGED protocol
  BY Frame
<1>1. ASSUME phase' \in {"new", "open"}, call' \notin {"Body", "BodyNonAtomic"} PROVE NoBodies'
  <2>1. phase \in {"new", "open"} /\ call \notin {"Body", "BodyNonAtomic"}
    <3>1. CASE Return
      <4>1. \/ call \in {"Start", "AddRcpt"}
            \/ call \in {"Body", "BodyNonAtomic"} /\ phase' = "ready"
            \/ call = "Commit" /\ phase' = "ended"
        BY <1>0, <3>1 DEF Return, CallNames
      <4> QED BY <1>1, <4>1 DEF CallShape
    <3>2. CASE ReturnError
      <4>1. \/ call = "AddRcpt"
            \/ phase' \in {"refused", "failed", "ready", "ended"}
        BY <3>2 DEF ReturnError
      <4> QED BY <1>1, <4>1 DEF CallShape
    <3>3. CASE CallerStep
      <4>1. call = "none" /\ (UNCHANGED phase \/ phase' = "ended")
        BY <3>3 DEF CallerStep, Start, AddRcpt, Body, BodyNonAtomic, Commit, Abort, CanSend, Idle
      <4> QED BY <1>1, <4>1
    <3>4. CASE UNCHANGED <<phase, call>>
      BY <1>1, <3>4
    <3> QED BY <3>1, <3>2, <3>3, <3>4, Frame
  <2>2. NoBodies
    BY <1>0, <2>1, BodyParts
  <2>3. \A t \in Target : deliveries'[t].body = deliveries[t].body
    BY <2>1, StepsOfCall, BodyMoves
  <2> QED BY <2>2, <2>3 DEF NoBodies
<1>2. ASSUME phase' = "ready", protocol' = "smtp" PROVE Given({})' /\ Applied'
  <2>1. CASE phase # "ready"
    <3>1. call = "Body" /\ Return
      BY <1>p, <1>2, <2>1, PhaseMoves DEF CallShape
    <3>2. agenda = <<>>
      BY <3>1 DEF Return
    <3>3. Given({}) /\ Applied
      <4>1. Body3
        BY <1>0, <3>1, BodyParts
      <4>2. Len(agenda) = 0 /\ agenda # <<Simple("error")>>
        BY <3>2
      <4>3. agenda # <<Simple("rewriteBody"), Each("bodies", Started)>>
        BY <3>2
      <4> QED BY <4>1, <4>2, <4>3 DEF Body3, Failing, Waiting
    <3>4. UNCHANGED <<deliveries, quarantine, msgQuarantine>>
      BY <3>1 DEF Return, targetVars, checkVars
    <3> QED BY <3>3, <3>4 DEF Given, Started, Applied
  <2>2. CASE phase = "ready"
    <3>1. call \in {"none", "Commit"}
      BY <1>2, <2>2, PhaseMoves
    <3>2. Given({}) /\ Applied
      BY <1>0, <1>p, <1>2, <2>2, BodyParts
    <3>3. UNCHANGED quarantine
      <4>1. ~CheckStates
        <5>1. ASSUME CheckStates PROVE FALSE
          <6>1. "states" \in Ops(call)
            BY <5>1, CallOfTask DEF CheckStates
          <6> QED BY <3>1, <6>1, OpsOf
        <5> QED BY <5>1
      <4> QED BY <3>1, <4>1, StepsOfCall, Frame
    <3>4. (\A t \in Target : deliveries'[t].body = deliveries[t].body) /\ Started' = Started
      BY <3>1, BodyMoves, StepsOfCall
    <3> QED BY <3>2, <3>3, <3>4, BodyMoves DEF Given, Applied, Started
  <2> QED BY <2>1, <2>2
<1> QED BY <1>1, <1>2

\* Body applies the results after the last check and before the first target.
LEMMA BodyInside ==
  ASSUME Typed, CallShape, StartShape, BodyShape, CommitShape, [Next]_vars, call' = "Body"
  PROVE  Body3'
<1> USE DEF callerVars, checkVars, targetVars
<1>0. /\ agenda \in Seq(Tasks) /\ agenda' \in Seq(Tasks) /\ call \in CallNames /\ src \in Sources
      /\ quarantine \in BOOLEAN /\ msgQuarantine \in BOOLEAN /\ deliveries \in Deliveries
  BY TypeParts, CallShapeStep DEF CallerTyped
<1>1. CASE UNCHANGED vars
  <2>1. UNCHANGED <<call, agenda, deliveries, quarantine, msgQuarantine>>
    BY <1>1 DEF vars
  <2>2. Body3
    BY <1>0, <2>1, BodyParts
  <2> QED BY <2>1, <2>2 DEF Body3, Failing, NoBodies, Waiting, Applied, Given, Started
<1>f. Fail => Body3'
  BY DEF Fail, Failing, Body3
<1>2. CASE Body
  <2>1. NoBodies
    <3>1. phase = "open" /\ call = "none"
      BY <1>2 DEF Body, CanSend, Idle
    <3> QED BY <1>0, <3>1, BodyParts
  <2>2. UNCHANGED deliveries
    BY <1>2 DEF Body
  <2>3. NoBodies' /\ Started' = Started
    BY <2>1, <2>2 DEF NoBodies, Started
  <2> DEFINE a == States(Global.checks)
             b == AskBody(Global.checks)
             c == States(Source[src].checks)
             d == AskBody(Source[src].checks)
             e == Each("blocks", StoredBlocks)
             f == Simple("apply")
             g == Simple("rewriteBody")
             h == Each("bodies", Started)
  <2>4. agenda' = <<a, b>> \o <<c, d>> \o <<e, f, g, h>>
    BY <1>2 DEF Body, Begin, CheckBody
  <2>5. a \in CheckTasks /\ b \in CheckTasks /\ c \in CheckTasks /\ d \in CheckTasks /\ e \in CheckTasks
    <3>1. Global.checks \in SUBSET Check /\ Source[src].checks \in SUBSET Check /\ StoredBlocks \in SUBSET Blocks
      BY <1>0, Config DEF StoredBlocks
    <3> QED BY <3>1, MadeTasks, TaskFields DEF CheckTasks
  <2> HIDE DEF a, b, c, d, e, f, g, h
  <2>6. /\ Len(agenda') = 8 /\ agenda'[1] = a /\ agenda'[2] = b /\ agenda'[3] = c /\ agenda'[4] = d
        /\ agenda'[5] = e /\ agenda'[6] = f /\ agenda'[7] = g /\ agenda'[8] = h
    <3> DEFINE x == <<a, b, c, d>>
               y == <<e, f, g, h>>
               S == {a, b, c, d, e, f, g, h}
    <3>1. agenda' = x \o y
      BY <2>4, Begun
    <3>2. /\ x \in Seq(S) /\ Len(x) = 4 /\ x[1] = a /\ x[2] = b /\ x[3] = c /\ x[4] = d
          /\ y \in Seq(S) /\ Len(y) = 4 /\ y[1] = e /\ y[2] = f /\ y[3] = g /\ y[4] = h
      OBVIOUS
    <3> HIDE DEF x, y, S
    <3>3. Len(x \o y) = 8 /\ \A i \in 1 .. 8 : (x \o y)[i] = IF i <= 4 THEN x[i] ELSE y[i - 4]
      <4>1. /\ Len(x \o y) = Len(x) + Len(y)
            /\ \A i \in 1 .. Len(x) + Len(y) : (x \o y)[i] = IF i <= Len(x) THEN x[i] ELSE y[i - Len(x)]
        <5>1. x \in Seq(S) /\ y \in Seq(S)
          BY <3>2
        <5> QED BY <5>1
      <4>2. Len(x) = 4 /\ Len(y) = 4 /\ Len(x) + Len(y) = 8
        BY <3>2
      <4> QED BY <4>1, <4>2
    <3>4. /\ (x \o y)[1] = a /\ (x \o y)[2] = b /\ (x \o y)[3] = c /\ (x \o y)[4] = d
      BY <3>2, <3>3
    <3>5. (x \o y)[5] = y[1] /\ (x \o y)[6] = y[2] /\ (x \o y)[7] = y[3] /\ (x \o y)[8] = y[4]
      BY <3>3, SMTT(30)
    <3> QED BY <3>1, <3>2, <3>3, <3>4, <3>5
  <2>7. \A i \in 1 .. 5 : agenda'[i] \in CheckTasks
    BY <2>5, <2>6
  <2>8. Waiting'
    BY <2>3, <2>6, <2>7 DEF Waiting, f, g, h
  <2> QED BY <2>3, <2>8 DEF Body3
<1>3. ASSUME call = "Body", CheckStates \/ CheckBodyRun \/ CheckBlocks PROVE Body3'
  <2>1. PICK op \in {"states", "body", "blocks"} : Doing(op)
    BY <1>3 DEF CheckStates, CheckBodyRun, CheckBlocks
  <2>2. NoBodies /\ Waiting /\ Len(agenda) > 3
    BY <1>3, <2>1, BodyForms
  <2>3. NoBodies' /\ Started' = Started
    <3>1. UNCHANGED deliveries
      BY <1>3 DEF CheckStates, CheckBodyRun, CheckBlocks
    <3> QED BY <2>2, <3>1 DEF NoBodies, Started
  <2>4. Fail \/ \E t \in Seq(CheckTasks) : agenda' = t \o Tail(agenda)
    <3>0. <<>> \in Seq(CheckTasks)
      OBVIOUS
    <3>1. CASE CheckStates \/ CheckBodyRun
      <4>1. Fail \/ Continue(<<>>)
        BY <3>1 DEF CheckStates, CheckBodyRun, Merge
      <4> QED BY <3>0, <4>1 DEF Continue
    <3>2. CASE CheckBlocks
      <4>1. Task.left \in SUBSET Blocks
        BY <1>0, <3>2, HeadTask, TaskFacts DEF CheckBlocks
      <4>2. ASSUME NEW b \in Task.left
            PROVE  CheckBody(Block[b].checks) \o <<Each("blocks", Task.left \ {b})>> \in Seq(CheckTasks)
        <5>1. b \in Blocks /\ Task.left \ {b} \in SUBSET Blocks /\ Block[b].checks \in SUBSET Check
          BY <4>1, <4>2, Config
        <5>2. /\ States(Block[b].checks) \in CheckTasks /\ AskBody(Block[b].checks) \in CheckTasks
              /\ Each("blocks", Task.left \ {b}) \in CheckTasks
          BY <5>1, MadeTasks, TaskFields DEF CheckTasks
        <5>3. CheckBody(Block[b].checks) \in Seq(CheckTasks) /\ <<Each("blocks", Task.left \ {b})>> \in Seq(CheckTasks)
          BY <5>2 DEF CheckBody
        <5> QED BY <5>3
      <4>3. \/ Continue(<<>>)
            \/ \E b \in Task.left : Continue(CheckBody(Block[b].checks) \o <<Each("blocks", Task.left \ {b})>>)
        BY <3>2 DEF CheckBlocks
      <4> QED BY <3>0, <4>2, <4>3 DEF Continue
    <3> QED BY <1>3, <3>1, <3>2
  <2>5. ASSUME NEW t \in Seq(CheckTasks), agenda' = t \o Tail(agenda) PROVE Waiting'
    <3>1. t \in Seq(Tasks) /\ \A i \in DOMAIN t : t[i] \in CheckTasks
      <4>1. \A i \in 1 .. Len(t) : t[i] \in CheckTasks
        OBVIOUS
      <4>2. CheckTasks \subseteq Tasks
        BY DEF CheckTasks
      <4> QED BY <4>1, <4>2
    <3>2. \A i \in 1 .. Len(agenda) - 3 : agenda[i] \in CheckTasks
      BY <2>2 DEF Waiting
    <3>3. /\ Len(agenda') >= 3 /\ Len(agenda') \in Nat
          /\ agenda'[Len(agenda')] = agenda[Len(agenda)] /\ agenda'[Len(agenda') - 1] = agenda[Len(agenda) - 1]
          /\ agenda'[Len(agenda') - 2] = agenda[Len(agenda) - 2]
          /\ \A i \in 1 .. Len(agenda') - 3 : agenda'[i] \in CheckTasks
      BY <1>0, <2>2, <2>5, <3>1, <3>2, EndKept
    <3> QED BY <2>2, <2>3, <3>3 DEF Waiting
  <2> QED BY <1>f, <2>3, <2>4, <2>5 DEF Body3
<1>4. ASSUME call = "Body", ApplyResults PROVE Body3'
  <2>1. Doing("apply") /\ UNCHANGED <<deliveries, quarantine>>
    BY <1>4 DEF ApplyResults
  <2>2. agenda = <<Simple("apply"), Simple("rewriteBody"), Each("bodies", Started)>>
    BY <1>4, <2>1, BodyForms
  <2>3. \/ Fail
        \/ Continue(<<>>) /\ (msgQuarantine' = (msgQuarantine \/ quarantine) \/ msgQuarantine' = TRUE)
    BY <1>4 DEF ApplyResults
  <2>4. ASSUME Continue(<<>>) PROVE agenda' = <<Simple("rewriteBody"), Each("bodies", Started)>>
    <3> DEFINE e == Each("bodies", Started)
    <3>1. Tail(agenda) = <<Simple("rewriteBody"), e>>
      BY <2>2, Short
    <3> HIDE DEF e
    <3>2. agenda' = <<>> \o <<Simple("rewriteBody"), e>>
      BY <2>4, <3>1 DEF Continue
    <3>3. agenda' = <<Simple("rewriteBody"), e>>
      BY <3>2
    <3> QED BY <3>3 DEF e
  <2>5. Started' = Started
    BY <2>1 DEF Started
  <2>6. CASE Continue(<<>>) /\ (msgQuarantine' = (msgQuarantine \/ quarantine) \/ msgQuarantine' = TRUE)
    <3>1. Applied'
      BY <1>0, <2>1, <2>6 DEF Applied
    <3> QED BY <2>4, <2>5, <2>6, <3>1 DEF Body3
  <2> QED BY <1>f, <2>3, <2>6
<1>5. ASSUME call = "Body", RewriteBody PROVE Body3'
  <2>1. Doing("rewriteBody") /\ UNCHANGED <<deliveries, quarantine, msgQuarantine>> /\ (Fail \/ Continue(<<>>))
    BY <1>5 DEF RewriteBody
  <2>2. Applied /\ agenda = <<Simple("rewriteBody"), Each("bodies", Started)>>
    BY <1>5, <2>1, BodyForms
  <2>3. Applied' /\ Started' = Started
    BY <2>1, <2>2 DEF Applied, Started
  <2>4. ASSUME Continue(<<>>) PROVE agenda' = <<Each("bodies", Started)>>
    <3> DEFINE e == Each("bodies", Started)
    <3>1. Tail(agenda) = <<e>>
      BY <2>2, Short
    <3> HIDE DEF e
    <3>2. agenda' = <<>> \o <<e>>
      BY <2>4, <3>1 DEF Continue
    <3>3. agenda' = <<e>>
      BY <3>2
    <3> QED BY <3>3 DEF e
  <2>5. ASSUME Continue(<<>>) PROVE Body3'
    <3>1. Len(agenda') = 1 /\ agenda'[1] = Each("bodies", Started)
      BY <2>4, <2>5
    <3>2. agenda'[1].op = "bodies" /\ agenda'[1].left = Started'
      BY <2>3, <3>1, TaskFields
    <3>3. Given(Started)'
      BY DEF Given
    <3> QED BY <2>3, <3>1, <3>2, <3>3 DEF Body3, Given
  <2> QED BY <1>f, <2>1, <2>5
<1>6. ASSUME call = "Body", GiveBody PROVE Body3'
  <2>1. Doing("bodies") /\ UNCHANGED <<quarantine, msgQuarantine>>
    BY <1>6 DEF GiveBody
  <2>2. Applied /\ agenda = <<Task>> /\ Given(Task.left)
    BY <1>6, <2>1, BodyForms
  <2>3. Applied' /\ Started' = Started
    BY <1>6, <2>1, <2>2, BodyMoves, StepsOfCall DEF Applied
  <2>4. Tail(agenda) = <<>> /\ Task.left \in SUBSET Target
    <3>1. Tail(agenda) = <<>>
      BY <2>2, Short
    <3> QED BY <1>0, <2>1, <3>1, HeadTask, TaskFacts
  <2>5. \/ Fail
        \/ Task.left = {} /\ Continue(<<>>) /\ UNCHANGED deliveries
        \/ \E t \in Task.left : /\ deliveries' = [deliveries EXCEPT ![t].body = TRUE]
                                /\ Continue(<<Each("bodies", Task.left \ {t})>>)
    BY <1>6 DEF GiveBody
  <2>6. ASSUME Task.left = {}, Continue(<<>>), UNCHANGED deliveries PROVE Body3'
    <3>1. agenda' = <<>>
      BY <2>4, <2>6 DEF Continue
    <3>2. Given({})'
      BY <2>2, <2>6 DEF Given, Started
    <3>3. Len(agenda') = 0
      BY <3>1
    <3> QED BY <2>3, <3>2, <3>3 DEF Body3
  <2>7. ASSUME NEW t \in Task.left, deliveries' = [deliveries EXCEPT ![t].body = TRUE],
               Continue(<<Each("bodies", Task.left \ {t})>>)
        PROVE  Body3'
    <3> DEFINE e == Each("bodies", Task.left \ {t})
    <3>1. e.op = "bodies" /\ e.left = Task.left \ {t}
      BY TaskFields
    <3>2. \A u \in Target : deliveries'[u].body = IF u = t THEN TRUE ELSE deliveries[u].body
      <4>1. t \in Target
        BY <2>4
      <4> QED BY <1>0, <2>7, <4>1 DEF Deliveries
    <3>3. \A u \in Started' \ (Task.left \ {t}) : deliveries'[u].body
      BY <2>2, <2>3, <3>2 DEF Given, Started
    <3>4. agenda' = <<e>> \o <<>>
      BY <2>4, <2>7 DEF Continue
    <3> HIDE DEF e
    <3>5. Len(agenda') = 1 /\ agenda'[1] = e
      BY <3>4
    <3>6. Given(agenda[1].left)'
      BY <3>1, <3>3, <3>5 DEF Given
    <3> QED BY <2>3, <3>1, <3>5, <3>6 DEF Body3
  <2> QED BY <1>f, <2>5, <2>6, <2>7
<1>7. CASE call = "Body"
  <2>1. ~Return /\ ~ReturnError
    BY DEF Return, ReturnError
  <2> QED BY <1>1, <1>3, <1>4, <1>5, <1>6, <1>7, <2>1, StepsOfCall
<1>8. CASE call # "Body"
  <2>1. CallerStep
    <3>1. ~Return /\ ~ReturnError
      BY DEF Return, ReturnError
    <3> QED BY <1>8, <3>1, Frame
  <2>2. Body
    <3>1. ASSUME NEW x \in Addr PROVE ~Start(x) /\ ~AddRcpt(x)
      BY DEF Start, AddRcpt, Begin
    <3> QED BY <1>8, <2>1, <3>1 DEF CallerStep, BodyNonAtomic, Commit, Abort, Begin
  <2> QED BY <1>2, <2>2
<1> QED BY <1>7, <1>8

\* BodyShape is kept.
LEMMA BodyShapeStep ==
  ASSUME Typed, CallShape, StartShape, BodyShape, CommitShape, [Next]_vars
  PROVE  BodyShape'
BY CallShapeStep, BodyOutside, BodyInside, BodyPartsAfter

\* A quarantine mark is on the message before a target has the body.
LEMMA QuarantineStep ==
  ASSUME Typed, CallShape, StartShape, BodyShape, CommitShape, QuarantineKept, [Next]_vars
  PROVE  QuarantineKept'
<1>0. agenda \in Seq(Tasks) /\ quarantine \in BOOLEAN /\ msgQuarantine \in BOOLEAN /\ call \in CallNames
  BY TypeParts DEF CallerTyped
<1>1. UNCHANGED protocol /\ (msgQuarantine => msgQuarantine')
  BY Frame, BodyMoves
<1>2. CASE GiveBodyPartially
  <2>1. protocol = "lmtp"
    BY <1>2, StepsOfCall DEF CallShape
  <2> QED BY <1>1, <2>1 DEF QuarantineKept
<1>3. CASE GiveBody
  <2>1. Applied
    <3>1. Doing("bodies") /\ call = "Body"
      BY <1>3, StepsOfCall DEF GiveBody
    <3> QED BY <3>1, BodyForms
  <2>2. UNCHANGED quarantine
    BY <1>3 DEF GiveBody, checkVars
  <2> QED BY <1>1, <2>1, <2>2 DEF QuarantineKept, Applied
<1>4. CASE \A t \in Target : deliveries'[t].body = deliveries[t].body
  <2>1. CASE UNCHANGED quarantine
    BY <1>1, <1>4, <2>1 DEF QuarantineKept
  <2>2. CASE CheckStates \/ CheckRcptRun \/ CheckBodyRun
    <3>1. PICK op \in {"states", "rcpt", "body"} : Doing(op)
      BY <2>2 DEF CheckStates, CheckRcptRun, CheckBodyRun
    <3>2. call \in {"Start", "AddRcpt", "Body", "BodyNonAtomic"}
      BY <3>1, CallOfTask, CallOf
    <3>3. CASE call = "BodyNonAtomic"
      BY <1>1, <3>3 DEF CallShape, QuarantineKept
    <3>4. CASE call \in {"Start", "AddRcpt"}
      <4>1. phase \in {"new", "open"}
        BY <3>4 DEF CallShape
      <4>2. NoBodies
        BY <1>0, <3>4, <4>1, BodyParts
      <4> QED BY <1>4, <4>2 DEF NoBodies, QuarantineKept
    <3>5. CASE call = "Body"
      <4>1. op \in {"states", "body"}
        BY <3>1, <3>5, CallOfTask, CallOf
      <4>2. NoBodies
        BY <3>1, <3>5, <4>1, BodyForms
      <4> QED BY <1>4, <4>2 DEF NoBodies, QuarantineKept
    <3> QED BY <3>2, <3>3, <3>4, <3>5
  <2> QED BY <2>1, <2>2, Frame
<1> QED BY <1>2, <1>3, <1>4, BodyMoves

-----------------------------------------------------------------------------
(* Start *)

\* How far Start has come, by the task at hand.
LEMMA StartForms ==
  ASSUME Typed, StartShape, call = "Start", NEW op, Doing(op)
  PROVE  /\ op = "states" => \/ /\ agenda = <<States(Global.checks), InitMods("global"), Simple("source")>>
                                /\ \A c \in Check : cstate[c] = "none"
                             \/ agenda = <<States(Source[src].checks), InitMods("source")>>
         /\ op = "mods" => \/ /\ agenda = <<InitMods("global"), Simple("source")>>
                              /\ \A c \in Check : cstate[c] = IF c \in Global.checks THEN "open" ELSE "none"
                           \/ agenda = <<InitMods("source")>>
         /\ op = "source" => /\ agenda = <<Simple("source")>>
                             /\ \A c \in Check : cstate[c] = IF c \in Global.checks THEN "open" ELSE "none"
<1> DEFINE g == States(Global.checks)
           m == InitMods("global")
           z == Simple("source")
           s == States(Source[src].checks)
           n == InitMods("source")
           e == Simple("error")
           N == \A c \in Check : cstate[c] = "none"
           O == \A c \in Check : cstate[c] = IF c \in Global.checks THEN "open" ELSE "none"
<1>1. /\ g.op = "states" /\ m.op = "mods" /\ z.op = "source" /\ s.op = "states" /\ n.op = "mods" /\ e.op = "error"
  BY TaskFields
<1>2. agenda # <<>> /\ Head(agenda).op = op
  BY DEF Doing
<1>3. \/ agenda = <<e>>
      \/ agenda = <<g, m, z>> /\ N
      \/ agenda = <<m, z>> /\ O
      \/ agenda = <<z>> /\ O
      \/ agenda = <<s, n>>
      \/ agenda = <<n>>
      \/ agenda = <<>>
  BY DEF StartShape, Failing
<1> SUFFICES /\ op = "states" => (agenda = <<g, m, z>> /\ N) \/ agenda = <<s, n>>
             /\ op = "mods" => (agenda = <<m, z>> /\ O) \/ agenda = <<n>>
             /\ op = "source" => agenda = <<z>> /\ O
  OBVIOUS
<1> HIDE DEF g, m, z, s, n, e, N, O
<1>4. /\ Head(<<e>>) = e /\ Head(<<g, m, z>>) = g /\ Head(<<m, z>>) = m /\ Head(<<z>>) = z
      /\ Head(<<s, n>>) = s /\ Head(<<n>>) = n
  BY Short
<1> QED BY <1>1, <1>2, <1>3, <1>4

\* The checks of the source have no states before the source is known.
LEMMA StartShapeStep ==
  ASSUME Typed, CallShape, StartShape, [Next]_vars
  PROVE  StartShape'
<1> USE DEF callerVars, checkVars, targetVars
<1>0. /\ agenda \in Seq(Tasks) /\ call \in CallNames /\ src \in Sources /\ call' \in CallNames
      /\ cstate \in [Check -> {"none", "open", "closed"}] /\ cstate' \in [Check -> {"none", "open", "closed"}]
  BY TypeParts, CallerTypedStep, CheckTypedStep DEF CallerTyped, CheckTyped
<1> DEFINE N == \A c \in Check : cstate[c] = "none"
           O == \A c \in Check : cstate[c] = IF c \in Global.checks THEN "open" ELSE "none"
           P == \/ Failing
                \/ agenda = <<States(Global.checks), InitMods("global"), Simple("source")>> /\ N
                \/ agenda = <<InitMods("global"), Simple("source")>> /\ O
                \/ agenda = <<Simple("source")>> /\ O
                \/ agenda = <<States(Source[src].checks), InitMods("source")>>
                \/ agenda = <<InitMods("source")>>
                \/ agenda = <<>>
<1>p. StartShape <=> (phase = "new" /\ call = "none" => N) /\ (call = "Start" => P)
  BY DEF StartShape
<1>q. StartShape' <=> (phase' = "new" /\ call' = "none" => N') /\ (call' = "Start" => P')
  BY DEF StartShape
<1>f. Fail => P'
  BY DEF Fail, Failing
<1>1. phase' = "new" /\ call' = "none" => N'
  <2> SUFFICES ASSUME phase' = "new", call' = "none" PROVE N'
    OBVIOUS
  <2>1. ~Return
    <3>1. ASSUME Return PROVE FALSE
      <4>1. call \in {"Start", "AddRcpt", "Body", "BodyNonAtomic", "Commit"}
        BY <1>0, <3>1 DEF Return, CallNames
      <4> QED BY <3>1, <4>1 DEF Return
    <3> QED BY <3>1
  <2>2. ~ReturnError
    BY DEF ReturnError, CallShape
  <2>3. phase = "new" /\ call = "none"
    <3>1. CASE CallerStep
      <4>1. UNCHANGED phase \/ phase' = "ended"
        BY <3>1 DEF CallerStep, Start, AddRcpt, Body, BodyNonAtomic, Commit, Abort
      <4> QED BY <3>1, <4>1, StepsOfCall
    <3> QED BY <2>1, <2>2, <3>1, Frame
  <2>4. UNCHANGED cstate
    <3>1. CallerStep \/ UNCHANGED vars
      BY <2>3, StepsOfCall
    <3>2. CASE CallerStep
      <4>1. ~Commit /\ ~Abort
        BY <2>3 DEF Commit, Abort
      <4> QED BY <3>2, <4>1 DEF CallerStep, Start, AddRcpt, Body, BodyNonAtomic
    <3> QED BY <3>1, <3>2 DEF vars
  <2> QED BY <1>p, <2>3, <2>4
<1>2. ASSUME call' = "Start", call # "Start" PROVE P'
  <2>1. ~Return /\ ~ReturnError
    BY <1>2 DEF Return, ReturnError
  <2>2. CallerStep
    BY <1>2, <2>1, Frame
  <2>3. PICK a \in Addr : Start(a)
    <3>1. ASSUME NEW x \in Addr PROVE ~AddRcpt(x)
      BY <1>2 DEF AddRcpt, Begin
    <3> QED BY <1>2, <2>2, <3>1 DEF CallerStep, Body, BodyNonAtomic, Commit, Abort, Begin
  <2>4. /\ phase = "new" /\ call = "none" /\ UNCHANGED cstate
        /\ agenda' = <<States(Global.checks), InitMods("global"), Simple("source")>>
    BY <2>3 DEF Start, Begin, Idle
  <2> QED BY <1>p, <2>4
<1>3. ASSUME call' = "Start", call = "Start", UNCHANGED vars PROVE P'
  <2>1. UNCHANGED <<agenda, cstate, src>>
    BY <1>3 DEF vars
  <2>2. P
    BY <1>p, <1>3
  <2> QED BY <2>1, <2>2 DEF Failing
<1>t. ASSUME NEW x, NEW y, NEW z
      PROVE  /\ agenda = <<x, y, z>> /\ Continue(<<>>) => agenda' = <<y, z>>
             /\ agenda = <<x, y>> /\ Continue(<<>>) => agenda' = <<y>>
             /\ agenda = <<x>> /\ Continue(<<>>) => agenda' = <<>>
  <2>1. agenda = <<x, y, z>> => Tail(agenda) = <<y, z>>
    BY Short
  <2>2. agenda = <<x, y>> => Tail(agenda) = <<y>>
    BY Short
  <2>3. agenda = <<x>> => Tail(agenda) = <<>>
    BY Short
  <2>4. <<>> \o <<y, z>> = <<y, z>> /\ <<>> \o <<y>> = <<y>> /\ <<>> \o <<>> = <<>>
    OBVIOUS
  <2> QED BY <2>1, <2>2, <2>3, <2>4 DEF Continue
<1>4. ASSUME call' = "Start", call = "Start", CheckStates PROVE P'
  <2>1. Doing("states") /\ UNCHANGED src /\ (Fail \/ Continue(<<>>))
    BY <1>4 DEF CheckStates
  <2>2. CASE Continue(<<>>) /\ agenda = <<States(Source[src].checks), InitMods("source")>>
    <3>1. agenda' = <<InitMods("source")>>
      BY <1>t, <2>2
    <3> QED BY <3>1
  <2>3. CASE Continue(<<>>) /\ N /\ agenda = <<States(Global.checks), InitMods("global"), Simple("source")>>
    <3>1. agenda' = <<InitMods("global"), Simple("source")>>
      BY <1>t, <2>3
    <3>2. Task.checks = Global.checks
      <4>1. Task = States(Global.checks)
        BY <2>3, Short DEF Task
      <4> QED BY <4>1, TaskFields
    <3>3. O'
      <4>0. {c \in Task.checks : cstate[c] # "none"} = {}
        BY <2>3, <3>2, Config
      <4>2. agenda' # <<Simple("error")>>
        BY <3>1
      <4>1. \/ Task.checks = {} /\ UNCHANGED cstate
            \/ cstate' = [c \in Check |-> IF c \in Task.checks \ {} THEN "open" ELSE cstate[c]]
        BY <1>4, <4>0, <4>2 DEF CheckStates, Fail
      <4> QED BY <2>3, <3>2, <4>1
    <3> QED BY <3>1, <3>3
  <2> QED BY <1>f, <1>4, <2>1, <2>2, <2>3, StartForms
<1>5. ASSUME call' = "Start", call = "Start", InitModifiers PROVE P'
  <2>1. Doing("mods") /\ UNCHANGED <<src, cstate>> /\ (Fail \/ Continue(<<>>))
    BY <1>5 DEF InitModifiers
  <2>2. CASE Continue(<<>>) /\ agenda = <<InitMods("source")>>
    <3>1. agenda' = <<>>
      BY <1>t, <2>2
    <3> QED BY <3>1
  <2>3. CASE Continue(<<>>) /\ O /\ agenda = <<InitMods("global"), Simple("source")>>
    <3>1. agenda' = <<Simple("source")>>
      BY <1>t, <2>3
    <3> QED BY <2>1, <2>3, <3>1
  <2> QED BY <1>f, <1>5, <2>1, <2>2, <2>3, StartForms
<1>6. ASSUME call' = "Start", call = "Start", RouteSource PROVE P'
  <2>1. Doing("source") /\ (Fail \/ Continue(<<States(Source[src'].checks), InitMods("source")>>))
    BY <1>6 DEF RouteSource
  <2>2. agenda = <<Simple("source")>>
    BY <1>6, <2>1, StartForms
  <2>3. ASSUME Continue(<<States(Source[src'].checks), InitMods("source")>>)
        PROVE  agenda' = <<States(Source[src'].checks), InitMods("source")>>
    <3> DEFINE x == States(Source[src'].checks)
               y == InitMods("source")
    <3>1. Tail(agenda) = <<>>
      BY <2>2, Short
    <3>2. agenda' = <<x, y>> \o <<>>
      BY <2>3, <3>1 DEF Continue
    <3> HIDE DEF x, y
    <3>3. agenda' = <<x, y>>
      BY <3>2
    <3> QED BY <3>3 DEF x, y
  <2> QED BY <1>f, <2>1, <2>3
<1>7. call' = "Start" => P'
  <2>1. ASSUME call' = "Start" PROVE ~Return /\ ~ReturnError
    BY <2>1 DEF Return, ReturnError
  <2> HIDE DEF P
  <2> QED BY <1>2, <1>3, <1>4, <1>5, <1>6, <2>1, StepsOfCall
<1> HIDE DEF P, N
<1> QED BY <1>q, <1>1, <1>7

-----------------------------------------------------------------------------
(* AddRcpt *)

\* A check that was asked about an address stays asked.
LEMMA AskedGrows ==
  ASSUME Typed, [Next]_vars
  PROVE  /\ \A c \in Check : asked[c] \subseteq asked'[c]
         /\ CheckRcptRun => \A c \in Task.checks : Task.addr \in asked'[c]
<1>0. asked \in [Check -> SUBSET checkedRcpts] /\ agenda \in Seq(Tasks)
  BY TypeParts DEF CheckTyped
<1>1. CASE CheckStates
  <2>1. \/ asked' = asked
        \/ asked' = [c \in Check |-> IF c \in Task.checks THEN asked[c] \cup checkedRcpts ELSE asked[c]]
        \/ \E R \in SUBSET checkedRcpts : \E S : asked' = [c \in Check |-> IF c \in S THEN asked[c] \cup R ELSE asked[c]]
    BY <1>1, ZenonT(60) DEF CheckStates
  <2>2. Doing("states")
    BY <1>1 DEF CheckStates
  <2>3. ~CheckRcptRun
    BY <2>2 DEF CheckRcptRun, Doing
  <2> QED BY <1>0, <2>1, <2>3
<1>2. CASE CheckRcptRun
  <2>1. asked' = [c \in Check |-> IF c \in Task.checks THEN asked[c] \cup {Task.addr} ELSE asked[c]]
    BY <1>2 DEF CheckRcptRun
  <2>2. Task.checks \subseteq Check
    BY <1>0, <1>2, HeadTask, TaskFacts DEF CheckRcptRun
  <2> QED BY <1>0, <2>1, <2>2
<1>3. CASE UNCHANGED asked /\ ~CheckRcptRun
  BY <1>3
<1> QED BY <1>1, <1>2, <1>3, Frame

\* What is left of AddRcpt once the checks of the recipient were asked.
Ready(i) == /\ Rewritten(i)
            /\ agenda[i].op = "hand" => Asked(Block[agenda[i].block].checks, agenda[i].addr)
Spreading == /\ Asked(Global.checks, orig) /\ Asked(Source[src].checks, orig)
             /\ \A i \in DOMAIN agenda : Ready(i)

\* AddShape, form by form.
LEMMA AddParts ==
  AddShape <=> (call = "AddRcpt" =>
    \/ Failing
    \/ agenda = <<States(Global.checks), AskRcpt(Global.checks, orig), States(Source[src].checks),
                  AskRcpt(Source[src].checks, orig), Rewriting("global", orig)>>
    \/ agenda = <<AskRcpt(Global.checks, orig), States(Source[src].checks),
                  AskRcpt(Source[src].checks, orig), Rewriting("global", orig)>>
    \/ /\ Asked(Global.checks, orig)
       /\ agenda = <<States(Source[src].checks), AskRcpt(Source[src].checks, orig), Rewriting("global", orig)>>
    \/ Asked(Global.checks, orig) /\ agenda = <<AskRcpt(Source[src].checks, orig), Rewriting("global", orig)>>
    \/ Spreading)
BY DEF AddShape, Spreading, Ready

\* The same after a step.
LEMMA AddPartsAfter ==
  AddShape' <=> (call' = "AddRcpt" =>
    \/ Failing'
    \/ agenda' = <<States(Global.checks), AskRcpt(Global.checks, orig'), States(Source[src'].checks),
                   AskRcpt(Source[src'].checks, orig'), Rewriting("global", orig')>>
    \/ agenda' = <<AskRcpt(Global.checks, orig'), States(Source[src'].checks),
                   AskRcpt(Source[src'].checks, orig'), Rewriting("global", orig')>>
    \/ /\ Asked(Global.checks, orig)'
       /\ agenda' = <<States(Source[src'].checks), AskRcpt(Source[src'].checks, orig'), Rewriting("global", orig')>>
    \/ Asked(Global.checks, orig)' /\ agenda' = <<AskRcpt(Source[src'].checks, orig'), Rewriting("global", orig')>>
    \/ Spreading')
BY DEF AddShape, Spreading, Ready

\* How far AddRcpt has come, by the task at hand.
LEMMA AddForms ==
  ASSUME Typed, AddShape, call = "AddRcpt", NEW op, Doing(op), op # "error"
  PROVE  \/ Spreading
         \/ /\ op = "states"
            /\ \/ agenda = <<States(Global.checks), AskRcpt(Global.checks, orig), States(Source[src].checks),
                             AskRcpt(Source[src].checks, orig), Rewriting("global", orig)>>
               \/ /\ Asked(Global.checks, orig)
                  /\ agenda = <<States(Source[src].checks), AskRcpt(Source[src].checks, orig),
                                Rewriting("global", orig)>>
         \/ /\ op = "rcpt"
            /\ \/ agenda = <<AskRcpt(Global.checks, orig), States(Source[src].checks),
                             AskRcpt(Source[src].checks, orig), Rewriting("global", orig)>>
               \/ /\ Asked(Global.checks, orig)
                  /\ agenda = <<AskRcpt(Source[src].checks, orig), Rewriting("global", orig)>>
<1> DEFINE g == States(Global.checks)
           h == AskRcpt(Global.checks, orig)
           s == States(Source[src].checks)
           r == AskRcpt(Source[src].checks, orig)
           l == Rewriting("global", orig)
           e == Simple("error")
           A == Asked(Global.checks, orig)
<1>1. g.op = "states" /\ h.op = "rcpt" /\ s.op = "states" /\ r.op = "rcpt" /\ l.op = "rewrite" /\ e.op = "error"
  BY TaskFields
<1>2. agenda # <<>> /\ Head(agenda).op = op
  BY DEF Doing
<1>3. \/ agenda = <<e>>
      \/ agenda = <<g, h, s, r, l>>
      \/ agenda = <<h, s, r, l>>
      \/ A /\ agenda = <<s, r, l>>
      \/ A /\ agenda = <<r, l>>
      \/ Spreading
  BY AddParts DEF Failing
<1> SUFFICES \/ Spreading
             \/ op = "states" /\ (agenda = <<g, h, s, r, l>> \/ (A /\ agenda = <<s, r, l>>))
             \/ op = "rcpt" /\ (agenda = <<h, s, r, l>> \/ (A /\ agenda = <<r, l>>))
  OBVIOUS
<1> HIDE DEF g, h, s, r, l, e, A
<1>4. /\ Head(<<e>>) = e /\ Head(<<g, h, s, r, l>>) = g /\ Head(<<h, s, r, l>>) = h
      /\ Head(<<s, r, l>>) = s /\ Head(<<r, l>>) = r
  BY Short
<1> QED BY <1>1, <1>2, <1>3, <1>4

\* A step keeps Spreading when each task of the new agenda is ready or was on the old
\* one, two places after the task it was two places after.
LEMMA SpreadingKept ==
  ASSUME Typed, Spreading, [Next]_vars, UNCHANGED <<src, orig>>, agenda' \in Seq(Tasks),
         Task.op = "rcpt" => CheckRcptRun,
         \A i \in DOMAIN agenda' :
           \/ Ready(i)'
           \/ \E j \in DOMAIN agenda : /\ j > 1 /\ agenda'[i] = agenda[j]
                                       /\ j > 3 => i >= 3 /\ agenda'[i - 2] = agenda[j - 2]
  PROVE  Spreading'
<1>0. src \in Sources /\ agenda \in Seq(Tasks)
  BY TypeParts
<1>c. /\ Global.checks \subseteq Check /\ Source[src].checks \subseteq Check
      /\ \A b \in Blocks : Block[b].checks \subseteq Check
  BY <1>0, Config
<1>g. ASSUME NEW C \in SUBSET Check, NEW a, Asked(C, a) PROVE \A c \in C : a \in asked'[c]
  BY <1>g, AskedGrows DEF Asked
<1>1. Asked(Global.checks, orig)' /\ Asked(Source[src].checks, orig)'
  <2>1. \A c \in Global.checks : orig \in asked'[c]
    BY <1>c, <1>g DEF Spreading
  <2>2. \A c \in Source[src].checks : orig \in asked'[c]
    BY <1>c, <1>g DEF Spreading
  <2> QED BY <2>1, <2>2 DEF Asked
<1>2. ASSUME NEW i \in DOMAIN agenda', NEW j \in DOMAIN agenda, j > 1, agenda'[i] = agenda[j],
             j > 3 => i >= 3 /\ agenda'[i - 2] = agenda[j - 2]
      PROVE  Ready(i)'
  <2>1. Ready(j)
    BY DEF Spreading
  <2>2. agenda[j] \in Tasks /\ j \in Nat /\ i \in Nat
    BY <1>0
  <2> DEFINE k == agenda[j]
  <2> HIDE DEF k
  <2>3. ASSUME k.op = "hand" PROVE \A c \in Block[k.block].checks : k.addr \in asked'[c]
    <3>1. Asked(Block[k.block].checks, k.addr)
      BY <2>1, <2>3 DEF Ready, k
    <3>2. k.block \in Blocks
      BY <2>2, <2>3, TaskFacts DEF k
    <3> QED BY <1>c, <1>g, <3>1, <3>2
  <2>4. ASSUME k.op = "rewrite", k.group \in Blocks
        PROVE  \/ \A c \in Block[k.group].checks : k.addr \in asked'[c]
               \/ i >= 3 /\ agenda'[i - 2] = AskRcpt(Block[k.group].checks, k.addr)
    <3>1. \/ Asked(Block[k.group].checks, k.addr)
          \/ j >= 3 /\ agenda[j - 2] = AskRcpt(Block[k.group].checks, k.addr)
      BY <2>1, <2>4 DEF Ready, Rewritten, k
    <3>2. CASE Asked(Block[k.group].checks, k.addr)
      BY <1>c, <1>g, <2>4, <3>2
    <3>3. CASE j > 3 /\ agenda[j - 2] = AskRcpt(Block[k.group].checks, k.addr)
      BY <1>2, <3>3
    <3>4. CASE j = 3 /\ agenda[j - 2] = AskRcpt(Block[k.group].checks, k.addr)
      <4>1. Task = AskRcpt(Block[k.group].checks, k.addr)
        <5>1. j - 2 = 1 /\ Task = agenda[1]
          BY <1>0, <3>4 DEF Task
        <5> QED BY <3>4, <5>1
      <4>2. Task.op = "rcpt" /\ Task.checks = Block[k.group].checks /\ Task.addr = k.addr
        BY <4>1, TaskFields
      <4> QED BY <4>2, AskedGrows
    <3> QED BY <2>2, <3>1, <3>2, <3>3, <3>4
  <2>5. agenda'[i] = k
    BY <1>2 DEF k
  <2> QED BY <2>3, <2>4, <2>5 DEF Ready, Rewritten, Asked
<1>3. \A i \in DOMAIN agenda' : Ready(i)'
  BY <1>2
<1> QED BY <1>1, <1>3 DEF Spreading

\* The first task is replaced.
LEMMA SpreadingReplaced ==
  ASSUME Typed, Spreading, [Next]_vars, UNCHANGED <<src, orig>>, agenda # <<>>,
         Task.op = "rcpt" => CheckRcptRun,
         NEW t \in Seq(Tasks), agenda' = t \o Tail(agenda), \A i \in DOMAIN t : Ready(i)'
  PROVE  Spreading'
<1>0. agenda \in Seq(Tasks)
  BY TypeParts
<1>1. agenda' \in Seq(Tasks) /\ Len(t) \in Nat /\ DOMAIN agenda' \subseteq Nat
  BY <1>0, Replaced
<1>2. \A i \in DOMAIN agenda : i > 1 => i - 1 + Len(t) \in DOMAIN agenda' /\ agenda'[i - 1 + Len(t)] = agenda[i]
  BY <1>0, Replaced
<1>6. DOMAIN agenda = 1 .. Len(agenda) /\ Len(agenda) \in Nat
  BY <1>0
<1>3. ASSUME NEW i \in DOMAIN agenda'
      PROVE  \/ Ready(i)'
             \/ \E j \in DOMAIN agenda : /\ j > 1 /\ agenda'[i] = agenda[j]
                                         /\ j > 3 => i >= 3 /\ agenda'[i - 2] = agenda[j - 2]
  <2>1. \/ i \in DOMAIN t
        \/ /\ i > Len(t) /\ i - Len(t) + 1 \in DOMAIN agenda /\ i - Len(t) + 1 > 1
           /\ agenda'[i] = agenda[i - Len(t) + 1]
    BY <1>0, Replaced
  <2>2. CASE i > Len(t) /\ i - Len(t) + 1 \in DOMAIN agenda /\ i - Len(t) + 1 > 1 /\ agenda'[i] = agenda[i - Len(t) + 1]
    <3> DEFINE j == i - Len(t) + 1
    <3>1. j \in DOMAIN agenda /\ j > 1 /\ agenda'[i] = agenda[j]
      BY <2>2
    <3>2. ASSUME j > 3 PROVE i >= 3 /\ agenda'[i - 2] = agenda[j - 2]
      <4>0. j = i - Len(t) + 1
        OBVIOUS
      <4> HIDE DEF j
      <4>n. i \in Nat /\ j \in Nat /\ Len(t) \in Nat /\ j <= Len(agenda) /\ Len(agenda) \in Nat
        BY <1>1, <1>6, <3>1
      <4>1. i >= 3 /\ j - 2 > 1 /\ (j - 2) - 1 + Len(t) = i - 2 /\ j - 2 \in 1 .. Len(agenda)
        BY <3>2, <4>0, <4>n
      <4>2. agenda'[(j - 2) - 1 + Len(t)] = agenda[j - 2]
        BY <1>2, <1>6, <4>1
      <4> QED BY <4>1, <4>2
    <3> HIDE DEF j
    <3> QED BY <3>1, <3>2
  <2> QED BY <2>1, <2>2
<1> QED BY <1>1, <1>3, SpreadingKept

\* AddShape is kept.
LEMMA AddShapeStep ==
  ASSUME Typed, CallShape, StartShape, AddShape, [Next]_vars
  PROVE  AddShape'
<1> USE DEF callerVars, checkVars, targetVars
<1>0. agenda \in Seq(Tasks) /\ agenda' \in Seq(Tasks) /\ call \in CallNames /\ src \in Sources
  BY TypeParts, CallShapeStep DEF CallerTyped
<1> SUFFICES ASSUME call' = "AddRcpt" PROVE AddShape'
  BY DEF AddShape
<1>f. Fail => AddShape'
  BY AddPartsAfter DEF Fail, Failing
<1>r. ~Return /\ ~ReturnError
  BY DEF Return, ReturnError
<1>1. CASE UNCHANGED vars
  <2>1. UNCHANGED <<call, agenda, orig, src, asked>>
    BY <1>1 DEF vars
  <2> QED BY <2>1 DEF AddShape, Failing, Asked, Rewritten
<1>2. CASE call # "AddRcpt"
  <2>1. CallerStep
    BY <1>r, <1>2, Frame
  <2>2. PICK a \in Addr : AddRcpt(a)
    <3>1. ASSUME NEW x \in Addr PROVE ~Start(x)
      BY DEF Start, Begin
    <3> QED BY <1>2, <2>1, <3>1 DEF CallerStep, Body, BodyNonAtomic, Commit, Abort, Begin
  <2>3. /\ orig' = a /\ UNCHANGED src
        /\ agenda' = <<States(Global.checks), AskRcpt(Global.checks, a)>>
                       \o <<States(Source[src].checks), AskRcpt(Source[src].checks, a)>> \o <<Rewriting("global", a)>>
    BY <2>2 DEF AddRcpt, Begin, CheckRcpt
  <2>4. agenda' = <<States(Global.checks), AskRcpt(Global.checks, orig'), States(Source[src'].checks),
                    AskRcpt(Source[src'].checks, orig'), Rewriting("global", orig')>>
    <3> DEFINE g == States(Global.checks)
               h == AskRcpt(Global.checks, a)
               s == States(Source[src].checks)
               r == AskRcpt(Source[src].checks, a)
               l == Rewriting("global", a)
    <3>1. agenda' = <<g, h>> \o <<s, r>> \o <<l>>
      BY <2>3
    <3> HIDE DEF g, h, s, r, l
    <3>3. <<g, h>> \o <<s, r>> \o <<l>> = <<g, h, s, r, l>>
      BY ONLY Begun, ZenonT(30)
    <3>2. agenda' = <<g, h, s, r, l>>
      BY <3>1, <3>3
    <3> QED BY <2>3, <3>2 DEF g, h, s, r, l
  <2> QED BY <2>4, AddPartsAfter
<1>3. ASSUME call = "AddRcpt", ~UNCHANGED vars PROVE AddShape'
  <2>u. UNCHANGED <<src, orig>>
    BY <1>r, <1>3, StepsOfCall, Frame
  <2>g. ASSUME NEW C \in SUBSET Check, NEW a, Asked(C, a) PROVE \A c \in C : a \in asked'[c]
    BY <2>g, AskedGrows DEF Asked
  <2>c. Global.checks \in SUBSET Check /\ Source[src].checks \in SUBSET Check
    BY <1>0, Config
  <2>s. Spreading' => AddShape'
    BY AddPartsAfter
  <2>n. agenda # <<>>
    BY <1>r, <1>3, StepsOfCall DEF CheckStates, CheckRcptRun, InitModifiers, RewriteRcpt, RouteRcpt,
       HandToTargets, GiveToTarget, Doing
  <2>e. ASSUME Spreading, Task.op = "rcpt" => CheckRcptRun, Continue(<<>>) PROVE AddShape'
    <3>1. <<>> \in Seq(Tasks) /\ DOMAIN <<>> = {}
      OBVIOUS
    <3>2. agenda' = <<>> \o Tail(agenda)
      BY <2>e DEF Continue
    <3>3. Spreading'
      BY <2>u, <2>n, <2>e, <3>1, <3>2, SpreadingReplaced
    <3> QED BY <2>s, <3>3
  <2>t. ASSUME NEW x, NEW y, NEW z, NEW v, NEW w
        PROVE  /\ agenda = <<x, y, z, v, w>> /\ Continue(<<>>) => agenda' = <<y, z, v, w>>
               /\ agenda = <<x, y, z, v>> /\ Continue(<<>>) => agenda' = <<y, z, v>>
               /\ agenda = <<x, y, z>> /\ Continue(<<>>) => agenda' = <<y, z>>
               /\ agenda = <<x, y>> /\ Continue(<<>>) => agenda' = <<y>>
    <3>1. /\ Tail(<<x, y, z, v, w>>) = <<y, z, v, w>> /\ Tail(<<x, y, z, v>>) = <<y, z, v>>
          /\ Tail(<<x, y, z>>) = <<y, z>> /\ Tail(<<x, y>>) = <<y>>
      BY Short
    <3>3. /\ <<>> \o <<y, z, v, w>> = <<y, z, v, w>> /\ <<>> \o <<y, z, v>> = <<y, z, v>>
          /\ <<>> \o <<y, z>> = <<y, z>> /\ <<>> \o <<y>> = <<y>>
      OBVIOUS
    <3> QED BY <3>1, <3>3 DEF Continue
  <2>1. CASE CheckStates
    <3>1. Doing("states") /\ (Fail \/ Continue(<<>>))
      BY <2>1 DEF CheckStates
    <3>2. ASSUME Continue(<<>>), Spreading PROVE AddShape'
      <4>1. Task.op # "rcpt"
        BY <1>0, <3>1, HeadTask
      <4> QED BY <2>e, <3>2, <4>1
    <3>3. ASSUME Continue(<<>>),
                 agenda = <<States(Global.checks), AskRcpt(Global.checks, orig), States(Source[src].checks),
                            AskRcpt(Source[src].checks, orig), Rewriting("global", orig)>>
          PROVE  AddShape'
      <4>1. agenda' = <<AskRcpt(Global.checks, orig), States(Source[src].checks),
                        AskRcpt(Source[src].checks, orig), Rewriting("global", orig)>>
        BY <2>t, <3>3
      <4> QED BY <2>u, <4>1, AddPartsAfter
    <3>4. ASSUME Continue(<<>>), Asked(Global.checks, orig),
                 agenda = <<States(Source[src].checks), AskRcpt(Source[src].checks, orig), Rewriting("global", orig)>>
          PROVE  AddShape'
      <4>1. agenda' = <<AskRcpt(Source[src].checks, orig), Rewriting("global", orig)>>
        BY <2>t, <3>4
      <4>2. Asked(Global.checks, orig)'
        BY <2>u, <2>g, <2>c, <3>4 DEF Asked
      <4> QED BY <2>u, <4>1, <4>2, AddPartsAfter
    <3>5. \/ Spreading
          \/ agenda = <<States(Global.checks), AskRcpt(Global.checks, orig), States(Source[src].checks),
                        AskRcpt(Source[src].checks, orig), Rewriting("global", orig)>>
          \/ /\ Asked(Global.checks, orig)
             /\ agenda = <<States(Source[src].checks), AskRcpt(Source[src].checks, orig), Rewriting("global", orig)>>
      BY <1>3, <3>1, AddForms
    <3> QED BY <1>f, <3>1, <3>2, <3>3, <3>4, <3>5
  <2>2. CASE CheckRcptRun
    <3>1. Doing("rcpt") /\ (Fail \/ Continue(<<>>))
      BY <2>2 DEF CheckRcptRun, Merge
    <3>2. ASSUME Continue(<<>>), Spreading PROVE AddShape'
      BY <2>e, <2>2, <3>2
    <3>3. ASSUME Continue(<<>>),
                 agenda = <<AskRcpt(Global.checks, orig), States(Source[src].checks),
                            AskRcpt(Source[src].checks, orig), Rewriting("global", orig)>>
          PROVE  AddShape'
      <4>1. agenda' = <<States(Source[src].checks), AskRcpt(Source[src].checks, orig), Rewriting("global", orig)>>
        BY <2>t, <3>3
      <4>2. Task = AskRcpt(Global.checks, orig)
        BY <3>3, Short DEF Task
      <4>3. Task.checks = Global.checks /\ Task.addr = orig
        BY <4>2, TaskFields
      <4>4. Asked(Global.checks, orig)'
        BY <2>u, <2>2, <4>3, AskedGrows DEF Asked
      <4> QED BY <2>u, <4>1, <4>4, AddPartsAfter
    <3>4. ASSUME Continue(<<>>), Asked(Global.checks, orig),
                 agenda = <<AskRcpt(Source[src].checks, orig), Rewriting("global", orig)>>
          PROVE  AddShape'
      <4>1. agenda' = <<Rewriting("global", orig)>>
        BY <2>t, <3>4
      <4>2. Task = AskRcpt(Source[src].checks, orig)
        BY <3>4, Short DEF Task
      <4>3. Task.checks = Source[src].checks /\ Task.addr = orig
        BY <4>2, TaskFields
      <4>4. Asked(Source[src].checks, orig)' /\ Asked(Global.checks, orig)'
        BY <2>u, <2>g, <2>c, <2>2, <3>4, <4>3, AskedGrows DEF Asked
      <4>5. ASSUME NEW i \in DOMAIN agenda' PROVE Ready(i)'
        <5>1. agenda'[i] = Rewriting("global", orig)
          BY <4>1
        <5>2. agenda'[i].op = "rewrite" /\ agenda'[i].group \notin Blocks
          BY <5>1, TaskFields, Config
        <5> QED BY <5>2 DEF Ready, Rewritten
      <4>6. Spreading'
        BY <4>4, <4>5 DEF Spreading
      <4> QED BY <2>s, <4>6
    <3>5. \/ Spreading
          \/ agenda = <<AskRcpt(Global.checks, orig), States(Source[src].checks),
                        AskRcpt(Source[src].checks, orig), Rewriting("global", orig)>>
          \/ Asked(Global.checks, orig) /\ agenda = <<AskRcpt(Source[src].checks, orig), Rewriting("global", orig)>>
      BY <1>3, <3>1, AddForms
    <3> QED BY <1>f, <3>1, <3>2, <3>3, <3>4, <3>5
  <2>3. CASE InitModifiers \/ GiveToTarget
    <3>1. PICK op \in {"mods", "give"} : Doing(op)
      BY <2>3 DEF InitModifiers, GiveToTarget
    <3>2. Spreading /\ Task.op # "rcpt"
      BY <1>0, <1>3, <3>1, AddForms, HeadTask
    <3>3. Fail \/ Continue(<<>>)
      BY <2>3 DEF InitModifiers, GiveToTarget
    <3> QED BY <1>f, <2>e, <3>2, <3>3
  <2>4. ASSUME Spreading, Task.op # "rcpt", NEW t \in Seq(Tasks), Continue(t), \A i \in DOMAIN t : Ready(i)'
        PROVE  AddShape'
    <3>1. agenda' = t \o Tail(agenda)
      BY <2>4 DEF Continue
    <3>2. Spreading'
      BY <2>u, <2>n, <2>4, <3>1, SpreadingReplaced
    <3> QED BY <2>s, <3>2
  <2>h. ASSUME NEW t \in Seq(Tasks), Continue(t), NEW i \in DOMAIN t PROVE agenda'[i] = t[i] /\ i \in Nat
    <3>1. agenda' = t \o Tail(agenda) /\ i \in 1 .. Len(t)
      BY <2>h DEF Continue
    <3>2. Tail(agenda) \in Seq(Tasks)
      BY <1>0, <2>n
    <3> QED BY <3>1, <3>2
  <2>5. CASE HandToTargets
    <3>1. Doing("hand")
      BY <2>5 DEF HandToTargets
    <3>2. Spreading /\ Task.op # "rcpt" /\ Task.block \in Blocks /\ Task.to \in Addr
      BY <1>0, <1>3, <3>1, AddForms, HeadTask, TaskFacts
    <3> DEFINE s == Block[Task.block].targets
               t == [i \in DOMAIN s |-> Giving(s[i], Task.to)]
    <3>3. s \in Seq(Target)
      BY <3>2, Config
    <3>4. t \in Seq(Tasks) /\ \A i \in DOMAIN t : t[i].op = "give"
      <4> HIDE DEF s
      <4>1. \A i \in 1 .. Len(s) : Giving(s[i], Task.to) \in Tasks
        BY <3>2, <3>3, MadeTasks
      <4>2. DOMAIN s = 1 .. Len(s) /\ Len(s) \in Nat
        BY <3>3
      <4> QED BY <4>1, <4>2, TaskFields
    <3>5. Continue(t)
      BY <2>5 DEF HandToTargets
    <3> HIDE DEF t
    <3>6. ASSUME NEW i \in DOMAIN t PROVE Ready(i)'
      <4>1. agenda'[i].op = "give"
        BY <2>h, <3>4, <3>5
      <4> QED BY <4>1 DEF Ready, Rewritten
    <3> QED BY <2>4, <3>2, <3>4, <3>5, <3>6
  <2>6. CASE RouteRcpt
    <3>1. Doing("route")
      BY <2>6 DEF RouteRcpt
    <3>2. Spreading /\ Task.op # "rcpt" /\ Task.addr \in Addr
      BY <1>0, <1>3, <3>1, AddForms, HeadTask, TaskFacts
    <3>3. ASSUME NEW broken PROVE Select(Source[src].route, Task.addr, broken) \in Blocks
      BY <1>0, SelectTyped, Config
    <3>4. \/ Fail
          \/ \E b \in Blocks : Continue(CheckRcpt(Block[b].checks, Task.addr) \o <<InitMods(b), Rewriting(b, Task.addr)>>)
      BY <2>6, <3>3 DEF RouteRcpt
    <3>5. ASSUME NEW b \in Blocks,
                 Continue(CheckRcpt(Block[b].checks, Task.addr) \o <<InitMods(b), Rewriting(b, Task.addr)>>)
          PROVE  AddShape'
      <4> DEFINE x == States(Block[b].checks)
                 y == AskRcpt(Block[b].checks, Task.addr)
                 z == InitMods(b)
                 v == Rewriting(b, Task.addr)
                 t == <<x, y, z, v>>
      <4>2. x \in Tasks /\ y \in Tasks /\ z \in Tasks /\ v \in Tasks
        BY <3>2, MadeTasks, Config
      <4>3. /\ x.op = "states" /\ y.op = "rcpt" /\ z.op = "mods"
            /\ v.op = "rewrite" /\ v.group = b /\ v.addr = Task.addr
        BY TaskFields
      <4>9. y = AskRcpt(Block[v.group].checks, v.addr)
        BY <4>3
      <4>8. Continue(<<x, y>> \o <<z, v>>)
        BY <3>5 DEF CheckRcpt
      <4> HIDE DEF x, y, z, v
      <4>7. <<x, y>> \o <<z, v>> = <<x, y, z, v>>
        BY ONLY Begun, Zenon
      <4>1. Continue(t)
        BY <4>7, <4>8
      <4>4. t \in Seq(Tasks) /\ DOMAIN t = 1 .. 4 /\ t[1] = x /\ t[2] = y /\ t[3] = z /\ t[4] = v
        BY <4>2
      <4> HIDE DEF t
      <4>5. agenda'[1] = x /\ agenda'[2] = y /\ agenda'[3] = z /\ agenda'[4] = v
        <5>1. \A i \in 1 .. 4 : agenda'[i] = t[i]
          BY <2>h, <4>1, <4>4
        <5> QED BY <4>4, <5>1
      <4>6. ASSUME NEW i \in DOMAIN t PROVE Ready(i)'
        <5>1. i \in {1, 2, 3, 4}
          BY <4>4
        <5>2. CASE i \in {1, 2, 3}
          <6>1. agenda'[i].op \in {"states", "rcpt", "mods"}
            BY <4>3, <4>5, <5>2
          <6> QED BY <6>1 DEF Ready, Rewritten
        <5>3. CASE i = 4
          <6>1. agenda'[i] = v /\ i >= 3 /\ agenda'[i - 2] = AskRcpt(Block[v.group].checks, v.addr)
            BY <4>5, <4>9, <5>3
          <6> QED BY <4>3, <6>1 DEF Ready, Rewritten
        <5> QED BY <5>1, <5>2, <5>3
      <4> QED BY <2>4, <3>2, <4>1, <4>4, <4>6
    <3> QED BY <1>f, <3>4, <3>5
  <2>7. CASE RewriteRcpt
    <3>1. Doing("rewrite")
      BY <2>7 DEF RewriteRcpt
    <3>2. /\ Spreading /\ Task.op = "rewrite" /\ Task.op # "rcpt" /\ Task.addr \in Addr
          /\ Task = agenda[1] /\ 1 \in DOMAIN agenda
      BY <1>0, <1>3, <3>1, AddForms, HeadTask, TaskFacts
    <3>3. /\ Global.rewrite[Task.addr] \in Seq(Addr) /\ Source[src].rewrite[Task.addr] \in Seq(Addr)
          /\ \A b \in Blocks : Block[b].rewrite[Task.addr] \in Seq(Addr)
      BY <1>0, <3>2, Config
    <3>4. ASSUME NEW s \in Seq(Addr), Continue([i \in DOMAIN s |-> Rewriting("source", s[i])]) PROVE AddShape'
      <4> DEFINE t == [i \in DOMAIN s |-> Rewriting("source", s[i])]
      <4>1. t \in Seq(Tasks)
        <5>1. \A i \in 1 .. Len(s) : Rewriting("source", s[i]) \in Tasks
          BY MadeTasks, Config
        <5>2. DOMAIN s = 1 .. Len(s) /\ Len(s) \in Nat
          OBVIOUS
        <5> QED BY <5>1, <5>2
      <4>2. \A i \in DOMAIN t : t[i].group \notin Blocks /\ t[i].op = "rewrite"
        BY TaskFields, Config
      <4>3. Continue(t)
        BY <3>4
      <4> HIDE DEF t
      <4>4. ASSUME NEW i \in DOMAIN t PROVE Ready(i)'
        <5>1. agenda'[i].op = "rewrite" /\ agenda'[i].group \notin Blocks
          BY <2>h, <4>1, <4>2, <4>3
        <5> QED BY <5>1 DEF Ready, Rewritten
      <4> QED BY <2>4, <3>2, <4>1, <4>3, <4>4
    <3>5. ASSUME NEW b \in Blocks, Task.group = b, NEW s \in Seq(Addr),
                 Continue([i \in DOMAIN s |-> Handing(b, Task.addr, s[i])])
          PROVE  AddShape'
      <4> DEFINE a == Task.addr
                 t == [i \in DOMAIN s |-> Handing(b, a, s[i])]
      <4>0. Asked(Block[b].checks, a)
        BY <3>2, <3>5 DEF Spreading, Ready, Rewritten
      <4>g. \A c \in Block[b].checks : a \in asked'[c]
        BY <2>g, <4>0, Config
      <4>1. t \in Seq(Tasks)
        <5>1. \A i \in 1 .. Len(s) : Handing(b, a, s[i]) \in Tasks
          BY <3>2, MadeTasks
        <5>2. DOMAIN s = 1 .. Len(s) /\ Len(s) \in Nat
          OBVIOUS
        <5> QED BY <5>1, <5>2
      <4>3. Continue(t)
        BY <3>5
      <4> HIDE DEF a
      <4>2. \A i \in DOMAIN t : t[i].op = "hand" /\ t[i].block = b /\ t[i].addr = a
        BY TaskFields
      <4> HIDE DEF t
      <4>4. ASSUME NEW i \in DOMAIN t PROVE Ready(i)'
        <5>1. agenda'[i].op = "hand" /\ agenda'[i].block = b /\ agenda'[i].addr = a
          BY <2>h, <4>1, <4>2, <4>3
        <5> QED BY <4>g, <5>1 DEF Ready, Rewritten, Asked
      <4> QED BY <2>4, <3>2, <4>1, <4>3, <4>4
    <3>6. ASSUME NEW s \in Seq(Addr), agenda' = Tail(agenda) \o [i \in DOMAIN s |-> Routing(s[i])] PROVE AddShape'
      <4> DEFINE t == [i \in DOMAIN s |-> Routing(s[i])]
      <4>1. t \in Seq(Tasks) /\ Len(t) = Len(s)
        <5>1. \A i \in 1 .. Len(s) : Routing(s[i]) \in Tasks
          BY MadeTasks
        <5>2. DOMAIN s = 1 .. Len(s) /\ Len(s) \in Nat
          OBVIOUS
        <5> QED BY <5>1, <5>2
      <4>2. \A i \in DOMAIN t : t[i].op = "route"
        BY TaskFields
      <4>3. agenda' = Tail(agenda) \o t
        BY <3>6
      <4> HIDE DEF t
      <4>4. ASSUME NEW i \in DOMAIN agenda'
            PROVE  \/ Ready(i)'
                   \/ \E j \in DOMAIN agenda : /\ j > 1 /\ agenda'[i] = agenda[j]
                                               /\ j > 3 => i >= 3 /\ agenda'[i - 2] = agenda[j - 2]
        <5> DEFINE r == Tail(agenda)
        <5>0. /\ r \in Seq(Tasks) /\ Len(r) = Len(agenda) - 1 /\ Len(agenda) \in Nat /\ Len(agenda) >= 1
              /\ \A k \in 1 .. Len(r) : r[k] = agenda[k + 1]
              /\ DOMAIN agenda = 1 .. Len(agenda)
          BY <1>0, <2>n
        <5> HIDE DEF r
        <5>1. /\ DOMAIN agenda' = 1 .. Len(r) + Len(t) /\ Len(t) \in Nat /\ DOMAIN t = 1 .. Len(t)
              /\ \A k \in 1 .. Len(r) + Len(t) : agenda'[k] = IF k <= Len(r) THEN r[k] ELSE t[k - Len(r)]
          <6>1. agenda' = r \o t
            BY <4>3 DEF r
          <6> DEFINE u == r \o t
          <6>2. /\ DOMAIN u = 1 .. Len(r) + Len(t) /\ Len(t) \in Nat /\ DOMAIN t = 1 .. Len(t)
                /\ \A k \in 1 .. Len(r) + Len(t) : u[k] = IF k <= Len(r) THEN r[k] ELSE t[k - Len(r)]
            <7>1. r \in Seq(Tasks) /\ t \in Seq(Tasks) /\ u = r \o t
              BY <4>1, <5>0
            <7> HIDE DEF u
            <7> QED BY ONLY <7>1, Joined
          <6>3. agenda' = u
            BY <6>1
          <6> HIDE DEF u
          <6> QED BY <6>2, <6>3
        <5>2. CASE i > Len(r)
          <6>1. i - Len(r) \in DOMAIN t /\ agenda'[i] = t[i - Len(r)]
            BY <5>0, <5>1, <5>2
          <6>2. agenda'[i].op = "route"
            BY <4>2, <6>1
          <6> QED BY <6>2 DEF Ready, Rewritten
        <5>3. CASE i <= Len(r)
          <6> DEFINE j == i + 1
          <6>1. j \in DOMAIN agenda /\ j > 1 /\ agenda'[i] = agenda[j]
            BY <5>0, <5>1, <5>3
          <6>2. ASSUME j > 3 PROVE i >= 3 /\ agenda'[i - 2] = agenda[j - 2]
            <7>1. i \in Nat /\ i >= 3 /\ i - 2 \in 1 .. Len(r) /\ i - 2 \in 1 .. Len(r) + Len(t) /\ i - 2 + 1 = j - 2
              BY <5>0, <5>1, <5>3, <6>2
            <7> DEFINE k == i - 2
            <7>2. k \in 1 .. Len(r) /\ k \in 1 .. Len(r) + Len(t) /\ k + 1 = j - 2 /\ k <= Len(r)
              BY <5>0, <7>1
            <7> HIDE DEF k, j
            <7>3. agenda'[k] = r[k]
              BY <5>1, <7>2
            <7>4. r[k] = agenda[k + 1]
              BY <5>0, <7>2
            <7> QED BY <7>1, <7>2, <7>3, <7>4 DEF k
          <6> HIDE DEF j
          <6> QED BY <6>1, <6>2
        <5> QED BY <5>0, <5>1, <5>2, <5>3
      <4>5. Spreading'
        BY <1>0, <2>u, <3>2, <4>4, SpreadingKept
      <4> QED BY <2>s, <4>5
    <3>7. \/ Continue([i \in DOMAIN Global.rewrite[Task.addr] |-> Rewriting("source", Global.rewrite[Task.addr][i])])
          \/ agenda' = Tail(agenda) \o [i \in DOMAIN Source[src].rewrite[Task.addr] |-> Routing(Source[src].rewrite[Task.addr][i])]
          \/ /\ Task.group \in Blocks
             /\ Continue([i \in DOMAIN Block[Task.group].rewrite[Task.addr] |->
                            Handing(Task.group, Task.addr, Block[Task.group].rewrite[Task.addr][i])])
          \/ Fail
      BY <2>7 DEF RewriteRcpt
    <3> QED BY <1>f, <3>3, <3>4, <3>5, <3>6, <3>7
  <2> QED BY <1>r, <1>3, <2>1, <2>2, <2>3, <2>5, <2>6, <2>7, StepsOfCall
<1> QED BY <1>1, <1>2, <1>3

\* No target hears of an address before the checks that apply to it were asked.
LEMMA CheckedStep ==
  ASSUME Typed, CallShape, AddShape, CheckedBeforeTargets, [Next]_vars
  PROVE  CheckedBeforeTargets'
<1> USE DEF callerVars, checkVars, targetVars
<1>0. src \in Sources /\ agenda \in Seq(Tasks) /\ routed \subseteq [orig : Addr, addr : Addr, block : Blocks, to : Addr]
  BY TypeParts DEF TargetTyped
<1>c. /\ Global.checks \subseteq Check /\ Source[src].checks \subseteq Check
      /\ \A b \in Blocks : Block[b].checks \subseteq Check
  BY <1>0, Config
<1>g. \A c \in Check : asked[c] \subseteq asked'[c]
  BY AskedGrows
<1> DEFINE Good(h) == /\ \A c \in Global.checks \cup Source[src].checks : h.orig \in asked[c]
                      /\ \A c \in Block[h.block].checks : h.addr \in asked[c]
           After(h) == /\ \A c \in Global.checks \cup Source[src].checks : h.orig \in asked'[c]
                       /\ \A c \in Block[h.block].checks : h.addr \in asked'[c]
<1>1. CASE RouteSource
  <2>1. routed = {} /\ UNCHANGED routed
    BY <1>1, StepsOfCall DEF CallShape, RouteSource
  <2> QED BY <2>1 DEF CheckedBeforeTargets
<1>2. ASSUME UNCHANGED src, NEW h \in routed PROVE After(h)
  <2>1. Good(h)
    BY DEF CheckedBeforeTargets
  <2>2. h.block \in Blocks
    BY <1>0
  <2> QED BY <1>c, <1>g, <2>1, <2>2
<1>3. CASE HandToTargets
  <2>1. Doing("hand") /\ call = "AddRcpt" /\ UNCHANGED <<src, asked>>
    BY <1>3, StepsOfCall DEF HandToTargets
  <2>2. Spreading /\ Task = agenda[1] /\ 1 \in DOMAIN agenda /\ Task.op = "hand"
    BY <1>0, <2>1, AddForms, HeadTask
  <2>3. Asked(Global.checks, orig) /\ Asked(Source[src].checks, orig) /\ Asked(Block[Task.block].checks, Task.addr)
    BY <2>2 DEF Spreading, Ready
  <2> DEFINE n == [orig |-> orig, addr |-> Task.addr, block |-> Task.block, to |-> Task.to]
  <2>4. After(n)
    BY <2>1, <2>3 DEF Asked
  <2>5. routed' = routed \cup {n}
    BY <1>3 DEF HandToTargets
  <2> HIDE DEF n, After
  <2>6. \A h \in routed' : After(h)
    BY <1>2, <2>1, <2>4, <2>5
  <2> QED BY <2>1, <2>6 DEF CheckedBeforeTargets, After
<1>4. CASE UNCHANGED <<src, routed>>
  <2>1. \A h \in routed' : After(h)
    BY <1>2, <1>4
  <2> QED BY <1>4, <2>1 DEF CheckedBeforeTargets
<1> QED BY <1>1, <1>3, <1>4, Frame

-----------------------------------------------------------------------------
(* Check states *)

Ended == phase \in {"refused", "ended"} \/ call = "Commit"
NoneOrAll(C) == (\A c \in C : cstate[c] = "none") \/ (\A c \in C : cstate[c] # "none")
ClosedWhenEnded == \A c \in Check : cstate[c] # "none" => (cstate[c] = "closed" <=> Ended)

\* The message ends when the check states are closed.
LEMMA EndMoves ==
  ASSUME Typed, CallShape, [Next]_vars
  PROVE  \/ UNCHANGED cstate /\ (Ended' <=> Ended)
         \/ Close /\ Ended' /\ UNCHANGED src
         \/ CheckStates /\ ~Ended /\ ~Ended'
<1> USE DEF callerVars, checkVars, targetVars
<1>0. call \in CallNames /\ phase \in Phases
  BY TypeParts DEF CallerTyped
<1>1. CASE CheckStates
  <2>1. UNCHANGED <<phase, call>> /\ Doing("states")
    BY <1>1 DEF CheckStates
  <2>2. call \in {"Start", "AddRcpt", "Body", "BodyNonAtomic"}
    BY <2>1, CallOfTask, CallOf
  <2>3. phase \in {"new", "open"}
    BY <2>2 DEF CallShape
  <2> QED BY <1>1, <2>1, <2>2, <2>3 DEF Ended
<1>2. CASE Commit \/ Abort
  BY <1>2 DEF Commit, Abort, Begin, Ended
<1>3. CASE ReturnError
  <2>1. \/ call = "Start" /\ Close /\ phase' = "refused"
        \/ call \in {"AddRcpt", "Body", "BodyNonAtomic"} /\ phase' \in {phase, "failed", "ready"} /\ UNCHANGED cstate
        \/ call = "Commit" /\ phase' = "ended" /\ UNCHANGED cstate
    BY <1>3 DEF ReturnError
  <2>2. call' = "none" /\ UNCHANGED src
    BY <1>3 DEF ReturnError
  <2> QED BY <2>1, <2>2 DEF Ended, CallShape
<1>4. CASE Return
  <2>1. \/ call \in {"Start", "AddRcpt", "Body", "BodyNonAtomic"} /\ phase' \in {"open", "ready"}
        \/ call = "Commit" /\ phase' = "ended"
    BY <1>0, <1>4 DEF Return, CallNames
  <2>2. call' = "none" /\ UNCHANGED cstate
    BY <1>4 DEF Return
  <2>3. call \in {"Start", "AddRcpt", "Body", "BodyNonAtomic"} => phase \in {"new", "open"}
    BY DEF CallShape
  <2> QED BY <2>1, <2>2, <2>3 DEF Ended
<1>5. CASE CallerStep /\ ~Commit /\ ~Abort
  <2>1. call = "none" /\ call' # "Commit" /\ UNCHANGED <<phase, cstate>>
    BY <1>5 DEF CallerStep, Start, AddRcpt, Body, BodyNonAtomic, Begin, CanSend, Idle
  <2> QED BY <2>1 DEF Ended
<1>6. CASE UNCHANGED <<phase, call>> /\ UNCHANGED cstate
  BY <1>6 DEF Ended
<1> QED BY <1>1, <1>2, <1>3, <1>4, <1>5, <1>6, Frame

\* With no check in two lists, two lists are equal or disjoint.
LEMMA ListsApart ==
  ASSUME DisjointLists, src \in Sources, NEW C \in Lists, NEW D \in Lists, C # D
  PROVE  C \cap D = {}
BY DEF DisjointLists, Lists

\* checkStates makes the states of a whole list or of none of it.
LEMMA StatesTogether ==
  ASSUME Typed, CallShape, CheckStates, DisjointLists, ListsUniform, ClosedWhenEnded, ~Ended
  PROVE  /\ \A c \in Check : cstate'[c] # "closed"
         /\ \A C \in Lists : NoneOrAll(C)'
<1>0. /\ cstate \in [Check -> {"none", "open", "closed"}] /\ src \in Sources /\ agenda \in Seq(Tasks)
  BY TypeParts DEF CheckTyped
<1>1. \A c \in Check : cstate[c] # "closed"
  BY DEF ClosedWhenEnded
<1> DEFINE C == Task.checks
           old == {c \in C : cstate[c] # "none"}
<1>2. C \in Lists /\ C \subseteq Check
  <2>1. C \in Lists
    BY CallOfTask DEF CheckStates
  <2> QED BY <1>0, <2>1, ListsTyped
<1>3. old = {} \/ old = C
  BY <1>2 DEF ListsUniform
<1>4. \/ cstate' = cstate
      \/ C # old /\ cstate' = [c \in Check |-> IF c \in C \ old THEN "open" ELSE cstate[c]]
      \/ C # old /\ \E S \in SUBSET old : cstate' = [c \in Check |-> IF c \in S THEN "closed" ELSE cstate[c]]
  BY DEF CheckStates
<1> HIDE DEF C, old
<1>5. CASE cstate' = cstate
  BY <1>1, <1>5 DEF ListsUniform, NoneOrAll
<1>6. CASE C # old /\ \E S \in SUBSET old : cstate' = [c \in Check |-> IF c \in S THEN "closed" ELSE cstate[c]]
  <2>1. cstate' = cstate
    BY <1>0, <1>3, <1>6
  <2> QED BY <1>5, <2>1
<1>7. CASE C # old /\ cstate' = [c \in Check |-> IF c \in C \ old THEN "open" ELSE cstate[c]]
  <2>0. cstate' = [c \in Check |-> IF c \in C THEN "open" ELSE cstate[c]]
    BY <1>3, <1>7
  <2>1. \A c \in Check : cstate'[c] # "closed"
    BY <1>1, <2>0
  <2>2. ASSUME NEW D \in Lists PROVE NoneOrAll(D)'
    <3>0. D \subseteq Check
      BY <1>0, ListsTyped
    <3>1. CASE D = C
      BY <1>2, <2>0, <3>1 DEF NoneOrAll
    <3>2. CASE D # C
      <4>1. D \cap C = {}
        BY <1>0, <1>2, <3>2, ListsApart
      <4>2. \A c \in D : cstate'[c] = cstate[c]
        BY <2>0, <3>0, <4>1
      <4> QED BY <4>2 DEF ListsUniform, NoneOrAll
    <3> QED BY <3>1, <3>2
  <2> QED BY <2>1, <2>2
<1> QED BY <1>4, <1>5, <1>6, <1>7

\* Check states are made together and closed at the end.
LEMMA ChecksClosedStep ==
  ASSUME Typed, CallShape, StartShape, ListsUniform, ChecksClosedAtEnd, [Next]_vars
  PROVE  ListsUniform' /\ ChecksClosedAtEnd'
<1> USE DEF callerVars, checkVars, targetVars
<1>0. /\ cstate \in [Check -> {"none", "open", "closed"}] /\ src \in Sources /\ agenda \in Seq(Tasks)
      /\ src' \in Sources
  BY TypeParts, CheckTypedStep DEF CheckTyped
<1>a. ListsUniform' <=> (DisjointLists' => \A C \in Lists' : NoneOrAll(C)')
  BY DEF ListsUniform, NoneOrAll
<1>b. ChecksClosedAtEnd' <=> (DisjointLists' => ClosedWhenEnded')
  BY DEF ChecksClosedAtEnd, ClosedWhenEnded, Ended
<1>c. /\ DisjointLists => \A C \in Lists : NoneOrAll(C)
      /\ DisjointLists => ClosedWhenEnded
  BY DEF ListsUniform, NoneOrAll, ChecksClosedAtEnd, ClosedWhenEnded, Ended
<1> SUFFICES ASSUME DisjointLists' PROVE (\A C \in Lists' : NoneOrAll(C)') /\ ClosedWhenEnded'
  BY <1>a, <1>b
<1>1. CASE RouteSource
  <2>1. Doing("source") /\ call = "Start" /\ UNCHANGED <<cstate, phase, call>>
    BY <1>1, StepsOfCall DEF RouteSource
  <2>2. \A c \in Check : cstate[c] = IF c \in Global.checks THEN "open" ELSE "none"
    BY <2>1, StartForms
  <2>3. ~Ended'
    BY <2>1 DEF Ended, CallShape
  <2>4. ClosedWhenEnded'
    BY <2>1, <2>2, <2>3 DEF ClosedWhenEnded
  <2>5. ASSUME NEW C \in Lists' PROVE NoneOrAll(C)'
    <3>1. C \subseteq Check
      BY <1>0, Config DEF Lists
    <3>2. C = Global.checks \/ C \cap Global.checks = {}
      BY <1>0 DEF Lists, DisjointLists
    <3> QED BY <2>1, <2>2, <3>1, <3>2 DEF NoneOrAll
  <2> QED BY <2>4, <2>5
<1>2. CASE UNCHANGED src
  <2>1. DisjointLists /\ Lists' = Lists
    BY <1>2 DEF DisjointLists, Lists
  <2>2. (\A C \in Lists : NoneOrAll(C)) /\ ClosedWhenEnded
    BY <1>c, <2>1
  <2>3. CASE UNCHANGED cstate /\ (Ended' <=> Ended)
    BY <2>1, <2>2, <2>3 DEF NoneOrAll, ClosedWhenEnded
  <2>4. CASE Close /\ Ended'
    <3>1. \A c \in Check : /\ cstate'[c] = "none" <=> cstate[c] = "none"
                           /\ cstate'[c] \in {"none", "closed"}
      BY <2>4 DEF Close
    <3>2. \A C \in Lists : C \subseteq Check
      BY <1>0, ListsTyped
    <3>3. ClosedWhenEnded'
      BY <2>4, <3>1 DEF ClosedWhenEnded
    <3>4. \A C \in Lists : NoneOrAll(C)'
      BY <2>2, <3>1, <3>2 DEF NoneOrAll
    <3> QED BY <2>1, <3>3, <3>4
  <2>5. CASE CheckStates /\ ~Ended /\ ~Ended'
    <3>1. /\ \A c \in Check : cstate'[c] # "closed"
          /\ \A C \in Lists : NoneOrAll(C)'
      BY <2>1, <2>2, <2>5, StatesTogether
    <3> QED BY <2>1, <2>5, <3>1 DEF ClosedWhenEnded
  <2> QED BY <2>3, <2>4, <2>5, EndMoves
<1> QED BY <1>1, <1>2, Frame

-----------------------------------------------------------------------------
(* The theorems *)

\* The invariant holds of a new delivery.
LEMMA PipelineInit == Init => PipelineInv
<1> SUFFICES ASSUME Init PROVE PipelineInv
  OBVIOUS
<1>1. Typed
  <2>1. (CHOOSE a \in Addr : TRUE) \in Addr /\ (CHOOSE s \in Sources : TRUE) \in Sources
    <3>1. Addr # {}
      BY PipelineAssumption
    <3>2. Sources # {}
      BY Config DEF RouteTo
    <3> QED BY <3>1, <3>2
  <2>2. orig \in Addr /\ sender \in Addr /\ src \in Sources
    BY <2>1 DEF Init
  <2>3. CallerTyped
    BY <2>2, PipelineAssumption DEF Init, CallerTyped, CallNames, Phases
  <2>4. CheckTyped
    BY DEF Init, CheckTyped
  <2>5. TargetTyped
    BY DEF Init, TargetTyped
  <2>6. deliveries \in Deliveries
    BY DEF Init, Deliveries, NoDelivery
  <2>7. mods \in [Groups -> {"none", "open", "closed", "leaked"}]
    BY DEF Init
  <2>8. agenda = <<>> /\ agenda \in Seq(Tasks)
    BY DEF Init
  <2>9. quarantine \in BOOLEAN /\ msgQuarantine \in BOOLEAN
    BY DEF Init
  <2> QED BY <2>9, <2>2, <2>3, <2>4, <2>5, <2>6, <2>7, <2>8, TypeParts
<1>2. /\ phase = "new" /\ call = "none" /\ agenda = <<>> /\ routed = {} /\ ~quarantine
      /\ \A c \in Check : cstate[c] = "none"
      /\ \A t \in Target : deliveries[t].stage = "none" /\ ~deliveries[t].body
  BY DEF Init, NoDelivery
<1>3. CallShape /\ StartShape /\ AddShape
  BY <1>2 DEF CallShape, StartShape, AddShape
<1>4. BodyShape /\ CommitShape
  BY <1>2 DEF BodyShape, CommitShape, NoBodies
<1>5. AtomicDelivery /\ CheckedBeforeTargets /\ QuarantineKept
  BY <1>2 DEF AtomicDelivery, CheckedBeforeTargets, QuarantineKept
<1>6. ListsUniform /\ ChecksClosedAtEnd
  <2>1. src \in Sources
    BY <1>1, TypeParts
  <2>2. \A C \in Lists : C \subseteq Check
    BY <2>1, ListsTyped
  <2> QED BY <1>2, <2>2 DEF ListsUniform, ChecksClosedAtEnd
<1> QED BY <1>1, <1>3, <1>4, <1>5, <1>6 DEF PipelineInv

\* Every step of the pipeline keeps it.
LEMMA PipelineStep == PipelineInv /\ [Next]_vars => PipelineInv'
<1> SUFFICES ASSUME PipelineInv, [Next]_vars PROVE PipelineInv'
  OBVIOUS
<1>1. /\ Typed /\ CallShape /\ StartShape /\ AddShape /\ BodyShape /\ CommitShape
      /\ AtomicDelivery /\ CheckedBeforeTargets /\ QuarantineKept /\ ListsUniform /\ ChecksClosedAtEnd
  BY DEF PipelineInv
<1>2. Typed' /\ CallShape' /\ StartShape' /\ AddShape' /\ BodyShape'
  BY <1>1, TypedStep, CallShapeStep, StartShapeStep, AddShapeStep, BodyShapeStep
<1>3. CommitShape' /\ AtomicDelivery' /\ CheckedBeforeTargets' /\ QuarantineKept'
  BY <1>1, AtomicStep, CheckedStep, QuarantineStep
<1>4. ListsUniform' /\ ChecksClosedAtEnd'
  BY <1>1, ChecksClosedStep
<1> QED BY <1>2, <1>3, <1>4 DEF PipelineInv

\* An SMTP message is all or nothing up to Commit, for every configuration of
\* sources, blocks, checks and targets and for any answers of the modules: Commit of
\* msgpipelineDelivery calls no target unless Body has given the message to every
\* target whose delivery AddRcpt started.
THEOREM PipelineAtomic == Spec => []AtomicDelivery
<1>1. PipelineInv => AtomicDelivery
  BY DEF PipelineInv
<1> QED BY <1>1, PipelineInit, PipelineStep, PTL DEF Spec

\* Every check has its say, for every configuration: the checks of the pipeline, the
\* source and the block were asked before AddRcpt of a target is called, applyResults
\* marks a quarantined message before Body of a target is called, and close ends the
\* check states when the delivery ends, not before, unless two lists share a check.
THEOREM PipelineChecks == Spec => []ChecksCount
<1>1. PipelineInv => ChecksCount
  BY DEF PipelineInv, ChecksCount, Typed
<1> QED BY <1>1, PipelineInit, PipelineStep, PTL DEF Spec

-----------------------------------------------------------------------------
(* Recipients: RecipientsTracked *)

\* The tasks left after the first one was replaced by others, or others were added at
\* the end.
LEMMA LeftMoves ==
  ASSUME agenda \in Seq(Tasks), agenda # <<>>, NEW t \in Seq(Tasks),
         agenda' = t \o Tail(agenda) \/ agenda' = Tail(agenda) \o t
  PROVE  /\ \A j : Left(j) => Left(j)' \/ j = Task
         /\ \A i \in DOMAIN t : Left(t[i])'
         /\ \A i \in DOMAIN agenda' : (\E n \in DOMAIN t : agenda'[i] = t[n]) \/ Left(agenda'[i])
<1>1. CASE agenda' = t \o Tail(agenda)
  <2>1. /\ DOMAIN agenda' = 1 .. Len(agenda') /\ Len(agenda') = Len(t) + Len(agenda) - 1
        /\ DOMAIN agenda = 1 .. Len(agenda) /\ DOMAIN t = 1 .. Len(t) /\ Len(t) \in Nat /\ Len(agenda) \in Nat
        /\ Task = agenda[1] /\ Len(agenda) >= 1
        /\ \A i \in DOMAIN agenda' : \/ i \in DOMAIN t /\ agenda'[i] = t[i]
                                     \/ \E j \in DOMAIN agenda : agenda'[i] = agenda[j]
        /\ \A i \in DOMAIN agenda : i > 1 => i - 1 + Len(t) \in DOMAIN agenda' /\ agenda'[i - 1 + Len(t)] = agenda[i]
    <3>1. PICK u : u = agenda'
      OBVIOUS
    <3>2. u = t \o Tail(agenda)
      BY <1>1, <3>1
    <3>3. /\ Len(u) = Len(t) + Len(agenda) - 1 /\ Len(agenda) \in Nat /\ Len(t) \in Nat
          /\ Head(agenda) = agenda[1] /\ Len(agenda) >= 1
          /\ DOMAIN u = 1 .. Len(u) /\ DOMAIN agenda = 1 .. Len(agenda) /\ DOMAIN t = 1 .. Len(t)
          /\ \A i \in DOMAIN u : \/ i \in DOMAIN t /\ u[i] = t[i]
                                 \/ i - Len(t) + 1 \in DOMAIN agenda /\ u[i] = agenda[i - Len(t) + 1]
          /\ \A i \in DOMAIN agenda : i > 1 => i - 1 + Len(t) \in DOMAIN u /\ u[i - 1 + Len(t)] = agenda[i]
      BY <3>2, Replaced
    <3> QED BY <3>1, <3>3 DEF Task
  <2>2. ASSUME NEW j, Left(j), j # Task PROVE Left(j)'
    <3>1. PICK i \in DOMAIN agenda : agenda[i] = j
      BY <2>2 DEF Left
    <3>2. i > 1
      BY <2>1, <2>2, <3>1
    <3> QED BY <2>1, <3>1, <3>2 DEF Left
  <2>3. ASSUME NEW i \in DOMAIN t PROVE Left(t[i])'
    <3>1. i \in DOMAIN agenda'
      BY <2>1
    <3>2. agenda'[i] = t[i]
      <4>1. PICK r : r = Tail(agenda)
        OBVIOUS
      <4>2. r \in Seq(Tasks)
        BY <4>1
      <4>3. agenda' = t \o r
        BY <1>1, <4>1
      <4> QED BY <2>1, <4>2, <4>3
    <3> QED BY <3>1, <3>2 DEF Left
  <2> QED BY <2>1, <2>2, <2>3 DEF Left
<1>2. CASE agenda' = Tail(agenda) \o t
  <2>1. PICK r : r = Tail(agenda)
    OBVIOUS
  <2>2. /\ r \in Seq(Tasks) /\ Len(r) = Len(agenda) - 1 /\ Task = agenda[1] /\ Len(agenda) >= 1
        /\ DOMAIN agenda = 1 .. Len(agenda) /\ Len(agenda) \in Nat
        /\ \A i \in 1 .. Len(agenda) - 1 : r[i] = agenda[i + 1]
    BY <2>1 DEF Task
  <2>3. /\ DOMAIN agenda' = 1 .. Len(r) + Len(t) /\ Len(t) \in Nat /\ DOMAIN t = 1 .. Len(t)
        /\ \A k \in 1 .. Len(r) + Len(t) : agenda'[k] = IF k <= Len(r) THEN r[k] ELSE t[k - Len(r)]
    <3>1. agenda' = r \o t
      BY <1>2, <2>1
    <3>2. PICK u : u = agenda'
      OBVIOUS
    <3> QED BY <2>2, <3>1, <3>2, Joined
  <2>4. ASSUME NEW j, Left(j), j # Task PROVE Left(j)'
    <3>1. PICK i \in DOMAIN agenda : agenda[i] = j
      BY <2>4 DEF Left
    <3>2. i - 1 \in 1 .. Len(agenda) - 1 /\ i - 1 + 1 = i
      BY <2>2, <2>4, <3>1
    <3>3. r[i - 1] = j /\ i - 1 \in 1 .. Len(r) + Len(t) /\ i - 1 <= Len(r)
      BY <2>2, <2>3, <3>1, <3>2
    <3>4. agenda'[i - 1] = j
      BY <2>3, <3>3
    <3> QED BY <2>3, <3>3, <3>4 DEF Left
  <2>5. ASSUME NEW i \in DOMAIN t PROVE Left(t[i])'
    <3>1. PICK n : n = Len(r) + i
      OBVIOUS
    <3>2. n \in 1 .. Len(r) + Len(t) /\ ~(n <= Len(r)) /\ n - Len(r) = i
      BY <2>2, <2>3, <3>1
    <3>3. agenda'[n] = t[i]
      BY <2>3, <3>2
    <3> QED BY <2>3, <3>2, <3>3 DEF Left
  <2>6. ASSUME NEW i \in DOMAIN agenda' PROVE (\E n \in DOMAIN t : agenda'[i] = t[n]) \/ Left(agenda'[i])
    <3>0. i \in 1 .. Len(r) + Len(t) /\ Len(r) \in Nat
      BY <2>2, <2>3
    <3>1. CASE i <= Len(r)
      <4>0. agenda'[i] = r[i]
        BY <2>3, <3>0, <3>1
      <4>1. i \in 1 .. Len(agenda) - 1 /\ agenda'[i] = r[i]
        BY <2>2, <3>0, <3>1, <4>0
      <4>2. agenda'[i] = agenda[i + 1] /\ i + 1 \in DOMAIN agenda
        BY <2>2, <4>1
      <4> QED BY <4>2 DEF Left
    <3>2. CASE ~(i <= Len(r))
      <4>0. agenda'[i] = t[i - Len(r)]
        BY <2>3, <3>0, <3>2
      <4>1. i - Len(r) \in DOMAIN t /\ agenda'[i] = t[i - Len(r)]
        BY <2>3, <3>0, <3>2, <4>0
      <4> QED BY <4>1
    <3> QED BY <3>1, <3>2
  <2> QED BY <2>4, <2>5, <2>6
<1> QED BY <1>1, <1>2

\* The tables choose blocks, and blocks have targets.
LEMMA ChoicesTyped ==
  ASSUME src \in Sources
  PROVE  /\ \A z : Choices(z) \subseteq Blocks
         /\ \A b \in Blocks : Members(Block[b].targets) \subseteq Target
<1>1. ASSUME NEW z, NEW b \in Choices(z) PROVE b \in Blocks
  <2>1. PICK broken \in SUBSET DOMAIN Source[src].route.in : b = Select(Source[src].route, z, broken)
    BY DEF Choices
  <2> QED BY <2>1, SelectTyped, Config
<1>2. ASSUME NEW b \in Blocks PROVE Members(Block[b].targets) \subseteq Target
  BY Config, Elements DEF Members
<1> QED BY <1>1, <1>2

\* Which addresses a target has taken: only GiveToTarget changes that.
LEMMA TakenMoves ==
  ASSUME Typed, [Next]_vars
  PROVE  /\ ~GiveToTarget => \A t \in Target : deliveries'[t].taken = deliveries[t].taken
         /\ GiveToTarget => /\ Task.target \in Target
                            /\ \A t \in Target : /\ deliveries[t].taken \subseteq deliveries'[t].taken
                                                 /\ deliveries'[t].taken \subseteq deliveries[t].taken \cup {Task.to}
                            /\ Fail \/ (Continue(<<>>) /\ Task.to \in deliveries'[Task.target].taken)
<1>0. deliveries \in Deliveries /\ agenda \in Seq(Tasks)
  BY TypeParts
<1>1. ASSUME GiveToTarget PROVE
        /\ Task.target \in Target
        /\ \A t \in Target : /\ deliveries[t].taken \subseteq deliveries'[t].taken
                             /\ deliveries'[t].taken \subseteq deliveries[t].taken \cup {Task.to}
        /\ Fail \/ (Continue(<<>>) /\ Task.to \in deliveries'[Task.target].taken)
  <2>1. Task.target \in Target
    BY <1>0, <1>1, HeadTask, TaskFacts DEF GiveToTarget
  <2> DEFINE k == Task.target
             d == [deliveries[k] EXCEPT !.stage = "started"]
             f == [d EXCEPT !.taken = d.taken \cup {Task.to}, !.recipients = d.recipients \cup {orig}]
  <2>2. \/ UNCHANGED deliveries /\ Fail
        \/ deliveries' = [deliveries EXCEPT ![k] = d] /\ Fail
        \/ deliveries' = [deliveries EXCEPT ![k] = f] /\ Continue(<<>>)
    BY <1>1 DEF GiveToTarget
  <2>3. d.taken = deliveries[k].taken /\ f.taken = deliveries[k].taken \cup {Task.to}
    BY <1>0, <2>1 DEF Deliveries
  <2> HIDE DEF d, f
  <2> QED BY <1>0, <2>1, <2>2, <2>3 DEF Deliveries
<1>2. ASSUME ~GiveToTarget, NEW u \in Target PROVE deliveries'[u].taken = deliveries[u].taken
  <2>1. CASE UNCHANGED deliveries
    BY <2>1
  <2>2. CASE GiveBody \/ GiveBodyPartially \/ CommitTargets
    <3>1. Task.left \in SUBSET Target
      BY <1>0, <2>2, HeadTask, TaskFacts DEF GiveBody, GiveBodyPartially, CommitTargets
    <3>2. \/ UNCHANGED deliveries
          \/ \E t \in Target : \/ deliveries' = [deliveries EXCEPT ![t].body = TRUE]
                               \/ deliveries' = [deliveries EXCEPT ![t].stage = "committed"]
      BY <2>2, <3>1 DEF GiveBody, GiveBodyPartially, CommitTargets
    <3>3. ASSUME NEW t \in Target, \/ deliveries' = [deliveries EXCEPT ![t].body = TRUE]
                                   \/ deliveries' = [deliveries EXCEPT ![t].stage = "committed"]
          PROVE  deliveries'[u].taken = deliveries[u].taken
      BY <1>0, <3>3 DEF Deliveries
    <3> QED BY <3>2, <3>3
  <2>3. CASE Abort
    <3>1. deliveries'[u] = IF u \in Started THEN [deliveries[u] EXCEPT !.stage = "aborted"] ELSE deliveries[u]
      BY <2>3 DEF Abort
    <3>2. [deliveries[u] EXCEPT !.stage = "aborted"].taken = deliveries[u].taken
      BY <1>0 DEF Deliveries
    <3> QED BY <3>1, <3>2
  <2> QED BY <1>2, <2>1, <2>2, <2>3, Frame
<1> QED BY <1>1, <1>2

\* What the targets were told is not taken back.
LEMMA TargetsGrow ==
  ASSUME Typed, [Next]_vars
  PROVE  /\ routed \subseteq routed' /\ statuses \subseteq statuses'
         /\ \A t \in Target : deliveries[t].taken \subseteq deliveries'[t].taken
<1>1. routed \subseteq routed'
  BY Frame DEF HandToTargets
<1>2. statuses \subseteq statuses'
  BY Frame DEF GiveBodyPartially, ReturnError
<1> QED BY <1>1, <1>2, TakenMoves

\* A step of AddRcpt forgets no address if what it does with the task at hand goes on
\* with the address of that task.
LEMMA CoversMoves ==
  ASSUME Typed, [Next]_vars, UNCHANGED <<src, orig>>, CoversRcpt,
         \A j : Left(j) => Left(j)' \/ j = Task,
         Task = Rewriting("global", orig) => \A y \in Members(Global.rewrite[orig]) : Left(Rewriting("source", y))',
         \A y : Task = Rewriting("source", y) => \A z \in Members(Source[src].rewrite[y]) : Left(Routing(z))',
         \A z : Task = Routing(z) => \E b \in Choices(z) : ~Block[b].rejects /\ Left(Rewriting(b, z))',
         \A b \in Blocks : \A z : Task = Rewriting(b, z) =>
           \A x \in Members(Block[b].rewrite[z]) : Left(Handing(b, z, x))',
         \A b \in Blocks : \A z, x : Task = Handing(b, z, x) =>
           /\ [orig |-> orig, addr |-> z, block |-> b, to |-> x] \in routed'
           /\ \A t \in Members(Block[b].targets) : Left(Giving(t, x))',
         \A t \in Target : \A x : Task = Giving(t, x) => x \in deliveries'[t].taken
  PROVE  CoversRcpt'
<1>0. src \in Sources
  BY TypeParts
<1>1. \A z : Choices(z)' = Choices(z)
  BY DEF Choices
<1>2. ASSUME NEW b \in Blocks, NEW z, NEW x, CoversAddress(b, z, x) PROVE CoversAddress(b, z, x)'
  <2>1. CASE Left(Handing(b, z, x))
    <3>1. CASE Left(Handing(b, z, x))'
      BY <3>1 DEF CoversAddress
    <3>2. CASE Task = Handing(b, z, x)
      BY <3>2 DEF CoversAddress
    <3> QED BY <2>1, <3>1, <3>2
  <2>2. CASE /\ [orig |-> orig, addr |-> z, block |-> b, to |-> x] \in routed
             /\ \A t \in Members(Block[b].targets) : x \in deliveries[t].taken \/ Left(Giving(t, x))
    <3>1. [orig |-> orig, addr |-> z, block |-> b, to |-> x] \in routed'
      BY <2>2, TargetsGrow
    <3>2. ASSUME NEW t \in Members(Block[b].targets) PROVE x \in deliveries'[t].taken \/ Left(Giving(t, x))'
      <4>1. t \in Target
        BY <1>0, ChoicesTyped
      <4>2. x \in deliveries[t].taken \/ Left(Giving(t, x))' \/ Task = Giving(t, x)
        BY <2>2
      <4> QED BY <4>1, <4>2, TargetsGrow
    <3> QED BY <3>1, <3>2 DEF CoversAddress
  <2> QED BY <1>2, <2>1, <2>2 DEF CoversAddress
<1>3. ASSUME NEW z, CoversBlock(z) PROVE CoversBlock(z)'
  <2>1. PICK b \in Choices(z) :
          /\ ~Block[b].rejects
          /\ Left(Rewriting(b, z)) \/ \A x \in Members(Block[b].rewrite[z]) : CoversAddress(b, z, x)
    BY <1>3 DEF CoversBlock
  <2>2. b \in Blocks /\ b \in Choices(z)'
    BY <1>0, <1>1, ChoicesTyped
  <2>3. Left(Rewriting(b, z))' \/ \A x \in Members(Block[b].rewrite[z]) : CoversAddress(b, z, x)'
    <3>1. CASE Left(Rewriting(b, z))'
      BY <3>1
    <3>2. CASE Task = Rewriting(b, z)
      BY <2>2, <3>2 DEF CoversAddress
    <3>3. CASE \A x \in Members(Block[b].rewrite[z]) : CoversAddress(b, z, x)
      BY <1>2, <2>2, <3>3
    <3> QED BY <2>1, <3>1, <3>2, <3>3
  <2> QED BY <2>1, <2>2, <2>3 DEF CoversBlock
<1>4. ASSUME NEW z, Left(Routing(z)) \/ CoversBlock(z) PROVE Left(Routing(z))' \/ CoversBlock(z)'
  <2>1. CASE Task = Routing(z)
    BY <1>1, <2>1 DEF CoversBlock
  <2> QED BY <1>3, <1>4, <2>1
<1>5. ASSUME NEW y, CoversRewritten(y) PROVE CoversRewritten(y)'
  <2>1. CASE Left(Rewriting("source", y))'
    BY <2>1 DEF CoversRewritten
  <2>2. CASE Task = Rewriting("source", y)
    BY <2>2 DEF CoversRewritten
  <2>3. CASE \A z \in Members(Source[src].rewrite[y]) : Left(Routing(z)) \/ CoversBlock(z)
    BY <1>4, <2>3 DEF CoversRewritten
  <2> QED BY <1>5, <2>1, <2>2, <2>3 DEF CoversRewritten
<1>6. CASE Task = Rewriting("global", orig)
  BY <1>6 DEF CoversRcpt, CoversRewritten
<1>7. CASE Left(Rewriting("global", orig))'
  BY <1>7 DEF CoversRcpt
<1>8. CASE \A y \in Members(Global.rewrite[orig]) : CoversRewritten(y)
  BY <1>5, <1>8 DEF CoversRcpt
<1> QED BY <1>6, <1>7, <1>8 DEF CoversRcpt

\* What a list of tasks made for the elements of a sequence has for each of them.
LEMMA MadeForEach ==
  ASSUME NEW S, NEW s \in Seq(S), NEW f \in [S -> Tasks], NEW t, t = [i \in DOMAIN s |-> f[s[i]]]
  PROVE  t \in Seq(Tasks) /\ \A y \in Members(s) : \E i \in DOMAIN t : t[i] = f[y]
<1>1. DOMAIN s = 1 .. Len(s) /\ Len(s) \in Nat /\ \A i \in 1 .. Len(s) : s[i] \in S
  OBVIOUS
<1> QED BY <1>1 DEF Members

\* The first task is done.
LEMMA LeftTail ==
  ASSUME agenda \in Seq(Tasks), agenda # <<>>, Continue(<<>>)
  PROVE  /\ \A j : Left(j) => Left(j)' \/ j = Task
         /\ \A i \in DOMAIN agenda' : Left(agenda'[i])
<1>1. PICK t : t = <<>>
  OBVIOUS
<1>2. t \in Seq(Tasks) /\ agenda' = t \o Tail(agenda) /\ ~ \E i \in DOMAIN t : TRUE
  BY <1>1 DEF Continue
<1> QED BY <1>2, LeftMoves

\* The steps of AddRcpt that only look on.
LEMMA CoversLooking ==
  ASSUME Typed, [Next]_vars, CoversRcpt, CheckStates \/ CheckRcptRun \/ InitModifiers, ~Failing'
  PROVE  CoversRcpt'
<1>0. agenda \in Seq(Tasks) /\ agenda # <<>> /\ Task.op \in {"states", "rcpt", "mods"}
  BY TypeParts, HeadTask DEF CheckStates, CheckRcptRun, InitModifiers, Doing
<1>1. Continue(<<>>)
  <2>1. Fail \/ Continue(<<>>)
    BY DEF CheckStates, CheckRcptRun, InitModifiers, Merge
  <2> QED BY <2>1 DEF Fail, Failing
<1>2. UNCHANGED <<src, orig>>
  BY DEF CheckStates, CheckRcptRun, InitModifiers, callerVars
<1>3. \A j : Left(j) => Left(j)' \/ j = Task
  BY <1>0, <1>1, LeftTail
<1>4. /\ \A g, a : Task # Rewriting(g, a)
      /\ \A a : Task # Routing(a)
      /\ \A b, a, x : Task # Handing(b, a, x)
      /\ \A t, x : Task # Giving(t, x)
  BY <1>0, TaskFields
<1> QED BY <1>2, <1>3, <1>4, CoversMoves

\* The recipient is rewritten.
LEMMA CoversRewriting ==
  ASSUME Typed, [Next]_vars, CoversRcpt, RewriteRcpt, ~Failing'
  PROVE  CoversRcpt'
<1>0. /\ agenda \in Seq(Tasks) /\ agenda # <<>> /\ Task.op = "rewrite" /\ src \in Sources
      /\ Task.addr \in Addr /\ Task.group \in Groups
  BY TypeParts, HeadTask, TaskFacts DEF RewriteRcpt, Doing
<1>1. UNCHANGED <<src, orig>>
  BY DEF RewriteRcpt, callerVars
<1>2. /\ \A a : Task # Routing(a)
      /\ \A b, a, x : Task # Handing(b, a, x)
      /\ \A t, x : Task # Giving(t, x)
      /\ \A g, a : Task = Rewriting(g, a) => Task.group = g /\ Task.addr = a
  BY <1>0, TaskFields
<1>3. ~Fail
  BY DEF Fail, Failing
<1>4. CASE Task.group = "global"
  <2>1. PICK t : t = [i \in DOMAIN Global.rewrite[Task.addr] |-> Rewriting("source", Global.rewrite[Task.addr][i])]
    OBVIOUS
  <2>2. agenda' = t \o Tail(agenda)
    BY <1>3, <1>4, <2>1, Config DEF RewriteRcpt, Continue
  <2>3. t \in Seq(Tasks) /\ \A y \in Members(Global.rewrite[Task.addr]) : \E i \in DOMAIN t : t[i] = Rewriting("source", y)
    <3>1. Global.rewrite[Task.addr] \in Seq(Addr) /\ \A x \in Addr : Rewriting("source", x) \in Tasks
      BY <1>0, Config, MadeTasks
    <3>2. PICK f \in [Addr -> Tasks] : f = [x \in Addr |-> Rewriting("source", x)]
      BY <3>1
    <3>3. PICK s \in Seq(Addr) : s = Global.rewrite[Task.addr]
      BY <3>1
    <3>4. t = [i \in DOMAIN s |-> f[s[i]]]
      BY <2>1, <3>2, <3>3, Elements
    <3>5. t \in Seq(Tasks) /\ \A y \in Members(s) : \E i \in DOMAIN t : t[i] = f[y]
      BY <3>4, MadeForEach
    <3>6. \A y \in Members(s) : f[y] = Rewriting("source", y)
      BY <3>2, Elements DEF Members
    <3> QED BY <3>3, <3>5, <3>6
  <2>4. /\ \A j : Left(j) => Left(j)' \/ j = Task
        /\ \A y \in Members(Global.rewrite[Task.addr]) : Left(Rewriting("source", y))'
    BY <1>0, <2>2, <2>3, LeftMoves
  <2>5. \A g, a : Task = Rewriting(g, a) => g = "global" /\ a = Task.addr
    BY <1>2, <1>4
  <2> QED BY <1>1, <1>2, <2>4, <2>5, Config, CoversMoves
<1>5. CASE Task.group = "source"
  <2>1. PICK t : t = [i \in DOMAIN Source[src].rewrite[Task.addr] |-> Routing(Source[src].rewrite[Task.addr][i])]
    OBVIOUS
  <2>2. agenda' = Tail(agenda) \o t
    BY <1>3, <1>5, <2>1, Config DEF RewriteRcpt, Continue
  <2>3. t \in Seq(Tasks) /\ \A y \in Members(Source[src].rewrite[Task.addr]) : \E i \in DOMAIN t : t[i] = Routing(y)
    <3>1. Source[src].rewrite[Task.addr] \in Seq(Addr) /\ \A x \in Addr : Routing(x) \in Tasks
      BY <1>0, Config, MadeTasks
    <3>2. PICK f \in [Addr -> Tasks] : f = [x \in Addr |-> Routing(x)]
      BY <3>1
    <3>3. PICK s \in Seq(Addr) : s = Source[src].rewrite[Task.addr]
      BY <3>1
    <3>4. t = [i \in DOMAIN s |-> f[s[i]]]
      BY <2>1, <3>2, <3>3, Elements
    <3>5. t \in Seq(Tasks) /\ \A y \in Members(s) : \E i \in DOMAIN t : t[i] = f[y]
      BY <3>4, MadeForEach
    <3>6. \A y \in Members(s) : f[y] = Routing(y)
      BY <3>2, Elements DEF Members
    <3> QED BY <3>3, <3>5, <3>6
  <2>4. /\ \A j : Left(j) => Left(j)' \/ j = Task
        /\ \A y \in Members(Source[src].rewrite[Task.addr]) : Left(Routing(y))'
    BY <1>0, <2>2, <2>3, LeftMoves
  <2>5. \A g, a : Task = Rewriting(g, a) => g = "source" /\ a = Task.addr
    BY <1>2, <1>5
  <2> QED BY <1>1, <1>2, <2>4, <2>5, Config, CoversMoves
<1>6. CASE Task.group \in Blocks
  <2>0. PICK b \in Blocks, z \in Addr : b = Task.group /\ z = Task.addr
    BY <1>0, <1>6
  <2>1. PICK t : t = [i \in DOMAIN Block[b].rewrite[z] |-> Handing(b, z, Block[b].rewrite[z][i])]
    OBVIOUS
  <2>2. agenda' = t \o Tail(agenda)
    BY <1>3, <2>0, <2>1, Config DEF RewriteRcpt, Continue
  <2>3. t \in Seq(Tasks) /\ \A y \in Members(Block[b].rewrite[z]) : \E i \in DOMAIN t : t[i] = Handing(b, z, y)
    <3>1. Block[b].rewrite[z] \in Seq(Addr) /\ \A x \in Addr : Handing(b, z, x) \in Tasks
      BY Config, MadeTasks
    <3>2. PICK f \in [Addr -> Tasks] : f = [x \in Addr |-> Handing(b, z, x)]
      BY <3>1
    <3>3. PICK s \in Seq(Addr) : s = Block[b].rewrite[z]
      BY <3>1
    <3>4. t = [i \in DOMAIN s |-> f[s[i]]]
      BY <2>1, <3>2, <3>3, Elements
    <3>5. t \in Seq(Tasks) /\ \A y \in Members(s) : \E i \in DOMAIN t : t[i] = f[y]
      BY <3>4, MadeForEach
    <3>6. \A y \in Members(s) : f[y] = Handing(b, z, y)
      BY <3>2, Elements DEF Members
    <3> QED BY <3>3, <3>5, <3>6
  <2>4. /\ \A j : Left(j) => Left(j)' \/ j = Task
        /\ \A y \in Members(Block[b].rewrite[z]) : Left(Handing(b, z, y))'
    BY <1>0, <2>2, <2>3, LeftMoves
  <2>5. \A g, a : Task = Rewriting(g, a) => g = b /\ a = z
    BY <1>2, <2>0
  <2> QED BY <1>1, <1>2, <2>4, <2>5, Config, CoversMoves
<1> QED BY <1>0, <1>4, <1>5, <1>6 DEF Groups

\* The address is routed.
LEMMA CoversRouting ==
  ASSUME Typed, [Next]_vars, CoversRcpt, RouteRcpt, ~Failing'
  PROVE  CoversRcpt'
<1>0. agenda \in Seq(Tasks) /\ agenda # <<>> /\ Task.op = "route" /\ src \in Sources /\ Task.addr \in Addr
  BY TypeParts, HeadTask, TaskFacts DEF RouteRcpt, Doing
<1>1. UNCHANGED <<src, orig>>
  BY DEF RouteRcpt, callerVars
<1>2. /\ \A g, a : Task # Rewriting(g, a)
      /\ \A b, a, x : Task # Handing(b, a, x)
      /\ \A t, x : Task # Giving(t, x)
      /\ \A a : Task = Routing(a) => a = Task.addr
  BY <1>0, TaskFields
<1>8. PICK z \in Addr : z = Task.addr
  BY <1>0
<1>3. PICK b \in Choices(z) :
        /\ ~Block[b].rejects
        /\ Continue(CheckRcpt(Block[b].checks, z) \o <<InitMods(b), Rewriting(b, z)>>)
  <2>1. ~Fail
    BY DEF Fail, Failing
  <2> QED BY <1>8, <2>1 DEF RouteRcpt, Choices
<1>4. PICK t : t = CheckRcpt(Block[b].checks, z) \o <<InitMods(b), Rewriting(b, z)>>
  OBVIOUS
<1>5. t = <<States(Block[b].checks), AskRcpt(Block[b].checks, z), InitMods(b), Rewriting(b, z)>>
  BY <1>4, Begun DEF CheckRcpt
<1>6. t \in Seq(Tasks) /\ 4 \in DOMAIN t /\ t[4] = Rewriting(b, z)
  <2>1. b \in Blocks
    BY <1>0, ChoicesTyped
  <2>2. /\ States(Block[b].checks) \in Tasks /\ AskRcpt(Block[b].checks, z) \in Tasks
        /\ InitMods(b) \in Tasks /\ Rewriting(b, z) \in Tasks
    BY <1>0, <2>1, Config, MadeTasks
  <2> QED BY <1>5, <2>2
<1>7. (\A j : Left(j) => Left(j)' \/ j = Task) /\ Left(Rewriting(b, z))'
  <2>1. agenda' = t \o Tail(agenda)
    BY <1>3, <1>4 DEF Continue
  <2>2. (\A j : Left(j) => Left(j)' \/ j = Task) /\ (\A i \in DOMAIN t : Left(t[i])')
    BY <1>0, <1>6, <2>1, LeftMoves
  <2> QED BY <1>6, <2>2
<1> QED BY <1>1, <1>2, <1>3, <1>7, <1>8, CoversMoves

\* The address is handed to the targets of its block.
LEMMA CoversHanding ==
  ASSUME Typed, [Next]_vars, CoversRcpt, HandToTargets, ~Failing'
  PROVE  CoversRcpt'
<1>0. /\ agenda \in Seq(Tasks) /\ agenda # <<>> /\ Task.op = "hand"
      /\ Task.addr \in Addr /\ Task.to \in Addr /\ Task.block \in Blocks
  BY TypeParts, HeadTask, TaskFacts DEF HandToTargets, Doing
<1>1. UNCHANGED <<src, orig>>
  BY DEF HandToTargets, callerVars
<1>2. /\ \A g, a : Task # Rewriting(g, a)
      /\ \A a : Task # Routing(a)
      /\ \A t, x : Task # Giving(t, x)
      /\ \A b, a, x : Task = Handing(b, a, x) => b = Task.block /\ a = Task.addr /\ x = Task.to
  BY <1>0, TaskFields
<1>7. PICK b \in Blocks, z \in Addr, x \in Addr : b = Task.block /\ z = Task.addr /\ x = Task.to
  BY <1>0
<1>3. PICK t : t = [i \in DOMAIN Block[b].targets |-> Giving(Block[b].targets[i], x)]
  OBVIOUS
<1>4. /\ agenda' = t \o Tail(agenda)
      /\ [orig |-> orig, addr |-> z, block |-> b, to |-> x] \in routed'
  BY <1>3, <1>7 DEF HandToTargets, Continue
<1>5. t \in Seq(Tasks) /\ \A y \in Members(Block[b].targets) : \E i \in DOMAIN t : t[i] = Giving(y, x)
  <2>1. Block[b].targets \in Seq(Target) /\ \A y \in Target : Giving(y, x) \in Tasks
    BY <1>0, Config, MadeTasks
  <2>2. PICK f \in [Target -> Tasks] : f = [y \in Target |-> Giving(y, x)]
    BY <2>1
  <2>3. PICK s \in Seq(Target) : s = Block[b].targets
    BY <2>1
  <2>4. t = [i \in DOMAIN s |-> f[s[i]]]
    BY <1>3, <2>2, <2>3, Elements
  <2>5. t \in Seq(Tasks) /\ \A y \in Members(s) : \E i \in DOMAIN t : t[i] = f[y]
    BY <2>4, MadeForEach
  <2>6. \A y \in Members(s) : f[y] = Giving(y, x)
    BY <2>2, Elements DEF Members
  <2> QED BY <2>3, <2>5, <2>6
<1>6. /\ \A j : Left(j) => Left(j)' \/ j = Task
      /\ \A y \in Members(Block[b].targets) : Left(Giving(y, x))'
  BY <1>0, <1>4, <1>5, LeftMoves
<1> QED BY <1>1, <1>2, <1>4, <1>6, <1>7, CoversMoves

\* A target takes the address.
LEMMA CoversGiving ==
  ASSUME Typed, [Next]_vars, CoversRcpt, GiveToTarget, ~Failing'
  PROVE  CoversRcpt'
<1>0. agenda \in Seq(Tasks) /\ agenda # <<>> /\ Task.op = "give"
  BY TypeParts, HeadTask DEF GiveToTarget, Doing
<1>1. UNCHANGED <<src, orig>>
  BY DEF GiveToTarget, callerVars
<1>2. /\ \A g, a : Task # Rewriting(g, a)
      /\ \A a : Task # Routing(a)
      /\ \A b, a, x : Task # Handing(b, a, x)
      /\ \A t, x : Task = Giving(t, x) => t = Task.target /\ x = Task.to
  BY <1>0, TaskFields
<1>3. Continue(<<>>) /\ Task.to \in deliveries'[Task.target].taken
  BY TakenMoves DEF Fail, Failing
<1>4. \A j : Left(j) => Left(j)' \/ j = Task
  BY <1>0, <1>3, LeftTail
<1> QED BY <1>1, <1>2, <1>3, <1>4, CoversMoves

\* How a call becomes an AddRcpt, or goes on as one.
LEMMA AddRcptMoves ==
  ASSUME Typed, CallShape, [Next]_vars, call' = "AddRcpt", ~UNCHANGED vars
  PROVE  \/ \E a \in Addr : AddRcpt(a)
         \/ /\ call = "AddRcpt" /\ Task.op # "error"
            /\ \/ CheckStates \/ CheckRcptRun \/ InitModifiers \/ RewriteRcpt \/ RouteRcpt
               \/ HandToTargets \/ GiveToTarget
<1>0. agenda \in Seq(Tasks)
  BY TypeParts
<1>1. CASE CallerStep
  BY <1>1 DEF CallerStep, Start, AddRcpt, Body, BodyNonAtomic, Commit, Abort, Begin, Idle
<1>2. CASE call = "AddRcpt"
  <2>1. ~Return /\ ~ReturnError
    BY DEF Return, ReturnError
  <2>2. \/ CheckStates \/ CheckRcptRun \/ InitModifiers \/ RewriteRcpt \/ RouteRcpt
        \/ HandToTargets \/ GiveToTarget
    BY <1>2, <2>1, StepsOfCall
  <2>3. Task.op # "error"
    BY <2>2 DEF CheckStates, CheckRcptRun, InitModifiers, RewriteRcpt, RouteRcpt,
                HandToTargets, GiveToTarget, Doing, Task
  <2> QED BY <1>2, <2>2, <2>3
<1>3. CASE ~CallerStep /\ call # "AddRcpt"
  <2>1. Return \/ ReturnError
    BY <1>3, Frame
  <2> QED BY <2>1 DEF Return, ReturnError
<1> QED BY <1>1, <1>2, <1>3

\* What AddRcpt begins with.
LEMMA AddRcptBegins ==
  ASSUME NEW a \in Addr, AddRcpt(a)
  PROVE  /\ agenda' = <<States(Global.checks), AskRcpt(Global.checks, a), States(Source[src].checks),
                        AskRcpt(Source[src].checks, a), Rewriting("global", a)>>
         /\ DOMAIN agenda' = 1 .. 5 /\ agenda'[5] = Rewriting("global", a)
         /\ \A i \in 1 .. 5 : agenda'[i].op \in {"states", "rcpt", "rewrite"}
<1>1. agenda' = <<States(Global.checks), AskRcpt(Global.checks, a), States(Source[src].checks),
                  AskRcpt(Source[src].checks, a), Rewriting("global", a)>>
  BY Begun DEF AddRcpt, Begin, CheckRcpt
<1>2. /\ DOMAIN agenda' = 1 .. 5 /\ agenda'[1] = States(Global.checks) /\ agenda'[2] = AskRcpt(Global.checks, a)
      /\ agenda'[3] = States(Source[src].checks) /\ agenda'[4] = AskRcpt(Source[src].checks, a)
      /\ agenda'[5] = Rewriting("global", a)
  BY <1>1
<1>3. /\ agenda'[1].op = "states" /\ agenda'[2].op = "rcpt" /\ agenda'[3].op = "states" /\ agenda'[4].op = "rcpt"
      /\ agenda'[5].op = "rewrite"
  BY <1>2, TaskFields
<1> QED BY <1>1, <1>2, <1>3

\* AddRcpt forgets no address.
LEMMA CoversStep ==
  ASSUME Typed, CallShape, AgendaCovers, [Next]_vars
  PROVE  AgendaCovers'
<1> SUFFICES ASSUME call' = "AddRcpt", ~Failing' PROVE CoversRcpt'
  BY DEF AgendaCovers
<1>1. CASE UNCHANGED vars
  <2>1. CoversRcpt /\ UNCHANGED <<agenda, orig, src, routed, deliveries>>
    BY <1>1 DEF AgendaCovers, Failing, vars, callerVars, targetVars
  <2> QED BY <2>1 DEF CoversRcpt, CoversRewritten, CoversBlock, CoversAddress, Left, Choices
<1>2. ASSUME NEW a \in Addr, AddRcpt(a) PROVE CoversRcpt'
  <2>1. orig' = a
    BY <1>2 DEF AddRcpt
  <2>2. Left(Rewriting("global", a))'
    BY <1>2, AddRcptBegins DEF Left
  <2> QED BY <2>1, <2>2 DEF CoversRcpt
<1>3. CASE /\ call = "AddRcpt" /\ Task.op # "error"
           /\ \/ CheckStates \/ CheckRcptRun \/ InitModifiers \/ RewriteRcpt \/ RouteRcpt
              \/ HandToTargets \/ GiveToTarget
  <2>1. ~Failing
    <3>1. Failing => Task = Simple("error")
      BY Short DEF Failing, Task
    <3> QED BY <1>3, <3>1, TaskFields
  <2>2. CoversRcpt
    BY <1>3, <2>1 DEF AgendaCovers
  <2> QED BY <1>3, <2>2, CoversLooking, CoversRewriting, CoversRouting, CoversHanding, CoversGiving
<1> QED BY <1>1, <1>2, <1>3, AddRcptMoves

\* An accepted recipient has reached its targets, and stays there.
LEMMA AcceptedStep ==
  ASSUME Typed, CallShape, AgendaCovers, AcceptedReachesTargets, phase = "new" => accepted = {}, [Next]_vars
  PROVE  AcceptedReachesTargets' /\ (phase' = "new" => accepted' = {})
<1>0. src \in Sources /\ call \in CallNames
  BY TypeParts DEF CallerTyped
<1>1. accepted' \subseteq accepted \/ (Return /\ call = "AddRcpt" /\ accepted' = accepted \cup {orig})
  <2>1. CASE CallerStep
    BY <2>1 DEF CallerStep, Start, AddRcpt, Body, BodyNonAtomic, Commit, Abort
  <2>2. CASE Return
    BY <2>2 DEF Return
  <2>3. CASE ReturnError
    BY <2>3 DEF ReturnError
  <2> QED BY <2>1, <2>2, <2>3, Frame
<1>2. phase' = "new" => accepted' = {}
  <2>1. phase' = "new" => phase = "new"
    <3>1. CASE CallerStep
      BY <3>1 DEF CallerStep, Start, AddRcpt, Body, BodyNonAtomic, Commit, Abort
    <3>2. CASE Return
      BY <1>0, <3>2 DEF Return, CallNames
    <3>3. CASE ReturnError
      BY <3>3 DEF ReturnError
    <3> QED BY <3>1, <3>2, <3>3, Frame
  <2> QED BY <1>1, <2>1 DEF CallShape
<1>3. CASE RouteSource
  <2>1. call = "Start" /\ phase = "new" /\ UNCHANGED accepted
    BY <1>3, StepsOfCall DEF CallShape, RouteSource, callerVars
  <2> QED BY <1>2, <2>1 DEF AcceptedReachesTargets
<1>4. CASE ~RouteSource
  <2>1. UNCHANGED src /\ \A z : Choices(z)' = Choices(z)
    BY <1>4, Frame DEF Choices
  <2>2. ASSUME NEW o \in accepted', NEW y \in Members(Global.rewrite[o]), NEW z \in Members(Source[src].rewrite[y])
        PROVE  \E b \in Choices(z) :
                 /\ ~Block[b].rejects
                 /\ \A x \in Members(Block[b].rewrite[z]) :
                      /\ [orig |-> o, addr |-> z, block |-> b, to |-> x] \in routed
                      /\ \A t \in Members(Block[b].targets) : x \in deliveries[t].taken
    <3>1. CASE o \in accepted
      BY <3>1 DEF AcceptedReachesTargets
    <3>2. CASE o \notin accepted
      <4>1. call = "AddRcpt" /\ o = orig /\ agenda = <<>>
        BY <1>1, <3>2 DEF Return
      <4>2. (\A j : ~Left(j)) /\ ~Failing
        BY <4>1 DEF Left, Failing
      <4>3. CoversRcpt
        BY <4>1, <4>2 DEF AgendaCovers
      <4>4. CoversBlock(z)
        BY <4>1, <4>2, <4>3 DEF CoversRcpt, CoversRewritten
      <4> QED BY <4>1, <4>2, <4>4 DEF CoversBlock, CoversAddress
    <3> QED BY <3>1, <3>2
  <2>3. ASSUME NEW o \in accepted', NEW y \in Members(Global.rewrite[o]), NEW z \in Members(Source[src].rewrite[y])
        PROVE  \E b \in Choices(z) :
                 /\ ~Block[b].rejects
                 /\ \A x \in Members(Block[b].rewrite[z]) :
                      /\ [orig |-> o, addr |-> z, block |-> b, to |-> x] \in routed'
                      /\ \A t \in Members(Block[b].targets) : x \in deliveries'[t].taken
    <3>1. PICK b \in Choices(z) :
            /\ ~Block[b].rejects
            /\ \A x \in Members(Block[b].rewrite[z]) :
                 /\ [orig |-> o, addr |-> z, block |-> b, to |-> x] \in routed
                 /\ \A t \in Members(Block[b].targets) : x \in deliveries[t].taken
      BY <2>2
    <3>2. Members(Block[b].targets) \subseteq Target
      BY <1>0, ChoicesTyped
    <3> QED BY <3>1, <3>2, TargetsGrow
  <2> QED BY <1>2, <2>1, <2>3 DEF AcceptedReachesTargets
<1> QED BY <1>3, <1>4

\* Only handing an address to a block makes tasks that give it to targets.
LEMMA GivesMoves ==
  ASSUME Typed, CallShape, StartShape, [Next]_vars, NEW i \in DOMAIN agenda', agenda'[i].op = "give"
  PROVE  \/ \E j \in DOMAIN agenda : agenda[j] = agenda'[i]
         \/ HandToTargets /\ agenda'[i].to = Task.to
<1>0. agenda \in Seq(Tasks) /\ src \in Sources
  BY TypeParts
<1>1. CASE UNCHANGED vars
  BY <1>1 DEF vars
<1>2. CASE ~UNCHANGED vars
  <2>1. call' = "AddRcpt"
    <3>1. CallShape' /\ Typed'
      BY CallShapeStep, TypedStep
    <3>2. agenda'[i].op \in Ops(call') /\ call' \in CallNames
      BY <3>1, TypePartsAfter DEF CallShape, CallerTyped
    <3> QED BY <3>2, CallOf
  <2>2. ASSUME NEW a \in Addr, AddRcpt(a) PROVE FALSE
    BY <2>2, AddRcptBegins
  <2>3. ~Fail
    <3>1. Fail => agenda'[i] = Simple("error")
      BY DEF Fail
    <3> QED BY <3>1, TaskFields
  <2>4. CASE CheckStates \/ CheckRcptRun \/ InitModifiers \/ GiveToTarget
    <3>1. Continue(<<>>)
      BY <2>3, <2>4 DEF CheckStates, CheckRcptRun, InitModifiers, GiveToTarget, Merge
    <3>2. agenda # <<>>
      BY <2>4 DEF CheckStates, CheckRcptRun, InitModifiers, GiveToTarget, Doing
    <3> QED BY <1>0, <3>1, <3>2, LeftTail DEF Left
  <2>5. ASSUME NEW t \in Seq(Tasks), agenda # <<>>,
               agenda' = t \o Tail(agenda) \/ agenda' = Tail(agenda) \o t,
               \A n \in DOMAIN t : t[n].op # "give"
        PROVE  \E j \in DOMAIN agenda : agenda[j] = agenda'[i]
    <3>1. (\E n \in DOMAIN t : agenda'[i] = t[n]) \/ Left(agenda'[i])
      BY <1>0, <2>5, LeftMoves
    <3>2. Left(agenda'[i])
      BY <2>5, <3>1
    <3> QED BY <3>2 DEF Left
  <2>6. CASE RewriteRcpt
    <3>0. Task.addr \in Addr /\ agenda # <<>>
      BY <1>0, <2>6, HeadTask, TaskFacts DEF RewriteRcpt
    <3>1. ASSUME NEW s \in Seq(Addr)
          PROVE  /\ [n \in DOMAIN s |-> Rewriting("source", s[n])] \in Seq(Tasks)
                 /\ [n \in DOMAIN s |-> Routing(s[n])] \in Seq(Tasks)
                 /\ \A b \in Blocks : [n \in DOMAIN s |-> Handing(b, Task.addr, s[n])] \in Seq(Tasks)
      <4>1. DOMAIN s = 1 .. Len(s) /\ Len(s) \in Nat /\ \A n \in 1 .. Len(s) : s[n] \in Addr
        OBVIOUS
      <4>2. \A x \in Addr : /\ Rewriting("source", x) \in Tasks /\ Routing(x) \in Tasks
                            /\ \A b \in Blocks : Handing(b, Task.addr, x) \in Tasks
        BY <3>0, MadeTasks, Config
      <4> QED BY <4>1, <4>2
    <3>2. /\ Global.rewrite[Task.addr] \in Seq(Addr) /\ Source[src].rewrite[Task.addr] \in Seq(Addr)
          /\ \A b \in Blocks : Block[b].rewrite[Task.addr] \in Seq(Addr)
      BY <1>0, <3>0, Config
    <3>3. \/ Continue([n \in DOMAIN Global.rewrite[Task.addr] |-> Rewriting("source", Global.rewrite[Task.addr][n])])
          \/ agenda' = Tail(agenda) \o [n \in DOMAIN Source[src].rewrite[Task.addr] |-> Routing(Source[src].rewrite[Task.addr][n])]
          \/ /\ Task.group \in Blocks
             /\ Continue([n \in DOMAIN Block[Task.group].rewrite[Task.addr] |->
                            Handing(Task.group, Task.addr, Block[Task.group].rewrite[Task.addr][n])])
      BY <2>3, <2>6 DEF RewriteRcpt
    <3>4. CASE Continue([n \in DOMAIN Global.rewrite[Task.addr] |-> Rewriting("source", Global.rewrite[Task.addr][n])])
      <4>1. PICK t : t = [n \in DOMAIN Global.rewrite[Task.addr] |-> Rewriting("source", Global.rewrite[Task.addr][n])]
        OBVIOUS
      <4>2. t \in Seq(Tasks) /\ agenda' = t \o Tail(agenda)
        BY <3>1, <3>2, <3>4, <4>1 DEF Continue
      <4>3. \A n \in DOMAIN t : t[n].op # "give"
        BY <4>1, TaskFields
      <4> QED BY <2>5, <3>0, <4>2, <4>3
    <3>5. CASE agenda' = Tail(agenda) \o [n \in DOMAIN Source[src].rewrite[Task.addr] |-> Routing(Source[src].rewrite[Task.addr][n])]
      <4>1. PICK t : t = [n \in DOMAIN Source[src].rewrite[Task.addr] |-> Routing(Source[src].rewrite[Task.addr][n])]
        OBVIOUS
      <4>2. t \in Seq(Tasks) /\ agenda' = Tail(agenda) \o t
        BY <3>1, <3>2, <3>5, <4>1
      <4>3. \A n \in DOMAIN t : t[n].op # "give"
        BY <4>1, TaskFields
      <4> QED BY <2>5, <3>0, <4>2, <4>3
    <3>6. CASE /\ Task.group \in Blocks
               /\ Continue([n \in DOMAIN Block[Task.group].rewrite[Task.addr] |->
                              Handing(Task.group, Task.addr, Block[Task.group].rewrite[Task.addr][n])])
      <4>1. PICK t : t = [n \in DOMAIN Block[Task.group].rewrite[Task.addr] |->
                            Handing(Task.group, Task.addr, Block[Task.group].rewrite[Task.addr][n])]
        OBVIOUS
      <4>2. t \in Seq(Tasks) /\ agenda' = t \o Tail(agenda)
        BY <3>1, <3>2, <3>6, <4>1 DEF Continue
      <4>3. \A n \in DOMAIN t : t[n].op # "give"
        BY <4>1, TaskFields
      <4> QED BY <2>5, <3>0, <4>2, <4>3
    <3> QED BY <3>3, <3>4, <3>5, <3>6
  <2>7. CASE RouteRcpt
    <3>0. Task.addr \in Addr /\ agenda # <<>>
      BY <1>0, <2>7, HeadTask, TaskFacts DEF RouteRcpt
    <3>1. \A broken : Select(Source[src].route, Task.addr, broken) \in Blocks
      BY <1>0, SelectTyped, Config
    <3>2. PICK b \in Blocks : Continue(CheckRcpt(Block[b].checks, Task.addr) \o <<InitMods(b), Rewriting(b, Task.addr)>>)
      BY <2>3, <2>7, <3>1 DEF RouteRcpt
    <3>3. PICK t : t = <<States(Block[b].checks), AskRcpt(Block[b].checks, Task.addr), InitMods(b), Rewriting(b, Task.addr)>>
      OBVIOUS
    <3>4. agenda' = t \o Tail(agenda)
      BY <3>2, <3>3, Begun DEF CheckRcpt, Continue
    <3>5. /\ States(Block[b].checks) \in Tasks /\ AskRcpt(Block[b].checks, Task.addr) \in Tasks
          /\ InitMods(b) \in Tasks /\ Rewriting(b, Task.addr) \in Tasks
      BY <3>0, Config, MadeTasks
    <3>6. /\ t \in Seq(Tasks) /\ DOMAIN t = 1 .. 4 /\ t[1] = States(Block[b].checks)
          /\ t[2] = AskRcpt(Block[b].checks, Task.addr) /\ t[3] = InitMods(b) /\ t[4] = Rewriting(b, Task.addr)
      BY <3>3, <3>5
    <3>7. t[1].op = "states" /\ t[2].op = "rcpt" /\ t[3].op = "mods" /\ t[4].op = "rewrite"
      BY <3>6, TaskFields
    <3>8. \A n \in DOMAIN t : t[n].op # "give"
      BY <3>6, <3>7
    <3> QED BY <2>5, <3>0, <3>4, <3>6, <3>8
  <2>8. CASE HandToTargets
    <3>0. Task.block \in Blocks /\ Task.to \in Addr /\ agenda # <<>>
      BY <1>0, <2>8, HeadTask, TaskFacts DEF HandToTargets
    <3>1. PICK s \in Seq(Target) : s = Block[Task.block].targets
      BY <3>0, Config
    <3>2. PICK t : t = [n \in DOMAIN s |-> Giving(s[n], Task.to)]
      OBVIOUS
    <3>3. t \in Seq(Tasks)
      <4>1. DOMAIN s = 1 .. Len(s) /\ Len(s) \in Nat /\ \A n \in 1 .. Len(s) : s[n] \in Target
        OBVIOUS
      <4>2. \A y \in Target : Giving(y, Task.to) \in Tasks
        BY <3>0, MadeTasks
      <4> QED BY <3>2, <4>1, <4>2
    <3>4. agenda' = t \o Tail(agenda)
      BY <2>8, <3>1, <3>2 DEF HandToTargets, Continue
    <3>5. \A n \in DOMAIN t : t[n].to = Task.to
      BY <3>2, TaskFields
    <3>6. (\E n \in DOMAIN t : agenda'[i] = t[n]) \/ Left(agenda'[i])
      BY <1>0, <3>0, <3>3, <3>4, LeftMoves
    <3> QED BY <2>8, <3>5, <3>6 DEF Left
  <2> QED BY <1>2, <2>1, <2>2, <2>4, <2>6, <2>7, <2>8, AddRcptMoves
<1> QED BY <1>1, <1>2

\* The origins of an address.
LEMMA Origins ==
  /\ \A x, o : o \in OriginsOf(x) <=> \E h \in routed : h.orig = o /\ h.to = x
  /\ \A x, o : o \in OriginsOf(x)' <=> \E h \in routed' : h.orig = o /\ h.to = x
BY DEF OriginsOf

\* Origins are kept.
LEMMA OriginsStep ==
  ASSUME Typed, CallShape, StartShape, OriginsKept, [Next]_vars
  PROVE  OriginsKept'
<1>0. agenda \in Seq(Tasks) /\ orig \in Addr
  BY TypeParts DEF CallerTyped
<1>1. \A x : OriginsOf(x) \subseteq OriginsOf(x)' /\ (HasOrigin(x) => HasOrigin(x)')
  BY TargetsGrow DEF OriginsOf, HasOrigin
<1>2. ASSUME HandToTargets, NEW x, NEW o, x = Task.to, o = orig
      PROVE  /\ o \in OriginsOf(x)' /\ HasOrigin(x)'
             /\ DOMAIN originalRcpts \subseteq DOMAIN originalRcpts'
             /\ \A y \in DOMAIN originalRcpts' : \/ y = x /\ originalRcpts'[y] = o
                                                 \/ y \in DOMAIN originalRcpts /\ originalRcpts'[y] = originalRcpts[y]
             /\ x \notin DOMAIN originalRcpts' => x = o
             /\ \A h \in routed' : h \in routed \/ h.to = x
  <2>1. routed' = routed \cup {[orig |-> o, addr |-> Task.addr, block |-> Task.block, to |-> x]}
    BY <1>2 DEF HandToTargets
  <2>2. o \in OriginsOf(x)'
    <3>1. PICK h : h = [orig |-> o, addr |-> Task.addr, block |-> Task.block, to |-> x]
      OBVIOUS
    <3>2. h \in routed' /\ h.orig = o /\ h.to = x
      BY <2>1, <3>1
    <3> QED BY <3>2, Origins
  <2>3. originalRcpts' = IF x = o THEN originalRcpts
                         ELSE [y \in DOMAIN originalRcpts \cup {x} |-> IF y = x THEN o ELSE originalRcpts[y]]
    BY <1>2 DEF HandToTargets
  <2> QED BY <2>1, <2>2, <2>3 DEF HasOrigin
<1>3. \A x \in DOMAIN originalRcpts' : originalRcpts'[x] \in OriginsOf(x)'
  <2>1. CASE UNCHANGED originalRcpts
    BY <1>1, <2>1 DEF OriginsKept
  <2>2. CASE HandToTargets
    BY <1>1, <1>2, <2>2 DEF OriginsKept
  <2> QED BY <2>1, <2>2, Frame
<1>4. \A h \in routed' : h.to \notin DOMAIN originalRcpts' => h.to \in OriginsOf(h.to)'
  <2>1. CASE UNCHANGED <<originalRcpts, routed>>
    BY <1>1, <2>1 DEF OriginsKept
  <2>2. CASE HandToTargets
    <3>1. PICK x, o : x = Task.to /\ o = orig
      OBVIOUS
    <3>2. ASSUME NEW h \in routed', h.to \notin DOMAIN originalRcpts' PROVE h.to \in OriginsOf(h.to)'
      <4>1. PICK y : y = h.to
        OBVIOUS
      <4>2. y \notin DOMAIN originalRcpts /\ (y = x => x = o)
        BY <1>2, <2>2, <3>1, <3>2, <4>1
      <4>3. CASE y = x
        BY <1>2, <2>2, <3>1, <4>1, <4>2, <4>3
      <4>4. CASE y # x
        <5>1. h \in routed
          BY <1>2, <2>2, <3>1, <4>1, <4>4
        <5>2. y \in OriginsOf(y)
          BY <4>1, <4>2, <5>1 DEF OriginsKept
        <5> QED BY <1>1, <4>1, <5>2
      <4> QED BY <4>3, <4>4
    <3> QED BY <3>2
  <2> QED BY <2>1, <2>2, Frame
<1>5. ASSUME NEW i \in DOMAIN agenda', agenda'[i].op = "give", NEW x, x = agenda'[i].to PROVE HasOrigin(x)'
  <2>1. CASE \E j \in DOMAIN agenda : agenda[j] = agenda'[i]
    BY <1>1, <1>5, <2>1 DEF OriginsKept
  <2>2. CASE HandToTargets /\ agenda'[i].to = Task.to
    BY <1>2, <1>5, <2>2
  <2> QED BY <1>5, <2>1, <2>2, GivesMoves
<1>6. ASSUME NEW t \in Target, NEW x \in deliveries'[t].taken PROVE HasOrigin(x)'
  <2>1. CASE x \in deliveries[t].taken
    BY <1>1, <2>1 DEF OriginsKept
  <2>2. CASE GiveToTarget /\ x = Task.to
    <3>1. 1 \in DOMAIN agenda /\ agenda[1].op = "give" /\ x = agenda[1].to
      BY <1>0, <2>2, HeadTask DEF GiveToTarget
    <3> QED BY <1>1, <3>1 DEF OriginsKept
  <2> QED BY <2>1, <2>2, TakenMoves
<1> QED
  <2>1. /\ \A x \in DOMAIN originalRcpts' : originalRcpts'[x] \in OriginsOf(x)'
        /\ \A h \in routed' : h.to \notin DOMAIN originalRcpts' => h.to \in OriginsOf(h.to)'
        /\ \A i \in DOMAIN agenda' : agenda'[i].op = "give" => \A x : x = agenda'[i].to => HasOrigin(x)'
        /\ \A t \in Target : \A x \in deliveries'[t].taken : HasOrigin(x)'
    BY <1>3, <1>4, <1>5, <1>6
  <2> QED BY <2>1 DEF OriginsKept, HasOrigin, OriginsOf

\* Failures are reported for a recipient that became the address.
LEMMA FailuresStep ==
  ASSUME Typed, CallShape, OriginsKept, FailuresKept, [Next]_vars
  PROVE  FailuresKept'
<1>0. missed \in [Target -> SUBSET Addr] /\ call \in CallNames /\ agenda \in Seq(Tasks)
  BY TypeParts DEF TargetTyped, CallerTyped
<1>1. CASE HandToTargets
  <2>1. call = "AddRcpt" /\ UNCHANGED missed
    BY <1>1, StepsOfCall DEF HandToTargets
  <2>2. \A t \in Target : missed'[t] = {}
    BY <2>1 DEF FailuresKept, CallShape
  <2> QED BY <2>2 DEF FailuresKept
<1>2. CASE ~HandToTargets
  <2>0. UNCHANGED <<originalRcpts, routed>>
    BY <1>2, Frame
  <2>1. \A x : (HasOrigin(x)' <=> HasOrigin(x)) /\ Original(x)' = Original(x)
    BY <2>0 DEF HasOrigin, OriginsOf, Original
  <2>2. ASSUME NEW t \in Target, NEW x \in missed'[t] PROVE HasOrigin(x)' /\ Original(x)' \in statuses'
    <3>1. CASE x \in missed[t]
      BY <2>1, <3>1, TargetsGrow DEF FailuresKept
    <3>2. CASE x \notin missed[t]
      <4>1. GiveBodyPartially /\ missed' # missed
        BY <3>2, Frame
      <4>2. PICK u \in Task.left : \E F \in SUBSET deliveries[u].taken :
                                     /\ missed' = [missed EXCEPT ![u] = F]
                                     /\ statuses' = statuses \cup {Original(y) : y \in F}
        BY <4>1 DEF GiveBodyPartially
      <4>3. u \in Target
        BY <1>0, <4>1, HeadTask, TaskFacts DEF GiveBodyPartially
      <4>4. PICK F \in SUBSET deliveries[u].taken : /\ missed' = [missed EXCEPT ![u] = F]
                                                   /\ statuses' = statuses \cup {Original(y) : y \in F}
        BY <4>2
      <4>5. t = u /\ x \in F
        BY <1>0, <3>2, <4>3, <4>4
      <4> QED BY <2>1, <4>3, <4>4, <4>5 DEF OriginsKept
    <3> QED BY <3>1, <3>2
  <2>3. ASSUME phase' \in {"new", "open"}, call' # "BodyNonAtomic", NEW t \in Target PROVE missed'[t] = {}
    <3>1. phase \in {"new", "open"} /\ call # "BodyNonAtomic"
      <4>1. CASE CallerStep
        <5>1. call = "none" /\ (phase' = phase \/ phase' = "ended")
          BY <4>1 DEF CallerStep, Start, AddRcpt, Body, BodyNonAtomic, CanSend, Commit, Abort, Idle
        <5> QED BY <2>3, <5>1
      <4>2. CASE Return
        BY <1>0, <2>3, <4>2 DEF Return, CallShape, CallNames
      <4>3. CASE ReturnError
        BY <2>3, <4>3 DEF ReturnError, CallShape
      <4> QED BY <2>3, <4>1, <4>2, <4>3, Frame
    <3>2. UNCHANGED missed
      BY <3>1, Frame, StepsOfCall
    <3> QED BY <3>1, <3>2 DEF FailuresKept
  <2> QED BY <2>2, <2>3 DEF FailuresKept
<1> QED BY <1>1, <1>2

\* The invariant holds of a new delivery.
LEMMA TrackInit == Init => TrackInv
<1> SUFFICES ASSUME Init PROVE TrackInv
  OBVIOUS
<1>1. /\ accepted = {} /\ call = "none" /\ agenda = <<>> /\ routed = {} /\ DOMAIN originalRcpts = {}
      /\ \A t \in Target : missed[t] = {} /\ deliveries[t].taken = {}
  BY DEF Init, NoDelivery
<1>2. AcceptedReachesTargets /\ AgendaCovers
  BY <1>1 DEF AcceptedReachesTargets, AgendaCovers
<1>3. OriginsKept /\ FailuresKept
  BY <1>1 DEF OriginsKept, FailuresKept
<1> QED BY <1>1, <1>2, <1>3 DEF TrackInv

\* Every step keeps it.
LEMMA TrackStep == PipelineInv /\ TrackInv /\ [Next]_vars => TrackInv'
<1> SUFFICES ASSUME PipelineInv, TrackInv, [Next]_vars PROVE TrackInv'
  OBVIOUS
<1>1. /\ Typed /\ CallShape /\ StartShape /\ (phase = "new" => accepted = {})
      /\ AcceptedReachesTargets /\ AgendaCovers /\ OriginsKept /\ FailuresKept
  BY DEF PipelineInv, TrackInv
<1>2. AcceptedReachesTargets' /\ (phase' = "new" => accepted' = {}) /\ AgendaCovers'
  BY <1>1, AcceptedStep, CoversStep
<1>3. OriginsKept' /\ FailuresKept'
  BY <1>1, OriginsStep, FailuresStep
<1> QED BY <1>2, <1>3 DEF TrackInv

\* What the invariant says of an address with one origin: OriginalRcpts names it.
LEMMA TrackEnough == TrackInv => RecipientsTracked
<1> SUFFICES ASSUME TrackInv PROVE FailureReported
  BY DEF TrackInv, RecipientsTracked
<1> SUFFICES ASSUME NEW t \in Target, NEW x \in missed[t], NEW o \in Addr, OriginsOf(x) = {o} PROVE o \in statuses
  BY DEF FailureReported
<1>1. PICK h \in routed : h.orig = o /\ h.to = x
  BY Origins
<1>2. Original(x) \in OriginsOf(x)
  BY <1>1 DEF TrackInv, OriginsKept, Original
<1> QED BY <1>2 DEF TrackInv, FailuresKept

\* Nobody is lost on the way, for every configuration of rewriting, tables and blocks
\* and any answers of the modules: once AddRcpt of msgpipelineDelivery has accepted a
\* recipient, every address it was rewritten to has been given to every target of a
\* block that the tables chose for it, and statusCollector reports the failure of an
\* address under the recipient it came from, if it came from one only.
THEOREM PipelineTracks == Spec => []RecipientsTracked
<1>1. Init => PipelineInv /\ TrackInv
  BY PipelineInit, TrackInit
<1>2. PipelineInv /\ TrackInv /\ [Next]_vars => PipelineInv' /\ TrackInv'
  BY PipelineStep, TrackStep
<1> QED BY <1>1, <1>2, TrackEnough, PTL DEF Spec
=============================================================================
