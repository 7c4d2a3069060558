------------------------------- MODULE Limits -------------------------------
(***************************************************************************)
(* internal/limits: the limits {} group and its limiters.                  *)
(*                                                                         *)
(* A caller of TakeMsg passes up to three scopes in order (all messages,   *)
(* its IP, its source domain); a caller of TakeDest passes one.  A scope   *)
(* is a MultiLimit: semaphores and rate limiters taken one after the       *)
(* other, each of which may block.  The scopes other than "all" keep one   *)
(* MultiLimit per key in a BucketSet.  A call shares one five-second       *)
(* deadline; when it passes, what was taken is given back.                 *)
(*                                                                         *)
(* use[l] counts the permits of a semaphore in use, or the tokens of a     *)
(* rate limiter taken since the last refill.  Releases never block and are *)
(* one step with the call they are part of.  Rate.Close is reached only    *)
(* through the reaping of buckets.                                         *)
(***************************************************************************)
EXTENDS Integers, Sequences, FiniteSets

CONSTANTS
  Client,        \* goroutines that handle messages
  Ip, Domain,    \* keys
  GlobalL, IpL, SourceL, DestL,  \* configured limiters of each scope, in order
  MaxBuckets,    \* BucketSet.MaxBuckets
  ReapInterval,  \* BucketSet.ReapInterval
  MaxTime        \* bound: clock

Limiter == [kind: {"semaphore", "rate"}, max: Nat]

ASSUME LimitsAssumption ==
  /\ \A l \in {GlobalL, IpL, SourceL, DestL} : l \in Seq(Limiter)
  /\ Ip \cap Domain = {}
  /\ MaxBuckets \in Nat
  /\ ReapInterval \in Nat
  /\ MaxTime \in Nat

VARIABLES
  now,      \* the clock
  use,      \* use[l]: permits or tokens of limiter l in use
  lastUse,  \* lastUse[scope]: the buckets of a scope and when they were used
  call      \* call[c]: the call client c makes: kind, ip, dom, pc, scope, at

vars == <<now, use, lastUse, call>>

Scope == {"all", "ip", "source", "dest"}
Idle == [kind |-> "none", pc |-> "idle"]

\* Init of the group: which limiters a scope's constructor makes.  The
\* destination scope exists when destL is not empty, and is made from sourceL.
Wrapped(sc) ==
  CASE sc = "all" -> GlobalL
    [] sc = "ip" -> IpL
    [] sc = "source" -> SourceL
    [] sc = "dest" -> SourceL

Configured(sc) ==
  CASE sc = "all" -> TRUE
    [] sc = "ip" -> IpL # <<>>
    [] sc = "source" -> SourceL # <<>>
    [] sc = "dest" -> DestL # <<>>

KeysOf(sc) ==
  CASE sc = "all" -> {"all"}
    [] sc = "ip" -> Ip
    [] OTHER -> Domain

\* Every limiter there can be: its scope, key and place in the MultiLimit.
Instance == UNION {{<<sc, k, i>> : k \in KeysOf(sc), i \in DOMAIN Wrapped(sc)} : sc \in Scope}
LimiterOf(l) == Wrapped(l[1])[l[3]]

Init ==
  /\ now = 0
  /\ use = [l \in Instance |-> 0]
  /\ lastUse = [sc \in Scope |-> <<>>]
  /\ call = [c \in Client |-> Idle]

-----------------------------------------------------------------------------
(* Limiters.                                                                *)

\* The key of client c's call in a scope.
KeyOf(c, sc) ==
  CASE sc = "all" -> "all"
    [] sc = "ip" -> call[c].ip
    [] OTHER -> call[c].dom

\* TakeContext of a limiter would not block.  A limit of zero is no limit.
Available(l) == LimiterOf(l).max = 0 \/ use[l] < LimiterOf(l).max

\* One permit or token is taken from limiter l.
Take(l) == use' = IF LimiterOf(l).max = 0 THEN use ELSE [use EXCEPT ![l] = @ + 1]

\* Release of every limiter in the set L: rate limiters ignore it.
Released(L) ==
  [l \in Instance |->
     IF l \in L /\ LimiterOf(l).kind = "semaphore" /\ LimiterOf(l).max > 0
     THEN use[l] - 1 ELSE use[l]]

\* The limiters of the whole MultiLimit client c uses in scope sc.
All(c, sc) == {<<sc, KeyOf(c, sc), i>> : i \in DOMAIN Wrapped(sc)}

\* The part of the current MultiLimit that TakeContext took so far.
TakenHere(c) == {l \in All(c, call[c].scope) : l[3] < call[c].at}

\* Mutant: the global limits are not given back when the IP limit fails.
EarlierScopesNoGlobal(c) ==
  CASE call[c].scope = "source" -> All(c, "all") \cup All(c, "ip")
    [] OTHER -> {}

\* What TakeMsg and TakeDest release of the earlier scopes.
EarlierScopes(c) ==
  CASE call[c].scope = "ip" -> All(c, "all")
    [] call[c].scope = "source" -> All(c, "all") \cup All(c, "ip")
    [] OTHER -> {}

-----------------------------------------------------------------------------
(* Calls.                                                                   *)

\* Where TakeMsg or TakeDest goes on after scope sc: into the next configured
\* scope, or back to its caller.
EnterScope(sc) == [pc |-> IF sc = "all" THEN "wait" ELSE "bucket", scope |-> sc, at |-> 1]

After(kind, sc) ==
  IF kind = "msg" /\ sc = "all" /\ Configured("ip") THEN EnterScope("ip")
  ELSE IF kind = "msg" /\ sc \in {"all", "ip"} /\ Configured("source") THEN EnterScope("source")
  ELSE [pc |-> "held", scope |-> sc, at |-> 1]

GoTo(c, p) ==
  call' = [call EXCEPT ![c] = [kind |-> @.kind, ip |-> @.ip, dom |-> @.dom,
                               pc |-> p.pc, scope |-> p.scope, at |-> p.at]]

\* TakeMsg is called.
TakeMsg(c) ==
  /\ call[c].pc = "idle"
  /\ \E ip \in Ip, dom \in Domain :
       call' = [call EXCEPT ![c] = [kind |-> "msg", ip |-> ip, dom |-> dom,
                                    pc |-> "wait", scope |-> "all", at |-> 1]]
  /\ UNCHANGED <<now, use, lastUse>>

\* TakeDest is called; without destination limits it returns at once.
TakeDest(c) ==
  /\ call[c].pc = "idle"
  /\ \E dom \in Domain :
       call' = [call EXCEPT ![c] = [kind |-> "dest", ip |-> dom, dom |-> dom,
                                    pc |-> IF Configured("dest") THEN "bucket" ELSE "held",
                                    scope |-> "dest", at |-> 1]]
  /\ UNCHANGED <<now, use, lastUse>>

\* BucketSet.take: over the limit, stale buckets are dropped; the age test
\* subtracts the clock from lastUse.
Stale(sc) == {k \in DOMAIN lastUse[sc] : lastUse[sc][k] - now > ReapInterval}

OverFull(f) == Cardinality(DOMAIN f) > MaxBuckets
Reaped(sc) ==
  IF OverFull(lastUse[sc])
  THEN [k \in DOMAIN lastUse[sc] \ Stale(sc) |-> lastUse[sc][k]]
  ELSE lastUse[sc]

\* BucketSet.take finds or makes the bucket.
GetBucket(c) ==
  LET sc == call[c].scope
      k == KeyOf(c, sc)
      m == Reaped(sc)
  IN  /\ call[c].pc = "bucket"
      /\ ~OverFull(m)
      /\ lastUse' = [lastUse EXCEPT ![sc] = [x \in DOMAIN m \cup {k} |->
                                               IF x = k THEN now ELSE m[x]]]
      /\ use' = [l \in Instance |-> IF l[1] = sc /\ l[2] \notin DOMAIN m THEN 0 ELSE use[l]]
      /\ call' = [call EXCEPT ![c].pc = "wait"]
      /\ UNCHANGED now

\* BucketSet.take returns nil, and TakeContext is called on it.
NilBucket(c) ==
  LET sc == call[c].scope
  IN  /\ call[c].pc = "bucket"
      /\ OverFull(Reaped(sc))
      /\ lastUse' = [lastUse EXCEPT ![sc] = Reaped(sc)]
      /\ call' = [call EXCEPT ![c].pc = "nilBucket"]
      /\ UNCHANGED <<now, use>>

\* MultiLimit.TakeContext takes its next limiter, or is done.
TakeContext(c) ==
  LET sc == call[c].scope
      l == <<sc, KeyOf(c, sc), call[c].at>>
  IN  /\ call[c].pc = "wait"
      /\ \/ /\ call[c].at \in DOMAIN Wrapped(sc)
            /\ Available(l)
            /\ Take(l)
            /\ call' = [call EXCEPT ![c].at = @ + 1]
         \/ /\ call[c].at > Len(Wrapped(sc))
            /\ GoTo(c, After(call[c].kind, sc))
            /\ UNCHANGED use
      /\ UNCHANGED <<now, lastUse>>

\* Mutant: a caller that waits for a limiter has no deadline.
DeadlineNever(c) == FALSE /\ UNCHANGED vars

\* The deadline passes while a limiter is waited for.  Without IP limits, the
\* rollback after the source scope calls Release on a nil BucketSet.
Deadline(c) ==
  /\ call[c].pc = "wait"
  /\ call[c].at \in DOMAIN Wrapped(call[c].scope)
  /\ use' = Released(TakenHere(c) \cup EarlierScopes(c))
  /\ call' = [call EXCEPT ![c] = IF @.scope = "source" /\ ~Configured("ip")
                                 THEN [@ EXCEPT !.pc = "nilRelease"] ELSE Idle]
  /\ UNCHANGED <<now, lastUse>>

\* ReleaseMsg and ReleaseDest.
ReleaseMsg(c) ==
  /\ call[c].pc = "held" /\ call[c].kind = "msg"
  /\ use' = Released(All(c, "all")
                       \cup (IF Configured("ip") THEN All(c, "ip") ELSE {})
                       \cup (IF Configured("source") THEN All(c, "source") ELSE {}))
  /\ call' = [call EXCEPT ![c] = Idle]
  /\ UNCHANGED <<now, lastUse>>

ReleaseDest(c) ==
  /\ call[c].pc = "held" /\ call[c].kind = "dest"
  /\ use' = IF Configured("dest") THEN Released(All(c, "dest")) ELSE use
  /\ call' = [call EXCEPT ![c] = Idle]
  /\ UNCHANGED <<now, lastUse>>

\* Rate.fill: the bucket of a rate limiter is topped up.
Fill(l) ==
  /\ LimiterOf(l).kind = "rate"
  /\ use[l] > 0
  /\ use' = [use EXCEPT ![l] = 0]
  /\ UNCHANGED <<now, lastUse, call>>

Tick == now < MaxTime /\ now' = now + 1 /\ UNCHANGED <<use, lastUse, call>>

ClientStep(c) == GetBucket(c) \/ NilBucket(c) \/ TakeContext(c) \/ Deadline(c)

Next ==
  \/ \E c \in Client : TakeMsg(c) \/ TakeDest(c) \/ ClientStep(c) \/ ReleaseMsg(c) \/ ReleaseDest(c)
  \/ \E l \in Instance : Fill(l)
  \/ Tick

Spec == Init /\ [][Next]_vars

\* A goroutine inside a call keeps running, and its deadline passes.  Nothing
\* is assumed of callers that hold permits, nor of the rate limiters.
FairSpec == Spec /\ \A c \in Client : WF_vars(ClientStep(c))

-----------------------------------------------------------------------------
(* Properties.                                                              *)

ActiveCall ==
  [kind: {"msg", "dest"}, ip: Ip \cup Domain, dom: Domain, scope: Scope, at: Nat,
   pc: {"bucket", "wait", "held", "nilBucket", "nilRelease"}]

\* Every variable has its type, and counters stay within their limits.
TypeOK ==
  /\ now \in 0..MaxTime
  /\ use \in [Instance -> Nat]
  /\ \A l \in Instance : use[l] <= LimiterOf(l).max
  /\ DOMAIN lastUse = Scope
  /\ \A sc \in Scope : DOMAIN lastUse[sc] \subseteq KeysOf(sc)
  /\ call \in [Client -> {Idle} \cup ActiveCall]

\* A call is in a scope of its own kind that is configured, at one of its
\* limiters or past the last.
CallsShaped ==
  \A c \in Client : call[c] # Idle =>
    /\ call[c].kind = "msg" => call[c].ip \in Ip /\ call[c].scope \in {"all", "ip", "source"}
    /\ call[c].kind = "dest" => call[c].scope = "dest"
    /\ call[c].at \in 1..(Len(Wrapped(call[c].scope)) + 1)
    /\ call[c].pc \in {"bucket", "nilBucket"} => call[c].at = 1 /\ call[c].scope # "all"
    /\ call[c].pc # "held" => Configured(call[c].scope)

\* The scopes client c has passed, as its place in the call says.
PassedScopes(c) ==
  CASE call[c].pc = "held" -> IF call[c].kind = "msg" THEN {"all", "ip", "source"} ELSE {"dest"}
    [] call[c].pc \in {"wait", "bucket", "nilBucket"} ->
         (CASE call[c].scope = "ip" -> {"all"}
            [] call[c].scope = "source" -> {"all", "ip"}
            [] OTHER -> {})
    [] OTHER -> {}

\* The limiters client c has taken.
Holds(c) ==
  (UNION {All(c, sc) : sc \in {x \in PassedScopes(c) : Configured(x)}})
    \cup (IF call[c].pc = "wait" THEN TakenHere(c) ELSE {})

Holders(l) == {c \in Client : l \in Holds(c)}

\* A bucket that somebody uses is never reaped: nothing in it is forgotten.
BucketsKept ==
  /\ \A sc \in Scope : \A k \in DOMAIN lastUse[sc] : lastUse[sc][k] \in 0..now
  /\ \A c \in Client : \A l \in Holds(c) : l[1] # "all" => l[2] \in DOMAIN lastUse[l[1]]
  /\ \A c \in Client : call[c].pc = "wait" /\ call[c].scope # "all" =>
       KeyOf(c, call[c].scope) \in DOMAIN lastUse[call[c].scope]

\* Every permit in use belongs to a caller that is inside its message, on its
\* way through TakeMsg, or died on its way there: a deadline in any scope gives
\* back exactly what the call took, in every order of takes, releases and
\* deadlines.  A call that panicked on a nil bucket keeps the permits of the
\* scopes it had passed, and those are the only permits that are lost.
PermitsAccounted ==
  \A l \in Instance : LimiterOf(l).kind = "semaphore" /\ LimiterOf(l).max > 0 =>
    IsFiniteSet(Holders(l)) /\ use[l] = Cardinality(Holders(l))

\* There are two places where a call panics: bucket.go:102 returns no bucket for a
\* set with more than MaxBuckets keys, and limits.go:191 releases the IP scope when
\* the source scope times out, configured or not.  It panics nowhere else.
PanicsNamed ==
  \A c \in Client :
    /\ call[c].pc = "nilBucket" => OverFull(lastUse[call[c].scope])
    /\ call[c].pc = "nilRelease" => call[c].scope = "source" /\ ~Configured("ip")

\* TakeMsg, TakeDest and their releases keep the books, whatever times out in
\* between: a counter is the number of calls that took a permit and did not give
\* it back, no bucket in use is forgotten, and a call panics in the two named places
\* only.  (That a full set panics, and then loses permits, is FullSetRefuses.)
Accounted == TypeOK /\ CallsShaped /\ BucketsKept /\ PermitsAccounted /\ PanicsNamed

\* Nobody waits for ever in TakeMsg or TakeDest, even if those who hold the
\* permits never release them.
EveryCallAnswered ==
  \A c \in Client : call[c].pc \in {"bucket", "wait"} ~> call[c].pc \notin {"bucket", "wait"}

\* No more deliveries to a domain run at the same time than the destination
\* limits of the configuration allow.
DestinationLimited ==
  \A d \in Domain : \A i \in DOMAIN DestL :
    DestL[i].kind = "semaphore" /\ DestL[i].max > 0 =>
      Cardinality({c \in Client : call[c].pc = "held" /\ call[c].kind = "dest" /\ call[c].dom = d})
        <= DestL[i].max

\* bucket.go:31: "If it is not possible to do so (all buckets are in active use),
\* Take will return false."
FullSetRefuses == \A c \in Client : call[c].pc # "nilBucket"
=============================================================================
