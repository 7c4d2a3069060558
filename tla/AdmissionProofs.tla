--------------------------- MODULE AdmissionProofs ---------------------------
(***************************************************************************)
(* Proofs about what a message meets before it is taken in: Limits, for    *)
(* every number of clients, keys and limiters, every configuration of the  *)
(* four scopes and every clock; and Checks, for every set of checks, every *)
(* configuration of theirs and every message.                              *)
(***************************************************************************)
EXTENDS Limits, Checks, FiniteSetTheorems, SequenceTheorems, TLAPS

-----------------------------------------------------------------------------
(* Who holds what, said of the record of a call.                           *)

KeyIn(r, sc) == IF sc = "all" THEN "all" ELSE IF sc = "ip" THEN r.ip ELSE r.dom

\* The call has the whole MultiLimit of the scope.
HasPassed(r, sc) ==
  /\ Configured(sc)
  /\ \/ r.pc = "held" /\ (IF r.kind = "msg" THEN sc # "dest" ELSE sc = "dest")
     \/ /\ r.pc \in {"wait", "bucket", "nilBucket"}
        /\ \/ sc = "all" /\ r.scope \in {"ip", "source"}
           \/ sc = "ip" /\ r.scope = "source"

HeldAt(r, sc, k, i) ==
  /\ sc \in Scope /\ k = KeyIn(r, sc) /\ i \in DOMAIN Wrapped(sc)
  /\ HasPassed(r, sc) \/ (r.pc = "wait" /\ r.scope = sc /\ i < r.at)

Semaphore(l) == LimiterOf(l).kind = "semaphore" /\ LimiterOf(l).max > 0

\* The scopes' MultiLimits are sequences of limiters.
LEMMA WrappedType ==
  /\ \A sc \in Scope : Wrapped(sc) \in Seq(Limiter)
  /\ \A sc \in Scope : Configured(sc) \in BOOLEAN
  /\ \A sc \in Scope \ {"dest"} : ~Configured(sc) => Wrapped(sc) = <<>>
BY LimitsAssumption DEF Scope, Wrapped, Configured

\* The members of Instance are the triples of a scope, a key and a place.
LEMMA InInstance ==
  /\ \A sc, k, i : <<sc, k, i>> \in Instance <=>
       sc \in Scope /\ k \in KeysOf(sc) /\ i \in DOMAIN Wrapped(sc)
  /\ \A l \in Instance : \E sc \in Scope : \E k, i : l = <<sc, k, i>>
  /\ \A l \in Instance : LimiterOf(l) \in Limiter
<1>1. \A l : l \in Instance <=>
        \E sc \in Scope : \E k \in KeysOf(sc), i \in DOMAIN Wrapped(sc) : l = <<sc, k, i>>
  BY DEF Instance
<1>2. \A l \in Instance : LimiterOf(l) \in Limiter
  <2> SUFFICES ASSUME NEW sc \in Scope, NEW k, NEW i \in DOMAIN Wrapped(sc)
               PROVE  LimiterOf(<<sc, k, i>>) \in Limiter
    BY <1>1
  <2> QED BY WrappedType DEF LimiterOf
<1> QED BY <1>1, <1>2

\* All(c, s) holds the places of one MultiLimit.
LEMMA InAll ==
  ASSUME NEW c, NEW s, NEW l
  PROVE  l \in All(c, s) <=> \E i \in DOMAIN Wrapped(s) : l = <<s, KeyOf(c, s), i>>
BY DEF All

LEMMA KeyOfIn ==
  ASSUME NEW c, NEW sc
  PROVE  /\ KeyOf(c, sc) = KeyIn(call[c], sc)
         /\ KeyOf(c, sc)' = KeyIn(call'[c], sc)
BY DEF KeyOf, KeyIn

\* The limiters of the passed scopes, and those taken in the current one.
LEMMA HoldsUnion ==
  ASSUME NEW c
  PROVE  /\ \A l : l \in Holds(c) <=>
              \/ \E s \in PassedScopes(c) : Configured(s) /\ l \in All(c, s)
              \/ call[c].pc = "wait" /\ l \in TakenHere(c)
         /\ \A l : (l \in Holds(c))' <=>
              \/ \E s \in PassedScopes(c)' : Configured(s) /\ l \in All(c, s)'
              \/ call'[c].pc = "wait" /\ l \in TakenHere(c)'
<1>1. \A l : l \in Holds(c) <=>
        \/ \E s \in PassedScopes(c) : Configured(s) /\ l \in All(c, s)
        \/ call[c].pc = "wait" /\ l \in TakenHere(c)
  BY Zenon DEF Holds
<1>2. \A l : (l \in Holds(c))' <=>
        \/ \E s \in PassedScopes(c)' : Configured(s) /\ l \in All(c, s)'
        \/ call'[c].pc = "wait" /\ l \in TakenHere(c)'
  BY Zenon DEF Holds
<1> QED BY <1>1, <1>2

\* Holds, as the record of the call says it, in a state and in the next one.
LEMMA InHolds ==
  ASSUME NEW c, NEW sc \in Scope, NEW k, NEW i
  PROVE  /\ <<sc, k, i>> \in Holds(c) <=> HeldAt(call[c], sc, k, i)
         /\ (<<sc, k, i>> \in Holds(c))' <=> HeldAt(call'[c], sc, k, i)
<1>1. <<sc, k, i>> \in Holds(c) <=> HeldAt(call[c], sc, k, i)
  <2>1. <<sc, k, i>> \in Holds(c) <=>
          \/ \E s \in PassedScopes(c) : Configured(s) /\ <<sc, k, i>> \in All(c, s)
          \/ call[c].pc = "wait" /\ <<sc, k, i>> \in All(c, call[c].scope) /\ i < call[c].at
    <3>1. <<sc, k, i>> \in TakenHere(c) <=>
             <<sc, k, i>> \in All(c, call[c].scope) /\ i < call[c].at
      BY DEF TakenHere
    <3> QED BY <3>1, HoldsUnion
  <2>2. \A s : <<sc, k, i>> \in All(c, s) <=>
               s = sc /\ k = KeyIn(call[c], sc) /\ i \in DOMAIN Wrapped(sc)
    BY InAll, KeyOfIn
  <2>3. sc \in PassedScopes(c) /\ Configured(sc) <=> HasPassed(call[c], sc)
    BY DEF PassedScopes, HasPassed, Scope
  <2> QED BY <2>1, <2>2, <2>3 DEF HeldAt
<1>2. (<<sc, k, i>> \in Holds(c))' <=> HeldAt(call'[c], sc, k, i)
  <2>1. (<<sc, k, i>> \in Holds(c))' <=>
          \/ \E s \in PassedScopes(c)' : Configured(s) /\ <<sc, k, i>> \in All(c, s)'
          \/ call'[c].pc = "wait" /\ (<<sc, k, i>> \in All(c, call[c].scope))' /\ i < call'[c].at
    <3>1. (<<sc, k, i>> \in TakenHere(c))' <=>
             (<<sc, k, i>> \in All(c, call[c].scope))' /\ i < call'[c].at
      BY DEF TakenHere
    <3> QED BY <3>1, HoldsUnion
  <2>2. \A s : <<sc, k, i>> \in All(c, s)' <=>
               s = sc /\ k = KeyIn(call'[c], sc) /\ i \in DOMAIN Wrapped(sc)
    BY KeyOfIn DEF All
  <2>3. sc \in PassedScopes(c)' /\ Configured(sc) <=> HasPassed(call'[c], sc)
    BY DEF PassedScopes, HasPassed, Scope
  <2>4. (<<sc, k, i>> \in All(c, call[c].scope))' <=>
           call'[c].scope = sc /\ k = KeyIn(call'[c], sc) /\ i \in DOMAIN Wrapped(sc)
    BY KeyOfIn DEF All
  <2> QED BY <2>1, <2>2, <2>3, <2>4 DEF HeldAt
<1> QED BY <1>1, <1>2

\* What a call holds are limiters of Instance's shape.
LEMMA HoldsTriples ==
  ASSUME NEW c \in Client, TypeOK \/ TypeOK'
  PROVE  /\ TypeOK => \A l \in Holds(c) : \E sc \in Scope : \E k, i : l = <<sc, k, i>>
         /\ TypeOK' => \A l \in Holds(c)' : \E sc \in Scope : \E k, i : l = <<sc, k, i>>
<1>1. /\ TypeOK /\ call[c].pc = "wait" => call[c].scope \in Scope
      /\ TypeOK' /\ call'[c].pc = "wait" => call'[c].scope \in Scope
  BY DEF TypeOK, Idle, ActiveCall
<1>2. /\ PassedScopes(c) \subseteq Scope
      /\ PassedScopes(c)' \subseteq Scope
  BY DEF PassedScopes, Scope
<1>3. /\ \A s : \A l \in All(c, s) : \E k, i : l = <<s, k, i>>
      /\ \A s : \A l \in All(c, s)' : \E k, i : l = <<s, k, i>>
  BY DEF All
<1>0. /\ TakenHere(c) \subseteq All(c, call[c].scope)
      /\ TakenHere(c)' \subseteq (All(c, call[c].scope))'
  BY DEF TakenHere
<1>4. \A l \in Holds(c) : \/ \E s \in PassedScopes(c) : l \in All(c, s)
                          \/ call[c].pc = "wait" /\ l \in All(c, call[c].scope)
  <2>1. \A l \in Holds(c) : \/ \E s \in PassedScopes(c) : l \in All(c, s)
                            \/ call[c].pc = "wait" /\ l \in TakenHere(c)
    BY HoldsUnion
  <2> QED BY <1>0, <2>1
<1>5. \A l \in Holds(c)' : \/ \E s \in PassedScopes(c)' : l \in All(c, s)'
                           \/ call'[c].pc = "wait" /\ (l \in All(c, call[c].scope))'
  <2>1. \A l \in Holds(c)' : \/ \E s \in PassedScopes(c)' : l \in All(c, s)'
                             \/ call'[c].pc = "wait" /\ l \in TakenHere(c)'
    BY HoldsUnion
  <2> QED BY <1>0, <2>1
<1>6. \A l : (l \in All(c, call[c].scope))' => \E k, i : l = <<call'[c].scope, k, i>>
  BY DEF All
<1> QED BY <1>1, <1>2, <1>3, <1>4, <1>5, <1>6

\* A call's key in a scope of its kind is one of the scope's keys.
LEMMA HeldInstance ==
  ASSUME TypeOK, CallsShaped, NEW c \in Client, NEW sc \in Scope, NEW k, NEW i,
         HeldAt(call[c], sc, k, i)
  PROVE  <<sc, k, i>> \in Instance /\ call[c] \in ActiveCall
<1>1. call[c] \in ActiveCall
  BY DEF HeldAt, HasPassed, TypeOK, Idle
<1>2. call[c] # Idle
  BY <1>1 DEF ActiveCall, Idle
<1>3. k \in KeysOf(sc)
  BY <1>1, <1>2 DEF HeldAt, HasPassed, CallsShaped, KeyIn, KeysOf, ActiveCall, Scope
<1> QED BY <1>1, <1>3, InInstance DEF HeldAt

-----------------------------------------------------------------------------
(* Counting holders.                                                       *)

\* A step of client c moves nobody but c in or out of a limiter's holders.
LEMMA HoldersStep ==
  ASSUME NEW c \in Client, \A d \in Client \ {c} : call'[d] = call[d], NEW l \in Instance
  PROVE  Holders(l)' = IF (l \in Holds(c))' THEN Holders(l) \cup {c} ELSE Holders(l) \ {c}
<1>1. PICK sc, k, i : sc \in Scope /\ l = <<sc, k, i>>
  BY InInstance
<1>2. \A d \in Client \ {c} : (l \in Holds(d))' <=> l \in Holds(d)
  BY <1>1, InHolds
<1>3. \A d : d \in Holders(l)' <=> d \in Client /\ (l \in Holds(d))'
  BY DEF Holders
<1>4. \A d : d \in Holders(l) <=> d \in Client /\ l \in Holds(d)
  BY DEF Holders
<1> QED BY <1>2, <1>3, <1>4

\* When c alone moves and every semaphore's count changes by what c takes or
\* gives back, the counts still are the numbers of holders.
LEMMA Balanced ==
  ASSUME Accounted, NEW c \in Client, \A d \in Client \ {c} : call'[d] = call[d],
         \A l \in Instance : Semaphore(l) =>
           use'[l] = CASE l \in Holds(c) /\ ~(l \in Holds(c))' -> use[l] - 1
                       [] l \notin Holds(c) /\ (l \in Holds(c))' -> use[l] + 1
                       [] OTHER -> use[l]
  PROVE  PermitsAccounted'
<1> SUFFICES ASSUME NEW l \in Instance, Semaphore(l)
             PROVE  IsFiniteSet(Holders(l)') /\ use'[l] = Cardinality(Holders(l)')
  BY DEF PermitsAccounted, Semaphore, LimiterOf
<1>1. IsFiniteSet(Holders(l)) /\ use[l] = Cardinality(Holders(l))
  BY DEF Accounted, PermitsAccounted, Semaphore
<1>2. Holders(l)' = IF (l \in Holds(c))' THEN Holders(l) \cup {c} ELSE Holders(l) \ {c}
  BY HoldersStep
<1>3. c \in Holders(l) <=> l \in Holds(c)
  BY DEF Holders
<1>4. /\ IsFiniteSet(Holders(l) \cup {c})
      /\ Cardinality(Holders(l) \cup {c}) = IF c \in Holders(l) THEN Cardinality(Holders(l))
                                           ELSE Cardinality(Holders(l)) + 1
  BY <1>1, FS_AddElement
<1>5. /\ IsFiniteSet(Holders(l) \ {c})
      /\ Cardinality(Holders(l) \ {c}) = IF c \in Holders(l) THEN Cardinality(Holders(l)) - 1
                                        ELSE Cardinality(Holders(l))
  BY <1>1, FS_RemoveElement
<1> QED BY <1>1, <1>2, <1>3, <1>4, <1>5

\* A semaphore that somebody holds is in use.
LEMMA HeldInUse ==
  ASSUME Accounted, NEW c \in Client, NEW l \in Instance, Semaphore(l), l \in Holds(c)
  PROVE  use[l] \in Nat /\ use[l] > 0
<1>1. IsFiniteSet(Holders(l)) /\ use[l] = Cardinality(Holders(l))
  BY DEF Accounted, PermitsAccounted, Semaphore
<1>2. c \in Holders(l)
  BY DEF Holders
<1> QED BY <1>1, <1>2, FS_EmptySet, FS_CardinalityType

\* When c alone moves and no bucket goes away, the others' buckets are kept.
LEMMA BucketsStep ==
  ASSUME Accounted, TypeOK', NEW c \in Client, \A d \in Client \ {c} : call'[d] = call[d],
         \A sc \in Scope : DOMAIN lastUse[sc] \subseteq DOMAIN lastUse'[sc],
         \A sc \in Scope : \A k \in DOMAIN lastUse'[sc] : lastUse'[sc][k] \in 0..now',
         \A sc \in Scope : \A k, i :
           HeldAt(call'[c], sc, k, i) /\ sc # "all" => k \in DOMAIN lastUse'[sc],
         call'[c].pc = "wait" /\ call'[c].scope # "all" =>
           KeyIn(call'[c], call'[c].scope) \in DOMAIN lastUse'[call'[c].scope]
  PROVE  BucketsKept'
<1>1. ASSUME NEW d \in Client, NEW sc \in Scope, NEW k, NEW i,
             HeldAt(call'[d], sc, k, i), sc # "all"
      PROVE  k \in DOMAIN lastUse'[sc]
  <2>1. CASE d = c
    BY <1>1, <2>1
  <2>2. CASE d # c
    <3>1. <<sc, k, i>> \in Holds(d)
      BY <1>1, <2>2, InHolds
    <3>2. k \in DOMAIN lastUse[sc]
      BY <1>1, <3>1 DEF Accounted, BucketsKept
    <3> QED BY <3>2
  <2> QED BY <2>1, <2>2
<1>2. ASSUME NEW d \in Client, NEW l \in Holds(d)', l[1] # "all"
      PROVE  l[2] \in DOMAIN lastUse'[l[1]]
  <2>1. PICK sc, k, i : sc \in Scope /\ l = <<sc, k, i>>
    BY HoldsTriples
  <2>2. HeldAt(call'[d], sc, k, i)
    BY <2>1, InHolds
  <2> QED BY <1>1, <1>2, <2>1, <2>2
<1>3. ASSUME NEW d \in Client, call'[d].pc = "wait", call'[d].scope # "all"
      PROVE  KeyIn(call'[d], call'[d].scope) \in DOMAIN lastUse'[call'[d].scope]
  <2>1. CASE d = c
    BY <1>3, <2>1
  <2>2. CASE d # c
    <3>1. call[d].pc = "wait" /\ call[d].scope # "all" /\ call[d].scope \in Scope
      BY <1>3, <2>2 DEF Accounted, TypeOK, Idle, ActiveCall
    <3>2. KeyIn(call[d], call[d].scope) \in DOMAIN lastUse[call[d].scope]
      BY <3>1, KeyOfIn DEF Accounted, BucketsKept
    <3> QED BY <3>1, <3>2, <2>2
  <2> QED BY <2>1, <2>2
<1>4. \A d \in Client : (KeyOf(d, call[d].scope))' = KeyIn(call'[d], call'[d].scope)
  BY DEF KeyOf, KeyIn
<1> QED BY <1>2, <1>3, <1>4 DEF BucketsKept

\* Panics stay explained when only c moves, c did not panic and full sets stay full.
LEMMA PanicsStep ==
  ASSUME Accounted, NEW c \in Client, \A d \in Client \ {c} : call'[d] = call[d],
         \A s \in Scope : OverFull(lastUse[s]) => OverFull(lastUse'[s]),
         call'[c].pc \notin {"nilBucket", "nilRelease"}
  PROVE  PanicsNamed'
<1> SUFFICES ASSUME NEW d \in Client, call'[d].pc \in {"nilBucket", "nilRelease"}
             PROVE  /\ call'[d].pc = "nilBucket" => OverFull(lastUse'[call'[d].scope])
                    /\ call'[d].pc = "nilRelease" => call'[d].scope = "source" /\ ~Configured("ip")
  BY DEF PanicsNamed
<1>1. call'[d] = call[d] /\ call[d] \in ActiveCall
  BY DEF Accounted, TypeOK, Idle
<1>2. call[d].scope \in Scope
  BY <1>1 DEF ActiveCall
<1> QED BY <1>1, <1>2 DEF Accounted, PanicsNamed

\* Giving back all that the call of client c holds, and forgetting the call or
\* dying on the way.
LEMMA AllGivenBack ==
  ASSUME Accounted, NEW c \in Client, NEW L, NEW r,
         \A l \in Instance : l \in L <=> l \in Holds(c),
         use' = Released(L), UNCHANGED <<now, lastUse>>,
         call' = [call EXCEPT ![c] = r],
         \/ r = Idle
         \/ /\ r \in ActiveCall /\ r.kind = call[c].kind /\ r.ip = call[c].ip
            /\ r.scope = "source" /\ call[c].scope = "source" /\ r.at = call[c].at
            /\ r.pc = "nilRelease" /\ ~Configured("ip") /\ call[c].pc = "wait"
  PROVE  Accounted'
<1> USE DEF Accounted
<1>1. /\ call'[c] = r
      /\ r.pc \in {"idle", "nilRelease"}
      /\ \A d \in Client \ {c} : call'[d] = call[d]
      /\ call' \in [Client -> {Idle} \cup ActiveCall]
  BY DEF TypeOK, Idle
<1>2. \A l : l \in Holds(c)' => FALSE
  BY <1>1 DEF Holds, PassedScopes
<1>3. /\ use' \in [Instance -> Nat]
      /\ \A l \in Instance : use'[l] <= use[l]
      /\ \A l \in Instance : Semaphore(l) => use'[l] = IF l \in L THEN use[l] - 1 ELSE use[l]
  <2>1. \A l \in Instance : use[l] \in Nat /\ (Semaphore(l) /\ l \in L => use[l] > 0)
    BY HeldInUse DEF TypeOK
  <2> QED BY <2>1 DEF Released, Semaphore
<1>4. TypeOK'
  <2>1. \A l \in Instance : LimiterOf(l).max \in Nat
    BY InInstance DEF Limiter
  <2>2. \A l \in Instance : use'[l] <= LimiterOf(l).max
    BY <1>3, <2>1 DEF TypeOK
  <2> QED BY <1>1, <1>3, <2>2 DEF TypeOK
<1>5. CallsShaped'
  <2>1. CASE r = Idle
    BY <1>1, <2>1 DEF CallsShaped
  <2>2. CASE r # Idle
    <3>1. call[c] # Idle
      BY <2>2 DEF Idle
    <3>2. /\ call[c].kind = "msg" => call[c].ip \in Ip
          /\ call[c].kind # "dest"
          /\ r.at \in 1..(Len(Wrapped("source")) + 1)
          /\ Configured("source")
      BY <2>2, <3>1 DEF CallsShaped
    <3> QED BY <1>1, <2>2, <3>2 DEF CallsShaped
  <2> QED BY <2>1, <2>2
<1>6. PermitsAccounted'
  BY <1>1, <1>2, <1>3, Balanced
<1>7. BucketsKept'
  <2>1. \A sc \in Scope : \A k, i : ~HeldAt(call'[c], sc, k, i)
    BY <1>1 DEF HeldAt, HasPassed
  <2>2. call'[c].pc # "wait"
    BY <1>1
  <2>3. \A sc \in Scope : \A k \in DOMAIN lastUse'[sc] : lastUse'[sc][k] \in 0..now'
    BY DEF BucketsKept
  <2> QED BY <1>1, <1>4, <2>1, <2>2, <2>3, BucketsStep
<1>8. PanicsNamed'
  <2>1. CASE r = Idle
    <3>1. call'[c].pc \notin {"nilBucket", "nilRelease"}
      BY <1>1, <2>1 DEF Idle
    <3> QED BY <1>1, <3>1, PanicsStep
  <2>2. CASE r # Idle
    BY <1>1, <2>2 DEF PanicsNamed
  <2> QED BY <2>1, <2>2
<1> QED BY <1>4, <1>5, <1>6, <1>7, <1>8

-----------------------------------------------------------------------------
(* The steps.                                                              *)

\* A new call holds nothing yet.
LEMMA CallStep ==
  ASSUME Accounted, NEW c \in Client, TakeMsg(c) \/ TakeDest(c)
  PROVE  Accounted'
<1> USE DEF Accounted
<1>1. PICK r \in ActiveCall :
        /\ call' = [call EXCEPT ![c] = r]
        /\ r.at = 1
        /\ \/ r.kind = "msg" /\ r.ip \in Ip /\ r.scope = "all" /\ r.pc = "wait"
           \/ r.kind = "dest" /\ r.scope = "dest" /\ r.pc = "bucket" /\ Configured("dest")
           \/ r.kind = "dest" /\ r.scope = "dest" /\ r.pc = "held" /\ ~Configured("dest")
  <2>1. CASE TakeMsg(c)
    <3>1. PICK ip \in Ip, dom \in Domain :
            call' = [call EXCEPT ![c] = [kind |-> "msg", ip |-> ip, dom |-> dom,
                                         pc |-> "wait", scope |-> "all", at |-> 1]]
      BY <2>1 DEF TakeMsg
    <3>2. [kind |-> "msg", ip |-> ip, dom |-> dom,
           pc |-> "wait", scope |-> "all", at |-> 1] \in ActiveCall
      BY DEF ActiveCall, Scope
    <3> QED BY <3>1, <3>2
  <2>2. CASE TakeDest(c)
    <3>1. PICK dom \in Domain :
            call' = [call EXCEPT ![c] = [kind |-> "dest", ip |-> dom, dom |-> dom,
                                         pc |-> IF Configured("dest") THEN "bucket" ELSE "held",
                                         scope |-> "dest", at |-> 1]]
      BY <2>2 DEF TakeDest
    <3>2. [kind |-> "dest", ip |-> dom, dom |-> dom,
           pc |-> IF Configured("dest") THEN "bucket" ELSE "held",
           scope |-> "dest", at |-> 1] \in ActiveCall
      BY DEF ActiveCall, Scope
    <3> QED BY <3>1, <3>2
  <2> QED BY <2>1, <2>2
<1>2. call[c].pc = "idle" /\ UNCHANGED <<now, use, lastUse>>
  BY DEF TakeMsg, TakeDest
<1>3. /\ call'[c] = r
      /\ \A d \in Client \ {c} : call'[d] = call[d]
      /\ call' \in [Client -> {Idle} \cup ActiveCall]
  BY <1>1 DEF TypeOK
<1>4. TypeOK'
  BY <1>2, <1>3 DEF TypeOK
<1>5. \A sc \in Scope : \A k, i : ~HeldAt(r, sc, k, i) /\ ~HeldAt(call[c], sc, k, i)
  BY <1>1, <1>2, WrappedType DEF HeldAt, HasPassed
<1>6. \A l \in Instance : l \notin Holds(c) /\ ~(l \in Holds(c))'
  BY <1>3, <1>5, InHolds, InInstance
<1>7. PermitsAccounted'
  BY <1>2, <1>3, <1>6, Balanced
<1>8. BucketsKept'
  <2>1. r.pc = "wait" => r.scope = "all"
    BY <1>1
  <2>2. \A sc \in Scope : \A k \in DOMAIN lastUse'[sc] : lastUse'[sc][k] \in 0..now'
    BY <1>2 DEF BucketsKept
  <2> QED BY <1>2, <1>3, <1>4, <1>5, <2>1, <2>2, BucketsStep
<1>9. CallsShaped'
  <2>1. \A sc \in Scope : 1 \in 1..(Len(Wrapped(sc)) + 1)
    BY WrappedType
  <2> QED BY <1>1, <1>3, <2>1 DEF CallsShaped, Configured, Scope
<1>10. PanicsNamed'
  <2>1. call'[c].pc \notin {"nilBucket", "nilRelease"}
    BY <1>1, <1>3
  <2> QED BY <1>2, <1>3, <2>1, PanicsStep
<1> QED BY <1>4, <1>7, <1>8, <1>9, <1>10

\* No bucket is ever stale, so none is reaped.
LEMMA NoneReaped ==
  ASSUME Accounted, NEW sc \in Scope
  PROVE  Stale(sc) = {} /\ DOMAIN Reaped(sc) = DOMAIN lastUse[sc]
         /\ \A k \in DOMAIN lastUse[sc] : Reaped(sc)[k] = lastUse[sc][k]
<1>1. Stale(sc) = {}
  BY LimitsAssumption DEF Accounted, TypeOK, BucketsKept, Stale
<1> QED BY <1>1 DEF Reaped

\* The buckets of what a call holds exist.
LEMMA BucketsHeld ==
  ASSUME Accounted, NEW c \in Client
  PROVE  \A s \in Scope : \A x, i : HeldAt(call[c], s, x, i) /\ s # "all" => x \in DOMAIN lastUse[s]
<1> SUFFICES ASSUME NEW s \in Scope, NEW x, NEW i, HeldAt(call[c], s, x, i), s # "all"
             PROVE  x \in DOMAIN lastUse[s]
  OBVIOUS
<1>1. <<s, x, i>> \in Holds(c)
  BY InHolds
<1> QED BY <1>1 DEF Accounted, BucketsKept

\* A call that is under way has the shape of one.
LEMMA UnderWay ==
  ASSUME Accounted, NEW c \in Client, call[c].pc # "idle"
  PROVE  call[c] \in ActiveCall /\ call[c] # Idle
BY DEF Accounted, TypeOK, Idle

\* Finding or making the bucket touches only limiters nobody holds.
LEMMA GetBucketStep ==
  ASSUME Accounted, NEW c \in Client, GetBucket(c)
  PROVE  Accounted'
<1> USE DEF Accounted
<1>1. PICK sc, k : sc = call[c].scope /\ k = KeyOf(c, sc)
  OBVIOUS
<1>2. /\ call[c] \in ActiveCall /\ call[c].pc = "bucket"
      /\ call[c].at = 1 /\ sc \in Scope /\ sc # "all" /\ k = KeyIn(call[c], sc)
      /\ k \in KeysOf(sc) /\ Configured(sc)
  <2>1. call[c] \in ActiveCall /\ call[c] # Idle /\ call[c].pc = "bucket"
    BY UnderWay DEF GetBucket
  <2>2. call[c].at = 1 /\ sc \in Scope /\ sc # "all" /\ k = KeyIn(call[c], sc)
    BY <1>1, <2>1, KeyOfIn DEF CallsShaped, ActiveCall
  <2>3. k \in KeysOf(sc) /\ Configured(sc)
    BY <1>1, <2>1, <2>2 DEF CallsShaped, ActiveCall, KeyIn, KeysOf, Scope
  <2> QED BY <2>1, <2>2, <2>3
<1>3. /\ lastUse' = [lastUse EXCEPT ![sc] = [x \in DOMAIN Reaped(sc) \cup {k} |->
                                               IF x = k THEN now ELSE Reaped(sc)[x]]]
      /\ use' = [l \in Instance |-> IF l[1] = sc /\ l[2] \notin DOMAIN Reaped(sc)
                                    THEN 0 ELSE use[l]]
      /\ call' = [call EXCEPT ![c] = [@ EXCEPT !.pc = "wait"]]
      /\ now' = now
  BY <1>1 DEF GetBucket
<1>4. /\ \A x \in DOMAIN lastUse[sc] \cup {k} :
           lastUse'[sc][x] = IF x = k THEN now ELSE lastUse[sc][x]
      /\ DOMAIN lastUse'[sc] = DOMAIN lastUse[sc] \cup {k}
      /\ \A s \in Scope \ {sc} : lastUse'[s] = lastUse[s]
      /\ DOMAIN lastUse' = Scope
  BY <1>2, <1>3, NoneReaped DEF TypeOK
<1>5. /\ call'[c] = [call[c] EXCEPT !.pc = "wait"]
      /\ \A d \in Client \ {c} : call'[d] = call[d]
      /\ call'[c] \in ActiveCall
      /\ call' \in [Client -> {Idle} \cup ActiveCall]
  BY <1>2, <1>3 DEF TypeOK, ActiveCall
<1>6. /\ call'[c].kind = call[c].kind /\ call'[c].ip = call[c].ip /\ call'[c].dom = call[c].dom
      /\ call'[c].scope = sc /\ call'[c].at = 1 /\ call'[c].pc = "wait"
  BY <1>1, <1>2, <1>5 DEF ActiveCall
<1>7. \A s \in Scope : \A x, i : HeldAt(call'[c], s, x, i) <=> HeldAt(call[c], s, x, i)
  BY <1>1, <1>2, <1>6, WrappedType DEF HeldAt, HasPassed, KeyIn
<1>8. \A l \in Instance : (l \in Holds(c))' <=> l \in Holds(c)
  BY <1>7, InHolds, InInstance
<1>9. \A l \in Instance : Semaphore(l) => use'[l] = use[l]
  <2> SUFFICES ASSUME NEW l \in Instance, Semaphore(l), l[1] = sc, l[2] \notin DOMAIN lastUse[sc]
               PROVE  use[l] = 0
    BY <1>2, <1>3, NoneReaped
  <2>1. \A d \in Client : l \notin Holds(d)
    BY <1>2 DEF BucketsKept
  <2>2. Holders(l) = {}
    BY <2>1 DEF Holders
  <2> QED BY <2>2, FS_EmptySet DEF PermitsAccounted, Semaphore
<1>10. TypeOK'
  <2>1. use' \in [Instance -> Nat] /\ \A l \in Instance : use'[l] <= LimiterOf(l).max
    BY <1>3, InInstance DEF TypeOK, Limiter
  <2>2. \A s \in Scope : DOMAIN lastUse'[s] \subseteq KeysOf(s)
    BY <1>2, <1>4 DEF TypeOK
  <2> QED BY <1>3, <1>4, <1>5, <2>1, <2>2 DEF TypeOK
<1>11. PermitsAccounted'
  BY <1>5, <1>8, <1>9, Balanced
<1>12. BucketsKept'
  <2>1. \A s \in Scope : DOMAIN lastUse[s] \subseteq DOMAIN lastUse'[s]
    BY <1>4
  <2>2. \A s \in Scope : \A x \in DOMAIN lastUse'[s] : lastUse'[s][x] \in 0..now'
    <3>1. now \in 0..now
      BY DEF TypeOK
    <3>2. \A s \in Scope : \A x \in DOMAIN lastUse[s] : lastUse[s][x] \in 0..now
      BY DEF BucketsKept
    <3>3. \A x \in DOMAIN lastUse'[sc] : lastUse'[sc][x] \in 0..now
      BY <1>2, <1>4, <3>1, <3>2
    <3>4. \A s \in Scope \ {sc} : \A x \in DOMAIN lastUse'[s] : lastUse'[s][x] \in 0..now
      BY <1>4, <3>2
    <3> QED BY <1>3, <3>3, <3>4
  <2>3. \A s \in Scope : \A x, i : HeldAt(call'[c], s, x, i) /\ s # "all" => x \in DOMAIN lastUse'[s]
    BY <1>7, <2>1, BucketsHeld
  <2>4. KeyIn(call'[c], call'[c].scope) \in DOMAIN lastUse'[call'[c].scope]
    BY <1>2, <1>4, <1>6 DEF KeyIn
  <2> QED BY <1>5, <1>10, <2>1, <2>2, <2>3, <2>4, BucketsStep
<1>13. CallsShaped'
  <2>1. call[c] # Idle
    BY <1>2 DEF Idle
  <2>2. /\ call[c].kind = "msg" => call[c].ip \in Ip /\ sc \in {"all", "ip", "source"}
        /\ call[c].kind = "dest" => sc = "dest"
        /\ call[c].at \in 1..(Len(Wrapped(sc)) + 1)
    BY <1>1, <2>1 DEF CallsShaped
  <2>3. \A d \in Client \ {c} : call'[d] = call[d]
    BY <1>5
  <2> QED BY <1>2, <1>6, <2>2, <2>3 DEF CallsShaped
<1>14. PanicsNamed'
  <2>1. call'[c].pc \notin {"nilBucket", "nilRelease"}
    BY <1>6
  <2>2. ~OverFull(lastUse[sc])
    BY <1>1, <1>2, NoneReaped DEF GetBucket, OverFull
  <2>3. \A s \in Scope : OverFull(lastUse[s]) => OverFull(lastUse'[s])
    BY <1>1, <2>2 DEF GetBucket, TypeOK
  <2> QED BY <1>5, <2>1, <2>3, PanicsStep
<1> QED BY <1>10, <1>11, <1>12, <1>13, <1>14

\* Without a bucket the call panics; the set of its scope is over full.
LEMMA NilBucketStep ==
  ASSUME Accounted, NEW c \in Client, NilBucket(c)
  PROVE  Accounted'
<1> USE DEF Accounted
<1>1. PICK sc : sc = call[c].scope
  OBVIOUS
<1>2. /\ call[c] \in ActiveCall /\ call[c] # Idle /\ call[c].pc = "bucket"
      /\ call[c].at = 1 /\ sc \in Scope /\ sc # "all"
  BY <1>1, UnderWay DEF NilBucket, CallsShaped, ActiveCall
<1>3. /\ lastUse' = [lastUse EXCEPT ![sc] = Reaped(sc)]
      /\ call' = [call EXCEPT ![c] = [@ EXCEPT !.pc = "nilBucket"]]
      /\ now' = now /\ use' = use
      /\ OverFull(Reaped(sc))
  BY <1>1 DEF NilBucket
<1>4. /\ DOMAIN lastUse' = Scope
      /\ \A s \in Scope : DOMAIN lastUse'[s] = DOMAIN lastUse[s]
      /\ \A s \in Scope : \A x \in DOMAIN lastUse'[s] : lastUse'[s][x] = lastUse[s][x]
  BY <1>2, <1>3, NoneReaped DEF TypeOK
<1>5. /\ call'[c] = [call[c] EXCEPT !.pc = "nilBucket"]
      /\ \A d \in Client \ {c} : call'[d] = call[d]
      /\ call' \in [Client -> {Idle} \cup ActiveCall]
  BY <1>2, <1>3 DEF TypeOK, ActiveCall
<1>6. /\ call'[c].kind = call[c].kind /\ call'[c].ip = call[c].ip /\ call'[c].dom = call[c].dom
      /\ call'[c].scope = sc /\ call'[c].at = 1 /\ call'[c].pc = "nilBucket"
  BY <1>1, <1>2, <1>5 DEF ActiveCall
<1>7. \A s \in Scope : \A x, i : HeldAt(call'[c], s, x, i) <=> HeldAt(call[c], s, x, i)
  BY <1>1, <1>2, <1>6 DEF HeldAt, HasPassed, KeyIn
<1>8. \A l \in Instance : (l \in Holds(c))' <=> l \in Holds(c)
  BY <1>7, InHolds, InInstance
<1>10. TypeOK'
  BY <1>3, <1>4, <1>5 DEF TypeOK
<1>11. PermitsAccounted'
  BY <1>3, <1>5, <1>8, Balanced
<1>12. BucketsKept'
  <2>1. \A s \in Scope : DOMAIN lastUse[s] \subseteq DOMAIN lastUse'[s]
    BY <1>4
  <2>2. \A s \in Scope : \A x \in DOMAIN lastUse'[s] : lastUse'[s][x] \in 0..now'
    BY <1>3, <1>4 DEF BucketsKept, TypeOK
  <2>3. \A s \in Scope : \A x, i : HeldAt(call'[c], s, x, i) /\ s # "all" => x \in DOMAIN lastUse'[s]
    BY <1>7, <2>1, BucketsHeld
  <2> QED BY <1>5, <1>6, <1>10, <2>1, <2>2, <2>3, BucketsStep
<1>13. CallsShaped'
  <2>1. /\ call[c].kind = "msg" => call[c].ip \in Ip /\ sc \in {"all", "ip", "source"}
        /\ call[c].kind = "dest" => sc = "dest"
        /\ call[c].at \in 1..(Len(Wrapped(sc)) + 1)
        /\ Configured(sc)
    BY <1>1, <1>2 DEF CallsShaped
  <2>2. \A d \in Client \ {c} : call'[d] = call[d]
    BY <1>5
  <2> QED BY <1>2, <1>6, <2>1, <2>2 DEF CallsShaped
<1>14. PanicsNamed'
  <2>1. \A s \in Scope : OverFull(lastUse[s]) => OverFull(lastUse'[s])
    BY <1>4 DEF OverFull
  <2>2. OverFull(lastUse'[sc])
    BY <1>2, <1>3 DEF TypeOK
  <2>3. ASSUME NEW d \in Client \ {c}, call[d].pc \in {"nilBucket", "nilRelease"}
        PROVE  call[d].scope \in Scope
    BY <2>3 DEF TypeOK, Idle, ActiveCall
  <2> QED BY <1>5, <1>6, <2>1, <2>2, <2>3 DEF PanicsNamed
<1> QED BY <1>10, <1>11, <1>12, <1>13, <1>14

\* A limiter is taken: it is c's from now on.
LEMMA TakeStep ==
  ASSUME Accounted, NEW c \in Client, call[c].pc = "wait",
         call[c].at \in DOMAIN Wrapped(call[c].scope),
         Available(<<call[c].scope, KeyOf(c, call[c].scope), call[c].at>>),
         Take(<<call[c].scope, KeyOf(c, call[c].scope), call[c].at>>),
         call' = [call EXCEPT ![c].at = @ + 1],
         UNCHANGED <<now, lastUse>>
  PROVE  Accounted'
<1> USE DEF Accounted
<1>1. PICK sc, k, a, m :
        /\ sc = call[c].scope /\ k = KeyOf(c, sc) /\ a = call[c].at
        /\ m = <<sc, k, a>>
  OBVIOUS
<1>2. /\ call[c] \in ActiveCall /\ call[c] # Idle
      /\ sc \in Scope /\ Configured(sc) /\ a \in DOMAIN Wrapped(sc)
      /\ k = KeyIn(call[c], sc) /\ k \in KeysOf(sc)
  <2>1. call[c] \in ActiveCall /\ call[c] # Idle
    BY UnderWay
  <2>2. sc \in Scope /\ Configured(sc) /\ a \in DOMAIN Wrapped(sc) /\ k = KeyIn(call[c], sc)
    BY <1>1, <2>1, KeyOfIn DEF CallsShaped, ActiveCall
  <2>3. k \in KeysOf(sc)
    BY <1>1, <2>1, <2>2 DEF CallsShaped, ActiveCall, KeyIn, KeysOf, Scope
  <2> QED BY <2>1, <2>2, <2>3
<1>3. Wrapped(sc) \in Seq(Limiter) /\ a \in 1..Len(Wrapped(sc))
  BY <1>2, WrappedType
<1>4. m \in Instance /\ LimiterOf(m) \in Limiter
  BY <1>1, <1>2, InInstance
<1>5. /\ call'[c] = [call[c] EXCEPT !.at = a + 1]
      /\ \A d \in Client \ {c} : call'[d] = call[d]
      /\ call' \in [Client -> {Idle} \cup ActiveCall]
  <2>1. [call[c] EXCEPT !.at = a + 1] \in ActiveCall
    BY <1>2, <1>3 DEF ActiveCall
  <2>2. call' = [call EXCEPT ![c] = [call[c] EXCEPT !.at = a + 1]]
    BY <1>1
  <2> QED BY <2>1, <2>2 DEF TypeOK
<1>6. /\ call'[c].kind = call[c].kind /\ call'[c].ip = call[c].ip /\ call'[c].dom = call[c].dom
      /\ call'[c].scope = sc /\ call'[c].at = a + 1 /\ call'[c].pc = "wait"
      /\ call[c].scope = sc /\ call[c].at = a /\ call[c].pc = "wait"
  BY <1>1, <1>2, <1>5 DEF ActiveCall
<1>7. \A s \in Scope : \A x, i :
        HeldAt(call'[c], s, x, i) <=> HeldAt(call[c], s, x, i) \/ (s = sc /\ x = k /\ i = a)
  <2> SUFFICES ASSUME NEW s \in Scope, NEW x, NEW i
               PROVE  HeldAt(call'[c], s, x, i) <=>
                        HeldAt(call[c], s, x, i) \/ (s = sc /\ x = k /\ i = a)
    OBVIOUS
  <2>1. KeyIn(call'[c], s) = KeyIn(call[c], s) /\ (HasPassed(call'[c], s) <=> HasPassed(call[c], s))
    BY <1>6 DEF KeyIn, HasPassed
  <2>2. i \in DOMAIN Wrapped(sc) => (i < a + 1 <=> i < a \/ i = a)
    BY <1>3
  <2> QED BY <1>2, <1>6, <2>1, <2>2 DEF HeldAt
<1>8. ~HeldAt(call[c], sc, k, a)
  BY <1>3, <1>6 DEF HeldAt, HasPassed
<1>9. \A l \in Instance : /\ (l \in Holds(c))' <=> l \in Holds(c) \/ l = m
                          /\ m \notin Holds(c)
  BY <1>1, <1>2, <1>7, <1>8, InHolds, InInstance
<1>10. /\ use' \in [Instance -> Nat]
       /\ \A l \in Instance : use'[l] <= LimiterOf(l).max
       /\ \A l \in Instance : Semaphore(l) => use'[l] = IF l = m THEN use[l] + 1 ELSE use[l]
  <2>1. /\ LimiterOf(m).max \in Nat /\ use[m] \in Nat
        /\ use \in [Instance -> Nat] /\ \A l \in Instance : use[l] <= LimiterOf(l).max
    BY <1>4 DEF TypeOK, Limiter
  <2>2. LimiterOf(m).max = 0 \/ use[m] < LimiterOf(m).max
    BY <1>1 DEF Available
  <2>3. use' = IF LimiterOf(m).max = 0 THEN use ELSE [use EXCEPT ![m] = @ + 1]
    BY <1>1 DEF Take
  <2>4. CASE LimiterOf(m).max = 0
    BY <2>1, <2>3, <2>4 DEF Semaphore
  <2>5. CASE LimiterOf(m).max # 0
    BY <1>4, <2>1, <2>2, <2>3, <2>5 DEF Semaphore
  <2> QED BY <2>4, <2>5
<1>11. TypeOK'
  BY <1>5, <1>10 DEF TypeOK
<1>12. PermitsAccounted'
  BY <1>5, <1>9, <1>10, Balanced
<1>13. BucketsKept'
  <2>1. \A s \in Scope : \A x \in DOMAIN lastUse'[s] : lastUse'[s][x] \in 0..now'
    BY DEF BucketsKept
  <2>2. sc # "all" => k \in DOMAIN lastUse[sc]
    BY <1>1, <1>6 DEF BucketsKept
  <2>3. \A s \in Scope : \A x, i : HeldAt(call'[c], s, x, i) /\ s # "all" => x \in DOMAIN lastUse'[s]
    BY <1>7, <2>2, BucketsHeld
  <2>4. sc # "all" => KeyIn(call'[c], call'[c].scope) \in DOMAIN lastUse'[call'[c].scope]
    BY <1>2, <1>6, <2>2 DEF KeyIn
  <2> QED BY <1>5, <1>6, <1>11, <2>1, <2>3, <2>4, BucketsStep
<1>14. CallsShaped'
  <2>1. /\ call[c].kind = "msg" => call[c].ip \in Ip /\ sc \in {"all", "ip", "source"}
        /\ call[c].kind = "dest" => sc = "dest"
    BY <1>1, <1>2 DEF CallsShaped
  <2>2. a + 1 \in 1..(Len(Wrapped(sc)) + 1)
    BY <1>3
  <2>3. \A d \in Client \ {c} : call'[d] = call[d]
    BY <1>5
  <2> QED BY <1>2, <1>6, <2>1, <2>2, <2>3 DEF CallsShaped
<1>15. PanicsNamed'
  <2>1. call'[c].pc \notin {"nilBucket", "nilRelease"}
    BY <1>6
  <2> QED BY <1>5, <2>1, PanicsStep
<1> QED BY <1>11, <1>12, <1>13, <1>14, <1>15

\* Past the last limiter of a scope, what was taken there is the whole scope.
LEMMA ScopeDoneStep ==
  ASSUME Accounted, NEW c \in Client, call[c].pc = "wait",
         call[c].at > Len(Wrapped(call[c].scope)),
         GoTo(c, After(call[c].kind, call[c].scope)),
         UNCHANGED <<now, use, lastUse>>
  PROVE  Accounted'
<1> USE DEF Accounted
<1>1. PICK sc, p : sc = call[c].scope /\ p = After(call[c].kind, sc)
  OBVIOUS
<1>2. /\ call[c] \in ActiveCall /\ call[c] # Idle
      /\ sc \in Scope /\ Configured(sc) /\ call[c].at > Len(Wrapped(sc))
      /\ call[c].kind \in {"msg", "dest"}
      /\ call[c].kind = "msg" => call[c].ip \in Ip /\ sc \in {"all", "ip", "source"}
      /\ call[c].kind = "dest" => sc = "dest"
  BY <1>1, UnderWay DEF CallsShaped, ActiveCall
<1>3. /\ p.scope \in Scope /\ p.at = 1
      /\ \/ /\ call[c].kind = "msg" /\ sc = "all" /\ Configured("ip")
            /\ p.scope = "ip" /\ p.pc = "bucket"
         \/ /\ call[c].kind = "msg" /\ Configured("source")
            /\ sc = "ip" \/ (sc = "all" /\ ~Configured("ip"))
            /\ p.scope = "source" /\ p.pc = "bucket"
         \/ /\ p.scope = sc /\ p.pc = "held"
            /\ call[c].kind = "msg" /\ sc = "all" => ~Configured("ip") /\ ~Configured("source")
            /\ call[c].kind = "msg" /\ sc = "ip" => ~Configured("source")
  <2>1. CASE call[c].kind = "msg" /\ sc = "all" /\ Configured("ip")
    <3>1. p = EnterScope("ip")
      BY <1>1, <2>1 DEF After
    <3> QED BY <2>1, <3>1 DEF EnterScope, Scope
  <2>2. CASE /\ call[c].kind = "msg" /\ sc \in {"all", "ip"} /\ Configured("source")
             /\ sc = "all" => ~Configured("ip")
    <3>1. p = EnterScope("source")
      BY <1>1, <2>2 DEF After
    <3> QED BY <2>2, <3>1 DEF EnterScope, Scope
  <2>3. CASE \/ call[c].kind = "dest" \/ sc = "source"
             \/ ~Configured("source") /\ (sc = "all" => ~Configured("ip"))
    <3>1. p = [pc |-> "held", scope |-> sc, at |-> 1]
      BY <1>1, <1>2, <2>3 DEF After
    <3> QED BY <1>2, <2>3, <3>1
  <2> QED BY <1>2, <2>1, <2>2, <2>3
<1>4. /\ call'[c] = [kind |-> call[c].kind, ip |-> call[c].ip, dom |-> call[c].dom,
                     pc |-> p.pc, scope |-> p.scope, at |-> p.at]
      /\ \A d \in Client \ {c} : call'[d] = call[d]
      /\ DOMAIN call' = Client
      /\ call' = [d \in Client |-> call'[d]]
  BY <1>1 DEF GoTo, TypeOK
<1>5. call' \in [Client -> {Idle} \cup ActiveCall]
  <2>1. call'[c] \in ActiveCall
    BY <1>2, <1>3, <1>4 DEF ActiveCall
  <2> QED BY <1>4, <2>1 DEF TypeOK
<1>6. /\ call'[c].kind = call[c].kind /\ call'[c].ip = call[c].ip /\ call'[c].dom = call[c].dom
      /\ call'[c].scope = p.scope /\ call'[c].at = 1 /\ call'[c].pc = p.pc
      /\ call[c].scope = sc /\ call[c].pc = "wait"
  BY <1>1, <1>3, <1>4
<1>7. \A s \in Scope : \A x, i : HeldAt(call'[c], s, x, i) <=> HeldAt(call[c], s, x, i)
  <2> SUFFICES ASSUME NEW s \in Scope, NEW x, NEW i
               PROVE  HeldAt(call'[c], s, x, i) <=> HeldAt(call[c], s, x, i)
    OBVIOUS
  <2>1. KeyIn(call'[c], s) = KeyIn(call[c], s)
    BY <1>6 DEF KeyIn
  <2>2. i \in DOMAIN Wrapped(s) => (s = sc => i < call[c].at) /\ ~(i < 1)
    BY <1>2, WrappedType DEF ActiveCall
  <2>3. HasPassed(call'[c], s) <=> HasPassed(call[c], s) \/ s = sc
    BY <1>2, <1>3, <1>6 DEF HasPassed, Scope
  <2> QED BY <1>6, <2>1, <2>2, <2>3 DEF HeldAt
<1>8. \A l \in Instance : (l \in Holds(c))' <=> l \in Holds(c)
  BY <1>7, InHolds, InInstance
<1>9. TypeOK'
  BY <1>5 DEF TypeOK
<1>10. PermitsAccounted'
  BY <1>4, <1>8, Balanced
<1>11. BucketsKept'
  <2>1. \A s \in Scope : \A x \in DOMAIN lastUse'[s] : lastUse'[s][x] \in 0..now'
    BY DEF BucketsKept
  <2>2. \A s \in Scope : \A x, i : HeldAt(call'[c], s, x, i) /\ s # "all" => x \in DOMAIN lastUse'[s]
    BY <1>7, BucketsHeld
  <2>3. call'[c].pc # "wait"
    BY <1>3, <1>6
  <2> QED BY <1>4, <1>9, <2>1, <2>2, <2>3, BucketsStep
<1>12. CallsShaped'
  <2>1. \A s \in Scope : 1 \in 1..(Len(Wrapped(s)) + 1)
    BY WrappedType
  <2>2. /\ call'[c].kind = "msg" => call'[c].ip \in Ip /\ call'[c].scope \in {"all", "ip", "source"}
        /\ call'[c].kind = "dest" => call'[c].scope = "dest"
        /\ call'[c].pc \in {"bucket", "nilBucket"} => call'[c].scope # "all"
        /\ call'[c].pc # "held" => Configured(call'[c].scope)
    BY <1>2, <1>3, <1>6
  <2>3. call'[c].at = 1 /\ call'[c].at \in 1..(Len(Wrapped(call'[c].scope)) + 1)
    BY <1>3, <1>6, <2>1
  <2> QED BY <1>4, <2>2, <2>3 DEF CallsShaped
<1>13. PanicsNamed'
  <2>1. call'[c].pc \notin {"nilBucket", "nilRelease"}
    BY <1>3, <1>6
  <2> QED BY <1>4, <2>1, PanicsStep
<1> QED BY <1>9, <1>10, <1>11, <1>12, <1>13

\* A deadline gives back exactly what the call holds.
LEMMA DeadlineStep ==
  ASSUME Accounted, NEW c \in Client, Deadline(c)
  PROVE  Accounted'
<1> USE DEF Accounted
<1>1. PICK sc, L : sc = call[c].scope /\ L = TakenHere(c) \cup EarlierScopes(c)
  OBVIOUS
<1>2. /\ call[c] \in ActiveCall /\ call[c] # Idle /\ call[c].pc = "wait"
      /\ sc \in Scope /\ Configured(sc) /\ use' = Released(L)
      /\ now' = now /\ lastUse' = lastUse
      /\ call[c].kind = "msg" => sc \in {"all", "ip", "source"}
      /\ call[c].kind = "dest" => sc = "dest"
  BY <1>1, UnderWay DEF Deadline, CallsShaped, ActiveCall
<1>3. ASSUME NEW s \in Scope, NEW x, NEW i
      PROVE  <<s, x, i>> \in L <=> HeldAt(call[c], s, x, i)
  <2>1. \A t : <<s, x, i>> \in All(c, t) <=>
               t = s /\ x = KeyIn(call[c], s) /\ i \in DOMAIN Wrapped(s)
    BY InAll, KeyOfIn
  <2>2. <<s, x, i>> \in TakenHere(c) <=> <<s, x, i>> \in All(c, sc) /\ i < call[c].at
    BY <1>1 DEF TakenHere
  <2>3. <<s, x, i>> \in EarlierScopes(c) <=>
           \/ sc \in {"ip", "source"} /\ <<s, x, i>> \in All(c, "all")
           \/ sc = "source" /\ <<s, x, i>> \in All(c, "ip")
    BY <1>1, <1>2 DEF EarlierScopes, Scope
  <2>4. s \in {"all", "ip"} /\ i \in DOMAIN Wrapped(s) => Configured(s)
    BY WrappedType
  <2> QED BY <1>1, <1>2, <2>1, <2>2, <2>3, <2>4 DEF HeldAt, HasPassed
<1>4. \A l \in Instance : l \in L <=> l \in Holds(c)
  BY <1>3, InHolds, InInstance
<1>5. PICK r : /\ call' = [call EXCEPT ![c] = r]
               /\ \/ r = Idle
                  \/ /\ r \in ActiveCall /\ r.kind = call[c].kind /\ r.ip = call[c].ip
                     /\ r.scope = "source" /\ sc = "source" /\ r.at = call[c].at
                     /\ r.pc = "nilRelease" /\ ~Configured("ip")
  <2>1. [call[c] EXCEPT !.pc = "nilRelease"] \in ActiveCall
    BY <1>2 DEF ActiveCall
  <2>2. CASE sc = "source" /\ ~Configured("ip")
    <3>1. call' = [call EXCEPT ![c] = [call[c] EXCEPT !.pc = "nilRelease"]]
      BY <1>1, <2>2 DEF Deadline
    <3>2. PICK r : r = [call[c] EXCEPT !.pc = "nilRelease"]
      OBVIOUS
    <3>3. /\ r.kind = call[c].kind /\ r.ip = call[c].ip /\ r.scope = call[c].scope
          /\ r.at = call[c].at /\ r.pc = "nilRelease"
      BY <1>2, <3>2 DEF ActiveCall
    <3> QED BY <1>1, <2>1, <2>2, <3>1, <3>2, <3>3
  <2>3. CASE ~(sc = "source" /\ ~Configured("ip"))
    BY <1>1, <2>3 DEF Deadline
  <2> QED BY <2>2, <2>3
<1> QED BY <1>1, <1>2, <1>4, <1>5, AllGivenBack

\* ReleaseMsg and ReleaseDest give back exactly what the message holds.
LEMMA ReleaseStep ==
  ASSUME Accounted, NEW c \in Client, ReleaseMsg(c) \/ ReleaseDest(c)
  PROVE  Accounted'
<1> USE DEF Accounted
<1>1. /\ call[c] \in ActiveCall /\ call[c].pc = "held"
      /\ call' = [call EXCEPT ![c] = Idle] /\ now' = now /\ lastUse' = lastUse
  BY UnderWay DEF ReleaseMsg, ReleaseDest
<1>2. \A s \in Scope : \A t, x, i :
         <<s, x, i>> \in All(c, t) <=> t = s /\ x = KeyIn(call[c], s) /\ i \in DOMAIN Wrapped(s)
  BY InAll, KeyOfIn
<1>3. CASE ReleaseMsg(c)
  <2>1. PICK L : /\ use' = Released(L)
                 /\ L = All(c, "all") \cup (IF Configured("ip") THEN All(c, "ip") ELSE {})
                           \cup (IF Configured("source") THEN All(c, "source") ELSE {})
    BY <1>3 DEF ReleaseMsg
  <2>2. ASSUME NEW s \in Scope, NEW x, NEW i
        PROVE  <<s, x, i>> \in L <=> HeldAt(call[c], s, x, i)
    <3>1. <<s, x, i>> \in L <=>
             \/ <<s, x, i>> \in All(c, "all")
             \/ Configured("ip") /\ <<s, x, i>> \in All(c, "ip")
             \/ Configured("source") /\ <<s, x, i>> \in All(c, "source")
      BY <2>1
    <3>2. HasPassed(call[c], s) <=> Configured(s) /\ s # "dest"
      BY <1>1, <1>3 DEF ReleaseMsg, HasPassed
    <3>3. Configured("all")
      BY DEF Configured
    <3> QED BY <1>1, <1>2, <3>1, <3>2, <3>3 DEF HeldAt, Scope
  <2>3. \A l \in Instance : l \in L <=> l \in Holds(c)
    BY <2>2, InHolds, InInstance
  <2> QED BY <1>1, <2>1, <2>3, AllGivenBack
<1>4. CASE ReleaseDest(c)
  <2>1. PICK L : L = IF Configured("dest") THEN All(c, "dest") ELSE {}
    OBVIOUS
  <2>2. use' = Released(L)
    <3>1. Released({}) = use
      BY DEF Released, TypeOK
    <3> QED BY <1>4, <2>1, <3>1 DEF ReleaseDest
  <2>3. ASSUME NEW s \in Scope, NEW x, NEW i
        PROVE  <<s, x, i>> \in L <=> HeldAt(call[c], s, x, i)
    <3>1. HasPassed(call[c], s) <=> Configured(s) /\ s = "dest"
      BY <1>1, <1>4 DEF ReleaseDest, HasPassed
    <3> QED BY <1>1, <1>2, <2>1, <3>1 DEF HeldAt, Scope
  <2>4. \A l \in Instance : l \in L <=> l \in Holds(c)
    BY <2>3, InHolds, InInstance
  <2> QED BY <1>1, <2>2, <2>4, AllGivenBack
<1> QED BY <1>3, <1>4

\* Refilling a rate limiter and the clock touch no permit.
LEMMA QuietStep ==
  ASSUME Accounted, Tick \/ (\E l \in Instance : Fill(l)) \/ UNCHANGED vars
  PROVE  Accounted'
<1> USE DEF Accounted
<1>1. /\ call' = call /\ lastUse' = lastUse
      /\ now' \in 0..MaxTime /\ now' >= now
      /\ use' \in [Instance -> Nat]
      /\ \A l \in Instance : use'[l] = use[l] \/ (use'[l] = 0 /\ LimiterOf(l).kind = "rate")
  <2>1. now \in 0..MaxTime /\ use \in [Instance -> Nat]
    BY DEF TypeOK
  <2>2. CASE Tick
    BY <2>1, <2>2, LimitsAssumption DEF Tick
  <2>3. CASE \E l \in Instance : Fill(l)
    <3>1. PICK m \in Instance : Fill(m)
      BY <2>3
    <3>2. /\ call' = call /\ lastUse' = lastUse /\ now' = now
          /\ use' = [use EXCEPT ![m] = 0] /\ LimiterOf(m).kind = "rate"
      BY <3>1 DEF Fill
    <3> QED BY <2>1, <3>2, LimitsAssumption
  <2>4. CASE UNCHANGED vars
    BY <2>1, <2>4, LimitsAssumption DEF vars
  <2> QED BY <2>2, <2>3, <2>4
<1>2. TypeOK'
  BY <1>1, InInstance DEF TypeOK, Limiter
<1>3. \A c, s : KeyOf(c, s)' = KeyOf(c, s)
  BY <1>1 DEF KeyOf
<1>4. \A c, s : All(c, s)' = All(c, s)
  BY <1>3 DEF All
<1>5. \A l : Holders(l)' = Holders(l)
  BY <1>1 DEF Holders, Holds, PassedScopes, TakenHere, All, KeyOf
<1>6. \A c \in Client : Holds(c)' = Holds(c)
  BY <1>1 DEF Holds, PassedScopes, TakenHere, All, KeyOf
<1>7. CallsShaped'
  BY <1>1 DEF CallsShaped
<1>8. BucketsKept'
  <2>1. \A s \in Scope : \A k \in DOMAIN lastUse'[s] : lastUse'[s][k] \in 0..now'
    BY <1>1 DEF BucketsKept, TypeOK
  <2>2. \A c : (KeyOf(c, call[c].scope))' = KeyOf(c, call[c].scope)
    BY <1>1 DEF KeyOf
  <2> QED BY <1>1, <1>6, <2>1, <2>2 DEF BucketsKept
<1>9. PermitsAccounted'
  BY <1>1, <1>5 DEF PermitsAccounted
<1>10. PanicsNamed'
  BY <1>1 DEF PanicsNamed
<1> QED BY <1>2, <1>7, <1>8, <1>9, <1>10

-----------------------------------------------------------------------------
(* The theorem.                                                            *)

LEMMA LimitsInit == Init => Accounted
<1> SUFFICES ASSUME Init PROVE Accounted
  OBVIOUS
<1>1. TypeOK
  BY LimitsAssumption, InInstance DEF Init, TypeOK, Limiter
<1>2. \A c \in Client : call[c] = Idle
  BY DEF Init
<1>3. \A c \in Client : \A l : l \notin Holds(c)
  BY <1>2 DEF Holds, PassedScopes, Idle
<1>4. \A l : Holders(l) = {}
  BY <1>3 DEF Holders
<1>5. CallsShaped
  BY <1>2 DEF CallsShaped
<1>6. BucketsKept
  BY <1>2, <1>3 DEF BucketsKept, Init, Idle
<1>7. PermitsAccounted
  BY <1>4, FS_EmptySet DEF PermitsAccounted, Init
<1>8. PanicsNamed
  BY <1>2 DEF PanicsNamed, Idle
<1> QED BY <1>1, <1>5, <1>6, <1>7, <1>8 DEF Accounted

LEMMA LimitsNext ==
  ASSUME Accounted, [Next]_vars
  PROVE  Accounted'
<1>1. ASSUME NEW c \in Client, TakeContext(c)
      PROVE  Accounted'
  <2>1. call[c].pc = "wait" /\ UNCHANGED <<now, lastUse>>
    BY <1>1 DEF TakeContext
  <2>2. CASE call[c].at > Len(Wrapped(call[c].scope)) /\ GoTo(c, After(call[c].kind, call[c].scope))
               /\ UNCHANGED use
    BY <2>1, <2>2, ScopeDoneStep
  <2>3. CASE /\ call[c].at \in DOMAIN Wrapped(call[c].scope)
             /\ Available(<<call[c].scope, KeyOf(c, call[c].scope), call[c].at>>)
             /\ Take(<<call[c].scope, KeyOf(c, call[c].scope), call[c].at>>)
             /\ call' = [call EXCEPT ![c].at = @ + 1]
    BY <2>1, <2>3, TakeStep
  <2> QED BY <1>1, <2>2, <2>3 DEF TakeContext
<1> QED
  BY <1>1, CallStep, GetBucketStep, NilBucketStep, DeadlineStep, ReleaseStep, QuietStep
     DEF Next, ClientStep

\* Every permit of a semaphore in use belongs to exactly one caller that took it,
\* in every order of takes, deadlines, releases and refills, and for every
\* configuration of the four scopes: TakeMsg and TakeDest leak nothing on their
\* error paths (limits.go), no bucket in use is forgotten by BucketSet.take, and a
\* call panics only on a set with more than MaxBuckets keys (and loses what it had
\* taken) or in the rollback of the source scope without IP limits.
THEOREM LimitsAccounted == Spec => []Accounted
<1>1. Init => Accounted
  BY LimitsInit
<1>2. Accounted /\ [Next]_vars => Accounted'
  BY LimitsNext
<1> QED BY <1>1, <1>2, PTL DEF Spec

-----------------------------------------------------------------------------
(* Checks: what an answer may be *)

Cause == Directive \cup {"", "internal", "panic", "soft reject", "reject", "quarantine", "reject and quarantine"}
Command == {"conn", "helo", "mail", "rcpt", "header", "end"}
Refusal == {"internal", "soft reject", "reject"}
Marking == {"quarantine", "reject and quarantine"}
AnswerShape == [res : CheckResult, cause : Cause, skip : BOOLEAN, sent : Seq(Command), deferred : BOOLEAN]

\* An answer whose result follows the directive it names.
Sound(cf, a) ==
  /\ a \in AnswerShape
  /\ a.res.reject => a.res.reason # ""
  /\ a.cause \in Directive /\ ~a.deferred =>
       (a.res.reject <=> cf.act[a.cause].reject) /\ (a.res.quarantine <=> cf.act[a.cause].quarantine)
  /\ a.cause \in Refusal => a.res.reject /\ ~a.res.quarantine
  /\ a.cause \in Marking => a.res.quarantine

\* An answer without results for DMARC, commands for a milter or a delay.
Simple(a) == a.res.auth = <<>> /\ a.sent = <<>> /\ ~a.skip /\ ~a.deferred

\* An answer that says nothing, one that refuses, and one that names a directive.
Quiet(a)   == a.cause = "" /\ ~a.res.reject /\ ~a.res.quarantine
Refuses(a) == a.res.reject /\ ~a.res.quarantine
Names(d, a) == a.cause = d

\* Directives, refusals and the other causes are different words.
LEMMA CausesApart ==
  /\ Directive \cup Refusal \cup Marking \subseteq Cause
  /\ Directive \cap Refusal = {} /\ Directive \cap Marking = {} /\ Refusal \cap Marking = {}
  /\ {"", "panic", "deferred"} \cap (Directive \cup Refusal \cup Marking) = {}
  BY DEF Directive, Cause, Refusal, Marking

\* The fields of an answer, of a result, and of either with one field changed.
LEMMA AnswerMade ==
  ASSUME NEW r \in CheckResult, NEW c \in Cause
  PROVE  LET a == Answer(r, c)
         IN a \in AnswerShape /\ a.res = r /\ a.cause = c /\ ~a.skip /\ a.sent = <<>> /\ ~a.deferred
  BY DEF AnswerShape, Answer

LEMMA SaysMade ==
  ASSUME NEW r \in Reason
  PROVE  LET s == Says(r)
         IN s \in CheckResult /\ s.reason = r /\ ~s.reject /\ ~s.quarantine /\ s.auth = <<>>
  BY DEF Says, CheckResult

LEMMA RejectMade ==
  ASSUME NEW s \in CheckResult
  PROVE  LET t == [s EXCEPT !.reject = TRUE]
         IN t \in CheckResult /\ t.reason = s.reason /\ t.reject /\ t.quarantine = s.quarantine /\ t.auth = s.auth
  BY DEF CheckResult

LEMMA RejectsMade ==
  ASSUME NEW r \in Reason
  PROVE  LET s == Rejects(r)
         IN s \in CheckResult /\ s.reason = r /\ s.reject /\ ~s.quarantine /\ s.auth = <<>>
<1> DEFINE s == Says(r)
<1>1. s \in CheckResult /\ s.reason = r /\ ~s.reject /\ ~s.quarantine /\ s.auth = <<>>
  BY SaysMade
<1>2. Rejects(r) = [s EXCEPT !.reject = TRUE]
  BY DEF Rejects
<1> HIDE DEF s
<1> QED
  BY <1>1, <1>2, RejectMade

LEMMA SkipMade ==
  ASSUME NEW a \in AnswerShape
  PROVE  LET b == [a EXCEPT !.skip = TRUE]
         IN /\ b \in AnswerShape /\ b.res = a.res /\ b.cause = a.cause /\ b.skip
            /\ b.sent = a.sent /\ b.deferred = a.deferred
  BY DEF AnswerShape

LEMMA SentMade ==
  ASSUME NEW a \in AnswerShape, NEW s \in Seq(Command)
  PROVE  LET b == [a EXCEPT !.sent = s]
         IN /\ b \in AnswerShape /\ b.res = a.res /\ b.cause = a.cause /\ b.skip = a.skip
            /\ b.sent = s /\ b.deferred = a.deferred
  BY DEF AnswerShape

LEMMA AuthMade ==
  ASSUME NEW a \in AnswerShape, NEW s \in Seq(AuthResult)
  PROVE  LET b == [a EXCEPT !.res.auth = s]
         IN /\ b \in AnswerShape /\ b.cause = a.cause /\ b.skip = a.skip /\ b.sent = a.sent
            /\ b.deferred = a.deferred /\ b.res.reason = a.res.reason /\ b.res.reject = a.res.reject
            /\ b.res.quarantine = a.res.quarantine /\ b.res.auth = s
  BY DEF AnswerShape, CheckResult

LEMMA LeftMade ==
  ASSUME NEW a \in AnswerShape
  PROVE  LET b == [a EXCEPT !.res.reject = FALSE, !.res.quarantine = FALSE, !.deferred = TRUE]
         IN /\ b \in AnswerShape /\ b.cause = a.cause /\ b.skip = a.skip /\ b.sent = a.sent /\ b.deferred
            /\ b.res.reason = a.res.reason /\ ~b.res.reject /\ ~b.res.quarantine /\ b.res.auth = a.res.auth
  BY DEF AnswerShape, CheckResult

\* Nothing, an error of the check itself, a refusal of its own, and a configured action.

LEMMA NothingSound ==
  ASSUME NEW cf
  PROVE  Sound(cf, Nothing) /\ Simple(Nothing) /\ Quiet(Nothing)
<1>1. "" \in Cause /\ "" \notin Directive /\ "" \notin Refusal /\ "" \notin Marking /\ "" \in Reason
  BY CausesApart DEF Cause, Reason
<1> DEFINE s == Says("")
           a == Answer(s, "")
<1>2. s \in CheckResult /\ s.reason = "" /\ ~s.reject /\ ~s.quarantine /\ s.auth = <<>>
  BY <1>1, SaysMade
<1> HIDE DEF s
<1>3. a \in AnswerShape /\ a.res = s /\ a.cause = "" /\ ~a.skip /\ a.sent = <<>> /\ ~a.deferred
  BY <1>1, <1>2, AnswerMade
<1> HIDE DEF a
<1>4. Sound(cf, a) /\ Simple(a) /\ a.cause = "" /\ (a.res.reject <=> s.reject) /\ (a.res.quarantine <=> s.quarantine)
  BY <1>1, <1>2, <1>3 DEF Sound, Simple
<1> QED
  BY <1>2, <1>4 DEF a, s, Nothing, Clean, Quiet

\* A refusal of the check's own.
LEMMA RefusalSound ==
  ASSUME NEW cf, NEW r \in {"temp", "perm"}, NEW c \in Refusal
  PROVE  /\ Sound(cf, Answer(Rejects(r), c)) /\ Simple(Answer(Rejects(r), c))
         /\ Names(c, Answer(Rejects(r), c)) /\ Refuses(Answer(Rejects(r), c))
<1>1. c \in Cause /\ c \notin Directive /\ c \notin Marking /\ r \in Reason /\ r # ""
  BY CausesApart DEF Cause, Reason
<1> DEFINE s == Rejects(r)
           a == Answer(s, c)
<1>2. s \in CheckResult /\ s.reason = r /\ s.reject /\ ~s.quarantine /\ s.auth = <<>>
  BY <1>1, RejectsMade
<1> HIDE DEF s
<1>3. a \in AnswerShape /\ a.res = s /\ a.cause = c /\ ~a.skip /\ a.sent = <<>> /\ ~a.deferred
  BY <1>1, <1>2, AnswerMade
<1> HIDE DEF a
<1>4. Sound(cf, a) /\ Simple(a) /\ a.cause = c /\ (a.res.reject <=> s.reject) /\ (a.res.quarantine <=> s.quarantine)
  BY <1>1, <1>2, <1>3 DEF Sound, Simple
<1> QED
  BY <1>2, <1>4 DEF a, s, Names, Refuses

\* An error of the check itself.
LEMMA InternalSound ==
  ASSUME NEW cf, NEW r \in {"temp", "perm"}
  PROVE  /\ Sound(cf, Internal(r)) /\ Simple(Internal(r)) /\ Names("internal", Internal(r))
         /\ Refuses(Internal(r))
<1>1. "internal" \in Refusal
  BY DEF Refusal
<1> QED
  BY <1>1, RefusalSound DEF Internal

\* A check that panicked.
LEMMA PanicsSound ==
  ASSUME NEW cf
  PROVE  Sound(cf, Panics) /\ Simple(Panics) /\ Names("panic", Panics)
<1>1. "panic" \in Cause /\ "panic" \notin Directive /\ "panic" \notin Refusal /\ "panic" \notin Marking /\ "" \in Reason
  BY CausesApart DEF Cause, Reason
<1> DEFINE s == Says("")
           a == Answer(s, "panic")
<1>2. s \in CheckResult /\ s.reason = "" /\ ~s.reject /\ ~s.quarantine /\ s.auth = <<>>
  BY <1>1, SaysMade
<1> HIDE DEF s
<1>3. a \in AnswerShape /\ a.res = s /\ a.cause = "panic" /\ ~a.skip /\ a.sent = <<>> /\ ~a.deferred
  BY <1>1, <1>2, AnswerMade
<1> HIDE DEF a
<1>4. Sound(cf, a) /\ Simple(a) /\ a.cause = "panic" /\ (a.res.reject <=> s.reject) /\ (a.res.quarantine <=> s.quarantine)
  BY <1>1, <1>2, <1>3 DEF Sound, Simple
<1> QED
  BY <1>2, <1>4 DEF a, s, Panics, Clean, Names

\* FailAction.Apply takes over the action of the directive.
LEMMA ApplyMade ==
  ASSUME NEW act \in FailAction, NEW s \in CheckResult, s.reason \in {"temp", "perm"}, ~s.reject, ~s.quarantine
  PROVE  LET t == Apply(act, s)
         IN /\ t \in CheckResult /\ t.reason # "" /\ (t.reject <=> act.reject)
            /\ (t.quarantine <=> act.quarantine) /\ t.auth = s.auth
<1>1. Apply(act, s) = [s EXCEPT !.reason     = IF act.override = "" THEN @ ELSE act.override,
                                !.quarantine = act.quarantine \/ @,
                                !.reject     = act.reject \/ @]
  BY DEF Apply
<1> QED
  BY <1>1 DEF CheckResult, FailAction

\* The answer under a directive.
LEMMA BySound ==
  ASSUME NEW cf, ConfShape(cf), NEW d \in Directive, NEW r \in {"temp", "perm"}
  PROVE  /\ Sound(cf, By(cf, d, r)) /\ Simple(By(cf, d, r)) /\ Names(d, By(cf, d, r))
         /\ By(cf, d, r) # Nothing
<1>1. cf.act[d] \in FailAction
  BY DEF ConfShape
<1>2. d \notin Refusal /\ d \notin Marking /\ d \in Cause /\ r \in Reason /\ d # ""
  BY CausesApart DEF Reason
<1> DEFINE s == Apply(cf.act[d], Says(r))
<1>3. /\ s \in CheckResult /\ s.reason # "" /\ (s.reject <=> cf.act[d].reject)
      /\ (s.quarantine <=> cf.act[d].quarantine) /\ s.auth = <<>>
  <2> DEFINE t == Says(r)
  <2>1. t \in CheckResult /\ t.reason = r /\ ~t.reject /\ ~t.quarantine /\ t.auth = <<>>
    BY <1>2, SaysMade
  <2> HIDE DEF t
  <2>2. LET u == Apply(cf.act[d], t)
        IN /\ u \in CheckResult /\ u.reason # "" /\ (u.reject <=> cf.act[d].reject)
           /\ (u.quarantine <=> cf.act[d].quarantine) /\ u.auth = t.auth
    BY <1>1, <2>1, ApplyMade
  <2> QED
    BY <2>1, <2>2 DEF t
<1>4. By(cf, d, r) = Answer(s, d)
  BY DEF By
<1> HIDE DEF s
<1>5. /\ Answer(s, d) \in AnswerShape /\ Answer(s, d).res = s /\ Answer(s, d).cause = d
      /\ ~Answer(s, d).skip /\ Answer(s, d).sent = <<>> /\ ~Answer(s, d).deferred
  BY <1>2, <1>3, AnswerMade, ZenonT(60)
<1>6. Nothing.cause = ""
  BY NothingSound DEF Quiet
<1> QED
  BY <1>2, <1>3, <1>4, <1>5, <1>6 DEF Sound, Simple, Names

-----------------------------------------------------------------------------
(* What each check may answer *)

\* The answers of the checks that only look at the message: they follow a directive.
LEMMA RequireTLSSound ==
  ASSUME NEW cf, ConfShape(cf), NEW m
  PROVE  Sound(cf, requireTLS(m, cf)) /\ Simple(requireTLS(m, cf))
  BY BySound, NothingSound DEF requireTLS, Directive

\* The same of require_matching_rdns, require_mx_record, rspamd and command.
LEMMA RequireRDNSSound ==
  ASSUME NEW cf, ConfShape(cf), NEW m, NEW name
  PROVE  Sound(cf, requireMatchingRDNS(m, cf, name)) /\ Simple(requireMatchingRDNS(m, cf, name))
<1> DEFINE B(r) == By(cf, "require_matching_rdns", r)
<1>1. requireMatchingRDNS(m, cf, name) \in {Nothing, B("temp"), B("perm")}
  BY DEF requireMatchingRDNS
<1> HIDE DEF B, Directive
<1>2. Sound(cf, B("temp")) /\ Simple(B("temp")) /\ Sound(cf, B("perm")) /\ Simple(B("perm"))
  BY BySound DEF B, Directive
<1> QED
  BY <1>1, <1>2, NothingSound

LEMMA RequireMXSound ==
  ASSUME NEW cf, ConfShape(cf), NEW m, NEW a \in requireMXRecord(m, cf)
  PROVE  Sound(cf, a) /\ Simple(a)
<1> DEFINE W(class) == By(cf, "require_mx_record", class)
<1>1. a \in {Nothing, W("temp"), W("perm")}
  BY DEF requireMXRecord
<1> HIDE DEF W
<1>2. Sound(cf, W("temp")) /\ Simple(W("temp")) /\ Sound(cf, W("perm")) /\ Simple(W("perm"))
  BY BySound DEF W, Directive
<1> QED
  BY <1>1, <1>2, NothingSound

LEMMA RspamdSound ==
  ASSUME NEW cf, ConfShape(cf), NEW name, NEW a \in rspamdCheckBody(cf, name)
  PROVE  Sound(cf, a) /\ Simple(a)
<1>1. "soft reject" \in Refusal /\ "reject" \in Refusal
  BY DEF Refusal
<1> QED
  BY <1>1, BySound, NothingSound, InternalSound, RefusalSound, PanicsSound DEF rspamdCheckBody, Directive

LEMMA CommandSound ==
  ASSUME NEW cf, ConfShape(cf), NEW name, NEW s, NEW a \in commandCheck(cf, name, s)
  PROVE  Sound(cf, a) /\ Simple(a)
  BY BySound, NothingSound, InternalSound, PanicsSound DEF commandCheck, commandRun, Directive

\* An answer of authzSender: an error, no match, or nothing, and then the address is the user's.

LEMMA AuthzSenderSound ==
  ASSUME NEW cf, ConfShape(cf), NEW m, NEW addr, NEW a \in authzSender(m, cf, addr)
  PROVE  /\ Sound(cf, a) /\ Simple(a)
         /\ a = Nothing \/ \E d \in {"unauth_action", "err_action", "no_match_action"} : Names(d, a)
  BY BySound, NothingSound DEF authzSender, Directive

\* What authorize_sender answers to the body: nothing, or one of two actions, and nothing only
\* when From or Sender is found to be the user's or is not looked at.

LEMMA AuthorizeBodyIs ==
  ASSUME NEW cf, NEW m, NEW a \in authorizeCheckBody(m, cf)
  PROVE  /\ a \in {Nothing, By(cf, "err_action", "perm"), By(cf, "no_match_action", "perm")}
         /\ a \in {By(cf, "err_action", "perm"), By(cf, "no_match_action", "perm")}
            \/ ~cf.checkHeader \/ m.conn = "local"
            \/ /\ m.fromHdr \notin {"missing", "malformed", "multiple"} /\ m.senderHdr # "malformed"
               /\ \/ Nothing \in authzSender(m, cf, m.fromHdr)
                  \/ m.senderHdr # "" /\ Nothing \in authzSender(m, cf, m.senderHdr)
                  \/ By(cf, "err_action", "perm") = Nothing
<1> DEFINE Wrong == By(cf, "err_action", "perm")
           from  == authzSender(m, cf, m.fromHdr)
           other == m.senderHdr # "" /\ m.senderHdr # m.fromHdr
           second == IF other THEN authzSender(m, cf, m.senderHdr) ELSE {Wrong}
           NoMatch == By(cf, "no_match_action", "perm")
           fold(p) == IF Nothing \in {p[1], p[2]} THEN Nothing ELSE NoMatch
<1>1. CASE ~cf.checkHeader \/ m.conn = "local"
  BY <1>1 DEF authorizeCheckBody
<1>2. CASE /\ ~(~cf.checkHeader \/ m.conn = "local")
           /\ m.fromHdr \in {"missing", "malformed", "multiple"} \/ m.senderHdr = "malformed"
  BY <1>2 DEF authorizeCheckBody
<1>3. CASE /\ ~(~cf.checkHeader \/ m.conn = "local")
           /\ ~(m.fromHdr \in {"missing", "malformed", "multiple"} \/ m.senderHdr = "malformed")
  <2>1. a \in {fold(p) : p \in from \X second}
    BY <1>3 DEF authorizeCheckBody
  <2>2. PICK p \in from \X second : a = fold(p)
    BY <2>1
  <2>3. p[1] = Nothing => Nothing \in authzSender(m, cf, m.fromHdr)
    BY <2>2
  <2>4. p[2] = Nothing => \/ m.senderHdr # "" /\ Nothing \in authzSender(m, cf, m.senderHdr)
                       \/ By(cf, "err_action", "perm") = Nothing
    BY <2>2
  <2> QED
    BY <1>3, <2>2, <2>3, <2>4
<1> QED
  BY <1>1, <1>2, <1>3

\* authorize_sender follows one of its three directives.
LEMMA AuthorizeSound ==
  ASSUME NEW cf, ConfShape(cf), NEW m, NEW a \in authorizeCheckSender(m, cf) \cup authorizeCheckBody(m, cf)
  PROVE  /\ Sound(cf, a) /\ Simple(a)
         /\ a = Nothing \/ \E d \in {"unauth_action", "err_action", "no_match_action"} : Names(d, a)
<1>1. CASE a \in authorizeCheckSender(m, cf)
  BY <1>1, AuthzSenderSound, NothingSound DEF authorizeCheckSender
<1>2. CASE a \in authorizeCheckBody(m, cf)
  <2>1. a \in {Nothing, By(cf, "err_action", "perm"), By(cf, "no_match_action", "perm")}
    BY <1>2, AuthorizeBodyIs
  <2> QED
    BY <2>1, BySound, NothingSound DEF Directive
<1> QED
  BY <1>1, <1>2

\* authzSender has nothing to say only when the address is the user's.

LEMMA AuthzSenderMeans ==
  ASSUME ConfShape(conf), NEW addr, normalize(addr) \in DOMAIN conf.prepare \cup {"broken"},
         Nothing \in authzSender(meta, conf, addr)
  PROVE  meta.user \notin {"", "bad"} /\ MayUse(addr)
<1> DEFINE n == normalize(addr)
           own == IF conf.prepare[n] = {} THEN {n} ELSE conf.prepare[n]
           Full(a) == [addr |-> a, domain |-> conf.domain[a]]
           may == AuthorizeEmailUse(conf.entries[meta.user], {Full(a) : a \in own})
<1>1. /\ By(conf, "unauth_action", "perm") # Nothing /\ By(conf, "err_action", "perm") # Nothing
      /\ By(conf, "err_action", "temp") # Nothing /\ By(conf, "no_match_action", "perm") # Nothing
  BY BySound DEF Directive
<1>2. meta.user \notin {"", "bad"} /\ n # "broken" /\ may
  BY <1>1 DEF authzSender
<1>3. PICK a \in own, e \in conf.entries[meta.user] : e = a \/ e = conf.domain[a] \/ e = "*"
  <2>1. PICK f \in {Full(a) : a \in own}, e \in conf.entries[meta.user] : e = f.addr \/ e = f.domain \/ e = "*"
    BY <1>2 DEF AuthorizeEmailUse
  <2>2. PICK a \in own : f = Full(a)
    BY <2>1
  <2> QED
    BY <2>1, <2>2
<1>4. {a, conf.domain[a], "*"} \cap conf.entries[meta.user] # {}
  BY <1>3
<1> QED
  BY <1>2, <1>3, <1>4 DEF MayUse

\* authorize_sender passes the envelope sender only when it is the user's.
LEMMA AuthorizeSenderMeans ==
  ASSUME ConfShape(conf), MetaShape(meta, conf), meta.conn # "local",
         Nothing \in authorizeCheckSender(meta, conf)
  PROVE  meta.user \notin {"", "bad"} /\ MayUse(meta.sender)
<1>1. normalize(meta.sender) \in DOMAIN conf.prepare \cup {"broken"}
  BY DEF MetaShape
<1> QED
  BY <1>1, AuthzSenderMeans DEF authorizeCheckSender

\* authorize_sender passes the header only when From or Sender is the user's.
LEMMA AuthorizeBodyMeans ==
  ASSUME ConfShape(conf), MetaShape(meta, conf), meta.conn # "local", conf.checkHeader,
         Nothing \in authorizeCheckBody(meta, conf)
  PROVE  MayUse(meta.fromHdr) \/ MayUse(meta.senderHdr)
<1>1. By(conf, "err_action", "perm") # Nothing /\ By(conf, "no_match_action", "perm") # Nothing
  BY BySound DEF Directive
<1>2. /\ meta.fromHdr \notin {"missing", "malformed", "multiple"} /\ meta.senderHdr # "malformed"
      /\ \/ Nothing \in authzSender(meta, conf, meta.fromHdr)
         \/ meta.senderHdr # "" /\ Nothing \in authzSender(meta, conf, meta.senderHdr)
  BY <1>1, AuthorizeBodyIs
<1>3. CASE Nothing \in authzSender(meta, conf, meta.fromHdr)
  <2>1. normalize(meta.fromHdr) \in DOMAIN conf.prepare \cup {"broken"}
    BY <1>2 DEF MetaShape, normalize
  <2> QED
    BY <1>3, <2>1, AuthzSenderMeans
<1>4. CASE meta.senderHdr # "" /\ Nothing \in authzSender(meta, conf, meta.senderHdr)
  <2>1. normalize(meta.senderHdr) \in DOMAIN conf.prepare \cup {"broken"}
    BY <1>2, <1>4 DEF MetaShape, normalize
  <2> QED
    BY <1>4, <2>1, AuthzSenderMeans
<1> QED
  BY <1>2, <1>3, <1>4
\* What a check tells DMARC: nothing, the one result of SPF, or results of DKIM.
Bare(a)     == a.res.auth = <<>>
SpfOnly(a)  == \E r \in AuthResult : r.method = "spf" /\ a.res.auth = <<r>>
DkimOnly(a) == \A i \in DOMAIN a.res.auth : a.res.auth[i].method = "dkim"
Silent(a)   == a.sent = <<>> /\ ~a.deferred
Keeps(a)    == ~a.skip
Delays(a)   == a.deferred

\* A simple answer brings no results, no commands and no delay.
LEMMA SimpleMeans ==
  ASSUME NEW a, Simple(a)
  PROVE  Bare(a) /\ Silent(a) /\ Keeps(a)
  BY DEF Simple, Bare, Silent, Keeps

\* One result, alone.
LEMMA AuthOne ==
  ASSUME NEW me \in {"spf", "dkim"}, NEW v \in AuthValue, NEW d \in DomainName
  PROVE  LET r == [method |-> me, value |-> v, domain |-> d] IN r \in AuthResult /\ r.method = me
  BY DEF AuthResult

LEMMA AuthOneSeq ==
  ASSUME NEW r \in AuthResult
  PROVE  <<r>> \in Seq(AuthResult)
  OBVIOUS

\* The values of SPF are values of a result.
LEMMA SpfAreValues == SpfValues \subseteq AuthValue
  BY DEF SpfValues, AuthValue

\* spfResult follows the directive of its value and brings one result.
LEMMA SpfResultSound ==
  ASSUME NEW cf, ConfShape(cf), NEW m, m.from \in DomainName, m.helo \in DomainName, NEW v \in SpfValues
  PROVE  LET a == spfResult(m, cf, v) IN Sound(cf, a) /\ SpfOnly(a) /\ Silent(a) /\ Keeps(a)
<1> DEFINE r == [method |-> "spf", value |-> v, domain |-> IF m.from = "" THEN m.helo ELSE m.from]
           w == IF v = "pass" THEN Nothing
                ELSE By(cf, SpfDirective(v), IF v = "temperror" THEN "temp" ELSE "perm")
           b == [w EXCEPT !.res.auth = <<r>>]
<1>1. r \in AuthResult /\ r.method = "spf"
  <2>1. v \in AuthValue /\ (IF m.from = "" THEN m.helo ELSE m.from) \in DomainName
    BY SpfAreValues
  <2> QED
    BY <2>1, AuthOne
<1>2. b = spfResult(m, cf, v)
  BY DEF spfResult
<1>3. Sound(cf, w) /\ Simple(w)
  <2>1. v # "pass" => SpfDirective(v) \in Directive
    BY DEF SpfValues, SpfDirective, Directive
  <2> QED
    BY <2>1, NothingSound, BySound
<1> HIDE DEF r, w
<1>4. <<r>> \in Seq(AuthResult) /\ w \in AnswerShape
  BY <1>1, <1>3, AuthOneSeq DEF Sound
<1>5. /\ b \in AnswerShape /\ b.cause = w.cause /\ b.skip = w.skip /\ b.sent = w.sent
      /\ b.deferred = w.deferred /\ b.res.reason = w.res.reason /\ b.res.reject = w.res.reject
      /\ b.res.quarantine = w.res.quarantine /\ b.res.auth = <<r>>
  BY <1>4, AuthMade
<1> HIDE DEF b
<1>6. Sound(cf, b) /\ Silent(b) /\ Keeps(b)
  BY <1>3, <1>5 DEF Sound, Simple, Silent, Keeps
<1>7. SpfOnly(b)
  BY <1>1, <1>5 DEF SpfOnly
<1> QED
  BY <1>2, <1>6, <1>7

\* SPF at the connection: it decides there only when it enforces early.
LEMMA SpfConnectionSound ==
  ASSUME NEW cf, ConfShape(cf), NEW m, m.from \in DomainName, m.helo \in DomainName,
         NEW a \in spfCheckConnection(m, cf)
  PROVE  Sound(cf, a) /\ Silent(a) /\ (Bare(a) \/ (SpfOnly(a) /\ cf.enforceEarly))
<1> DEFINE Skips(b) == [b EXCEPT !.skip = TRUE]
<1>1. ASSUME NEW b, Sound(cf, b), Simple(b)
      PROVE  Sound(cf, Skips(b)) /\ Silent(Skips(b)) /\ Bare(Skips(b))
  <2>1. b \in AnswerShape
    BY <1>1 DEF Sound
  <2> DEFINE c == Skips(b)
  <2>2. c \in AnswerShape /\ c.res = b.res /\ c.cause = b.cause /\ c.sent = b.sent /\ c.deferred = b.deferred
    BY <2>1, SkipMade
  <2> HIDE DEF c, Skips
  <2>3. Sound(cf, c) /\ Silent(c) /\ Bare(c)
    BY <1>1, <2>2 DEF Sound, Simple, Silent, Bare
  <2> QED
    BY <2>3 DEF c
<1>2. \/ a = Skips(Nothing) \/ a = Skips(Internal("perm")) \/ a = Nothing
      \/ cf.enforceEarly /\ \E v \in SpfValues : a = spfResult(m, cf, v)
  BY DEF spfCheckConnection
<1> HIDE DEF Skips
<1>3. CASE a = Skips(Nothing) \/ a = Skips(Internal("perm")) \/ a = Nothing
  BY <1>1, <1>3, NothingSound, InternalSound, SimpleMeans
<1>4. CASE cf.enforceEarly /\ \E v \in SpfValues : a = spfResult(m, cf, v)
  BY <1>4, SpfResultSound
<1> QED
  BY <1>2, <1>3, <1>4

\* SPF at the body: it leaves its action to a policy it has seen, or follows its directive.
LEMMA SpfBodySound ==
  ASSUME NEW cf, ConfShape(cf), NEW m, m.from \in DomainName, m.helo \in DomainName,
         NEW f \in SpfValues \cup {"panic"}, NEW a \in spfCheckBody(m, cf, f)
  PROVE  /\ Sound(cf, a) /\ Keeps(a) /\ a.sent = <<>>
         /\ (Bare(a) /\ ~Delays(a)) \/ SpfOnly(a)
         /\ Delays(a) => /\ ExtractFromDomain(m.hdrFrom) # "error"
                         /\ \E d \in FetchRecord(m.zone, m.rec, ExtractFromDomain(m.hdrFrom)) :
                              relyOnDMARC(d, ExtractFromDomain(m.hdrFrom))
<1> DEFINE w == spfResult(m, cf, f)
           left == [w EXCEPT !.res.reject = FALSE, !.res.quarantine = FALSE, !.deferred = TRUE]
           from == ExtractFromDomain(m.hdrFrom)
<1>1. CASE f = "panic"
  <2>1. a = Internal("temp")
    BY <1>1 DEF spfCheckBody
  <2> QED
    BY <2>1, InternalSound, SimpleMeans DEF Silent, Delays
<1>2. CASE f \in SpfValues
  <2>1. f # "panic"
    BY <1>2 DEF SpfValues
  <2>2. \/ a = w
        \/ a = left /\ from # "error" /\ \E d \in FetchRecord(m.zone, m.rec, from) : relyOnDMARC(d, from)
    BY <2>1 DEF spfCheckBody
  <2>3. Sound(cf, w) /\ SpfOnly(w) /\ Silent(w) /\ Keeps(w)
    BY <1>2, SpfResultSound
  <2> HIDE DEF w, from
  <2>4. w \in AnswerShape
    BY <2>3 DEF Sound
  <2>5. /\ left \in AnswerShape /\ left.cause = w.cause /\ left.skip = w.skip /\ left.sent = w.sent /\ left.deferred
        /\ left.res.reason = w.res.reason /\ ~left.res.reject /\ ~left.res.quarantine /\ left.res.auth = w.res.auth
    BY <2>4, LeftMade
  <2> HIDE DEF left
  <2>6. w.cause \notin Refusal /\ w.cause \notin Marking
    <3>1. w.cause \in Directive \cup {""}
      <4>1. f # "pass" => SpfDirective(f) \in Directive
        BY <1>2 DEF SpfValues, SpfDirective, Directive
      <4> DEFINE u == IF f = "pass" THEN Nothing
                      ELSE By(cf, SpfDirective(f), IF f = "temperror" THEN "temp" ELSE "perm")
                 r == [method |-> "spf", value |-> f, domain |-> IF m.from = "" THEN m.helo ELSE m.from]
      <4>2. w = [u EXCEPT !.res.auth = <<r>>]
        BY DEF w, spfResult
      <4>3. r \in AuthResult
        <5>1. f \in AuthValue /\ (IF m.from = "" THEN m.helo ELSE m.from) \in DomainName
          BY <1>2, SpfAreValues
        <5> QED
          BY <5>1, AuthOne
      <4>4. Sound(cf, u) /\ u.cause \in Directive \cup {""}
        BY <4>1, NothingSound, BySound DEF Quiet, Names
      <4> HIDE DEF u, r
      <4>5. u \in AnswerShape /\ <<r>> \in Seq(AuthResult)
        BY <4>3, <4>4, AuthOneSeq DEF Sound
      <4>6. w.cause = u.cause
        BY <4>2, <4>5, AuthMade
      <4> QED
        BY <4>4, <4>6
    <3> QED
      BY <3>1, CausesApart
  <2>7. Sound(cf, left) /\ SpfOnly(left) /\ Keeps(left) /\ left.sent = <<>>
    BY <2>3, <2>5, <2>6 DEF Sound, SpfOnly, Keeps, Silent
  <2> QED
    BY <2>2, <2>3, <2>7 DEF Silent, Delays, from
<1> QED
  BY <1>1, <1>2

\* DKIM brings results of its own unless it refuses the message.
LEMMA DkimSound ==
  ASSUME NEW cf, ConfShape(cf), NEW m, m.sigs \in Seq([value : AuthValue \cup {"partial"}, domain : DomainName]),
         NEW a \in dkimCheckBody(m, cf)
  PROVE  Sound(cf, a) /\ Silent(a) /\ Keeps(a) /\ DkimOnly(a) /\ (Refuses(a) \/ ~Bare(a))
<1> DEFINE n == Len(m.sigs)
           auth == [i \in 1..n |-> [method |-> "dkim", value |-> DkimValue(m.sigs[i]),
                                    domain |-> m.sigs[i].domain]]
           one == <<[method |-> "dkim", value |-> "none", domain |-> ""]>>
           With(b, s) == [b EXCEPT !.res.auth = s]
<1>1. n \in Nat /\ \A i \in 1..n : m.sigs[i] \in [value : AuthValue \cup {"partial"}, domain : DomainName]
  <2> DEFINE sg == m.sigs
             S == [value : AuthValue \cup {"partial"}, domain : DomainName]
  <2>1. sg \in Seq(S)
    OBVIOUS
  <2> HIDE DEF sg, S
  <2>2. Len(sg) \in Nat /\ \A i \in 1..Len(sg) : sg[i] \in S
    BY <2>1
  <2> QED
    BY <2>2 DEF sg, S
<1>2. auth \in Seq(AuthResult) /\ Len(auth) = n /\ \A i \in DOMAIN auth : auth[i].method = "dkim"
  <2>1. \A i \in 1..n : /\ [method |-> "dkim", value |-> DkimValue(m.sigs[i]), domain |-> m.sigs[i].domain] \in AuthResult
                        /\ [method |-> "dkim", value |-> DkimValue(m.sigs[i]), domain |-> m.sigs[i].domain].method = "dkim"
    <3> TAKE i \in 1..n
    <3>1. m.sigs[i].value \in AuthValue \cup {"partial"} /\ m.sigs[i].domain \in DomainName
      BY <1>1
    <3>2. DkimValue(m.sigs[i]) \in AuthValue
      BY <3>1 DEF DkimValue, AuthValue
    <3> QED
      BY <3>1, <3>2, AuthOne
  <2> DEFINE E(i) == [method |-> "dkim", value |-> DkimValue(m.sigs[i]), domain |-> m.sigs[i].domain]
  <2>2. auth = [i \in 1..n |-> E(i)] /\ \A i \in 1..n : E(i) \in AuthResult /\ E(i).method = "dkim"
    BY <2>1
  <2> HIDE DEF E, auth, n
  <2> QED
    BY <1>1, <2>2
<1>3. one \in Seq(AuthResult) /\ one # <<>> /\ \A i \in DOMAIN one : one[i].method = "dkim"
  <2> DEFINE r == [method |-> "dkim", value |-> "none", domain |-> ""]
  <2>1. "none" \in AuthValue /\ "" \in DomainName
    BY DEF AuthValue, DomainName
  <2>2. r \in AuthResult /\ r.method = "dkim"
    BY <2>1, AuthOne
  <2> HIDE DEF r
  <2>3. one = <<r>>
    BY DEF r
  <2> HIDE DEF one
  <2> QED
    BY <2>2, <2>3
<1>4. ASSUME NEW b, Sound(cf, b), Simple(b), NEW s \in Seq(AuthResult), s # <<>>,
             \A i \in DOMAIN s : s[i].method = "dkim"
      PROVE  Sound(cf, With(b, s)) /\ Silent(With(b, s)) /\ Keeps(With(b, s)) /\ DkimOnly(With(b, s)) /\ ~Bare(With(b, s))
  <2>1. b \in AnswerShape
    BY <1>4 DEF Sound
  <2> DEFINE c == With(b, s)
  <2>2. /\ c \in AnswerShape /\ c.cause = b.cause /\ c.skip = b.skip /\ c.sent = b.sent
        /\ c.deferred = b.deferred /\ c.res.reason = b.res.reason /\ c.res.reject = b.res.reject
        /\ c.res.quarantine = b.res.quarantine /\ c.res.auth = s
    BY <1>4, <2>1, AuthMade
  <2> HIDE DEF c, With
  <2>3. Sound(cf, c)
    BY <1>4, <2>2 DEF Sound, Simple
  <2>4. Silent(c) /\ Keeps(c) /\ DkimOnly(c) /\ ~Bare(c)
    BY <1>4, <2>2 DEF Simple, Silent, Keeps, DkimOnly, Bare
  <2> QED
    BY <2>3, <2>4 DEF c
<1>5. \/ n = 0 /\ a = With(By(cf, "no_sig_action", "perm"), one)
      \/ n # 0 /\ (a = Internal("temp") \/ a = With(Nothing, auth) \/ a = With(By(cf, "broken_sig_action", "perm"), auth))
  BY DEF dkimCheckBody
<1>6. n # 0 => auth # <<>>
  BY <1>1, <1>2
<1> HIDE DEF With, auth, one, n
<1>7. CASE a = Internal("temp")
  <2>1. Sound(cf, a) /\ Simple(a) /\ Refuses(a)
    BY <1>7, InternalSound
  <2>2. DkimOnly(a)
    BY <2>1 DEF Simple, DkimOnly
  <2> QED
    BY <2>1, <2>2, SimpleMeans
<1>8. CASE a # Internal("temp")
  <2>1. \A r \in {"perm"}, d \in {"no_sig_action", "broken_sig_action"} : Sound(cf, By(cf, d, r)) /\ Simple(By(cf, d, r))
    BY BySound DEF Directive
  <2>2. Sound(cf, Nothing) /\ Simple(Nothing)
    BY NothingSound
  <2>3. CASE a = With(By(cf, "no_sig_action", "perm"), one)
    BY <1>3, <1>4, <2>1, <2>3
  <2>4. CASE n # 0 /\ a = With(Nothing, auth)
    BY <1>2, <1>4, <1>6, <2>2, <2>4
  <2>5. CASE n # 0 /\ a = With(By(cf, "broken_sig_action", "perm"), auth)
    BY <1>2, <1>4, <1>6, <2>1, <2>5
  <2> QED
    BY <1>5, <1>8, <2>3, <2>4, <2>5
<1> QED
  BY <1>7, <1>8
\* What a milter is told in each stage.
Talk(s) ==
  CASE s = "conn"   -> {<<>>, <<"conn">>, <<"helo">>, <<"conn", "helo">>}
    [] s = "sender" -> {<<>>, <<"mail">>}
    [] s = "rcpt"   -> {<<>>, <<"rcpt">>}
    [] OTHER        -> {<<>>, <<"header">>, <<"header", "end">>}
Tells(a, s) == a.sent \in Talk(s)

One(x)    == <<x>>
Two(x, y) == <<x, y>>

\* The prefixes of one or two commands.
LEMMA CommandPrefixes ==
  ASSUME NEW x \in Command, NEW y \in Command
  PROVE  /\ One(x) \in Seq(Command) /\ Two(x, y) \in Seq(Command)
         /\ SubSeq(One(x), 1, 1) = One(x)
         /\ SubSeq(Two(x, y), 1, 1) = One(x) /\ SubSeq(Two(x, y), 1, 2) = Two(x, y)
         /\ DOMAIN One(x) = {1} /\ DOMAIN Two(x, y) = {1, 2}
<1>1. /\ <<x>> \in Seq(Command)
      /\ <<x, y>> \in Seq(Command)
  OBVIOUS
<1>2. DOMAIN <<x>> = 1..1 /\ DOMAIN <<x, y>> = 1..2 /\ Len(<<x>>) = 1 /\ Len(<<x, y>>) = 2
  OBVIOUS
<1>3. 1..1 = {1} /\ 1..2 = {1, 2}
  OBVIOUS
<1> DEFINE one == <<x>>
           two == <<x, y>>
<1>4. one \in Seq(Command) /\ Len(one) = 1 /\ one[1] = x /\ two \in Seq(Command) /\ Len(two) = 2 /\ two[1] = x /\ two[2] = y
  BY <1>1
<1> HIDE DEF one, two
<1>5. /\ SubSeq(one, 1, 1) \in Seq(Command) /\ Len(SubSeq(one, 1, 1)) = 1 /\ SubSeq(one, 1, 1)[1] = x
      /\ SubSeq(two, 1, 1) \in Seq(Command) /\ Len(SubSeq(two, 1, 1)) = 1 /\ SubSeq(two, 1, 1)[1] = x
      /\ SubSeq(two, 1, 2) \in Seq(Command) /\ Len(SubSeq(two, 1, 2)) = 2 /\ SubSeq(two, 1, 2)[1] = x /\ SubSeq(two, 1, 2)[2] = y
  BY <1>4
<1>6. SubSeq(one, 1, 1) = one /\ SubSeq(two, 1, 1) = one /\ SubSeq(two, 1, 2) = two
  <2>1. ASSUME NEW s \in Seq(Command), NEW t \in Seq(Command), Len(s) = Len(t), \A i \in 1..Len(s) : s[i] = t[i]
        PROVE  s = t
    BY <2>1, SeqEqual
  <2>2. \A i \in 1..1 : i = 1
    OBVIOUS
  <2>3. \A i \in 1..2 : i = 1 \/ i = 2
    OBVIOUS
  <2>4. SubSeq(one, 1, 1) = one
    BY <1>4, <1>5, <2>1, <2>2
  <2>5. SubSeq(two, 1, 1) = one
    BY <1>4, <1>5, <2>1, <2>2
  <2>6. SubSeq(two, 1, 2) = two
    BY <1>4, <1>5, <2>1, <2>3
  <2> QED
    BY <2>4, <2>5, <2>6
<1> QED
  BY <1>1, <1>2, <1>3, <1>6 DEF one, two, One, Two

\* What a milter decides, and what is made of a milter that fails.
LEMMA HandleActionSound ==
  ASSUME NEW cf, NEW act \in MilterActs
  PROVE  LET a == handleAction(act) IN Sound(cf, a) /\ Bare(a) /\ Silent(a)
<1>1. \/ handleAction(act) = [Nothing EXCEPT !.skip = TRUE]
      \/ handleAction(act) \in {Nothing, Answer(Rejects("perm"), "reject"), Answer(Rejects("temp"), "reject")}
  BY DEF handleAction, MilterActs
<1>2. CASE handleAction(act) = [Nothing EXCEPT !.skip = TRUE]
  <2>1. Sound(cf, Nothing) /\ Simple(Nothing)
    BY NothingSound
  <2> DEFINE b == [Nothing EXCEPT !.skip = TRUE]
  <2>2. Nothing \in AnswerShape
    BY <2>1 DEF Sound
  <2>3. b \in AnswerShape /\ b.res = Nothing.res /\ b.cause = Nothing.cause /\ b.sent = Nothing.sent /\ b.deferred = Nothing.deferred
    BY <2>2, SkipMade
  <2> HIDE DEF b
  <2>4. Sound(cf, b) /\ Bare(b) /\ Silent(b)
    BY <2>1, <2>3 DEF Sound, Simple, Bare, Silent
  <2> QED
    BY <1>2, <2>4 DEF b
<1>3. CASE handleAction(act) \in {Nothing, Answer(Rejects("perm"), "reject"), Answer(Rejects("temp"), "reject")}
  <2>1. "reject" \in Refusal
    BY DEF Refusal
  <2> QED
    BY <1>3, <2>1, NothingSound, RefusalSound, SimpleMeans
<1> QED
  BY <1>1, <1>2, <1>3

LEMMA IoErrorSound ==
  ASSUME NEW cf, NEW c2
  PROVE  LET a == ioError(cf) IN Sound(c2, a) /\ Bare(a) /\ Silent(a)
<1>1. ioError(cf) = handleAction("accept") \/ ioError(cf) = Internal("temp")
  BY DEF ioError, handleAction
<1>2. "accept" \in MilterActs
  BY DEF MilterActs
<1> QED
  BY <1>1, <1>2, HandleActionSound, InternalSound, SimpleMeans

\* An answer that sends commands besides.
LEMMA SendsSound ==
  ASSUME NEW cf, NEW b, Sound(cf, b), Bare(b), Silent(b), NEW s \in Seq(Command)
  PROVE  LET a == [b EXCEPT !.sent = s] IN Sound(cf, a) /\ Bare(a) /\ ~Delays(a) /\ a.sent = s
<1> DEFINE a == [b EXCEPT !.sent = s]
<1>1. b \in AnswerShape
  BY DEF Sound
<1>2. a \in AnswerShape /\ a.res = b.res /\ a.cause = b.cause /\ a.sent = s /\ a.deferred = b.deferred
  BY <1>1, SentMade
<1> HIDE DEF a
<1>3. Sound(cf, a) /\ Bare(a) /\ ~Delays(a)
  BY <1>2 DEF Sound, Bare, Silent, Delays
<1> QED
  BY <1>2, <1>3 DEF a

\* A dialogue sends a prefix of its commands.
LEMMA DialogueSound ==
  ASSUME NEW cf, NEW cmds \in Seq(Command), NEW a \in Dialogue(cf, cmds)
  PROVE  /\ Sound(cf, a) /\ Bare(a) /\ ~Delays(a)
         /\ a.sent = cmds \/ \E i \in DOMAIN cmds : a.sent = SubSeq(cmds, 1, i)
<1> DEFINE Sends(b, s) == [b EXCEPT !.sent = s]
<1>1. CASE cmds = <<>>
  BY <1>1, NothingSound, SimpleMeans DEF Dialogue, Silent, Delays
<1>2. CASE cmds # <<>>
  <2>1. \/ a = Sends(handleAction("continue"), cmds)
        \/ \E i \in DOMAIN cmds : \/ \E act \in MilterActs : a = Sends(handleAction(act), SubSeq(cmds, 1, i))
                                  \/ a = Sends(ioError(cf), SubSeq(cmds, 1, i))
    BY <1>2 DEF Dialogue
  <2>2. "continue" \in MilterActs
    BY DEF MilterActs
  <2>3. \A i \in DOMAIN cmds : SubSeq(cmds, 1, i) \in Seq(Command)
    OBVIOUS
  <2>4. \A b : \A s \in Seq(Command) : Sound(cf, b) /\ Bare(b) /\ Silent(b) =>
           Sound(cf, Sends(b, s)) /\ Bare(Sends(b, s)) /\ ~Delays(Sends(b, s)) /\ Sends(b, s).sent = s
    BY SendsSound
  <2> HIDE DEF Sends
  <2>5. \A act \in MilterActs : Sound(cf, handleAction(act)) /\ Bare(handleAction(act)) /\ Silent(handleAction(act))
    BY HandleActionSound
  <2>6. Sound(cf, ioError(cf)) /\ Bare(ioError(cf)) /\ Silent(ioError(cf))
    BY IoErrorSound
  <2> QED
    BY <2>1, <2>2, <2>3, <2>4, <2>5, <2>6
<1> QED
  BY <1>1, <1>2

\* One command or two.

\* The dialogues in use, by what they send.
LEMMA DialogueTells ==
  ASSUME NEW cf, NEW x \in Command, NEW y \in Command,
         NEW a \in Dialogue(cf, One(x)) \cup Dialogue(cf, Two(x, y)) \cup Dialogue(cf, <<>>)
  PROVE  /\ Sound(cf, a) /\ Bare(a) /\ ~Delays(a)
         /\ a.sent \in {<<>>, One(x), Two(x, y)}
         /\ a \in Dialogue(cf, One(x)) => a.sent = One(x)
<1>1. CASE a \in Dialogue(cf, One(x))
  <2>1. One(x) \in Seq(Command) /\ DOMAIN One(x) = {1} /\ SubSeq(One(x), 1, 1) = One(x)
    BY CommandPrefixes
  <2>2. /\ Sound(cf, a) /\ Bare(a) /\ ~Delays(a)
        /\ a.sent = One(x) \/ \E i \in DOMAIN One(x) : a.sent = SubSeq(One(x), 1, i)
    BY <1>1, <2>1, DialogueSound
  <2>3. a.sent = One(x)
    BY <2>1, <2>2
  <2> QED
    BY <2>2, <2>3
<1>2. CASE a \in Dialogue(cf, Two(x, y)) /\ a \notin Dialogue(cf, One(x))
  <2>1. /\ Two(x, y) \in Seq(Command) /\ DOMAIN Two(x, y) = {1, 2} 
        /\ SubSeq(Two(x, y), 1, 1) = One(x) /\ SubSeq(Two(x, y), 1, 2) = Two(x, y)
    BY CommandPrefixes
  <2>2. /\ Sound(cf, a) /\ Bare(a) /\ ~Delays(a)
        /\ a.sent = Two(x, y) \/ \E i \in DOMAIN Two(x, y) : a.sent = SubSeq(Two(x, y), 1, i)
    BY <1>2, <2>1, DialogueSound
  <2>3. a.sent = One(x) \/ a.sent = Two(x, y)
    BY <2>1, <2>2
  <2> QED
    BY <1>2, <2>2, <2>3
<1>3. CASE a \in Dialogue(cf, <<>>) /\ a \notin Dialogue(cf, One(x))
  <2>1. a = Nothing
    BY <1>3 DEF Dialogue
  <2> QED
    BY <1>3, <2>1, NothingSound, SimpleMeans DEF Silent, Delays
<1> QED
  BY <1>1, <1>2, <1>3

\* What a milter may be told, stage by stage.
LEMMA TalkIs ==
  /\ Talk("conn") = {<<>>, One("conn"), One("helo"), Two("conn", "helo")}
  /\ Talk("sender") = {<<>>, One("mail")}
  /\ Talk("rcpt") = {<<>>, One("rcpt")}
  /\ Talk("body") = {<<>>, One("header"), Two("header", "end")}
  BY DEF Talk, One, Two

\* The six commands.
LEMMA CommandsAre ==
  /\ "conn" \in Command /\ "helo" \in Command /\ "mail" \in Command
  /\ "rcpt" \in Command /\ "header" \in Command /\ "end" \in Command
  BY DEF Command

\* Joining single commands.
LEMMA CommandConcat ==
  ASSUME NEW x \in Command, NEW y \in Command
  PROVE  /\ <<>> \o <<>> = <<>>
         /\ <<>> \o One(x) = One(x) /\ One(x) \o <<>> = One(x) /\ One(x) \o One(y) = Two(x, y)
<1>1. /\ One(x) \in Seq(Command) /\ One(y) \in Seq(Command) /\ Two(x, y) \in Seq(Command)
      /\ Len(One(x)) = 1 /\ One(x)[1] = x /\ Len(One(y)) = 1 /\ One(y)[1] = y
      /\ Len(Two(x, y)) = 2 /\ Two(x, y)[1] = x /\ Two(x, y)[2] = y
  BY DEF One, Two
<1>2. <<>> \o <<>> = <<>> /\ <<>> \o One(x) = One(x) /\ One(x) \o <<>> = One(x)
  BY <1>1
<1>3. /\ One(x) \o One(y) \in Seq(Command) /\ Len(One(x) \o One(y)) = 2
      /\ (One(x) \o One(y))[1] = x /\ (One(x) \o One(y))[2] = y
  <2> DEFINE s == One(x)
             t == One(y)
  <2>1. s \in Seq(Command) /\ t \in Seq(Command) /\ Len(s) = 1 /\ Len(t) = 1 /\ s[1] = x /\ t[1] = y
    BY <1>1
  <2> HIDE DEF s, t
  <2>2. /\ s \o t \in Seq(Command) /\ Len(s \o t) = Len(s) + Len(t)
        /\ \A i \in 1..Len(s) + Len(t) : (s \o t)[i] = IF i <= Len(s) THEN s[i] ELSE t[i - Len(s)]
    BY <2>1, ConcatProperties
  <2>3. Len(s \o t) = 2 /\ (s \o t)[1] = x /\ (s \o t)[2] = y
    BY <2>1, <2>2
  <2> QED
    BY <2>2, <2>3 DEF s, t
<1>4. \A i \in 1..2 : i = 1 \/ i = 2
  OBVIOUS
<1>5. One(x) \o One(y) = Two(x, y)
  BY <1>1, <1>3, <1>4, SeqEqual
<1> QED
  BY <1>2, <1>5

\* To say nothing is possible in every stage.
LEMMA NothingTells ==
  ASSUME NEW cf, NEW s \in {"conn", "sender", "rcpt", "body"}
  PROVE  Sound(cf, Nothing) /\ Bare(Nothing) /\ ~Delays(Nothing) /\ Tells(Nothing, s) /\ Nothing.sent = <<>>
<1>1. Nothing.sent = <<>> /\ ~Delays(Nothing)
  BY NothingSound, SimpleMeans DEF Silent, Delays
<1>2. <<>> \in Talk(s)
  BY TalkIs
<1> QED
  BY <1>1, <1>2, NothingSound, SimpleMeans DEF Tells

\* The four callbacks of the milter check: what they send belongs to the stage.
LEMMA MilterConnectionSound ==
  ASSUME NEW cf, NEW m, NEW a \in milterCheckConnection(m, cf)
  PROVE  Sound(cf, a) /\ Bare(a) /\ ~Delays(a) /\ Tells(a, "conn")
<1> DEFINE Unless(cmd) == IF m.conn # "local" /\ cmd \in cf.milterNo THEN <<>> ELSE <<cmd>>
           cmds == Unless("conn") \o Unless("helo")
<1>1. cmds \in {<<>>, One("conn"), One("helo"), Two("conn", "helo")}
  <2>1. Unless("conn") \in {<<>>, One("conn")} /\ Unless("helo") \in {<<>>, One("helo")}
    BY DEF One
  <2> HIDE DEF Unless
  <2> QED
    BY <2>1, CommandsAre, CommandConcat
<1>2. a \in Dialogue(cf, cmds)
  BY DEF milterCheckConnection
<1> HIDE DEF cmds
<1>3. CASE cmds = One("helo")
  <2>1. Sound(cf, a) /\ Bare(a) /\ ~Delays(a) /\ a.sent = One("helo")
    BY <1>2, <1>3, CommandsAre, DialogueTells
  <2> QED
    BY <2>1, TalkIs DEF Tells
<1>4. CASE cmds # One("helo")
  <2>1. a \in Dialogue(cf, One("conn")) \cup Dialogue(cf, Two("conn", "helo")) \cup Dialogue(cf, <<>>)
    BY <1>1, <1>2, <1>4
  <2>2. Sound(cf, a) /\ Bare(a) /\ ~Delays(a) /\ a.sent \in {<<>>, One("conn"), Two("conn", "helo")}
    BY <2>1, CommandsAre, DialogueTells
  <2> QED
    BY <2>2, TalkIs DEF Tells
<1> QED
  BY <1>3, <1>4

LEMMA MilterSenderSound ==
  ASSUME NEW cf, NEW m, NEW sk, NEW a \in milterCheckSender(m, cf, sk)
  PROVE  Sound(cf, a) /\ Bare(a) /\ ~Delays(a) /\ Tells(a, "sender") /\ (sk => a.sent = <<>>)
<1>1. CASE a = Nothing
  BY <1>1, NothingTells
<1>2. CASE a = Panics
  <2>1. a.sent = <<>> /\ ~Delays(a)
    BY <1>2, PanicsSound, SimpleMeans DEF Silent, Delays
  <2> QED
    BY <1>2, <2>1, PanicsSound, SimpleMeans, TalkIs DEF Tells
<1>3. CASE ~sk /\ a \in Dialogue(cf, One("mail"))
  <2>1. Sound(cf, a) /\ Bare(a) /\ ~Delays(a) /\ a.sent = One("mail")
    BY <1>3, CommandsAre, DialogueTells
  <2> QED
    BY <1>3, <2>1, TalkIs DEF Tells
<1> QED
  BY <1>1, <1>2, <1>3 DEF milterCheckSender, One

LEMMA MilterRcptSound ==
  ASSUME NEW cf, NEW m, NEW sk, NEW a \in milterCheckRcpt(m, cf, sk)
  PROVE  Sound(cf, a) /\ Bare(a) /\ ~Delays(a) /\ Tells(a, "rcpt") /\ (sk => a.sent = <<>>)
<1>1. CASE a = Nothing
  BY <1>1, NothingTells
<1>2. CASE ~sk /\ a \in Dialogue(cf, One("rcpt"))
  <2>1. Sound(cf, a) /\ Bare(a) /\ ~Delays(a) /\ a.sent = One("rcpt")
    BY <1>2, CommandsAre, DialogueTells
  <2> QED
    BY <1>2, <2>1, TalkIs DEF Tells
<1> QED
  BY <1>1, <1>2 DEF milterCheckRcpt, One

\* apply adds no results and no delay.
LEMMA MilterApplySound ==
  ASSUME NEW cf, NEW b, Sound(cf, b), Bare(b), Silent(b), NEW q \in BOOLEAN
  PROVE  Sound(cf, milterApply(b, q)) /\ Bare(milterApply(b, q)) /\ Silent(milterApply(b, q))
<1>1. CASE ~q
  BY <1>1 DEF milterApply
<1>2. CASE q
  <2> DEFINE said == IF b.res.reject THEN "reject and quarantine" ELSE "quarantine"
             a == [b EXCEPT !.res.quarantine = TRUE, !.res.reason = "perm", !.cause = said]
  <2>1. b \in AnswerShape /\ said \in Marking /\ said \in Cause /\ "perm" \in Reason /\ said \notin Directive \cup Refusal
    BY CausesApart DEF Sound, Marking, Cause, Reason
  <2>2. /\ a \in AnswerShape /\ a.cause = said /\ a.sent = b.sent /\ a.deferred = b.deferred
        /\ a.res.reason = "perm" /\ a.res.quarantine /\ a.res.auth = b.res.auth
    <3> HIDE DEF said
    <3> QED
      BY <2>1 DEF AnswerShape, CheckResult
  <2>3. milterApply(b, q) = a
    BY <1>2 DEF milterApply
  <2> HIDE DEF a, said
  <2>4. Sound(cf, a) /\ Bare(a) /\ Silent(a)
    BY <2>1, <2>2 DEF Sound, Bare, Silent
  <2> QED
    BY <2>3, <2>4
<1> QED
  BY <1>1, <1>2

LEMMA MilterBodySound ==
  ASSUME NEW cf, NEW m, NEW sk, NEW a \in milterCheckBody(m, cf, sk)
  PROVE  Sound(cf, a) /\ Bare(a) /\ ~Delays(a) /\ Tells(a, "body") /\ (sk => a.sent = <<>>)
<1> DEFINE Sends(b, s) == [b EXCEPT !.sent = s]
<1>1. CASE a = Nothing
  BY <1>1, NothingTells
<1>2. CASE ~sk /\ a \in Dialogue(cf, One("header"))
  <2>1. Sound(cf, a) /\ Bare(a) /\ ~Delays(a) /\ a.sent = One("header")
    BY <1>2, CommandsAre, DialogueTells
  <2> QED
    BY <1>2, <2>1, TalkIs DEF Tells
<1>3. CASE ~sk /\ \E b, s : Sound(cf, b) /\ Bare(b) /\ Silent(b) /\ a = Sends(b, s) /\ s \in {One("header"), Two("header", "end")}
  <2>1. PICK b, s : Sound(cf, b) /\ Bare(b) /\ Silent(b) /\ a = Sends(b, s) /\ s \in {One("header"), Two("header", "end")}
    BY <1>3
  <2>2. s \in Seq(Command)
    BY <2>1, CommandPrefixes, CommandsAre
  <2>3. Sound(cf, a) /\ Bare(a) /\ ~Delays(a) /\ a.sent = s
    BY <2>1, <2>2, SendsSound
  <2> QED
    BY <1>3, <2>1, <2>3, TalkIs DEF Tells
<1>4. \/ a = Nothing \/ (~sk /\ a \in Dialogue(cf, One("header")))
      \/ ~sk /\ \/ a = Sends(Internal("temp"), One("header"))
                \/ a = Sends(ioError(cf), Two("header", "end"))
                \/ \E p \in MilterActs \X BOOLEAN : a = Sends(milterApply(handleAction(p[1]), p[2]), Two("header", "end"))
  BY DEF milterCheckBody, One, Two
<1> HIDE DEF Sends
<1>5. Sound(cf, Internal("temp")) /\ Bare(Internal("temp")) /\ Silent(Internal("temp"))
  BY InternalSound, SimpleMeans
<1>6. Sound(cf, ioError(cf)) /\ Bare(ioError(cf)) /\ Silent(ioError(cf))
  BY IoErrorSound
<1>7. \A p \in MilterActs \X BOOLEAN :
        /\ Sound(cf, milterApply(handleAction(p[1]), p[2])) /\ Bare(milterApply(handleAction(p[1]), p[2]))
        /\ Silent(milterApply(handleAction(p[1]), p[2]))
  BY HandleActionSound, MilterApplySound
<1> QED
  BY <1>1, <1>2, <1>3, <1>4, <1>5, <1>6, <1>7

-----------------------------------------------------------------------------
(* check.dnsbl: a list that was asked without an error is found listed when it counts *)

\* A list is found to name the client exactly when it counts.
LEMMA CheckListMeans ==
  ASSUME NEW l, NEW x \in checkList(meta, l, ""), x # "error"
  PROVE  x = "listed" <=> Counts(l)
<1> DEFINE ip   == checkIP(meta, l)
           name == checkDomain(meta, l, meta.helo)
           ehlo == IF ~l.ehlo \/ meta.helo = "" THEN {"clean"}
                   ELSE IF meta.helo = "literal" THEN {"clean"}
                   ELSE Then(name, {"clean"})
           byIp == (IF meta.ipv6 THEN l.ipv6 ELSE l.ipv4) /\ <<l.zone, "ip", "in">> \in meta.listed
           byName == /\ l.ehlo /\ meta.helo \notin {"", "literal"}
                     /\ \E net \in {"in", "out"} : <<l.zone, meta.helo, net>> \in meta.listed
<1>1. x \in IF l.ipv4 \/ l.ipv6 THEN Then(ip, ehlo) ELSE ehlo
  BY DEF checkList
<1>2. ASSUME NEW S, NEW T, NEW y \in Then(S, T)
      PROVE  (\E f \in S : f # "clean" /\ y = f) \/ ("clean" \in S /\ y \in T)
  BY <1>2 DEF Then
<1>3. ip \subseteq {"error", IF byIp THEN "listed" ELSE "clean"}
  BY DEF checkIP
<1>4. meta.helo \notin {"", "literal"} /\ l.ehlo => name = {"error", IF byName THEN "listed" ELSE "clean"}
  BY DEF checkDomain
<1>5. Counts(l) <=> byIp \/ byName
  BY DEF Counts
<1>6. byIp => l.ipv4 \/ l.ipv6
  OBVIOUS
<1> HIDE DEF byIp, ip, name
<1>7. ASSUME NEW y \in ehlo, y # "error"
      PROVE  y = IF byName THEN "listed" ELSE "clean"
  <2>1. CASE ~l.ehlo \/ meta.helo \in {"", "literal"}
    BY <1>7, <2>1
  <2>2. CASE l.ehlo /\ meta.helo \notin {"", "literal"}
    <3>1. y \in Then(name, {"clean"})
      BY <1>7, <2>2
    <3>2. (\E f \in name : f # "clean" /\ y = f) \/ ("clean" \in name /\ y \in {"clean"})
      BY <1>2, <3>1
    <3> HIDE DEF byName
    <3> QED
      BY <1>4, <1>7, <2>2, <3>2
  <2> QED
    BY <2>1, <2>2
<1> HIDE DEF ehlo, byName
<1>8. CASE l.ipv4 \/ l.ipv6
  <2>1. (\E f \in ip : f # "clean" /\ x = f) \/ ("clean" \in ip /\ x \in ehlo)
    BY <1>1, <1>2, <1>8
  <2> QED
    BY <1>3, <1>5, <1>7, <2>1
<1>9. CASE ~(l.ipv4 \/ l.ipv6)
  BY <1>1, <1>5, <1>6, <1>7, <1>9
<1> QED
  BY <1>8, <1>9

\* The answer of the early check: an error, or what the score of the lists that count asks for.

\* The answer of checkLists, by the score of the lists.
LEMMA CheckListsMeans ==
  ASSUME NEW f \in Findings(meta, conf)
  PROVE  LET a == checkLists(meta, conf, f)
         IN \/ a = Internal("temp")
            \/ ScoreOfLists >= conf.rejectThres /\ a = Answer(Rejects("perm"), "reject")
            \/ /\ ~(ScoreOfLists >= conf.rejectThres) /\ ScoreOfLists >= conf.quarantineThres
               /\ a = Answer([Says("perm") EXCEPT !.quarantine = TRUE], "quarantine")
            \/ ~(ScoreOfLists >= conf.rejectThres) /\ ~(ScoreOfLists >= conf.quarantineThres) /\ a = Nothing
<1> DEFINE places == {i \in DOMAIN conf.lists : f[i] = "listed"}
<1>1. CASE \E i \in DOMAIN conf.lists : f[i] = "error"
  BY <1>1 DEF checkLists
<1>2. CASE ~\E i \in DOMAIN conf.lists : f[i] = "error"
  <2>1. \A i \in DOMAIN conf.lists : f[i] \in checkList(meta, conf.lists[i], "") /\ f[i] # "error"
    BY <1>2 DEF Findings
  <2>2. \A i \in DOMAIN conf.lists : f[i] = "listed" <=> Counts(conf.lists[i])
    BY <2>1, CheckListMeans
  <2>3. places = {i \in DOMAIN conf.lists : Counts(conf.lists[i])}
    BY <2>2
  <2>4. Score(conf.lists, places) = ScoreOfLists
    BY <2>3 DEF ScoreOfLists
  <2> QED
    BY <1>2, <2>4 DEF checkLists
<1> QED
  BY <1>1, <1>2

-----------------------------------------------------------------------------
(* What the runner can rely on, whichever check answers *)

\* What the runner relies on in answer a of check c.
AnswerFacts(c, a) ==
  /\ Sound(conf, a)
  /\ c \notin {"spf", "dkim"} => Bare(a)
  /\ c # "spf" => ~Delays(a)
  /\ c # "milter" => a.sent = <<>>
  /\ c = "milter" => Tells(a, stage) /\ ("milter" \in skip /\ stage # "conn" => a.sent = <<>>)
  /\ c = "dkim" => DkimOnly(a) /\ (stage = "body" => Refuses(a) \/ ~Bare(a))
  /\ c = "spf" => Bare(a) \/ (SpfOnly(a) /\ IF conf.enforceEarly THEN stage = "conn" ELSE stage = "body")
  /\ Delays(a) => /\ stage = "body" /\ SpfOnly(a) /\ FromDomain # "error"
                  /\ \E d \in FetchRecord(meta.zone, meta.rec, FromDomain) : relyOnDMARC(d, FromDomain)
  /\ c = "dnsbl" => a = IF stage = "conn" /\ meta.conn # "local" THEN modData ELSE Nothing
  /\ c = "authorize_sender" =>
       /\ a = Nothing \/ \E d \in {"unauth_action", "err_action", "no_match_action"} : Names(d, a)
       /\ stage = "sender" /\ a = Nothing /\ meta.conn # "local" => meta.user \notin {"", "bad"} /\ MayUse(meta.sender)
       /\ stage = "body" /\ a = Nothing /\ meta.conn # "local" /\ conf.checkHeader =>
            MayUse(meta.fromHdr) \/ MayUse(meta.senderHdr)

\* A check that has nothing to say in this stage.

LEMMA QuietFacts ==
  ASSUME NEW a, Sound(conf, a), Simple(a)
  PROVE  /\ Bare(a) /\ ~Delays(a) /\ a.sent = <<>> /\ DkimOnly(a)
  BY DEF Simple, Bare, Delays, DkimOnly

\* The answer that marks a listed client.
LEMMA ListedSound ==
  ASSUME NEW cf
  PROVE  LET a == Answer([Says("perm") EXCEPT !.quarantine = TRUE], "quarantine")
         IN Sound(cf, a) /\ Simple(a) /\ ~a.res.reject /\ a.res.quarantine
<1> DEFINE s == Says("perm")
           t == [s EXCEPT !.quarantine = TRUE]
           a == Answer(t, "quarantine")
<1>1. /\ "perm" \in Reason /\ "quarantine" \in Cause
      /\ "quarantine" \in Marking /\ "quarantine" \notin Directive \cup Refusal
  BY CausesApart DEF Reason, Cause, Marking
<1>2. s \in CheckResult /\ s.reason = "perm" /\ ~s.reject /\ ~s.quarantine /\ s.auth = <<>>
  BY <1>1, SaysMade
<1> HIDE DEF s
<1>3. t \in CheckResult /\ t.reason = "perm" /\ ~t.reject /\ t.quarantine /\ t.auth = <<>>
  BY <1>2 DEF CheckResult
<1> HIDE DEF t
<1>4. a \in AnswerShape /\ a.res = t /\ a.cause = "quarantine" /\ ~a.skip /\ a.sent = <<>> /\ ~a.deferred
  BY <1>1, <1>3, AnswerMade
<1> HIDE DEF a
<1>5. Sound(cf, a) /\ Simple(a) /\ ~a.res.reject /\ a.res.quarantine
  BY <1>1, <1>3, <1>4 DEF Sound, Simple
<1> QED
  BY <1>5 DEF a, t, s

\* What the early check kept is an answer like any other.
LEMMA EarlySound ==
  ASSUME EarlyAnswer
  PROVE  Sound(conf, modData) /\ Simple(modData)
<1>1. "reject" \in Refusal
  BY DEF Refusal
<1> QED
  BY <1>1, NothingSound, InternalSound, RefusalSound, ListedSound DEF EarlyAnswer

\* The facts the runner relies on, check by check.
LEMMA SpfFacts ==
  ASSUME ConfShape(conf), MetaShape(meta, conf), NEW a \in SpfAnswers
  PROVE  AnswerFacts("spf", a)
<1>1. meta.from \in DomainName /\ meta.helo \in DomainName
  BY DEF MetaShape
<1>2. CASE stage = "conn"
  <2>1. Sound(conf, a) /\ Silent(a) /\ (Bare(a) \/ (SpfOnly(a) /\ conf.enforceEarly))
    BY <1>1, <1>2, SpfConnectionSound DEF SpfAnswers
  <2>2. ~Delays(a) /\ a.sent = <<>>
    BY <2>1 DEF Silent, Delays
  <2> QED
    BY <1>2, <2>1, <2>2 DEF AnswerFacts
<1>3. CASE stage = "body" /\ ~conf.enforceEarly /\ "spf" \notin skip
  <2>1. spfFetch \in SpfValues \cup {"panic"} /\ a \in spfCheckBody(meta, conf, spfFetch)
    BY <1>3 DEF SpfAnswers
  <2>2. /\ Sound(conf, a) /\ a.sent = <<>>
        /\ (Bare(a) /\ ~Delays(a)) \/ SpfOnly(a)
        /\ Delays(a) => /\ FromDomain # "error"
                        /\ \E d \in FetchRecord(meta.zone, meta.rec, FromDomain) : relyOnDMARC(d, FromDomain)
    BY <1>1, <2>1, SpfBodySound DEF FromDomain
  <2> QED
    BY <1>3, <2>2 DEF AnswerFacts
<1>4. CASE a = Nothing
  BY <1>4, NothingSound, QuietFacts DEF AnswerFacts
<1> QED
  BY <1>2, <1>3, <1>4 DEF SpfAnswers

LEMMA MilterFacts ==
  ASSUME stage \in {"conn", "sender", "rcpt", "body"}, NEW a \in MilterAnswers
  PROVE  AnswerFacts("milter", a)
<1>1. Sound(conf, a) /\ Bare(a) /\ ~Delays(a) /\ Tells(a, stage) /\ ("milter" \in skip /\ stage # "conn" => a.sent = <<>>)
  <2>1. CASE stage = "conn"
    BY <2>1, MilterConnectionSound DEF MilterAnswers
  <2>2. CASE stage = "sender"
    BY <2>2, MilterSenderSound DEF MilterAnswers
  <2>3. CASE stage = "rcpt"
    BY <2>3, MilterRcptSound DEF MilterAnswers
  <2>4. CASE stage = "body"
    BY <2>4, MilterBodySound DEF MilterAnswers
  <2> QED
    BY <2>1, <2>2, <2>3, <2>4
<1> QED
  BY <1>1 DEF AnswerFacts

LEMMA AuthorizeFacts ==
  ASSUME ConfShape(conf), MetaShape(meta, conf), NEW a \in AuthorizeAnswers
  PROVE  AnswerFacts("authorize_sender", a)
<1>1. \/ a = Nothing /\ stage \notin {"sender", "body"}
      \/ stage = "sender" /\ a \in authorizeCheckSender(meta, conf)
      \/ stage = "body" /\ a \in authorizeCheckBody(meta, conf)
  BY DEF AuthorizeAnswers
<1>2. /\ Sound(conf, a) /\ Simple(a)
      /\ a = Nothing \/ \E d \in {"unauth_action", "err_action", "no_match_action"} : Names(d, a)
  BY <1>1, NothingSound, AuthorizeSound
<1>3. stage = "sender" /\ a = Nothing /\ meta.conn # "local" => meta.user \notin {"", "bad"} /\ MayUse(meta.sender)
  BY <1>1, AuthorizeSenderMeans
<1>4. stage = "body" /\ a = Nothing /\ meta.conn # "local" /\ conf.checkHeader =>
        MayUse(meta.fromHdr) \/ MayUse(meta.senderHdr)
  BY <1>1, AuthorizeBodyMeans
<1> QED
  BY <1>2, <1>3, <1>4, QuietFacts DEF AnswerFacts

LEMMA AnyFacts ==
  ASSUME ConfShape(conf), MetaShape(meta, conf), EarlyAnswer, stage \in {"conn", "sender", "rcpt", "body"},
         NEW c \in Check, NEW a \in Answers(c)
  PROVE  AnswerFacts(c, a)
<1>1. CASE c = "spf"
  BY <1>1, SpfFacts DEF Answers
<1>2. CASE c = "milter"
  BY <1>2, MilterFacts DEF Answers
<1>3. CASE c = "authorize_sender"
  BY <1>3, AuthorizeFacts DEF Answers
<1>4. CASE c = "dkim"
  <2>1. CASE stage = "body"
    <3>1. a \in dkimCheckBody(meta, conf)
      BY <1>4, <2>1 DEF Answers
    <3>2. meta.sigs \in Seq([value : AuthValue \cup {"partial"}, domain : DomainName])
      BY DEF MetaShape
    <3>3. Sound(conf, a) /\ Silent(a) /\ DkimOnly(a) /\ (Refuses(a) \/ ~Bare(a))
      BY <3>1, <3>2, DkimSound
    <3>4. ~Delays(a) /\ a.sent = <<>>
      BY <3>3 DEF Silent, Delays
    <3> QED
      BY <1>4, <3>3, <3>4 DEF AnswerFacts
  <2>2. CASE stage # "body"
    <3>1. a = Nothing
      BY <1>4, <2>2 DEF Answers
    <3> QED
      BY <1>4, <2>2, <3>1, NothingSound, QuietFacts DEF AnswerFacts
  <2> QED
    BY <2>1, <2>2
<1>5. CASE c = "dnsbl"
  <2>1. a = IF stage = "conn" /\ meta.conn # "local" THEN modData ELSE Nothing
    BY <1>5 DEF Answers
  <2>2. Sound(conf, a) /\ Simple(a)
    BY <2>1, EarlySound, NothingSound
  <2> QED
    BY <1>5, <2>1, <2>2, QuietFacts DEF AnswerFacts
<1>6. CASE c \in {"rspamd", "command", "require_tls", "require_matching_rdns", "require_mx_record"}
  <2>1. Sound(conf, a) /\ Simple(a)
    <3>1. CASE c = "rspamd"
      BY <3>1, RspamdSound, NothingSound DEF Answers
    <3>2. CASE c = "command"
      BY <3>2, CommandSound, NothingSound DEF Answers
    <3>3. CASE c = "require_tls"
      BY <3>3, RequireTLSSound, NothingSound DEF Answers
    <3>4. CASE c = "require_matching_rdns"
      BY <3>4, RequireRDNSSound, NothingSound DEF Answers
    <3>5. CASE c = "require_mx_record"
      BY <3>5, RequireMXSound, NothingSound DEF Answers
    <3> QED
      BY <1>6, <3>1, <3>2, <3>3, <3>4, <3>5
  <2> QED
    BY <1>6, <2>1, QuietFacts DEF AnswerFacts
<1> QED
  BY <1>1, <1>2, <1>3, <1>4, <1>5, <1>6 DEF Check

-----------------------------------------------------------------------------
(* The steps *)

\* What the assumption says of the setup in use.
LEMMA SetupShape ==
  ASSUME ChecksInv
  PROVE  ConfShape(conf) /\ MetaShape(meta, conf) /\ setup.checks \subseteq Check /\ setup.rcpts \subseteq Rcpt
  BY ChecksAssumption DEF ChecksInv, conf, meta

\* The step in which check c answers a.
Ran(c, a) ==
  /\ todo' = todo \ {c}
  /\ batch' = MergeInto(batch, a.res)
  /\ merged' = [merged EXCEPT !.auth = @ \o a.res.auth]
  /\ skip' = IF a.skip THEN skip \cup {c} ELSE skip
  /\ dialogue' = dialogue \o a.sent
  /\ causes' = IF a.cause = "" THEN causes
               ELSE causes \cup {<<c, IF a.deferred THEN "deferred" ELSE a.cause, stage, rcpt>>}
  /\ UNCHANGED <<setup, stage, rcptVars, modData, rdns, dmarcFetch, session, outVars>>

\* A step of the runner is the answer of one check.
LEMMA RunPicks ==
  ASSUME ChecksInv, RunCheck
  PROVE  /\ stage \in {"conn", "sender", "rcpt", "body"}
         /\ \E c \in todo : \E a : c \in Check /\ AnswerFacts(c, a) /\ Ran(c, a)
<1>1. stage \in {"conn", "sender", "rcpt", "body"}
  BY DEF RunCheck
<1>2. PICK c \in todo : \E a \in Answers(c) : Ran(c, a)
  BY DEF RunCheck, Ran
<1>3. PICK a \in Answers(c) : Ran(c, a)
  BY <1>2
<1>4. c \in Check
  BY <1>2, SetupShape DEF ChecksInv, ChecksTypeOK
<1>5. EarlyAnswer
  BY DEF ChecksInv
<1>6. AnswerFacts(c, a)
  BY <1>1, <1>3, <1>4, <1>5, SetupShape, AnyFacts
<1> QED
  BY <1>1, <1>2, <1>3, <1>4, <1>6

\* What merging an answer into the batch keeps.
LEMMA MergeFacts ==
  ASSUME NEW b \in [reject : Reason, quarantine : BOOLEAN], NEW r \in CheckResult, r.reject => r.reason # ""
  PROVE  LET m == MergeInto(b, r)
         IN /\ m \in [reject : Reason, quarantine : BOOLEAN]
            /\ b.reject # "" => m.reject # ""
            /\ b.quarantine \/ r.quarantine => m.quarantine
            /\ r.reject /\ ~r.quarantine => m.reject # ""
            /\ ~r.quarantine => (m.quarantine <=> b.quarantine)
            /\ ~r.reject => m.reject = b.reject
<1>1. CASE r.quarantine
  <2>1. MergeInto(b, r) = [b EXCEPT !.quarantine = TRUE]
    BY <1>1 DEF MergeInto
  <2> QED
    BY <1>1, <2>1
<1>2. CASE ~r.quarantine /\ r.reject /\ b.reject = ""
  <2>1. MergeInto(b, r) = [b EXCEPT !.reject = r.reason]
    BY <1>2 DEF MergeInto
  <2>2. r.reason \in Reason /\ r.reason # ""
    BY <1>2 DEF CheckResult
  <2> QED
    BY <1>2, <2>1, <2>2
<1>3. CASE ~r.quarantine /\ ~(r.reject /\ b.reject = "")
  <2>1. MergeInto(b, r) = b
    BY <1>3 DEF MergeInto
  <2> QED
    BY <1>3, <2>1
<1> QED
  BY <1>1, <1>2, <1>3

\* What an answer does to the state, in terms the invariants use.

LEMMA RanFacts ==
  ASSUME ChecksInv, NEW c \in todo, NEW a, AnswerFacts(c, a), Ran(c, a)
  PROVE  /\ setup' = setup /\ stage' = stage /\ modData' = modData /\ dmarcFetch' = dmarcFetch /\ session' = session
         /\ decision' = decision /\ quarantine' = quarantine /\ dmarc' = dmarc
         /\ offered' = offered /\ accepted' = accepted
         /\ todo' = todo \ {c} /\ a.res \in CheckResult /\ a.cause \in Cause /\ a.res.auth \in Seq(AuthResult)
         /\ a.sent \in Seq(Command) /\ a.skip \in BOOLEAN /\ a.deferred \in BOOLEAN
         /\ batch' \in [reject : Reason, quarantine : BOOLEAN]
         /\ batch.reject # "" => batch'.reject # ""
         /\ batch.quarantine \/ a.res.quarantine => batch'.quarantine
         /\ a.res.reject /\ ~a.res.quarantine => batch'.reject # ""
         /\ ~a.res.quarantine => (batch'.quarantine <=> batch.quarantine)
         /\ ~a.res.reject => batch'.reject = batch.reject
         /\ merged' \in [auth : Seq(AuthResult), quarantine : BOOLEAN]
         /\ merged'.auth = merged.auth \o a.res.auth /\ merged'.quarantine = merged.quarantine
         /\ dialogue' = dialogue \o a.sent
         /\ skip' \subseteq skip \cup {c}
<1>1. a \in AnswerShape /\ (a.res.reject => a.res.reason # "")
  BY DEF AnswerFacts, Sound
<1>2. /\ a.res \in CheckResult /\ a.cause \in Cause /\ a.sent \in Seq(Command) /\ a.skip \in BOOLEAN
      /\ a.deferred \in BOOLEAN
  BY <1>1 DEF AnswerShape
<1>3. a.res.auth \in Seq(AuthResult)
  BY <1>2 DEF CheckResult
<1>4. batch \in [reject : Reason, quarantine : BOOLEAN] /\ merged \in [auth : Seq(AuthResult), quarantine : BOOLEAN]
  BY DEF ChecksInv, ChecksTypeOK
<1> DEFINE m == MergeInto(batch, a.res)
<1>5. /\ m \in [reject : Reason, quarantine : BOOLEAN]
      /\ batch.reject # "" => m.reject # ""
      /\ batch.quarantine \/ a.res.quarantine => m.quarantine
      /\ a.res.reject /\ ~a.res.quarantine => m.reject # ""
      /\ ~a.res.quarantine => (m.quarantine <=> batch.quarantine)
      /\ ~a.res.reject => m.reject = batch.reject
  BY <1>1, <1>2, <1>4, MergeFacts
<1>6. batch' = m
  BY DEF Ran
<1>7. merged.auth \o a.res.auth \in Seq(AuthResult)
  BY <1>3, <1>4
<1>8. merged' = [merged EXCEPT !.auth = merged.auth \o a.res.auth]
  BY DEF Ran
<1> HIDE DEF m
<1>9. /\ merged' \in [auth : Seq(AuthResult), quarantine : BOOLEAN]
      /\ merged'.auth = merged.auth \o a.res.auth /\ merged'.quarantine = merged.quarantine
  BY <1>4, <1>7, <1>8
<1>10. /\ setup' = setup /\ stage' = stage /\ modData' = modData /\ dmarcFetch' = dmarcFetch /\ session' = session
       /\ decision' = decision /\ quarantine' = quarantine /\ dmarc' = dmarc
       /\ offered' = offered /\ accepted' = accepted
       /\ todo' = todo \ {c} /\ dialogue' = dialogue \o a.sent /\ skip' \subseteq skip \cup {c}
  BY DEF Ran, rcptVars, outVars
<1> QED
  BY <1>2, <1>3, <1>5, <1>6, <1>9, <1>10

\* What the end of a batch makes of the merged result.
LEMMA MergedDone ==
  ASSUME ChecksInv, MergedQuarantine
  PROVE  /\ merged' \in [auth : Seq(AuthResult), quarantine : BOOLEAN] /\ merged'.auth = merged.auth
         /\ merged'.quarantine <=> merged.quarantine \/ (batch.reject = "" /\ batch.quarantine)
<1>1. merged \in [auth : Seq(AuthResult), quarantine : BOOLEAN] /\ batch \in [reject : Reason, quarantine : BOOLEAN]
  BY DEF ChecksInv, ChecksTypeOK
<1> DEFINE q == merged.quarantine \/ (batch.reject = "" /\ batch.quarantine)
<1>2. merged' = [merged EXCEPT !.quarantine = q] /\ q \in BOOLEAN
  BY <1>1 DEF MergedQuarantine, Passed
<1> HIDE DEF q
<1>3. merged' \in [auth : Seq(AuthResult), quarantine : BOOLEAN] /\ merged'.auth = merged.auth /\ merged'.quarantine = q
  BY <1>1, <1>2
<1> QED
  BY <1>3 DEF q

\* A new batch.
LEMMA FreshType == Fresh \in [reject : Reason, quarantine : BOOLEAN] /\ Fresh.reject = "" /\ ~Fresh.quarantine
  BY DEF Fresh, Reason

\* The results at hand are of SPF or of DKIM.

LEMMA ResultsHaveMethods ==
  ASSUME NEW s \in Seq(AuthResult)
  PROVE  \A i \in DOMAIN s : s[i].method \in {"spf", "dkim"}
<1> SUFFICES ASSUME NEW i \in DOMAIN s PROVE s[i].method \in {"spf", "dkim"}
  OBVIOUS
<1>1. s[i] \in AuthResult
  <2> DEFINE R == AuthResult
  <2>1. s \in Seq(R)
    OBVIOUS
  <2> HIDE DEF R
  <2>2. DOMAIN s = 1..Len(s)
    BY <2>1
  <2>3. s[i] \in R
    BY <2>1, <2>2, ElementOfSeq
  <2> QED
    BY <2>3 DEF R
<1> QED
  BY <1>1 DEF AuthResult

\* The typed part of the invariant.
Typed == setup \in Setup /\ ChecksTypeOK /\ merged \in [auth : Seq(AuthResult), quarantine : BOOLEAN]

\* The types are kept.
LEMMA TypedStep ==
  ASSUME ChecksInv, [ChecksNext]_checksVars
  PROVE  Typed'
<1>0. /\ setup \in Setup /\ merged \in [auth : Seq(AuthResult), quarantine : BOOLEAN]
      /\ stage \in Stage /\ todo \subseteq setup.checks
      /\ batch \in [reject : Reason, quarantine : BOOLEAN]
      /\ offered \cup accepted \subseteq Rcpt /\ offered \cap accepted = {}
      /\ skip \subseteq setup.checks
      /\ session \in {"none", "open", "closed"} /\ decision \in {"", "accepted", "refused"}
      /\ quarantine \in BOOLEAN
  BY DEF ChecksInv, ChecksTypeOK
<1>a. SUFFICES /\ setup' = setup /\ merged' \in [auth : Seq(AuthResult), quarantine : BOOLEAN]
               /\ stage' \in Stage /\ todo' \subseteq setup.checks
               /\ batch' \in [reject : Reason, quarantine : BOOLEAN]
               /\ offered' \cup accepted' \subseteq Rcpt /\ offered' \cap accepted' = {}
               /\ skip' \subseteq setup.checks
               /\ session' \in {"none", "open", "closed"} /\ decision' \in {"", "accepted", "refused"}
               /\ quarantine' \in BOOLEAN
  <2>1. ASSUME NEW s \in Seq(AuthResult)
        PROVE  \A i \in DOMAIN s : s[i].method \in {"spf", "dkim"}
    BY <2>1, ResultsHaveMethods
  <2>2. merged'.auth \in Seq(AuthResult) /\ merged'.quarantine \in BOOLEAN
    BY <1>a
  <2>3. \A i \in DOMAIN merged'.auth : merged'.auth[i].method \in {"spf", "dkim"}
    BY <2>1, <2>2
  <2> QED
    BY <1>0, <1>a, <2>2, <2>3 DEF Typed, ChecksTypeOK
<1> USE FreshType
<1>1. CASE FetchRDNSName
  BY <1>0, <1>1 DEF FetchRDNSName, batchVars, rcptVars, outVars
<1>2. CASE RunEarlyChecks
  BY <1>0, <1>2 DEF RunEarlyChecks, batchVars, rcptVars, Stage
<1>3. CASE CheckStates
  BY <1>0, <1>3 DEF CheckStates, rcptVars, Stage, Ask
<1>4. CASE RunCheck
  <2>1. PICK c \in todo : \E a : c \in Check /\ AnswerFacts(c, a) /\ Ran(c, a)
    BY <1>4, RunPicks
  <2>2. PICK a : AnswerFacts(c, a) /\ Ran(c, a)
    BY <2>1
  <2>3. /\ setup' = setup /\ stage' = stage /\ session' = session /\ decision' = decision /\ quarantine' = quarantine
        /\ offered' = offered /\ accepted' = accepted /\ todo' = todo \ {c}
        /\ batch' \in [reject : Reason, quarantine : BOOLEAN]
        /\ merged' \in [auth : Seq(AuthResult), quarantine : BOOLEAN] /\ skip' \subseteq skip \cup {c}
    BY <2>2, RanFacts
  <2> QED
    BY <1>0, <2>3
<1>5. CASE SpfEvaluated
  BY <1>0, <1>5 DEF SpfEvaluated, batchVars, rcptVars, outVars
<1>6. CASE ConnSenderDone
  <2>1. merged' \in [auth : Seq(AuthResult), quarantine : BOOLEAN]
    BY <1>6, MergedDone DEF ConnSenderDone
  <2> QED
    BY <1>0, <1>6, <2>1 DEF ConnSenderDone, rcptVars, Stage, Ask
<1>7. CASE \E r \in Rcpt : CheckRcpt(r)
  BY <1>0, <1>7 DEF CheckRcpt, outVars, Stage, Ask
<1>8. CASE RcptDone
  <2>1. merged' \in [auth : Seq(AuthResult), quarantine : BOOLEAN]
    BY <1>8, MergedDone DEF RcptDone
  <2>2. rcpt \in Rcpt /\ rcpt \notin offered
    BY <1>8 DEF RcptDone, ChecksInv, RcptInHand
  <2> QED
    BY <1>0, <1>8, <2>1, <2>2 DEF RcptDone, outVars, Stage
<1>9. CASE CheckBody
  BY <1>0, <1>9 DEF CheckBody, rcptVars, outVars, Stage, Ask
<1>10. CASE DmarcFetched
  BY <1>0, <1>10 DEF DmarcFetched, batchVars, rcptVars, outVars
<1>11. CASE BodyDone
  <2>1. merged' \in [auth : Seq(AuthResult), quarantine : BOOLEAN]
    BY <1>11, MergedDone DEF BodyDone
  <2> QED
    BY <1>0, <1>11, <2>1 DEF BodyDone, rcptVars, Stage
<1>12. CASE ApplyResults
  <2>1. merged.quarantine \in BOOLEAN
    BY <1>0
  <2> QED
    BY <1>0, <1>12, <2>1 DEF ApplyResults, batchVars, rcptVars, Stage
<1>13. CASE Abort
  BY <1>0, <1>13 DEF Abort, batchVars, rcptVars, Stage
<1>14. CASE Close
  BY <1>0, <1>14 DEF Close, batchVars, rcptVars, outVars, Stage
<1>15. CASE UNCHANGED checksVars
  BY <1>0, <1>15 DEF checksVars, batchVars, rcptVars, outVars
<1> QED
  BY <1>1, <1>2, <1>3, <1>4, <1>5, <1>6, <1>7, <1>8, <1>9, <1>10, <1>11, <1>12, <1>13, <1>14, <1>15 DEF ChecksNext

\* What a cause asks for is what its directive says, or what the check itself asked for.
LEMMA WantedIs ==
  ASSUME ConfShape(conf), NEW cause
  PROVE  /\ cause \in Directive => Wanted(cause) = conf.act[cause]
         /\ cause \notin Directive => /\ Wanted(cause).reject <=> cause \in Refusal \/ cause = "reject and quarantine"
                                      /\ Wanted(cause).quarantine <=> cause \in Marking
<1>1. DOMAIN conf.act = Directive
  BY DEF ConfShape
<1>2. CASE cause \in Directive
  BY <1>1, <1>2 DEF Wanted
<1>3. CASE cause \notin Directive
  <2> DEFINE w == [Ignore EXCEPT !.reject     = cause \in {"internal", "soft reject", "reject", "reject and quarantine"},
                                 !.quarantine = cause \in {"quarantine", "reject and quarantine"}]
  <2>1. Wanted(cause) = w
    BY <1>1, <1>3 DEF Wanted
  <2>2. /\ w.reject = (cause \in {"internal", "soft reject", "reject", "reject and quarantine"})
        /\ w.quarantine = (cause \in {"quarantine", "reject and quarantine"})
    BY DEF Ignore
  <2> HIDE DEF w
  <2> QED
    BY <1>3, <2>1, <2>2 DEF Refusal, Marking
<1> QED
  BY <1>2, <1>3

\* A new cause is in the answer.

LEMMA AnswerWanted ==
  ASSUME ConfShape(conf), NEW a, Sound(conf, a)
  PROVE  LET w == Wanted(IF a.deferred THEN "deferred" ELSE a.cause)
         IN (w.reject /\ ~w.quarantine => a.res.reject /\ ~a.res.quarantine) /\ (w.quarantine => a.res.quarantine)
<1> DEFINE said == IF a.deferred THEN "deferred" ELSE a.cause
<1>1. /\ said \in Directive => Wanted(said) = conf.act[said]
      /\ said \notin Directive => /\ Wanted(said).reject <=> said \in Refusal \/ said = "reject and quarantine"
                                  /\ Wanted(said).quarantine <=> said \in Marking
  BY WantedIs
<1>2. "deferred" \notin Directive /\ "deferred" \notin Refusal /\ "deferred" \notin Marking
  BY CausesApart
<1>3. "reject and quarantine" \in Marking
  BY DEF Marking
<1>4. CASE a.deferred
  BY <1>1, <1>2, <1>3, <1>4
<1>5. CASE ~a.deferred
  <2>1. said = a.cause
    BY <1>5
  <2>2. /\ a.cause \in Directive => (a.res.reject <=> conf.act[a.cause].reject) /\ (a.res.quarantine <=> conf.act[a.cause].quarantine)
        /\ a.cause \in Refusal => a.res.reject /\ ~a.res.quarantine
        /\ a.cause \in Marking => a.res.quarantine
    BY <1>5 DEF Sound
  <2> HIDE DEF said
  <2>3. /\ Wanted(said).reject /\ ~Wanted(said).quarantine => a.res.reject /\ ~a.res.quarantine
        /\ Wanted(said).quarantine => a.res.quarantine
    BY <1>1, <1>3, <2>1, <2>2
  <2> QED
    BY <2>3 DEF said
<1> QED
  BY <1>4, <1>5

\* The causes after an answer.
LEMMA CausesRan ==
  ASSUME NEW c, NEW a, Ran(c, a), NEW x \in causes'
  PROVE  \/ x \in causes
         \/ a.cause # "" /\ x[2] = (IF a.deferred THEN "deferred" ELSE a.cause) /\ x[3] = stage /\ x[4] = rcpt
<1> DEFINE d == IF a.deferred THEN "deferred" ELSE a.cause
           y == <<c, d, stage, rcpt>>
<1>1. x \in causes \/ (a.cause # "" /\ x = y)
  BY DEF Ran
<1>2. y[2] = d /\ y[3] = stage /\ y[4] = rcpt
  OBVIOUS
<1> HIDE DEF y, d
<1>3. x \in causes \/ (a.cause # "" /\ x[2] = d /\ x[3] = stage /\ x[4] = rcpt)
  BY <1>1, <1>2
<1> QED
  BY <1>3 DEF d

\* The order of the stages is kept.
LEMMA StagesStep ==
  ASSUME ChecksInv, [ChecksNext]_checksVars
  PROVE  StagesInOrder' /\ RcptInHand' /\ EarlyAnswer'
<1>0. /\ StagesInOrder /\ RcptInHand /\ EarlyAnswer /\ stage \in Stage /\ offered \cap accepted = {}
      /\ merged \in [auth : Seq(AuthResult), quarantine : BOOLEAN]
  BY DEF ChecksInv, ChecksTypeOK
<1> USE DEF StagesInOrder, RcptInHand
<1>1. CASE FetchRDNSName
  BY <1>0, <1>1 DEF FetchRDNSName, batchVars, rcptVars, outVars, EarlyAnswer
<1>2. CASE RunEarlyChecks
  <2>1. PICK a : /\ a = Nothing \/ \E f \in Findings(meta, conf) : a = checkLists(meta, conf, f)
                 /\ IF a.res.reject /\ conf.checkEarly
                    THEN stage' = "over" /\ decision' = "refused" /\ UNCHANGED modData
                    ELSE stage' = "states" /\ modData' = a /\ UNCHANGED decision
    BY <1>2 DEF RunEarlyChecks
  <2>2. a \in {Nothing, Internal("temp"), Answer(Rejects("perm"), "reject"),
               Answer([Says("perm") EXCEPT !.quarantine = TRUE], "quarantine")}
    BY <2>1, CheckListsMeans
  <2>3. EarlyAnswer'
    BY <1>0, <2>1, <2>2 DEF EarlyAnswer
  <2> QED
    BY <1>0, <1>2, <2>1, <2>3 DEF RunEarlyChecks, batchVars, rcptVars
<1>3. CASE CheckStates
  BY <1>0, <1>3 DEF CheckStates, rcptVars, Ask, EarlyAnswer
<1>4. CASE RunCheck
  <2>1. PICK c \in todo : \E a : c \in Check /\ AnswerFacts(c, a) /\ Ran(c, a)
    BY <1>4, RunPicks
  <2>2. PICK a : AnswerFacts(c, a) /\ Ran(c, a)
    BY <2>1
  <2>3. stage' = stage /\ decision' = decision /\ modData' = modData /\ offered' = offered /\ accepted' = accepted
    BY <2>2, RanFacts
  <2>4. stage \in {"conn", "sender", "rcpt", "body"}
    BY <1>4, RunPicks
  <2>5. \A x \in causes' : x \in causes \/ x[3] = stage
    BY <2>2, CausesRan
  <2>6. rcpt' = rcpt
    BY <2>2 DEF Ran, rcptVars
  <2> QED
    BY <1>0, <2>3, <2>4, <2>5, <2>6 DEF EarlyAnswer
<1>5. CASE SpfEvaluated
  BY <1>0, <1>5 DEF SpfEvaluated, batchVars, rcptVars, outVars, EarlyAnswer
<1>6. CASE ConnSenderDone
  BY <1>0, <1>6 DEF ConnSenderDone, rcptVars, Ask, EarlyAnswer
<1>7. CASE \E r \in Rcpt : CheckRcpt(r)
  BY <1>0, <1>7 DEF CheckRcpt, outVars, Ask, EarlyAnswer
<1>8. CASE RcptDone
  BY <1>0, <1>8 DEF RcptDone, outVars, EarlyAnswer
<1>9. CASE CheckBody
  BY <1>0, <1>9 DEF CheckBody, rcptVars, outVars, Ask, EarlyAnswer
<1>10. CASE DmarcFetched
  BY <1>0, <1>10 DEF DmarcFetched, batchVars, rcptVars, outVars, EarlyAnswer
<1>11. CASE BodyDone
  BY <1>0, <1>11 DEF BodyDone, rcptVars, EarlyAnswer
<1>12. CASE ApplyResults
  BY <1>0, <1>12 DEF ApplyResults, batchVars, rcptVars, EarlyAnswer
<1>13. CASE Abort
  BY <1>0, <1>13 DEF Abort, batchVars, rcptVars, EarlyAnswer
<1>14. CASE Close
  BY <1>0, <1>14 DEF Close, batchVars, rcptVars, outVars, EarlyAnswer
<1>15. CASE UNCHANGED checksVars
  BY <1>0, <1>15 DEF checksVars, batchVars, rcptVars, outVars, EarlyAnswer
<1> QED
  BY <1>1, <1>2, <1>3, <1>4, <1>5, <1>6, <1>7, <1>8, <1>9, <1>10, <1>11, <1>12, <1>13, <1>14, <1>15 DEF ChecksNext

\* What was found stays in the batch, and later in the merged result or in the decision.
Held(w, b) == (w.reject /\ ~w.quarantine => b.reject # "") /\ (w.quarantine => b.quarantine)
Done(x, w, q) == (w.reject => x[2] = "reject and quarantine") /\ (w.quarantine => q)

\* What is held in a batch that passed is done with it.
LEMMA HeldIsDone ==
  ASSUME ConfShape(conf), NEW x, Held(Wanted(x[2]), batch), batch.reject = ""
  PROVE  Done(x, Wanted(x[2]), batch.quarantine)
<1>1. /\ x[2] \in Directive => Wanted(x[2]) = conf.act[x[2]]
      /\ x[2] \notin Directive => /\ Wanted(x[2]).reject <=> x[2] \in Refusal \/ x[2] = "reject and quarantine"
                                  /\ Wanted(x[2]).quarantine <=> x[2] \in Marking
  BY WantedIs
<1>2. \A d \in Directive : ~(conf.act[d].reject /\ conf.act[d].quarantine)
  BY DEF ConfShape
<1> QED
  BY <1>1, <1>2, CausesApart DEF Held, Done

LEMMA CausesStep ==
  ASSUME ChecksInv, [ChecksNext]_checksVars
  PROVE  CausesKept'
<1>0. /\ StagesInOrder /\ CausesStaged /\ RcptInHand /\ stage \in Stage /\ decision \in {"", "accepted", "refused"}
      /\ ConfShape(conf)
  BY SetupShape DEF ChecksInv, ChecksTypeOK
<1>a. setup' = setup
  BY DEF ChecksNext, FetchRDNSName, RunEarlyChecks, CheckStates, RunCheck, SpfEvaluated,
     ConnSenderDone, CheckRcpt, RcptDone, CheckBody, DmarcFetched, BodyDone, ApplyResults, Abort, Close, checksVars
<1>b. \A d : Wanted(d)' = Wanted(d)
  BY <1>a DEF Wanted, conf
<1>c. \A x \in causes : IF OfBatch(x) THEN Held(Wanted(x[2]), batch)
                         ELSE decision # "refused" /\ Counted(x) => Done(x, Wanted(x[2]), merged.quarantine)
  BY DEF ChecksInv, CausesKept, Held, Done
<1>d. SUFFICES ASSUME NEW x \in causes'
               PROVE  IF OfBatch(x)' THEN Held(Wanted(x[2]), batch')
                      ELSE decision' # "refused" /\ Counted(x)' => Done(x, Wanted(x[2]), merged'.quarantine)
  BY <1>b DEF CausesKept, Held, Done
<1>1. ASSUME batch' = batch, merged' = merged, causes' = causes, stage' = stage, decision' = decision,
             rcpt' = rcpt, accepted' = accepted
      PROVE  IF OfBatch(x)' THEN Held(Wanted(x[2]), batch')
             ELSE decision' # "refused" /\ Counted(x)' => Done(x, Wanted(x[2]), merged'.quarantine)
  BY <1>1, <1>c, <1>d DEF OfBatch, Counted
<1>2. CASE FetchRDNSName \/ SpfEvaluated \/ DmarcFetched \/ UNCHANGED checksVars
  BY <1>1, <1>2 DEF FetchRDNSName, SpfEvaluated, DmarcFetched, checksVars, batchVars, rcptVars, outVars
<1>3. CASE RunEarlyChecks
  BY <1>0, <1>3, <1>d DEF RunEarlyChecks, StagesInOrder, batchVars
<1>4. CASE CheckStates
  BY <1>0, <1>4, <1>d DEF CheckStates, StagesInOrder
<1>5. CASE RunCheck
  <2>1. PICK c \in todo : \E a : c \in Check /\ AnswerFacts(c, a) /\ Ran(c, a)
    BY <1>5, RunPicks
  <2>2. PICK a : AnswerFacts(c, a) /\ Ran(c, a)
    BY <2>1
  <2>3. /\ stage' = stage /\ decision' = decision /\ merged'.quarantine = merged.quarantine /\ accepted' = accepted
        /\ batch.reject # "" => batch'.reject # ""
        /\ batch.quarantine \/ a.res.quarantine => batch'.quarantine
        /\ a.res.reject /\ ~a.res.quarantine => batch'.reject # ""
    BY <2>2, RanFacts
  <2>4. rcpt' = rcpt
    BY <2>2 DEF Ran, rcptVars
  <2>5. (OfBatch(x)' <=> OfBatch(x)) /\ (Counted(x)' <=> Counted(x))
    BY <2>3, <2>4 DEF OfBatch, Counted
  <2>6. CASE x \in causes
    BY <1>c, <2>3, <2>5, <2>6 DEF Held
  <2>7. CASE x[2] = (IF a.deferred THEN "deferred" ELSE a.cause) /\ x[3] = stage /\ x[4] = rcpt
    <3>1. /\ Wanted(x[2]).reject /\ ~Wanted(x[2]).quarantine => a.res.reject /\ ~a.res.quarantine
          /\ Wanted(x[2]).quarantine => a.res.quarantine
      BY <1>0, <2>2, <2>7, AnswerWanted DEF AnswerFacts
    <3>2. OfBatch(x)
      BY <2>7 DEF OfBatch
    <3> QED
      BY <2>3, <2>5, <3>1, <3>2 DEF Held
  <2> QED
    BY <2>2, <2>6, <2>7, <1>d, CausesRan
<1>6. CASE ConnSenderDone
  <2>1. merged'.quarantine <=> merged.quarantine \/ (batch.reject = "" /\ batch.quarantine)
    BY <1>6, MergedDone DEF ConnSenderDone
  <2>2. causes' = causes /\ stage \in {"conn", "sender"} /\ decision = "" /\ accepted' = accepted
    BY <1>0, <1>6 DEF ConnSenderDone, StagesInOrder, rcptVars
  <2>3. CASE batch.reject = ""
    <3>1. stage' \in {"sender", "ready"} /\ stage' # stage /\ decision' = decision
      BY <1>6, <2>3 DEF ConnSenderDone, Passed, Ask
    <3>2. stage' = "sender" => stage = "conn"
      BY <1>6, <2>3 DEF ConnSenderDone, Passed, Ask
    <3>3. x[3] # stage'
      BY <1>0, <1>d, <2>2, <3>1, <3>2 DEF StagesInOrder, CausesStaged
    <3>4. ~OfBatch(x)' /\ (Counted(x)' <=> Counted(x))
      BY <2>2, <3>3 DEF OfBatch, Counted
    <3>5. CASE OfBatch(x)
      BY <1>0, <1>c, <1>d, <2>1, <2>2, <2>3, <3>4, <3>5, HeldIsDone DEF Done
    <3>6. CASE ~OfBatch(x)
      BY <1>c, <1>d, <2>1, <2>2, <3>1, <3>4, <3>6 DEF Done
    <3> QED
      BY <3>5, <3>6
  <2>4. CASE batch.reject # ""
    <3>1. stage' = "over" /\ decision' = "refused"
      BY <1>6, <2>4 DEF ConnSenderDone, Passed
    <3>2. x[3] # "over"
      BY <1>0, <1>d, <2>2 DEF CausesStaged
    <3> QED
      BY <3>1, <3>2 DEF OfBatch
  <2> QED
    BY <2>3, <2>4
<1>7. CASE \E r \in Rcpt : CheckRcpt(r)
  <2>1. PICK r \in Rcpt : CheckRcpt(r)
    BY <1>7
  <2>2. /\ causes' = causes /\ decision' = decision /\ merged' = merged /\ accepted' = accepted
        /\ stage = "ready" /\ stage' = "rcpt" /\ rcpt' = r /\ r \in offered
    BY <2>1 DEF CheckRcpt, Ask, outVars
  <2>3. ~OfBatch(x) /\ ~OfBatch(x)' /\ (Counted(x)' <=> Counted(x))
    BY <1>0, <1>d, <2>2 DEF CausesStaged, OfBatch, Counted
  <2> QED
    BY <1>c, <1>d, <2>2, <2>3
<1>8. CASE RcptDone
  <2>1. /\ causes' = causes /\ decision' = decision /\ stage = "rcpt" /\ stage' = "ready"
        /\ accepted' = IF batch.reject = "" THEN accepted \cup {rcpt} ELSE accepted
        /\ merged'.quarantine <=> merged.quarantine \/ (batch.reject = "" /\ batch.quarantine)
    BY <1>8, MergedDone DEF RcptDone, Passed, outVars
  <2>2. ~OfBatch(x)' /\ x \in causes
    BY <1>0, <1>d, <2>1 DEF CausesStaged, OfBatch
  <2>3. CASE OfBatch(x)
    <3>1. x[3] = "rcpt" /\ x[4] = rcpt /\ rcpt \notin accepted
      BY <1>0, <2>1, <2>3 DEF OfBatch, RcptInHand
    <3>2. CASE batch.reject = ""
      BY <1>0, <1>c, <2>1, <2>2, <2>3, <3>2, HeldIsDone DEF Done
    <3>3. CASE batch.reject # ""
      BY <2>1, <2>2, <3>1, <3>3 DEF Counted
    <3> QED
      BY <3>2, <3>3
  <2>4. CASE ~OfBatch(x)
    <3>1. Counted(x)' => Counted(x)
      BY <2>1, <2>4 DEF OfBatch, Counted
    <3> QED
      BY <1>c, <2>1, <2>2, <2>4, <3>1 DEF Done
  <2> QED
    BY <2>3, <2>4
<1>9. CASE CheckBody
  <2>1. /\ causes' = causes /\ decision' = decision /\ stage = "ready" /\ stage' = "body" /\ merged' = merged
        /\ accepted' = accepted
    BY <1>9 DEF CheckBody, outVars, rcptVars, Ask
  <2>2. ~OfBatch(x) /\ ~OfBatch(x)' /\ (Counted(x)' <=> Counted(x))
    BY <1>0, <1>d, <2>1 DEF CausesStaged, StagesInOrder, OfBatch, Counted
  <2> QED
    BY <1>c, <1>d, <2>1, <2>2
<1>10. CASE BodyDone
  <2>1. /\ causes' = causes /\ stage = "body" /\ decision = "" /\ accepted' = accepted
        /\ merged'.quarantine <=> merged.quarantine \/ (batch.reject = "" /\ batch.quarantine)
        /\ IF batch.reject = "" THEN stage' = "apply" /\ decision' = "" ELSE stage' = "close" /\ decision' = "refused"
    BY <1>0, <1>10, MergedDone DEF BodyDone, Passed, StagesInOrder, rcptVars
  <2>2. ~OfBatch(x)' /\ x \in causes /\ (Counted(x)' <=> Counted(x))
    BY <1>0, <1>d, <2>1 DEF CausesStaged, OfBatch, Counted
  <2>3. CASE OfBatch(x)
    BY <1>0, <1>c, <2>1, <2>2, <2>3, HeldIsDone DEF Done
  <2>4. CASE ~OfBatch(x)
    BY <1>c, <2>1, <2>2, <2>4 DEF Done
  <2> QED
    BY <2>3, <2>4
<1>11. CASE ApplyResults \/ Abort \/ Close
  <2>1. /\ causes' = causes /\ merged' = merged /\ stage \in {"apply", "ready", "close"} /\ stage' \in {"close", "over"}
        /\ decision' # "refused" => decision # "refused"
        /\ accepted' = accepted
    BY <1>0, <1>11 DEF ApplyResults, Abort, Close, batchVars, rcptVars, outVars, StagesInOrder
  <2>2. ~OfBatch(x) /\ ~OfBatch(x)' /\ (Counted(x)' <=> Counted(x))
    BY <1>0, <1>d, <2>1 DEF CausesStaged, OfBatch, Counted
  <2> QED
    BY <1>c, <1>d, <2>1, <2>2
<1> QED
  BY <1>2, <1>3, <1>4, <1>5, <1>6, <1>7, <1>8, <1>9, <1>10, <1>11 DEF ChecksNext

\* Only an answer of a check adds to what was found, and nothing is taken away.

LEMMA OnlyAnswersAdd ==
  ASSUME ChecksInv, [ChecksNext]_checksVars
  PROVE  /\ setup' = setup
         /\ ~RunCheck => /\ causes' = causes /\ dialogue' = dialogue /\ skip' = skip
                         /\ merged'.auth = merged.auth /\ (merged.quarantine => merged'.quarantine)
<1>1. setup' = setup
  BY DEF ChecksNext, FetchRDNSName, RunEarlyChecks, CheckStates, RunCheck, SpfEvaluated,
     ConnSenderDone, CheckRcpt, RcptDone, CheckBody, DmarcFetched, BodyDone, ApplyResults, Abort, Close, checksVars
<1>2. CASE FetchRDNSName \/ RunEarlyChecks \/ SpfEvaluated \/ DmarcFetched \/ ApplyResults \/ Abort \/ Close \/ UNCHANGED checksVars
  BY <1>1, <1>2 DEF FetchRDNSName, RunEarlyChecks, SpfEvaluated, DmarcFetched, ApplyResults, Abort, Close, batchVars, checksVars
<1>3. CASE CheckStates \/ CheckBody \/ \E r \in Rcpt : CheckRcpt(r)
  BY <1>1, <1>3 DEF CheckStates, CheckRcpt, CheckBody
<1>4. CASE ConnSenderDone \/ RcptDone \/ BodyDone
  <2>1. MergedQuarantine /\ causes' = causes /\ dialogue' = dialogue /\ skip' = skip
    BY <1>4 DEF ConnSenderDone, RcptDone, BodyDone
  <2> QED
    BY <1>1, <2>1, MergedDone
<1> QED
  BY <1>1, <1>2, <1>3, <1>4 DEF ChecksNext

\* A cause is of the stage it was said in.
LEMMA CausesStagedStep ==
  ASSUME ChecksInv, [ChecksNext]_checksVars
  PROVE  CausesStaged'
<1>0. CausesStaged /\ RcptInHand
  BY DEF ChecksInv
<1>a. offered' \subseteq offered
  BY DEF ChecksNext, FetchRDNSName, RunEarlyChecks, CheckStates, RunCheck, SpfEvaluated, ConnSenderDone, CheckRcpt,
     RcptDone, CheckBody, DmarcFetched, BodyDone, ApplyResults, Abort, Close, checksVars, rcptVars
<1>1. CASE RunCheck
  <2>1. PICK c \in todo : \E a : c \in Check /\ AnswerFacts(c, a) /\ Ran(c, a)
    BY <1>1, RunPicks
  <2>2. PICK a : AnswerFacts(c, a) /\ Ran(c, a)
    BY <2>1
  <2>3. stage \in {"conn", "sender", "rcpt", "body"}
    BY <1>1, RunPicks
  <2>4. \A x \in causes' : x \in causes \/ (x[3] = stage /\ x[4] = rcpt)
    BY <2>2, CausesRan
  <2> QED
    BY <1>0, <1>a, <2>3, <2>4 DEF CausesStaged, RcptInHand
<1>2. CASE ~RunCheck
  BY <1>0, <1>a, <1>2, OnlyAnswersAdd DEF CausesStaged
<1> QED
  BY <1>1, <1>2

-----------------------------------------------------------------------------
(* The results of authentication *)

\* Results of this method are among these, and there is but one of SPF.
HasIn(s, method) == \E i \in DOMAIN s : s[i].method = method
OneOfSpf(s) == \A i, j \in DOMAIN s : s[i].method = "spf" /\ s[j].method = "spf" => i = j

\* The elements of two lists of results, joined.
LEMMA JoinElements ==
  ASSUME NEW s \in Seq(AuthResult), NEW t \in Seq(AuthResult)
  PROVE  /\ Len(s) \in Nat /\ Len(t) \in Nat /\ DOMAIN s = 1..Len(s) /\ DOMAIN t = 1..Len(t)
         /\ DOMAIN (s \o t) = 1..(Len(s) + Len(t))
         /\ \A i \in 1..Len(s) : (s \o t)[i] = s[i]
         /\ \A i \in 1..Len(t) : (s \o t)[Len(s) + i] = t[i]
<1> DEFINE R == AuthResult
<1>1. s \in Seq(R) /\ t \in Seq(R)
  OBVIOUS
<1> HIDE DEF R
<1> QED
  BY <1>1

\* A method has a result in the joined list when it has one in either.
LEMMA JoinHas ==
  ASSUME NEW s \in Seq(AuthResult), NEW t \in Seq(AuthResult), NEW me
  PROVE  HasIn(s \o t, me) <=> HasIn(s, me) \/ HasIn(t, me)
<1> DEFINE u == s \o t
           n == Len(s)
           k == Len(t)
<1>1. /\ n \in Nat /\ k \in Nat /\ DOMAIN s = 1..n /\ DOMAIN t = 1..k /\ DOMAIN u = 1..(n + k)
      /\ \A i \in 1..n : u[i] = s[i]
      /\ \A i \in 1..k : u[n + i] = t[i]
  BY JoinElements
<1> HIDE DEF u, n, k
<1>2. ASSUME HasIn(s, me) PROVE HasIn(u, me)
  <2>1. PICK i \in 1..n : s[i].method = me
    BY <1>1, <1>2 DEF HasIn
  <2>2. i \in 1..(n + k) /\ u[i].method = me
    BY <1>1, <2>1
  <2> QED
    BY <1>1, <2>2 DEF HasIn
<1>3. ASSUME HasIn(t, me) PROVE HasIn(u, me)
  <2>1. PICK i \in 1..k : t[i].method = me
    BY <1>1, <1>3 DEF HasIn
  <2>2. n + i \in 1..(n + k) /\ u[n + i].method = me
    BY <1>1, <2>1
  <2> QED
    BY <1>1, <2>2 DEF HasIn
<1>4. ASSUME HasIn(u, me) PROVE HasIn(s, me) \/ HasIn(t, me)
  <2>1. PICK i \in 1..(n + k) : u[i].method = me
    BY <1>1, <1>4 DEF HasIn
  <2>2. CASE i <= n
    BY <1>1, <2>1, <2>2, SMTT(30) DEF HasIn
  <2>3. CASE i > n
    <3>1. i - n \in 1..k /\ n + (i - n) = i
      BY <1>1, <2>1, <2>3
    <3>2. t[i - n].method = me
      BY <1>1, <2>1, <3>1
    <3> QED
      BY <1>1, <3>1, <3>2 DEF HasIn
  <2> QED
    BY <1>1, <2>1, <2>2, <2>3
<1> QED
  BY <1>2, <1>3, <1>4 DEF u

\* Joining keeps SPF single when but one side has it.
LEMMA JoinOnce ==
  ASSUME NEW s \in Seq(AuthResult), NEW t \in Seq(AuthResult), OneOfSpf(s), OneOfSpf(t),
         ~HasIn(s, "spf") \/ ~HasIn(t, "spf")
  PROVE  OneOfSpf(s \o t)
<1> DEFINE u == s \o t
           n == Len(s)
           k == Len(t)
<1>1. /\ n \in Nat /\ k \in Nat /\ DOMAIN s = 1..n /\ DOMAIN t = 1..k /\ DOMAIN u = 1..(n + k)
      /\ \A i \in 1..n : u[i] = s[i]
      /\ \A i \in 1..k : u[n + i] = t[i]
  BY JoinElements
<1> HIDE DEF u, n, k
<1>2. SUFFICES ASSUME NEW i \in 1..(n + k), NEW j \in 1..(n + k), u[i].method = "spf", u[j].method = "spf"
               PROVE  i = j
  BY <1>1 DEF OneOfSpf, u
<1>3. ASSUME NEW x \in 1..(n + k), u[x].method = "spf"
      PROVE  \/ x \in 1..n /\ s[x].method = "spf"
             \/ x - n \in 1..k /\ t[x - n].method = "spf"
  <2>1. CASE x <= n
    BY <1>1, <1>3, <2>1
  <2>2. CASE x > n
    <3>1. x - n \in 1..k /\ n + (x - n) = x
      BY <1>1, <2>2
    <3> QED
      BY <1>1, <1>3, <3>1
  <2> QED
    BY <1>1, <2>1, <2>2
<1>4. CASE ~HasIn(t, "spf")
  <2>1. i \in 1..n /\ s[i].method = "spf" /\ j \in 1..n /\ s[j].method = "spf"
    BY <1>1, <1>2, <1>3, <1>4 DEF HasIn
  <2> QED
    BY <1>1, <2>1 DEF OneOfSpf
<1>5. CASE ~HasIn(s, "spf")
  <2>1. i - n \in 1..k /\ t[i - n].method = "spf" /\ j - n \in 1..k /\ t[j - n].method = "spf"
    BY <1>1, <1>2, <1>3, <1>5 DEF HasIn
  <2>2. i - n = j - n
    BY <1>1, <2>1 DEF OneOfSpf
  <2> QED
    BY <1>1, <2>2
<1> QED
  BY <1>4, <1>5

\* What an answer adds to the results, by the check that gives it.

LEMMA AddedResults ==
  ASSUME NEW c, NEW a, AnswerFacts(c, a), a.res.auth \in Seq(AuthResult)
  PROVE  /\ OneOfSpf(a.res.auth)
         /\ HasIn(a.res.auth, "spf") => c = "spf" /\ IF conf.enforceEarly THEN stage = "conn" ELSE stage = "body"
         /\ HasIn(a.res.auth, "dkim") => c = "dkim"
         /\ c = "dkim" /\ stage = "body" => Refuses(a) \/ HasIn(a.res.auth, "dkim")
         /\ Delays(a) => HasIn(a.res.auth, "spf")
<1> DEFINE t == a.res.auth
<1>1. CASE Bare(a)
  <2>1. t = <<>>
    BY <1>1 DEF Bare
  <2>2. DOMAIN t = {}
    BY <2>1
  <2>3. ~SpfOnly(a)
    BY <2>1 DEF SpfOnly
  <2> QED
    BY <1>1, <2>2, <2>3 DEF HasIn, OneOfSpf, AnswerFacts
<1>2. CASE c = "spf" /\ ~Bare(a)
  <2>1. PICK r \in AuthResult : r.method = "spf" /\ t = <<r>>
    BY <1>2 DEF AnswerFacts, SpfOnly
  <2>2. DOMAIN t = {1} /\ t[1] = r
    BY <2>1
  <2>3. IF conf.enforceEarly THEN stage = "conn" ELSE stage = "body"
    BY <1>2 DEF AnswerFacts
  <2> HIDE DEF t
  <2>4. OneOfSpf(t) /\ HasIn(t, "spf") /\ ~HasIn(t, "dkim")
    BY <2>1, <2>2 DEF HasIn, OneOfSpf
  <2> QED
    BY <1>2, <2>3, <2>4 DEF t
<1>3. CASE c = "dkim" /\ ~Bare(a)
  <2>1. \A i \in DOMAIN t : t[i].method = "dkim"
    BY <1>3 DEF AnswerFacts, DkimOnly
  <2>2. ~Delays(a)
    BY <1>3 DEF AnswerFacts
  <2>3. 1 \in DOMAIN t
    <3>1. t # <<>>
      BY <1>3 DEF Bare
    <3> DEFINE R == AuthResult
    <3>2. t \in Seq(R)
      OBVIOUS
    <3> HIDE DEF t, R
    <3> QED
      BY <3>1, <3>2
  <2> HIDE DEF t
  <2>4. OneOfSpf(t) /\ HasIn(t, "dkim") /\ ~HasIn(t, "spf")
    BY <2>1, <2>3 DEF HasIn, OneOfSpf
  <2> QED
    BY <1>3, <2>2, <2>4 DEF t
<1> QED
  BY <1>1, <1>2, <1>3 DEF AnswerFacts

\* SPF gives its result once.
LEMMA SpfOnceStep ==
  ASSUME ChecksInv, [ChecksNext]_checksVars
  PROVE  SpfOnce'
<1>0. /\ SpfOnce /\ StagesInOrder /\ stage \in Stage /\ decision \in {"", "accepted", "refused"}
      /\ merged.auth \in Seq(AuthResult) /\ todo \subseteq setup.checks
  BY DEF ChecksInv, ChecksTypeOK
<1>a. setup' = setup
  BY OnlyAnswersAdd
<1>1. CASE RunCheck
  <2>1. PICK c \in todo : \E a : c \in Check /\ AnswerFacts(c, a) /\ Ran(c, a)
    BY <1>1, RunPicks
  <2>2. PICK a : AnswerFacts(c, a) /\ Ran(c, a)
    BY <2>1
  <2> DEFINE s == merged.auth
             t == a.res.auth
             u == merged'.auth
  <2>3. /\ stage' = stage /\ decision' = decision /\ todo' = todo \ {c} /\ u = s \o t /\ t \in Seq(AuthResult)
        /\ batch.reject # "" => batch'.reject # ""
        /\ a.res.reject /\ ~a.res.quarantine => batch'.reject # ""
    BY <2>2, RanFacts
  <2>4. stage \in {"conn", "sender", "rcpt", "body"}
    BY <1>1, RunPicks
  <2>5. /\ OneOfSpf(t)
        /\ HasIn(t, "spf") => c = "spf" /\ IF conf.enforceEarly THEN stage = "conn" ELSE stage = "body"
        /\ HasIn(t, "dkim") => c = "dkim"
        /\ c = "dkim" /\ stage = "body" => Refuses(a) \/ HasIn(t, "dkim")
    BY <2>2, <2>3, AddedResults
  <2>6. (HasIn(u, "spf") <=> HasIn(s, "spf") \/ HasIn(t, "spf")) /\ (HasIn(u, "dkim") <=> HasIn(s, "dkim") \/ HasIn(t, "dkim"))
    <3>1. s \in Seq(AuthResult) /\ t \in Seq(AuthResult) /\ u = s \o t
      BY <1>0, <2>3
    <3> HIDE DEF s, t, u
    <3>2. \A me : HasIn(s \o t, me) <=> HasIn(s, me) \/ HasIn(t, me)
      BY <3>1, JoinHas
    <3> QED
      BY <3>1, <3>2
  <2>7. /\ OneOfSpf(s)
        /\ HasIn(s, "spf") =>
             /\ Uses("spf")
             /\ IF conf.enforceEarly THEN stage = "conn" => "spf" \notin todo
                ELSE stage \in {"body", "apply", "close", "over"} /\ (stage = "body" => "spf" \notin todo)
        /\ HasIn(s, "dkim") => Uses("dkim")
        /\ Uses("dkim") /\ stage = "body" /\ "dkim" \notin todo /\ batch.reject = "" => HasIn(s, "dkim")
    BY <1>0 DEF SpfOnce, Has, HasIn, OneOfSpf, Settled
  <2>8. OneOfSpf(u)
    <3>1. HasIn(t, "spf") => ~HasIn(s, "spf")
      BY <2>1, <2>5, <2>7
    <3> QED
      BY <1>0, <2>3, <2>5, <2>7, <3>1, JoinOnce
  <2>9. HasIn(u, "spf") =>
             /\ Uses("spf")
             /\ IF conf.enforceEarly THEN stage = "conn" => "spf" \notin todo'
                ELSE stage \in {"body", "apply", "close", "over"} /\ (stage = "body" => "spf" \notin todo')
    BY <1>0, <2>1, <2>3, <2>5, <2>6, <2>7 DEF Uses
  <2>10. HasIn(u, "dkim") => Uses("dkim")
    BY <1>0, <2>1, <2>5, <2>6, <2>7 DEF Uses
  <2>11. Uses("dkim") /\ stage = "body" /\ "dkim" \notin todo' /\ batch'.reject = "" => HasIn(u, "dkim")
    <3>1. Refuses(a) => batch'.reject # ""
      BY <2>3 DEF Refuses
    <3> QED
      BY <2>1, <2>3, <2>5, <2>6, <2>7, <3>1
  <2>12. decision = "" /\ stage # "apply"
    BY <1>0, <2>4 DEF StagesInOrder
  <2> HIDE DEF u, s, t
  <2>13. /\ OneOfSpf(u)
         /\ HasIn(u, "spf") =>
             /\ Uses("spf")'
             /\ IF conf'.enforceEarly THEN stage' = "conn" => "spf" \notin todo'
                ELSE stage' \in {"body", "apply", "close", "over"} /\ (stage' = "body" => "spf" \notin todo')
         /\ HasIn(u, "dkim") => Uses("dkim")'
         /\ Uses("dkim")' /\ Settled("dkim", "body")' => HasIn(u, "dkim")
    BY <1>a, <2>3, <2>8, <2>9, <2>10, <2>11, <2>12 DEF Uses, Settled, conf
  <2> QED
    BY <2>13 DEF SpfOnce, Has, HasIn, OneOfSpf, u
<1>2. CASE ~RunCheck
  <2>1. merged'.auth = merged.auth
    BY <1>2, OnlyAnswersAdd
  <2>2. (Has("spf")' <=> Has("spf")) /\ (Has("dkim")' <=> Has("dkim"))
    BY <2>1 DEF Has
  <2>3. SUFFICES /\ Has("spf") => IF conf.enforceEarly THEN stage' = "conn" => "spf" \notin todo'
                                  ELSE stage' \in {"body", "apply", "close", "over"} /\ (stage' = "body" => "spf" \notin todo')
                 /\ Uses("dkim") /\ Settled("dkim", "body")' => Has("dkim")
    <3>1. (Uses("spf")' <=> Uses("spf")) /\ (Uses("dkim")' <=> Uses("dkim")) /\ conf' = conf
      BY <1>a DEF Uses, conf
    <3>2. \A i, j \in DOMAIN merged'.auth : merged'.auth[i].method = "spf" /\ merged'.auth[j].method = "spf" => i = j
      BY <1>0, <2>1 DEF SpfOnce
    <3>3. (Has("spf") => Uses("spf")) /\ (Has("dkim") => Uses("dkim"))
      BY <1>0 DEF SpfOnce
    <3> QED
      BY <2>2, <2>3, <3>1, <3>2, <3>3 DEF SpfOnce
  <2>4. /\ Has("spf") => IF conf.enforceEarly THEN stage = "conn" => "spf" \notin todo
                         ELSE stage \in {"body", "apply", "close", "over"} /\ (stage = "body" => "spf" \notin todo)
        /\ Uses("dkim") /\ Settled("dkim", "body") => Has("dkim")
    BY <1>0 DEF SpfOnce
  <2>5. stage \in {"early", "states"} => ~Has("spf")
    <3>1. stage \in {"early", "states"} => merged.auth = <<>>
      BY <1>0 DEF StagesInOrder
    <3>2. merged.auth = <<>> => DOMAIN merged.auth = {}
      OBVIOUS
    <3> QED
      BY <3>1, <3>2 DEF Has
  <2> USE DEF Settled
  <2>6. CASE FetchRDNSName \/ SpfEvaluated \/ DmarcFetched \/ UNCHANGED checksVars
    BY <2>4, <2>6 DEF FetchRDNSName, SpfEvaluated, DmarcFetched, checksVars, batchVars, outVars
  <2>7. CASE RunEarlyChecks \/ CheckStates
    BY <1>0, <2>4, <2>5, <2>7 DEF RunEarlyChecks, CheckStates, batchVars, Ask, StagesInOrder
  <2>8. CASE ConnSenderDone
    BY <1>0, <2>4, <2>8 DEF ConnSenderDone, Ask, StagesInOrder
  <2>9. CASE (\E r \in Rcpt : CheckRcpt(r)) \/ RcptDone \/ Abort
    BY <1>0, <2>4, <2>9 DEF CheckRcpt, RcptDone, Abort, batchVars, outVars, Ask, StagesInOrder
  <2>10. CASE CheckBody
    BY <1>0, <2>4, <2>10 DEF CheckBody, outVars, Ask, StagesInOrder, Uses
  <2>11. CASE BodyDone
    BY <1>0, <2>4, <2>11 DEF BodyDone, Passed, StagesInOrder
  <2>12. CASE ApplyResults \/ Close
    BY <1>0, <2>4, <2>12 DEF ApplyResults, Close, batchVars, outVars, StagesInOrder
  <2> QED
    BY <1>2, <2>6, <2>7, <2>8, <2>9, <2>10, <2>11, <2>12 DEF ChecksNext
<1> QED
  BY <1>1, <1>2

\* What is left to DMARC is left to a policy that was seen.
LEMMA LeftToPolicyStep ==
  ASSUME ChecksInv, [ChecksNext]_checksVars
  PROVE  LeftToPolicy'
<1>0. LeftToPolicy /\ merged.auth \in Seq(AuthResult)
  BY DEF ChecksInv
<1>a. setup' = setup
  BY OnlyAnswersAdd
<1>b. FromDomain' = FromDomain /\ meta' = meta
  BY <1>a DEF FromDomain, meta
<1> DEFINE Seen == FromDomain # "error" /\ \E d \in FetchRecord(meta.zone, meta.rec, FromDomain) : relyOnDMARC(d, FromDomain)
<1>c. Seen' = Seen
  BY <1>b
<1>d. \A x \in causes : x[2] = "deferred" => Has("spf") /\ Seen
  BY <1>0 DEF LeftToPolicy
<1>e. SUFFICES \A x \in causes' : x[2] = "deferred" => Has("spf")' /\ Seen'
  BY DEF LeftToPolicy
<1> HIDE DEF Seen
<1>1. CASE RunCheck
  <2>1. PICK c \in todo : \E a : c \in Check /\ AnswerFacts(c, a) /\ Ran(c, a)
    BY <1>1, RunPicks
  <2>2. PICK a : AnswerFacts(c, a) /\ Ran(c, a)
    BY <2>1
  <2> DEFINE s == merged.auth
             t == a.res.auth
             u == merged'.auth
  <2>3. u = s \o t /\ t \in Seq(AuthResult) /\ a.cause \in Cause
    BY <2>2, RanFacts
  <2>4. HasIn(u, "spf") <=> HasIn(s, "spf") \/ HasIn(t, "spf")
    BY <1>0, <2>3, JoinHas
  <2>5. Delays(a) => HasIn(t, "spf") /\ Seen
    <3>1. Delays(a) => HasIn(t, "spf")
      BY <2>2, <2>3, AddedResults
    <3>2. Delays(a) => Seen
      BY <2>2 DEF AnswerFacts, Seen
    <3> QED
      BY <3>1, <3>2
  <2>6. Has("spf") = HasIn(s, "spf") /\ Has("spf")' = HasIn(u, "spf")
    BY DEF Has, HasIn
  <2>7. \A x \in causes' : x \in causes \/ (x[2] = "deferred" => Delays(a))
    <3>1. a.cause # "deferred"
      BY <2>3 DEF Cause, Directive
    <3>2. SUFFICES ASSUME NEW x \in causes' PROVE x \in causes \/ (x[2] = "deferred" => Delays(a))
      OBVIOUS
    <3>3. x \in causes \/ x[2] = (IF a.deferred THEN "deferred" ELSE a.cause)
      BY <2>2, CausesRan
    <3> QED
      BY <3>1, <3>3 DEF Delays
  <2> HIDE DEF s, t, u
  <2> QED
    BY <1>c, <1>d, <2>4, <2>5, <2>6, <2>7
<1>2. CASE ~RunCheck
  <2>1. merged'.auth = merged.auth /\ causes' = causes
    BY <1>2, OnlyAnswersAdd
  <2> QED
    BY <1>c, <1>d, <2>1 DEF Has
<1> QED
  BY <1>1, <1>2

-----------------------------------------------------------------------------
(* The verdict of DMARC *)

\* The verifier always says something.
LEMMA VerdictSpoken ==
  ASSUME NEW data, NEW from, NEW results, NEW roll
  PROVE  VerifierApply(data, from, results, roll).value # ""
<1> DEFINE value == EvaluateAlignment(from, data.rec, results)
           v == VerifierApply(data, from, results, roll)
           p == IF value \in {"pass", "none"} \/ roll > data.rec.pct THEN "none" ELSE PolicyFor(data, from)
<1>1. value # ""
  BY DEF EvaluateAlignment
<1>2. CASE data.err = "temp"
  BY <1>2 DEF VerifierApply
<1>3. CASE data.err # "temp" /\ data.err # ""
  BY <1>3 DEF VerifierApply
<1>4. CASE data.err = "" /\ data.rec = NoRecord
  BY <1>4 DEF VerifierApply
<1>5. CASE data.err = "" /\ data.rec # NoRecord
  <2>1. v = [value |-> value, policy |-> p]
    BY <1>5 DEF VerifierApply
  <2> HIDE DEF value, p, v
  <2>2. v.value = value
    BY <2>1
  <2> QED
    BY <1>1, <2>2 DEF v
<1> QED
  BY <1>2, <1>3, <1>4, <1>5

\* The policy in hand, and the verdict that was made of it.
InHand ==
  /\ \/ dmarcFetch.err \in {"pending", "running", "perm", "panic"}
     \/ FromDomain # "error" /\ dmarcFetch \in FetchRecord(meta.zone, meta.rec, FromDomain)
  /\ dmarcFetch.err = "running" => FromDomain # "error"
MadeOf ==
  dmarc.value # "" =>
    /\ stage \in {"close", "over"} /\ dmarcFetch.err \notin {"pending", "running"}
    /\ \E roll \in 0..99 : dmarc = VerifierApply(dmarcFetch, FromDomain, merged.auth, roll)
Followed ==
  decision = "accepted" =>
    /\ merged.quarantine => quarantine
    /\ conf.dmarc => dmarc.value # "" /\ dmarc.policy # "reject"
    /\ conf.dmarc /\ dmarc.policy = "quarantine" => quarantine
    /\ quarantine => merged.quarantine \/ (conf.dmarc /\ dmarc.policy = "quarantine")

\* The verdict is of the policy in hand and is followed.
LEMMA VerdictStep ==
  ASSUME ChecksInv, [ChecksNext]_checksVars
  PROVE  VerdictOfPolicy'
<1>0. /\ InHand /\ MadeOf /\ Followed /\ StagesInOrder /\ stage \in Stage
      /\ merged.quarantine \in BOOLEAN
  BY DEF ChecksInv, ChecksTypeOK, VerdictOfPolicy, InHand, MadeOf, Followed
<1>a. setup' = setup /\ FromDomain' = FromDomain /\ meta' = meta /\ conf' = conf
  <2>1. setup' = setup
    BY OnlyAnswersAdd
  <2> QED
    BY <2>1 DEF FromDomain, meta, conf
<1>b. SUFFICES InHand' /\ MadeOf' /\ Followed'
  BY DEF VerdictOfPolicy, InHand, MadeOf, Followed
<1>1. InHand'
  <2>1. CASE dmarcFetch' = dmarcFetch
    BY <1>0, <1>a, <2>1 DEF InHand
  <2>2. CASE CheckBody
    <3>1. \/ dmarcFetch' = dmarcFetch
          \/ dmarcFetch' = Fetched("", NoRecord, "perm")
          \/ FromDomain # "error" /\ dmarcFetch' = [NotFetched EXCEPT !.err = "running"]
      BY <2>2 DEF CheckBody, FromDomain
    <3>2. CASE dmarcFetch' = Fetched("", NoRecord, "perm")
      <4>1. dmarcFetch'.err = "perm"
        BY <3>2 DEF Fetched
      <4> QED
        BY <4>1 DEF InHand
    <3>3. CASE FromDomain # "error" /\ dmarcFetch' = [NotFetched EXCEPT !.err = "running"]
      <4>1. dmarcFetch'.err = "running"
        BY <3>3 DEF Fetched, NotFetched
      <4> QED
        BY <1>a, <3>3, <4>1 DEF InHand
    <3> QED
      BY <2>1, <3>1, <3>2, <3>3
  <2>3. CASE DmarcFetched
    <3>1. /\ FromDomain # "error"
          /\ dmarcFetch' \in FetchRecord(meta.zone, meta.rec, FromDomain) \cup {Fetched("", NoRecord, "panic")}
      BY <1>0, <2>3 DEF DmarcFetched, FromDomain, InHand
    <3>2. CASE dmarcFetch' = Fetched("", NoRecord, "panic")
      <4>1. dmarcFetch'.err = "panic"
        BY <3>2 DEF Fetched
      <4> QED
        BY <4>1 DEF InHand
    <3> QED
      BY <1>a, <3>1, <3>2 DEF InHand
  <2> QED
    BY <2>1, <2>2, <2>3 DEF ChecksNext, FetchRDNSName, RunEarlyChecks, CheckStates, RunCheck, SpfEvaluated,
       ConnSenderDone, CheckRcpt, RcptDone, BodyDone, ApplyResults, Abort, Close, checksVars, futures
<1>2. CASE ApplyResults
  <2>1. /\ stage' = "close" /\ merged' = merged /\ dmarcFetch' = dmarcFetch /\ stage = "apply"
    BY <1>2 DEF ApplyResults, batchVars, futures
  <2>2. dmarc.value = ""
    BY <1>0, <2>1 DEF MadeOf
  <2>3. CASE ~conf.dmarc
    <3>1. dmarc' = dmarc /\ quarantine' = merged.quarantine
      BY <1>2, <2>3 DEF ApplyResults
    <3> QED
      BY <1>1, <1>a, <2>1, <2>2, <2>3, <3>1 DEF MadeOf, Followed
  <2>4. CASE conf.dmarc
    <3>1. PICK roll \in 0..99 : dmarc' = VerifierApply(dmarcFetch, FromDomain, merged.auth, roll)
      BY <1>2, <2>4 DEF ApplyResults, FromDomain
    <3>2. /\ dmarcFetch.err \notin {"pending", "running"}
          /\ decision' = IF dmarc'.policy = "reject" THEN "refused" ELSE "accepted"
          /\ quarantine' = (merged.quarantine \/ dmarc'.policy = "quarantine")
      BY <1>2, <2>4 DEF ApplyResults
    <3>3. dmarc'.value # ""
      BY <3>1, VerdictSpoken
    <3>4. MadeOf'
      BY <1>a, <2>1, <3>1, <3>2 DEF MadeOf
    <3>5. Followed'
      <4>1. quarantine' <=> merged.quarantine \/ dmarc'.policy = "quarantine"
        BY <3>2
      <4>2. decision' = "accepted" => dmarc'.policy # "reject"
        BY <3>2
      <4>3. merged' = merged /\ conf' = conf
        BY <1>a, <2>1
      <4> QED
        BY <2>4, <3>3, <4>1, <4>2, <4>3 DEF Followed
    <3> QED
      BY <1>1, <3>4, <3>5
  <2> QED
    BY <2>3, <2>4
<1>3. CASE ~ApplyResults
  <2>1. /\ dmarc' = dmarc /\ quarantine' = quarantine
        /\ decision' = "accepted" => decision = "accepted"
    BY <1>3 DEF ChecksNext, FetchRDNSName, RunEarlyChecks, CheckStates, RunCheck, SpfEvaluated, ConnSenderDone,
       CheckRcpt, RcptDone, CheckBody, DmarcFetched, BodyDone, Abort, Close, checksVars, outVars
  <2>2. CASE stage \in {"close", "over"}
    <3>1. stage' \in {"close", "over"} /\ merged' = merged
      BY <1>3, <2>2 DEF ChecksNext, FetchRDNSName, RunEarlyChecks, CheckStates, RunCheck, SpfEvaluated, ConnSenderDone,
         CheckRcpt, RcptDone, CheckBody, DmarcFetched, BodyDone, Abort, Close, checksVars, batchVars
    <3>2. dmarcFetch' = dmarcFetch \/ dmarcFetch.err = "running"
      BY <1>3, <2>2 DEF ChecksNext, FetchRDNSName, RunEarlyChecks, CheckStates, RunCheck, SpfEvaluated, ConnSenderDone,
         CheckRcpt, RcptDone, CheckBody, DmarcFetched, BodyDone, Abort, Close, checksVars, futures
    <3>3. MadeOf'
      BY <1>0, <1>a, <2>1, <3>1, <3>2 DEF MadeOf
    <3>4. Followed'
      BY <1>0, <1>a, <2>1, <3>1 DEF Followed
    <3> QED
      BY <1>1, <3>3, <3>4
  <2>3. CASE stage \notin {"close", "over"}
    <3>1. dmarc.value = "" /\ decision # "accepted"
      BY <1>0, <2>3 DEF MadeOf, StagesInOrder
    <3> QED
      BY <1>1, <2>1, <3>1 DEF MadeOf, Followed
  <2> QED
    BY <2>2, <2>3
<1> QED
  BY <1>2, <1>3

-----------------------------------------------------------------------------
(* Senders and lists *)

\* The configuration refuses whoever may not send under the addresses.
Strict ==
  /\ Uses("authorize_sender") /\ meta.conn # "local"
  /\ conf.act["unauth_action"].reject /\ conf.act["no_match_action"].reject
  /\ conf.act["err_action"].reject

\* How the stages settle, whichever check is asked about.

LEMMA SettledStep ==
  ASSUME ChecksInv, [ChecksNext]_checksVars, ~RunCheck, NEW c, Uses(c), NEW s \in {"sender", "body"}, Settled(c, s)'
  PROVE  Settled(c, s)
<1>0. StagesInOrder /\ stage \in Stage
  BY DEF ChecksInv, ChecksTypeOK
<1>1. CASE FetchRDNSName \/ SpfEvaluated \/ DmarcFetched \/ UNCHANGED checksVars
  BY <1>1 DEF Settled, Going, FetchRDNSName, SpfEvaluated, DmarcFetched, checksVars, batchVars, outVars
<1>2. CASE RunEarlyChecks \/ CheckStates
  BY <1>0, <1>2 DEF Settled, Going, RunEarlyChecks, CheckStates, batchVars, Ask, StagesInOrder
<1>3. CASE ConnSenderDone
  BY <1>0, <1>3 DEF Settled, Going, ConnSenderDone, Ask, Passed, StagesInOrder, Uses
<1>4. CASE (\E r \in Rcpt : CheckRcpt(r)) \/ RcptDone
  BY <1>0, <1>4 DEF Settled, Going, CheckRcpt, RcptDone, outVars, Ask, StagesInOrder
<1>5. CASE CheckBody
  BY <1>0, <1>5 DEF Settled, Going, CheckBody, outVars, Ask, StagesInOrder, Uses
<1>6. CASE BodyDone
  BY <1>0, <1>6 DEF Settled, Going, BodyDone, Passed, StagesInOrder
<1>7. CASE ApplyResults \/ Abort \/ Close
  BY <1>0, <1>7 DEF Settled, Going, ApplyResults, Abort, Close, batchVars, outVars, StagesInOrder
<1> QED
  BY <1>1, <1>2, <1>3, <1>4, <1>5, <1>6, <1>7 DEF ChecksNext

\* Who may not send under the addresses has been refused.
LEMMA SendersStep ==
  ASSUME ChecksInv, [ChecksNext]_checksVars
  PROVE  SendersHeard'
<1>a. setup' = setup
  BY OnlyAnswersAdd
<1> DEFINE Sender == meta.user \notin {"", "bad"} /\ MayUse(meta.sender)
           Header == conf.checkHeader => MayUse(meta.fromHdr) \/ MayUse(meta.senderHdr)
<1>b. Strict' = Strict /\ Sender' = Sender /\ Header' = Header /\ Uses("authorize_sender")' = Uses("authorize_sender")
  BY <1>a DEF Strict, Uses, meta, conf, MayUse
<1>c. Strict => (Settled("authorize_sender", "sender") => Sender) /\ (Settled("authorize_sender", "body") => Header)
  BY DEF ChecksInv, SendersHeard, Strict
<1>d. SUFFICES ASSUME Strict
               PROVE  (Settled("authorize_sender", "sender")' => Sender) /\ (Settled("authorize_sender", "body")' => Header)
  <2>1. Strict' => (Settled("authorize_sender", "sender")' => Sender') /\ (Settled("authorize_sender", "body")' => Header')
    BY <1>b, <1>d
  <2> QED
    BY <2>1 DEF SendersHeard, Strict
<1> HIDE DEF Sender, Header
<1>1. CASE RunCheck
  <2>1. PICK c \in todo : \E a : c \in Check /\ AnswerFacts(c, a) /\ Ran(c, a)
    BY <1>1, RunPicks
  <2>2. PICK a : AnswerFacts(c, a) /\ Ran(c, a)
    BY <2>1
  <2>3. /\ stage' = stage /\ decision' = decision /\ todo' = todo \ {c}
        /\ batch.reject # "" => batch'.reject # ""
        /\ a.res.reject /\ ~a.res.quarantine => batch'.reject # ""
    BY <2>2, RanFacts
  <2>4. CASE c # "authorize_sender"
    BY <1>c, <1>d, <2>3, <2>4 DEF Settled, Going
  <2>5. CASE c = "authorize_sender"
    <3>1. ASSUME a # Nothing PROVE batch'.reject # ""
      <4>1. PICK d \in {"unauth_action", "err_action", "no_match_action"} : a.cause = d
        BY <2>2, <2>5, <3>1 DEF AnswerFacts, Names
      <4>2. d \in Directive /\ conf.act[d].reject
        BY <1>d DEF Strict, Directive
      <4>3. ~conf.act[d].quarantine
        BY <4>2, SetupShape DEF ConfShape
      <4>4. ~a.deferred
        BY <2>2, <2>5 DEF AnswerFacts, Delays
      <4>5. (a.res.reject <=> conf.act[d].reject) /\ (a.res.quarantine <=> conf.act[d].quarantine)
        BY <2>2, <4>1, <4>2, <4>4 DEF AnswerFacts, Sound
      <4> QED
        BY <2>3, <4>2, <4>3, <4>5
    <3>2. meta.conn # "local"
      BY <1>d DEF Strict
    <3>3. a = Nothing => (stage = "sender" => Sender) /\ (stage = "body" => Header)
      BY <2>2, <2>5, <3>2 DEF AnswerFacts, Sender, Header
    <3> QED
      BY <1>c, <1>d, <2>3, <3>1, <3>3 DEF Settled, Going
  <2> QED
    BY <2>4, <2>5
<1>2. CASE ~RunCheck
  <2>1. Uses("authorize_sender")
    BY <1>d DEF Strict
  <2> QED
    BY <1>2, <1>c, <1>d, <2>1, SettledStep
<1> QED
  BY <1>1, <1>2

-----------------------------------------------------------------------------

\* The four answers of the early check, by what they make of the message.

LEMMA EarlyMeans ==
  /\ \A r \in {"temp", "perm"} : Refuses(Internal(r)) /\ Refuses(Answer(Rejects(r), "reject"))
  /\ Quiet(Nothing)
<1>1. \A r \in {"temp", "perm"} : Refuses(Internal(r))
  BY InternalSound
<1>2. "reject" \in Refusal
  BY DEF Refusal
<1>3. \A r \in {"temp", "perm"} : Refuses(Answer(Rejects(r), "reject"))
  BY <1>2, RefusalSound
<1> QED
  BY <1>1, <1>3, NothingSound

\* An answer to the score: what is too high is rejected, and what is high is marked.
High == ScoreOfLists >= conf.rejectThres
Some == ScoreOfLists >= conf.quarantineThres
Scored(a) == Refuses(a) \/ (~High /\ ~a.res.reject /\ (a.res.quarantine <=> Some))

\* The early check answers to the score.
LEMMA EarlyScored ==
  ASSUME NEW f \in Findings(meta, conf)
  PROVE  Scored(checkLists(meta, conf, f))
<1> DEFINE a == checkLists(meta, conf, f)
           l == Answer([Says("perm") EXCEPT !.quarantine = TRUE], "quarantine")
           i == Internal("temp")
           r == Answer(Rejects("perm"), "reject")
<1>1. \/ a = i
      \/ High /\ a = r
      \/ ~High /\ Some /\ a = l
      \/ ~High /\ ~Some /\ a = Nothing
  BY CheckListsMeans DEF High, Some
<1>2. Refuses(i) /\ Refuses(r) /\ Quiet(Nothing)
  BY EarlyMeans
<1>3. ~l.res.reject /\ l.res.quarantine
  BY ListedSound
<1> HIDE DEF a, l, i, r
<1>4. Scored(a)
  BY <1>1, <1>2, <1>3 DEF Scored, Quiet
<1> QED
  BY <1>4 DEF a

\* An early answer that rejects does nothing else.
LEMMA EarlyRefuses ==
  ASSUME EarlyAnswer, modData.res.reject
  PROVE  Refuses(modData)
<1> DEFINE l == Answer([Says("perm") EXCEPT !.quarantine = TRUE], "quarantine")
           i == Internal("temp")
           r == Answer(Rejects("perm"), "reject")
<1>1. modData \in {Nothing, i, r, l}
  BY DEF EarlyAnswer
<1>2. Refuses(i) /\ Refuses(r) /\ Quiet(Nothing)
  BY EarlyMeans
<1>3. ~l.res.reject
  BY ListedSound
<1> HIDE DEF l, i, r
<1> QED
  BY <1>1, <1>2, <1>3 DEF Quiet

\* ScoreKept, part by part.
OnlyLists == setup.checks = {"dnsbl"} /\ meta.conn = "tcp"
Early   == stage \in {"states", "conn"} =>
             ~merged.quarantine /\ (modData.res.reject \/ (~High /\ (modData.res.quarantine <=> Some)))
Unasked == stage = "conn" /\ "dnsbl" \in todo => ~batch.quarantine
Asked   == stage = "conn" /\ "dnsbl" \notin todo => batch.reject # "" \/ (~High /\ (batch.quarantine <=> Some))
Later   == stage \in {"sender", "rcpt", "body"} => ~batch.quarantine
Carried == stage = "sender" \/ Going => ~High /\ (merged.quarantine <=> Some)

\* The score of the lists is carried through the stages.
LEMMA ScoreStep ==
  ASSUME ChecksInv, [ChecksNext]_checksVars
  PROVE  ScoreKept'
<1>a. setup' = setup
  BY OnlyAnswersAdd
<1>b. OnlyLists' = OnlyLists /\ High' = High /\ Some' = Some
  BY <1>a DEF OnlyLists, High, Some, ScoreOfLists, Counts, meta, conf
<1>c. OnlyLists => Early /\ Unasked /\ Asked /\ Later /\ Carried
  BY DEF ChecksInv, ScoreKept, OnlyLists, Early, Unasked, Asked, Later, Carried, High, Some
<1>d. SUFFICES ASSUME OnlyLists PROVE Early' /\ Unasked' /\ Asked' /\ Later' /\ Carried'
  BY <1>b DEF ScoreKept, OnlyLists, Early, Unasked, Asked, Later, Carried, High, Some
<1>0. /\ StagesInOrder /\ stage \in Stage /\ merged.quarantine \in BOOLEAN
      /\ batch \in [reject : Reason, quarantine : BOOLEAN] /\ EarlyAnswer
      /\ todo \subseteq setup.checks
  BY DEF ChecksInv, ChecksTypeOK
<1>e. Early /\ Unasked /\ Asked /\ Later /\ Carried /\ setup.checks = {"dnsbl"} /\ meta.conn = "tcp"
  BY <1>c, <1>d DEF OnlyLists
<1>1. CASE FetchRDNSName \/ SpfEvaluated \/ DmarcFetched \/ UNCHANGED checksVars
  <2>1. /\ stage' = stage /\ todo' = todo /\ batch' = batch /\ merged' = merged /\ modData' = modData /\ decision' = decision
    BY <1>1 DEF FetchRDNSName, SpfEvaluated, DmarcFetched, checksVars, batchVars, outVars
  <2> QED
    BY <1>b, <1>e, <2>1 DEF Early, Unasked, Asked, Later, Carried, Going
<1>2. CASE RunEarlyChecks
  <2>1. PICK a \in {checkLists(meta, conf, f) : f \in Findings(meta, conf)} :
             IF a.res.reject /\ conf.checkEarly
             THEN stage' = "over" /\ decision' = "refused" /\ UNCHANGED modData
             ELSE stage' = "states" /\ modData' = a /\ UNCHANGED decision
    BY <1>2, <1>e DEF RunEarlyChecks, Uses
  <2>2. Scored(a)
    BY <2>1, EarlyScored
  <2>3. stage = "early" /\ merged' = merged /\ ~merged.quarantine /\ decision # "accepted"
    BY <1>0, <1>2 DEF RunEarlyChecks, batchVars, StagesInOrder
  <2>4. Early'
    BY <1>b, <2>1, <2>2, <2>3 DEF Early, Scored, Refuses
  <2>5. stage' \in {"over", "states"} /\ decision' # "accepted"
    BY <2>1, <2>3
  <2> QED
    BY <2>4, <2>5 DEF Unasked, Asked, Later, Carried, Going
<1>3. CASE CheckStates
  <2>1. /\ stage = "states" /\ stage' \in {"conn", "over"} /\ merged' = merged /\ modData' = modData
        /\ decision' # "accepted"
        /\ stage' = "conn" => "dnsbl" \in todo' /\ batch' = Fresh
    BY <1>0, <1>3, <1>e DEF CheckStates, StagesInOrder, Ask
  <2> QED
    BY <1>b, <1>e, <2>1, FreshType DEF Early, Unasked, Asked, Later, Carried, Going
<1>4. CASE RunCheck
  <2>1. PICK c \in todo : \E a : c \in Check /\ AnswerFacts(c, a) /\ Ran(c, a)
    BY <1>4, RunPicks
  <2>2. PICK a : AnswerFacts(c, a) /\ Ran(c, a)
    BY <2>1
  <2>3. /\ stage' = stage /\ decision' = decision /\ todo' = todo \ {c} /\ modData' = modData
        /\ merged'.quarantine = merged.quarantine
        /\ batch.quarantine \/ a.res.quarantine => batch'.quarantine
        /\ a.res.reject /\ ~a.res.quarantine => batch'.reject # ""
        /\ ~a.res.quarantine => (batch'.quarantine <=> batch.quarantine)
    BY <2>2, RanFacts
  <2>4. c = "dnsbl" /\ stage \in {"conn", "sender", "rcpt", "body"} /\ "dnsbl" \notin todo'
    BY <1>0, <1>4, <1>e, <2>1, <2>3, RunPicks
  <2>5. a = IF stage = "conn" THEN modData ELSE Nothing
    BY <1>e, <2>2, <2>4 DEF AnswerFacts
  <2>6. stage # "conn" => ~a.res.quarantine
    <3>1. Quiet(Nothing)
      BY NothingSound
    <3> QED
      BY <2>5, <3>1 DEF Quiet
  <2>7. Early' /\ Unasked' /\ Carried'
    BY <1>b, <1>e, <2>3, <2>4 DEF Early, Unasked, Carried, Going
  <2>8. Later'
    BY <1>e, <2>3, <2>4, <2>6 DEF Later
  <2>9. Asked'
    <3>1. CASE stage = "conn" /\ modData.res.reject
      <4>1. Refuses(a)
        BY <1>0, <2>5, <3>1, EarlyRefuses
      <4> QED
        BY <2>3, <4>1 DEF Refuses, Asked
    <3>2. CASE stage = "conn" /\ ~modData.res.reject
      <4>1. ~High /\ (a.res.quarantine <=> Some) /\ ~batch.quarantine
        BY <1>e, <2>1, <2>4, <2>5, <3>2 DEF Early, Unasked
      <4>2. batch'.quarantine <=> Some
        BY <2>3, <4>1
      <4> QED
        BY <1>b, <4>1, <4>2 DEF Asked
    <3> QED
      BY <2>3, <3>1, <3>2 DEF Asked
  <2> QED
    BY <2>7, <2>8, <2>9
<1>5. CASE ConnSenderDone
  <2>1. merged'.quarantine <=> merged.quarantine \/ (batch.reject = "" /\ batch.quarantine)
    BY <1>5, MergedDone DEF ConnSenderDone
  <2>2. /\ stage \in {"conn", "sender"} /\ todo = {} /\ decision = ""
        /\ IF batch.reject = "" THEN /\ stage' = IF stage = "conn" THEN "sender" ELSE "ready"
                                     /\ stage = "conn" => batch' = Fresh
                                     /\ decision' = decision
           ELSE stage' = "over" /\ decision' = "refused"
    BY <1>0, <1>5 DEF ConnSenderDone, Passed, Ask, StagesInOrder
  <2>3. Early' /\ Unasked' /\ Asked'
    BY <2>2 DEF Early, Unasked, Asked
  <2>4. Later'
    BY <2>2, FreshType DEF Later
  <2>5. Carried'
    <3>1. CASE batch.reject # ""
      BY <2>2, <3>1 DEF Carried, Going
    <3>2. CASE batch.reject = "" /\ stage = "conn"
      <4>1. ~High /\ (batch.quarantine <=> Some) /\ ~merged.quarantine
        BY <1>e, <2>2, <3>2 DEF Early, Asked
      <4> QED
        BY <1>b, <2>1, <3>2, <4>1 DEF Carried
    <3>3. CASE batch.reject = "" /\ stage = "sender"
      <4>1. ~High /\ (merged.quarantine <=> Some) /\ ~batch.quarantine
        BY <1>e, <3>3 DEF Later, Carried
      <4> QED
        BY <1>b, <2>1, <4>1 DEF Carried
    <3> QED
      BY <2>2, <3>1, <3>2, <3>3
  <2> QED
    BY <2>3, <2>4, <2>5
<1>6. CASE (\E r \in Rcpt : CheckRcpt(r)) \/ CheckBody
  <2>1. /\ stage = "ready" /\ stage' \in {"rcpt", "body"} /\ batch' = Fresh /\ merged' = merged
    BY <1>6 DEF CheckRcpt, CheckBody, Ask
  <2> QED
    BY <1>b, <1>e, <2>1, FreshType DEF Early, Unasked, Asked, Later, Carried, Going
<1>7. CASE RcptDone \/ BodyDone
  <2>1. /\ stage \in {"rcpt", "body"} /\ stage' \in {"ready", "apply", "close"}
        /\ merged'.quarantine <=> merged.quarantine \/ (batch.reject = "" /\ batch.quarantine)
    BY <1>7, MergedDone DEF RcptDone, BodyDone
  <2>2. ~High /\ (merged.quarantine <=> Some) /\ ~batch.quarantine
    BY <1>e, <2>1 DEF Later, Carried, Going
  <2> QED
    BY <1>b, <2>1, <2>2 DEF Early, Unasked, Asked, Later, Carried
<1>8. CASE ApplyResults \/ Abort \/ Close
  <2>1. /\ stage \in {"apply", "ready", "close"} /\ stage' \in {"close", "over"} /\ merged' = merged
        /\ stage = "close" => decision' = decision
    BY <1>8 DEF ApplyResults, Abort, Close, batchVars, outVars
  <2> QED
    BY <1>b, <1>e, <2>1 DEF Early, Unasked, Asked, Later, Carried, Going
<1> QED
  BY <1>1, <1>2, <1>3, <1>4, <1>5, <1>6, <1>7, <1>8 DEF ChecksNext

-----------------------------------------------------------------------------
(* The dialogue with a milter *)

\* The ranks of the commands.
LEMMA RankIs ==
  /\ DOMAIN Rank = Command
  /\ Rank["conn"] = 1 /\ Rank["helo"] = 2 /\ Rank["mail"] = 3
  /\ Rank["rcpt"] = 4 /\ Rank["header"] = 5 /\ Rank["end"] = 6
  BY DEF Rank, Command

\* Only rcpt has the fourth rank.
LEMMA RankOrders ==
  /\ \A x \in Command : Rank[x] \in 1..6
  /\ \A x \in Command : Rank[x] = 4 => x = "rcpt"
  BY RankIs DEF Command

\* The commands so far are in order and none is further than n.
InOrder(s) ==
  \A i \in 1 .. Len(s) - 1 :
    Rank[s[i]] < Rank[s[i + 1]] \/ (s[i] = "rcpt" /\ s[i + 1] = "rcpt")
UpTo(s, n) == \A i \in 1 .. Len(s) : Rank[s[i]] <= n

\* One command more, further than those before it or another recipient.

LEMMA OneMore ==
  ASSUME NEW s \in Seq(Command), NEW n \in Nat, NEW x \in Command, InOrder(s), UpTo(s, n),
         n < Rank[x] \/ (n = 4 /\ x = "rcpt")
  PROVE  LET t == s \o One(x) IN t \in Seq(Command) /\ InOrder(t) /\ UpTo(t, Rank[x])
<1> DEFINE t == Append(s, x)
           k == Len(s)
<1>1. s \o One(x) = t
  BY AppendIsConcat DEF One
<1>2. k \in Nat /\ t \in Seq(Command) /\ Len(t) = k + 1 /\ t[k + 1] = x /\ \A i \in 1..k : t[i] = s[i]
  BY AppendProperties
<1>3. Rank[x] \in 1..6 /\ \A i \in 1..k : s[i] \in Command /\ Rank[s[i]] \in 1..6
  <2>1. \A i \in 1..k : s[i] \in Command
    BY ElementOfSeq
  <2> QED
    BY <2>1, RankOrders
<1> HIDE DEF t
<1>4. \A i \in 1..k : Rank[s[i]] <= n
  BY DEF UpTo
<1> HIDE DEF k
<1>5. UpTo(t, Rank[x])
  <2> SUFFICES ASSUME NEW i \in 1..(k + 1) PROVE Rank[t[i]] <= Rank[x]
    BY <1>2 DEF UpTo
  <2>1. CASE i = k + 1
    BY <1>2, <1>3, <2>1
  <2>2. CASE i # k + 1
    <3>1. i \in 1..k
      BY <1>2, <2>2
    <3>2. n <= Rank[x]
      BY <1>3, RankIs
    <3> QED
      BY <1>2, <1>3, <1>4, <3>1, <3>2, SMTT(30)
  <2> QED
    BY <2>1, <2>2
<1>6. InOrder(t)
  <2> SUFFICES ASSUME NEW i \in 1..k
               PROVE  Rank[t[i]] < Rank[t[i + 1]] \/ (t[i] = "rcpt" /\ t[i + 1] = "rcpt")
    BY <1>2 DEF InOrder
  <2>1. CASE i = k
    <3>1. t[i] = s[i] /\ t[i + 1] = x /\ Rank[s[i]] <= n /\ s[i] \in Command
      BY <1>2, <1>3, <1>4, <2>1
    <3>2. CASE n < Rank[x]
      BY <1>3, <3>1, <3>2
    <3>3. CASE n = 4 /\ x = "rcpt"
      <4>1. Rank["rcpt"] = 4 /\ Rank[s[i]] \in 1..6 /\ (Rank[s[i]] = 4 => s[i] = "rcpt")
        BY <3>1, RankIs, RankOrders
      <4>2. Rank[s[i]] < 4 \/ Rank[s[i]] = 4
        BY <3>1, <3>3, <4>1
      <4> QED
        BY <3>1, <3>3, <4>1, <4>2
    <3> QED
      BY <3>2, <3>3
  <2>2. CASE i # k
    <3>1. i \in 1 .. k - 1 /\ i + 1 \in 1..k
      BY <1>2, <2>2
    <3>2. Rank[s[i]] < Rank[s[i + 1]] \/ (s[i] = "rcpt" /\ s[i + 1] = "rcpt")
      BY <3>1 DEF InOrder, k
    <3> QED
      BY <1>2, <3>1, <3>2
  <2> QED
    BY <2>1, <2>2
<1> QED
  BY <1>1, <1>2, <1>5, <1>6

\* A bound may be raised.
LEMMA UpToMore ==
  ASSUME NEW s \in Seq(Command), NEW n \in Nat, NEW m \in Nat, n <= m, UpTo(s, n)
  PROVE  UpTo(s, m)
<1>1. \A i \in 1..Len(s) : s[i] \in Command
  BY ElementOfSeq
<1> QED
  BY <1>1, RankOrders DEF UpTo

\* Joining is associative.
LEMMA JoinAssociative ==
  ASSUME NEW s \in Seq(Command), NEW t \in Seq(Command), NEW u \in Seq(Command)
  PROVE  (s \o t) \o u = s \o (t \o u)
  OBVIOUS

\* Two commands, one after the other.
LEMMA JoinTwo ==
  ASSUME NEW s \in Seq(Command), NEW x \in Command, NEW y \in Command
  PROVE  (s \o One(x)) \o One(y) = s \o Two(x, y)
<1>1. One(x) \in Seq(Command) /\ One(y) \in Seq(Command)
  BY CommandPrefixes
<1>2. One(x) \o One(y) = Two(x, y)
  BY CommandConcat
<1>3. (s \o One(x)) \o One(y) = s \o (One(x) \o One(y))
  BY <1>1, JoinAssociative
<1> QED
  BY <1>2, <1>3

\* Two commands more.
LEMMA TwoMore ==
  ASSUME NEW s \in Seq(Command), NEW n \in Nat, NEW x \in Command, NEW y \in Command, InOrder(s), UpTo(s, n),
         n < Rank[x], Rank[x] < Rank[y]
  PROVE  LET t == s \o Two(x, y) IN t \in Seq(Command) /\ InOrder(t) /\ UpTo(t, Rank[y])
<1> DEFINE t == s \o One(x)
           u == t \o One(y)
<1>0. Rank[x] \in Nat
  BY RankOrders
<1>1. t \in Seq(Command) /\ InOrder(t) /\ UpTo(t, Rank[x])
  BY OneMore
<1>2. u = s \o Two(x, y)
  BY JoinTwo
<1> HIDE DEF t
<1>3. u \in Seq(Command) /\ InOrder(u) /\ UpTo(u, Rank[y])
  BY <1>0, <1>1, OneMore
<1> QED
  BY <1>2, <1>3

\* How far the dialogue may be while the milter is still to answer.
LEMMA StageBounds ==
  /\ MilterStage \in Nat
  /\ stage = "conn" /\ "milter" \in todo => MilterStage = 0
  /\ stage = "sender" /\ "milter" \in todo => MilterStage = 2
  /\ stage = "rcpt" \/ (stage = "body" /\ "milter" \in todo) => MilterStage = 4
  BY DEF MilterStage

\* The dialogue gets no further by itself, and no stage takes back what was said.

LEMMA StageGrows ==
  ASSUME ChecksInv, [ChecksNext]_checksVars, ~RunCheck
  PROVE  MilterStage <= MilterStage'
<1>0. stage \in Stage
  BY DEF ChecksInv, ChecksTypeOK
<1>1. CASE FetchRDNSName \/ SpfEvaluated \/ DmarcFetched \/ UNCHANGED checksVars
  <2>1. stage' = stage /\ todo' = todo
    BY <1>1 DEF FetchRDNSName, SpfEvaluated, DmarcFetched, checksVars, batchVars
  <2> QED
    BY <2>1 DEF MilterStage
<1>2. CASE RunEarlyChecks \/ CheckStates
  BY <1>2 DEF MilterStage, RunEarlyChecks, CheckStates, batchVars, Ask
<1>3. CASE ConnSenderDone
  BY <1>3 DEF MilterStage, ConnSenderDone, Ask
<1>4. CASE (\E r \in Rcpt : CheckRcpt(r)) \/ RcptDone
  BY <1>4 DEF MilterStage, CheckRcpt, RcptDone, Ask
<1>5. CASE CheckBody \/ BodyDone
  <2>1. \/ stage = "ready" /\ stage' = "body"
        \/ stage = "body" /\ stage' \in {"apply", "close"}
    BY <1>5 DEF CheckBody, BodyDone, Ask
  <2> QED
    BY <2>1 DEF MilterStage
<1>6. CASE ApplyResults \/ Abort \/ Close
  BY <1>6 DEF MilterStage, ApplyResults, Abort, Close, batchVars
<1> QED
  BY <1>1, <1>2, <1>3, <1>4, <1>5, <1>6 DEF ChecksNext

\* What a milter is told continues what it was told before.

LEMMA DialogueContinues ==
  ASSUME dialogue \in Seq(Command), InOrder(dialogue), UpTo(dialogue, MilterStage), NEW sent \in Talk(stage),
         stage \in {"conn", "sender", "rcpt", "body"}, "milter" \in todo
  PROVE  LET n == CASE stage = "conn" -> 2 [] stage = "sender" -> 3 [] stage = "rcpt" -> 4 [] OTHER -> 6
         IN dialogue \o sent \in Seq(Command) /\ InOrder(dialogue \o sent) /\ UpTo(dialogue \o sent, n)
<1> DEFINE n == CASE stage = "conn" -> 2 [] stage = "sender" -> 3 [] stage = "rcpt" -> 4 [] OTHER -> 6
           d == dialogue
           t == d \o sent
<1>1. MilterStage \in Nat /\ n \in Nat /\ MilterStage <= n
  BY DEF MilterStage
<1>2. CASE sent = <<>>
  <2>1. t = d
    BY <1>2, ConcatEmptySeq
  <2>2. UpTo(d, n)
    BY <1>1, UpToMore
  <2> QED
    BY <2>1, <2>2
<1>3. ASSUME NEW x \in Command, MilterStage < Rank[x] \/ (MilterStage = 4 /\ x = "rcpt"), Rank[x] <= n, sent = One(x)
      PROVE  t \in Seq(Command) /\ InOrder(t) /\ UpTo(t, n)
  <2>1. d \o One(x) \in Seq(Command) /\ InOrder(d \o One(x)) /\ UpTo(d \o One(x), Rank[x])
    BY <1>1, <1>3, OneMore
  <2>2. Rank[x] \in Nat
    BY RankOrders
  <2> HIDE DEF d
  <2>3. UpTo(d \o One(x), n)
    BY <1>1, <1>3, <2>1, <2>2, UpToMore
  <2> QED
    BY <1>3, <2>1, <2>3
<1>4. ASSUME NEW x \in Command, NEW y \in Command, MilterStage < Rank[x], Rank[x] < Rank[y], Rank[y] = n, sent = Two(x, y)
      PROVE  t \in Seq(Command) /\ InOrder(t) /\ UpTo(t, n)
  <2>1. d \o Two(x, y) \in Seq(Command) /\ InOrder(d \o Two(x, y)) /\ UpTo(d \o Two(x, y), Rank[y])
    BY <1>1, <1>4, TwoMore
  <2> QED
    BY <1>4, <2>1
<1>5. CASE stage = "conn"
  <2>1. sent \in {<<>>, One("conn"), One("helo"), Two("conn", "helo")} /\ n = 2 /\ MilterStage = 0
    BY <1>5, TalkIs, StageBounds
  <2> HIDE DEF t, d, n
  <2> QED
    BY <1>2, <1>3, <1>4, <2>1, RankIs, CommandsAre DEF t, d, n
<1>6. CASE stage = "sender"
  <2>1. sent \in {<<>>, One("mail")} /\ n = 3 /\ MilterStage = 2
    BY <1>6, TalkIs, StageBounds
  <2> HIDE DEF t, d, n
  <2> QED
    BY <1>2, <1>3, <2>1, RankIs, CommandsAre DEF t, d, n
<1>7. CASE stage = "rcpt"
  <2>1. sent \in {<<>>, One("rcpt")} /\ n = 4 /\ MilterStage = 4
    BY <1>7, TalkIs, StageBounds
  <2> HIDE DEF t, d, n
  <2> QED
    BY <1>2, <1>3, <2>1, RankIs, CommandsAre DEF t, d, n
<1>8. CASE stage = "body"
  <2>1. sent \in {<<>>, One("header"), Two("header", "end")} /\ n = 6 /\ MilterStage = 4
    BY <1>8, TalkIs, StageBounds
  <2> HIDE DEF t, d, n
  <2> QED
    BY <1>2, <1>3, <1>4, <2>1, RankIs, CommandsAre DEF t, d, n
<1> QED
  BY <1>5, <1>6, <1>7, <1>8

\* The dialogue stays in order.
LEMMA DialogueStep ==
  ASSUME ChecksInv, [ChecksNext]_checksVars
  PROVE  DialogueKept'
<1>0. /\ dialogue \in Seq(Command) /\ InOrder(dialogue) /\ UpTo(dialogue, MilterStage)
      /\ stage = "conn" /\ "milter" \in todo => "milter" \notin skip
      /\ stage = "over" => session # "open"
      /\ StagesInOrder /\ stage \in Stage
  BY RankIs DEF ChecksInv, ChecksTypeOK, DialogueKept, InOrder, UpTo
<1>a. SUFFICES /\ dialogue' \in Seq(Command) /\ InOrder(dialogue') /\ UpTo(dialogue', MilterStage')
               /\ stage' = "conn" /\ "milter" \in todo' => "milter" \notin skip'
               /\ stage' = "over" => session' # "open"
  BY RankIs DEF DialogueKept, InOrder, UpTo
<1>b. MilterStage \in Nat /\ MilterStage' \in Nat
  BY DEF MilterStage
<1>1. CASE RunCheck
  <2>1. PICK c \in todo : \E a : c \in Check /\ AnswerFacts(c, a) /\ Ran(c, a)
    BY <1>1, RunPicks
  <2>2. PICK a : AnswerFacts(c, a) /\ Ran(c, a)
    BY <2>1
  <2>3. /\ stage' = stage /\ todo' = todo \ {c} /\ dialogue' = dialogue \o a.sent /\ skip' \subseteq skip \cup {c}
        /\ session' = session
    BY <2>2, RanFacts
  <2>4. stage \in {"conn", "sender", "rcpt", "body"}
    BY <1>1, RunPicks
  <2>5. stage' = "conn" /\ "milter" \in todo' => "milter" \notin skip'
    BY <1>0, <2>1, <2>3
  <2>6. CASE c # "milter"
    <3>1. a.sent = <<>>
      BY <2>2, <2>6 DEF AnswerFacts
    <3>2. dialogue' = dialogue
      BY <1>0, <2>3, <3>1, ConcatEmptySeq
    <3>3. MilterStage' = MilterStage
      BY <2>3, <2>6 DEF MilterStage
    <3> QED
      BY <1>0, <2>3, <2>4, <2>5, <3>2, <3>3
  <2>7. CASE c = "milter"
    <3>1. a.sent \in Talk(stage)
      BY <2>2, <2>7 DEF AnswerFacts, Tells
    <3> DEFINE n == CASE stage = "conn" -> 2 [] stage = "sender" -> 3 [] stage = "rcpt" -> 4 [] OTHER -> 6
    <3>2. dialogue' \in Seq(Command) /\ InOrder(dialogue') /\ UpTo(dialogue', n)
      BY <1>0, <2>1, <2>3, <2>4, <2>7, <3>1, DialogueContinues
    <3>3. n = MilterStage'
      BY <2>3, <2>4, <2>7 DEF MilterStage
    <3> QED
      BY <1>0, <2>3, <2>4, <2>5, <3>2, <3>3
  <2> QED
    BY <2>6, <2>7
<1>2. CASE ~RunCheck
  <2>1. dialogue' = dialogue /\ skip' = skip
    BY <1>2, OnlyAnswersAdd
  <2>2. UpTo(dialogue, MilterStage')
    BY <1>0, <1>2, <1>b, StageGrows, UpToMore
  <2>3. stage' = "conn" /\ "milter" \in todo' => "milter" \notin skip
    <3>1. CASE CheckStates
      BY <1>0, <3>1 DEF CheckStates, StagesInOrder
    <3>2. CASE ~CheckStates
      BY <1>0, <1>2, <3>2 DEF ChecksNext, FetchRDNSName, RunEarlyChecks, SpfEvaluated, ConnSenderDone, Ask, batchVars,
         CheckRcpt, RcptDone, CheckBody, DmarcFetched, BodyDone, ApplyResults, Abort, Close, checksVars
    <3> QED
      BY <3>1, <3>2
  <2>4. stage' = "over" => session' # "open"
    <3>1. CASE RunEarlyChecks \/ CheckStates
      BY <1>0, <3>1 DEF RunEarlyChecks, CheckStates, StagesInOrder, Ask
    <3>2. CASE ~(RunEarlyChecks \/ CheckStates)
      BY <1>0, <1>2, <3>2 DEF ChecksNext, FetchRDNSName, SpfEvaluated, ConnSenderDone, Ask, batchVars,
         CheckRcpt, RcptDone, CheckBody, DmarcFetched, BodyDone, ApplyResults, Abort, Close, checksVars
    <3> QED
      BY <3>1, <3>2
  <2> QED
    BY <1>0, <2>1, <2>2, <2>3, <2>4
<1> QED
  BY <1>1, <1>2

-----------------------------------------------------------------------------
(* The invariant *)

\* The empty result and the empty dialogue.
LEMMA NoResults ==
  ASSUME NEW m, m = [auth |-> <<>>, quarantine |-> FALSE]
  PROVE  m \in [auth : Seq(AuthResult), quarantine : BOOLEAN] /\ m.auth = <<>> /\ ~m.quarantine
  OBVIOUS

LEMMA NoCommands ==
  ASSUME NEW s, s = <<>>
  PROVE  s \in Seq(Command) /\ Len(s) = 0 /\ DOMAIN s = {}
  OBVIOUS

\* The invariant holds at the start, and every step keeps it.
LEMMA ChecksStart ==
  ASSUME ChecksInit
  PROVE  ChecksInv
<1>1. setup \in Setup /\ setup.rcpts \subseteq Rcpt
  BY ChecksAssumption DEF ChecksInit
<1>2. merged \in [auth : Seq(AuthResult), quarantine : BOOLEAN] /\ merged.auth = <<>> /\ ~merged.quarantine
  <2>1. merged = [auth |-> <<>>, quarantine |-> FALSE]
    BY DEF ChecksInit
  <2> QED
    BY <2>1, NoResults
<1>3. DOMAIN merged.auth = {}
  BY <1>2, NoCommands
<1>4. ChecksTypeOK
  BY <1>1, <1>2, <1>3, FreshType DEF ChecksInit, ChecksTypeOK, Stage
<1>5. StagesInOrder /\ CausesStaged /\ RcptInHand /\ CausesKept /\ LeftToPolicy /\ EarlyAnswer
  BY <1>2 DEF ChecksInit, StagesInOrder, CausesStaged, RcptInHand, CausesKept, LeftToPolicy, EarlyAnswer
<1>6. SpfOnce
  BY <1>3 DEF ChecksInit, SpfOnce, Has, Settled
<1>7. VerdictOfPolicy
  <2>1. dmarcFetch.err = "pending"
    BY DEF ChecksInit, NotFetched, Fetched
  <2>2. dmarc.value = "" /\ decision = ""
    BY DEF ChecksInit
  <2> QED
    BY <2>1, <2>2 DEF VerdictOfPolicy
<1>8. SendersHeard
  BY DEF ChecksInit, SendersHeard, Settled, Going
<1>9. ScoreKept
  BY DEF ChecksInit, ScoreKept, Going
<1>10. DialogueKept
  <2>1. dialogue \in Seq(Command) /\ Len(dialogue) = 0
    BY NoCommands DEF ChecksInit
  <2>2. stage = "early"
    BY DEF ChecksInit
  <2>3. dialogue \in Seq(DOMAIN Rank)
    BY <2>1, RankIs
  <2>4. 1 .. Len(dialogue) = {} /\ 1 .. Len(dialogue) - 1 = {}
    BY <2>1
  <2> QED
    BY <2>2, <2>3, <2>4 DEF DialogueKept
<1> QED
  BY <1>1, <1>2, <1>4, <1>5, <1>6, <1>7, <1>8, <1>9, <1>10 DEF ChecksInv

LEMMA ChecksStep ==
  ASSUME ChecksInv, [ChecksNext]_checksVars
  PROVE  ChecksInv'
<1>1. Typed' /\ StagesInOrder' /\ RcptInHand' /\ EarlyAnswer'
  BY TypedStep, StagesStep
<1>2. CausesStaged' /\ CausesKept' /\ SpfOnce' /\ LeftToPolicy'
  BY CausesStagedStep, CausesStep, SpfOnceStep, LeftToPolicyStep
<1>3. VerdictOfPolicy' /\ SendersHeard' /\ ScoreKept' /\ DialogueKept'
  BY VerdictStep, SendersStep, ScoreStep, DialogueStep
<1> QED
  BY <1>1, <1>2, <1>3 DEF ChecksInv, Typed

-----------------------------------------------------------------------------
(* What the verdict says *)

\* A lookup of the policy has one outcome unless it fails, and finds no record but the one
\* that is published.
OneOutcome(outcomes, rec, one) ==
  /\ \A d \in outcomes : d.err = "temp" \/ d.err = "perm" \/ d = one
  /\ one.err = "" /\ one.rec # NoRecord => one.rec = rec
  /\ one.err \in {"", "perm"}

LEMMA FetchIs ==
  ASSUME NEW zone, NEW rec, NEW from
  PROVE  \E one : OneOutcome(FetchRecord(zone, rec, from), rec, one)
<1> DEFINE Parsed(d) == CASE zone[d] = "one" -> Fetched(d, rec, "")
                          [] zone[d] = "bad" -> Fetched(d, NoRecord, "perm")
                          [] OTHER           -> Fetched("", NoRecord, "")
           org == OrgDomain(from)
           one == IF zone[from] # "empty" THEN Parsed(from)
                  ELSE IF org = "error" THEN Fetched("", NoRecord, "perm") ELSE Parsed(org)
<1>1. FetchRecord(zone, rec, from) = {Fetched("", NoRecord, e) : e \in {"temp", "perm"}} \cup {one}
  BY DEF FetchRecord
<1>2. ASSUME NEW d, NEW r, NEW e PROVE Fetched(d, r, e).err = e /\ Fetched(d, r, e).rec = r
  BY DEF Fetched
<1>3. \E d, r, e : one = Fetched(d, r, e) /\ e \in {"", "perm"} /\ (e = "" => r \in {rec, NoRecord})
  <2>1. \A d : \E x, r, e : Parsed(d) = Fetched(x, r, e) /\ e \in {"", "perm"} /\ (e = "" => r \in {rec, NoRecord})
    OBVIOUS
  <2> HIDE DEF Parsed, org
  <2> QED
    BY <2>1
<1> HIDE DEF one
<1>4. /\ one.err = "" /\ one.rec # NoRecord => one.rec = rec
      /\ one.err \in {"", "perm"}
  <2>1. PICK d, r, e : one = Fetched(d, r, e) /\ e \in {"", "perm"} /\ (e = "" => r \in {rec, NoRecord})
    BY <1>3
  <2>2. one.err = e /\ one.rec = r
    BY <2>1 DEF Fetched
  <2> QED
    BY <2>1, <2>2
<1>5. \A d \in FetchRecord(zone, rec, from) : d.err = "temp" \/ d.err = "perm" \/ d = one
  <2>1. Fetched("", NoRecord, "temp").err = "temp" /\ Fetched("", NoRecord, "perm").err = "perm"
    BY DEF Fetched
  <2>2. \A d \in FetchRecord(zone, rec, from) :
          d = Fetched("", NoRecord, "temp") \/ d = Fetched("", NoRecord, "perm") \/ d = one
    BY <1>1
  <2> QED
    BY <2>1, <2>2
<1>6. OneOutcome(FetchRecord(zone, rec, from), rec, one)
  BY <1>4, <1>5 DEF OneOutcome
<1> QED
  BY <1>6

\* The identifiers that pass in the mode of their method.
PassesIn(from, rec, s, m) ==
  \E i \in DOMAIN s : /\ s[i].method = m /\ s[i].value = "pass"
                      /\ isAligned(from, s[i].domain, IF m = "spf" THEN rec.aspf ELSE rec.adkim)

\* With one result of SPF, what DMARC says is pass when an identifier passes and is aligned,
\* and none when SPF or DKIM said nothing.

LEMMA AlignmentMeans ==
  ASSUME NEW from, NEW rec, NEW s \in Seq(AuthResult), OneOfSpf(s)
  PROVE  LET v == EvaluateAlignment(from, rec, s)
         IN /\ v = "none" <=> ~(HasIn(s, "dkim") /\ HasIn(s, "spf"))
            /\ v = "pass" <=> /\ HasIn(s, "dkim") /\ HasIn(s, "spf")
                              /\ PassesIn(from, rec, s, "dkim") \/ PassesIn(from, rec, s, "spf")
<1> DEFINE Of(m)   == {i \in DOMAIN s : s[i].method = m}
           Mode(m) == IF m = "spf" THEN rec.aspf ELSE rec.adkim
           With(m, x) == \E i \in Of(m) : s[i].value = x /\ isAligned(from, s[i].domain, Mode(m))
           last == CHOOSE i \in Of("spf") : \A j \in Of("spf") : j <= i
           passes == With("dkim", "pass") \/ With("spf", "pass")
           v == EvaluateAlignment(from, rec, s)
<1>1. v = IF Of("dkim") = {} \/ Of("spf") = {} THEN "none"
          ELSE IF \/ With("dkim", "temperror") /\ ~passes
                  \/ ~With("dkim", "pass") /\ s[last].value = "temperror" THEN "temperror"
          ELSE IF passes THEN "pass" ELSE "fail"
  BY DEF EvaluateAlignment
<1>2. \A m : Of(m) = {} <=> ~HasIn(s, m)
  BY DEF HasIn
<1>3. \A m : With(m, "pass") <=> PassesIn(from, rec, s, m)
  BY DEF PassesIn
<1>4. With("spf", "pass") => s[last].value = "pass"
  <2>1. SUFFICES ASSUME NEW i \in Of("spf"), s[i].value = "pass" PROVE s[last].value = "pass"
    OBVIOUS
  <2>2. i \in Nat
    <3> DEFINE R == AuthResult
    <3>1. s \in Seq(R)
      OBVIOUS
    <3> HIDE DEF R
    <3>2. DOMAIN s = 1..Len(s) /\ Len(s) \in Nat
      BY <3>1
    <3> QED
      BY <2>1, <3>2
  <2>3. \A j \in Of("spf") : j = i
    BY <2>1 DEF OneOfSpf
  <2>4. \A j \in Of("spf") : j <= i
    BY <2>2, <2>3
  <2> HIDE DEF Of
  <2>5. last \in Of("spf")
    BY <2>1, <2>4
  <2> QED
    BY <2>1, <2>3, <2>5
<1> HIDE DEF Of, With, last, v
<1>5. (v = "none" <=> Of("dkim") = {} \/ Of("spf") = {})
      /\ (v = "pass" <=> Of("dkim") # {} /\ Of("spf") # {} /\ passes)
  <2>1. CASE Of("dkim") = {} \/ Of("spf") = {}
    BY <1>1, <2>1
  <2>2. CASE ~(Of("dkim") = {} \/ Of("spf") = {}) /\ passes
    BY <1>1, <1>4, <2>2
  <2>3. CASE ~(Of("dkim") = {} \/ Of("spf") = {}) /\ ~passes
    BY <1>1, <2>3
  <2> QED
    BY <2>1, <2>2, <2>3
<1> QED
  BY <1>2, <1>3, <1>5 DEF v
\* When the policy was fetched, it is the published one and From has a domain.

LEMMA PolicyInHand ==
  ASSUME ChecksInv, dmarcFetch.err = "", dmarcFetch.rec # NoRecord
  PROVE  dmarcFetch.rec = meta.rec /\ FromDomain # "error" /\ FromDomain = meta.hdrFrom
<1>1. FromDomain # "error" /\ dmarcFetch \in FetchRecord(meta.zone, meta.rec, FromDomain)
  BY DEF ChecksInv, VerdictOfPolicy
<1>2. PICK one : OneOutcome(FetchRecord(meta.zone, meta.rec, FromDomain), meta.rec, one)
  BY FetchIs
<1>4. dmarcFetch = one
  BY <1>1, <1>2 DEF OneOutcome
<1>5. FromDomain = meta.hdrFrom
  BY <1>1 DEF FromDomain, ExtractFromDomain
<1> QED
  BY <1>1, <1>2, <1>4, <1>5 DEF OneOutcome

\* The verdict, by what was fetched.
VerdictFor(v, data, from, e, roll) ==
  /\ data.err = "temp" => v.value = "temperror" /\ v.policy = "reject"
  /\ data.err \notin {"temp", ""} => v.value = "permerror" /\ v.policy = "none"
  /\ data.err = "" /\ data.rec = NoRecord => v.value = "none" /\ v.policy = "none"
  /\ data.err = "" /\ data.rec # NoRecord =>
       /\ v.value = e
       /\ v.policy = IF e \in {"pass", "none"} \/ roll > data.rec.pct THEN "none" ELSE PolicyFor(data, from)

LEMMA VerdictIs ==
  ASSUME NEW data, NEW from, NEW s, NEW roll
  PROVE  VerdictFor(VerifierApply(data, from, s, roll), data, from, EvaluateAlignment(from, data.rec, s), roll)
<1> DEFINE v == VerifierApply(data, from, s, roll)
           e == EvaluateAlignment(from, data.rec, s)
           p == IF e \in {"pass", "none"} \/ roll > data.rec.pct THEN "none" ELSE PolicyFor(data, from)
<1>0. ASSUME NEW x, NEW y, v = [value |-> x, policy |-> y] PROVE v.value = x /\ v.policy = y
  <2> HIDE DEF v
  <2> QED
    BY <1>0
<1>1. data.err = "temp" => v = [value |-> "temperror", policy |-> "reject"]
  BY DEF VerifierApply
<1>2. data.err \notin {"temp", ""} => v = [value |-> "permerror", policy |-> "none"]
  BY DEF VerifierApply
<1>3. data.err = "" /\ data.rec = NoRecord => v = [value |-> "none", policy |-> "none"]
  BY DEF VerifierApply
<1>4. data.err = "" /\ data.rec # NoRecord => v = [value |-> e, policy |-> p]
  BY DEF VerifierApply
<1> HIDE DEF v, e
<1>5. VerdictFor(v, data, from, e, roll)
  BY <1>0, <1>1, <1>2, <1>3, <1>4 DEF VerdictFor
<1> QED
  BY <1>5 DEF v, e

\* A policy that is not none is quarantine or reject.

LEMMA PolicyKinds ==
  ASSUME NEW data, NEW from, data.rec \in DmarcRecord
  PROVE  PolicyFor(data, from) \in {"none", "quarantine", "reject"} /\ data.rec.pct \in 0..100
  BY DEF PolicyFor, DmarcRecord

\* Alignment as the property states it is isAligned.
LEMMA AlignedMeans ==
  ASSUME ChecksInv, dmarcFetch.err = "", dmarcFetch.rec # NoRecord
  PROVE  /\ Aligned("dkim", meta.rec.adkim) <=> PassesIn(FromDomain, meta.rec, merged.auth, "dkim")
         /\ Aligned("spf", meta.rec.aspf) <=> PassesIn(FromDomain, meta.rec, merged.auth, "spf")
<1> DEFINE from == meta.hdrFrom
<1>1. FromDomain # "error" /\ FromDomain = from
  BY PolicyInHand
<1>2. meta.rec.adkim \in {"strict", "relaxed"} /\ meta.rec.aspf \in {"strict", "relaxed"}
  BY SetupShape DEF MetaShape, DmarcRecord
<1>3. ASSUME NEW d, NEW mode \in {"strict", "relaxed"}
      PROVE  isAligned(from, d, mode) <=>
               d = from \/ (mode = "relaxed" /\ OrgDomain(from) # "error" /\ OrgDomain(d) = OrgDomain(from))
  <2> HIDE DEF from
  <2>1. OrgDomain(from) = "error" <=> from \in {"psl", ""}
    BY <1>1 DEF OrgDomain
  <2> QED
    BY <1>3, <2>1 DEF isAligned
<1> HIDE DEF from
<1>4. Aligned("dkim", meta.rec.adkim) <=> PassesIn(from, meta.rec, merged.auth, "dkim")
  BY <1>2, <1>3 DEF Aligned, PassesIn, from
<1>5. Aligned("spf", meta.rec.aspf) <=> PassesIn(from, meta.rec, merged.auth, "spf")
  BY <1>2, <1>3 DEF Aligned, PassesIn, from
<1> QED
  BY <1>1, <1>4, <1>5

\* The results are typed, with one of SPF.
LEMMA ResultsKept ==
  ASSUME ChecksInv
  PROVE  merged.auth \in Seq(AuthResult) /\ OneOfSpf(merged.auth)
  BY DEF ChecksInv, SpfOnce, OneOfSpf

\* The three parts of DmarcDecides.
LEMMA NeedsAlignment ==
  ASSUME ChecksInv
  PROVE  DmarcNeedsAlignment
<1>1. CASE dmarc.value = ""
  BY <1>1 DEF DmarcNeedsAlignment
<1>2. CASE dmarc.value # ""
  <2>1. PICK roll \in 0..99 : dmarc = VerifierApply(dmarcFetch, FromDomain, merged.auth, roll)
    BY <1>2 DEF ChecksInv, VerdictOfPolicy
  <2> DEFINE e == EvaluateAlignment(FromDomain, dmarcFetch.rec, merged.auth)
  <2>2. /\ dmarcFetch.err = "temp" => dmarc.value = "temperror"
        /\ dmarcFetch.err \notin {"temp", ""} => dmarc.value = "permerror"
        /\ dmarcFetch.err = "" /\ dmarcFetch.rec = NoRecord => dmarc.value = "none"
        /\ dmarcFetch.err = "" /\ dmarcFetch.rec # NoRecord => dmarc.value = e
    <3>1. VerdictFor(dmarc, dmarcFetch, FromDomain, e, roll)
      BY <2>1, VerdictIs
    <3> HIDE DEF e
    <3> QED
      BY <3>1 DEF VerdictFor
  <2>3. CASE ~(dmarcFetch.err = "" /\ dmarcFetch.rec # NoRecord)
    BY <2>2, <2>3 DEF DmarcNeedsAlignment
  <2>4. CASE dmarcFetch.err = "" /\ dmarcFetch.rec # NoRecord
    <3>1. dmarcFetch.rec = meta.rec
      BY <2>4, PolicyInHand
    <3>2. e = "pass" <=> /\ HasIn(merged.auth, "dkim") /\ HasIn(merged.auth, "spf")
                         /\ \/ PassesIn(FromDomain, dmarcFetch.rec, merged.auth, "dkim")
                            \/ PassesIn(FromDomain, dmarcFetch.rec, merged.auth, "spf")
      BY ResultsKept, AlignmentMeans
    <3> HIDE DEF e
    <3>3. e = "pass" <=> /\ HasIn(merged.auth, "dkim") /\ HasIn(merged.auth, "spf")
                         /\ Aligned("dkim", meta.rec.adkim) \/ Aligned("spf", meta.rec.aspf)
      BY <2>4, <3>1, <3>2, AlignedMeans
    <3> QED
      BY <1>2, <2>2, <2>4, <3>3 DEF DmarcNeedsAlignment, HasIn
  <2> QED
    BY <2>3, <2>4
<1> QED
  BY <1>1, <1>2

LEMMA FetchFails ==
  ASSUME ChecksInv
  PROVE  DmarcFetchFails
<1> SUFFICES ASSUME decision = "accepted", conf.dmarc, dmarcFetch.err # ""
             PROVE  dmarcFetch.err \in {"perm", "panic"} /\ dmarc.value = "permerror" /\ dmarc.policy = "none"
  BY DEF DmarcFetchFails
<1>1. dmarc.value # "" /\ dmarc.policy # "reject"
  BY DEF ChecksInv, VerdictOfPolicy
<1>2. PICK roll \in 0..99 : dmarc = VerifierApply(dmarcFetch, FromDomain, merged.auth, roll)
  BY <1>1 DEF ChecksInv, VerdictOfPolicy
<1>3. VerdictFor(dmarc, dmarcFetch, FromDomain, EvaluateAlignment(FromDomain, dmarcFetch.rec, merged.auth), roll)
  BY <1>2, VerdictIs
<1>4. dmarcFetch.err # "temp" /\ dmarc.value = "permerror" /\ dmarc.policy = "none"
  BY <1>1, <1>3 DEF VerdictFor
<1>5. CASE dmarcFetch.err \in {"pending", "running", "perm", "panic"}
  BY <1>1, <1>4, <1>5 DEF ChecksInv, VerdictOfPolicy
<1>6. CASE dmarcFetch.err \notin {"pending", "running", "perm", "panic"}
  <2>1. dmarcFetch \in FetchRecord(meta.zone, meta.rec, FromDomain)
    BY <1>6 DEF ChecksInv, VerdictOfPolicy
  <2>2. dmarcFetch.err \in {"", "temp", "perm"}
    BY <2>1, FetchIs DEF OneOutcome
  <2> QED
    BY <1>4, <1>6, <2>2
<1> QED
  BY <1>4, <1>5, <1>6

LEMMA LeftIsDecided ==
  ASSUME ChecksInv
  PROVE  SpfLeftToDmarc
<1>1. SUFFICES ASSUME decision = "accepted", conf.dmarc, Uses("dkim"), NEW x \in causes, x[2] = "deferred",
                      dmarc.value # "pass", ~(meta.rec.pct < 99), dmarcFetch.err \notin {"perm", "panic"}
               PROVE  quarantine
  BY DEF SpfLeftToDmarc
<1>2. Has("spf") /\ Has("dkim")
  BY <1>1 DEF ChecksInv, LeftToPolicy, SpfOnce, Settled
<1>3. dmarc.value # "" /\ dmarc.policy # "reject" /\ (dmarc.policy = "quarantine" => quarantine)
  BY <1>1 DEF ChecksInv, VerdictOfPolicy
<1>4. PICK roll \in 0..99 : dmarc = VerifierApply(dmarcFetch, FromDomain, merged.auth, roll)
  BY <1>3 DEF ChecksInv, VerdictOfPolicy
<1>5. dmarcFetch \in FetchRecord(meta.zone, meta.rec, FromDomain) /\ dmarcFetch.err # "temp"
  <2>1. dmarcFetch.err \notin {"pending", "running"}
    BY <1>3 DEF ChecksInv, VerdictOfPolicy
  <2>2. dmarcFetch.err # "temp"
    BY <1>1, FetchFails DEF DmarcFetchFails
  <2> QED
    BY <1>1, <2>1, <2>2 DEF ChecksInv, VerdictOfPolicy
<1>6. PICK d \in FetchRecord(meta.zone, meta.rec, FromDomain) : relyOnDMARC(d, FromDomain)
  BY <1>1 DEF ChecksInv, LeftToPolicy
<1>7. PICK one : OneOutcome(FetchRecord(meta.zone, meta.rec, FromDomain), meta.rec, one)
  BY FetchIs
<1>9. d.err = "" /\ d.rec # NoRecord /\ PolicyFor(d, FromDomain) # "none"
  BY <1>6 DEF relyOnDMARC
<1>10. dmarcFetch = d
  <2>1. d = one /\ dmarcFetch = one
    BY <1>1, <1>5, <1>6, <1>7, <1>9 DEF OneOutcome
  <2> QED
    BY <2>1
<1>11. dmarcFetch.rec = meta.rec
  BY <1>9, <1>10, PolicyInHand
<1> DEFINE e == EvaluateAlignment(FromDomain, dmarcFetch.rec, merged.auth)
<1>12. e # "none"
  <2>1. HasIn(merged.auth, "spf") /\ HasIn(merged.auth, "dkim")
    BY <1>2 DEF Has, HasIn
  <2> QED
    BY <2>1, ResultsKept, AlignmentMeans
<1>13. /\ dmarc.value = e
       /\ dmarc.policy = IF e \in {"pass", "none"} \/ roll > dmarcFetch.rec.pct THEN "none" ELSE PolicyFor(dmarcFetch, FromDomain)
  <2>1. VerdictFor(dmarc, dmarcFetch, FromDomain, e, roll)
    BY <1>4, VerdictIs
  <2> HIDE DEF e
  <2> QED
    BY <1>9, <1>10, <2>1 DEF VerdictFor
<1> HIDE DEF e
<1>14. meta.rec \in DmarcRecord
  BY SetupShape DEF MetaShape
<1>15. PolicyFor(dmarcFetch, FromDomain) \in {"none", "quarantine", "reject"} /\ meta.rec.pct \in 0..100
  BY <1>11, <1>14, PolicyKinds
<1>16. ~(roll > dmarcFetch.rec.pct)
  BY <1>1, <1>4, <1>11, <1>15
<1> QED
  BY <1>1, <1>3, <1>9, <1>10, <1>12, <1>13, <1>15, <1>16

-----------------------------------------------------------------------------
(* What follows from the invariant *)

\* The parts of AnswersEnforced and of MilterDialogue.
LEMMA ActionsFollow ==
  ASSUME ChecksInv
  PROVE  ActionsEnforced /\ QuarantineReachesMessage
<1>1. SUFFICES ASSUME decision = "accepted", NEW x \in causes, Counted(x)
               PROVE  Done(x, Wanted(x[2]), quarantine)
  BY DEF ActionsEnforced, QuarantineReachesMessage, Done
<1>2. ~OfBatch(x)
  BY <1>1 DEF ChecksInv, StagesInOrder, CausesStaged, OfBatch
<1>3. Done(x, Wanted(x[2]), merged.quarantine)
  BY <1>1, <1>2 DEF ChecksInv, CausesKept, Done
<1>4. merged.quarantine => quarantine
  BY <1>1 DEF ChecksInv, VerdictOfPolicy
<1> QED
  BY <1>3, <1>4 DEF Done

\* Who sends under an address may use it.
LEMMA SendersFollow ==
  ASSUME ChecksInv
  PROVE  SenderAuthorized
<1>1. decision = "accepted" => Settled("authorize_sender", "sender") /\ Settled("authorize_sender", "body")
  BY DEF Settled, Going
<1> QED
  BY <1>1 DEF ChecksInv, SendersHeard, SenderAuthorized

\* With the lists alone, DMARC has nothing to go by.

LEMMA ListsFollow ==
  ASSUME ChecksInv
  PROVE  ListedScore
<1>1. SUFFICES ASSUME decision = "accepted", setup.checks = {"dnsbl"}, meta.conn = "tcp"
               PROVE  ~(ScoreOfLists >= conf.rejectThres) /\ (ScoreOfLists >= conf.quarantineThres <=> quarantine)
  BY DEF ListedScore
<1>2. ~(ScoreOfLists >= conf.rejectThres) /\ (merged.quarantine <=> ScoreOfLists >= conf.quarantineThres)
  BY <1>1 DEF ChecksInv, ScoreKept, Going
<1>3. /\ merged.quarantine => quarantine
      /\ quarantine => merged.quarantine \/ (conf.dmarc /\ dmarc.policy = "quarantine")
      /\ conf.dmarc => dmarc.value # "" /\ dmarc.policy # "reject"
  BY <1>1 DEF ChecksInv, VerdictOfPolicy
<1>4. conf.dmarc => dmarc.policy # "quarantine"
  <2>1. SUFFICES ASSUME conf.dmarc PROVE dmarc.policy # "quarantine"
    OBVIOUS
  <2>2. PICK roll \in 0..99 : dmarc = VerifierApply(dmarcFetch, FromDomain, merged.auth, roll)
    BY <1>3, <2>1 DEF ChecksInv, VerdictOfPolicy
  <2> DEFINE e == EvaluateAlignment(FromDomain, dmarcFetch.rec, merged.auth)
  <2>3. VerdictFor(dmarc, dmarcFetch, FromDomain, e, roll)
    BY <2>2, VerdictIs
  <2>4. e = "none"
    <3>1. ~HasIn(merged.auth, "dkim")
      BY <1>1 DEF ChecksInv, SpfOnce, Has, HasIn, Uses
    <3> QED
      BY <3>1, ResultsKept, AlignmentMeans
  <2> HIDE DEF e
  <2> QED
    BY <2>3, <2>4 DEF VerdictFor
<1> QED
  BY <1>2, <1>3, <1>4

\* The dialogue is in order and the session closed.
LEMMA MilterFollows ==
  ASSUME ChecksInv
  PROVE  MilterInOrder /\ SessionsClosed
  BY DEF ChecksInv, DialogueKept, MilterInOrder, SessionsClosed

\* A milter that accepted hears no more.

LEMMA MilterStays ==
  ASSUME ChecksInv, [ChecksNext]_checksVars
  PROVE  [dialogue' # dialogue => "milter" \notin skip]_checksVars
<1>1. SUFFICES ASSUME dialogue' # dialogue PROVE "milter" \notin skip
  OBVIOUS
<1>2. RunCheck
  BY <1>1, OnlyAnswersAdd
<1>3. PICK c \in todo : \E a : c \in Check /\ AnswerFacts(c, a) /\ Ran(c, a)
  BY <1>2, RunPicks
<1>4. PICK a : AnswerFacts(c, a) /\ Ran(c, a)
  BY <1>3
<1>5. dialogue \in Seq(Command)
  BY RankIs DEF ChecksInv, DialogueKept
<1>6. a.sent # <<>>
  <2>1. dialogue' = dialogue \o a.sent
    BY <1>4 DEF Ran
  <2>2. dialogue \o <<>> = dialogue
    BY <1>5, ConcatEmptySeq
  <2> QED
    BY <1>1, <2>1, <2>2
<1>7. c = "milter" /\ ("milter" \in skip => stage = "conn")
  BY <1>4, <1>6 DEF AnswerFacts
<1>8. stage = "conn" => "milter" \notin skip
  BY <1>3, <1>7 DEF ChecksInv, DialogueKept
<1> QED
  BY <1>7, <1>8

\* The inductive invariant of the specification.
LEMMA ChecksInvariant == ChecksSpec => []ChecksInv
<1>1. ChecksInit => ChecksInv
  BY ChecksStart
<1>2. ChecksInv /\ [ChecksNext]_checksVars => ChecksInv'
  BY ChecksStep
<1> QED
  BY <1>1, <1>2, PTL DEF ChecksSpec

\* The answers of the checks are what happens to the message (runAndMergeResults,
\* checkConnSender, checkRcpt, checkBody and applyResults of check_runner.go): whatever the
\* configuration and in whichever order the checks answer, no rejection is lost but that of
\* a milter that also quarantines, and no quarantine but that of a recipient the same batch
\* rejected.
THEOREM ChecksEnforced == ChecksSpec => []AnswersEnforced
<1>1. ChecksInv => AnswersEnforced
  <2> SUFFICES ASSUME ChecksInv PROVE AnswersEnforced
    OBVIOUS
  <2>1. ChecksTypeOK
    BY DEF ChecksInv
  <2> QED
    BY <2>1, ActionsFollow, SendersFollow, ListsFollow DEF AnswersEnforced
<1> QED
  BY <1>1, ChecksInvariant, PTL

\* DMARC decides what check.spf leaves to it (relyOnDMARC in spf.go, Verifier.Apply and
\* EvaluateAlignment of the dmarc package): by aligned identifiers only, closed when the
\* policy cannot be had for the moment, and without a policy when the fetch failed for good
\* or panicked.
THEOREM DmarcDecidesAlways == ChecksSpec => []DmarcDecides
<1>1. ChecksInv => DmarcDecides
  BY LeftIsDecided, FetchFails, NeedsAlignment DEF DmarcDecides
<1> QED
  BY <1>1, ChecksInvariant, PTL

\* The dialogue of milter.go with its daemon: the commands in order, none after the milter
\* accepted, and the session closed at the end of the message on every path.
THEOREM MilterHeardInOrder == ChecksSpec => MilterDialogue
<1>1. ChecksInv => MilterInOrder /\ SessionsClosed
  BY MilterFollows
<1>2. ChecksInv /\ [ChecksNext]_checksVars => [dialogue' # dialogue => "milter" \notin skip]_checksVars
  BY MilterStays
<1>3. ChecksSpec => []MilterInOrder /\ []SessionsClosed
  BY <1>1, ChecksInvariant, PTL
<1>4. ChecksSpec => MilterAcceptIsFinal
  BY <1>2, ChecksInvariant, PTL DEF ChecksSpec, MilterAcceptIsFinal
<1> QED
  BY <1>3, <1>4 DEF MilterDialogue
=============================================================================
