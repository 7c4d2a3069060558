---------------------------- MODULE ServerProofs ----------------------------
(***************************************************************************)
(* Proofs about the server process.  SmtpSession: for every number of      *)
(* sessions and senders, both values of defer_sender_reject and every      *)
(* limit.  ServerLife: for every configuration, every interleaving of its  *)
(* start and its stop with signals and reloads, and any number of edits of *)
(* the files it reloads.                                                   *)
(***************************************************************************)
EXTENDS SmtpSession, ServerLife, FiniteSetTheorems, SequenceTheorems, TLAPS

-----------------------------------------------------------------------------
(* SmtpSession: the invariants                                             *)

\* The two invariants depend on each other: permits are counted by deliveries,
\* and a counter keeps its type because no permit is given back twice.
SessionInv == DeliveriesCurrent /\ PermitsBalanced

Del == [from: Addr, txn: Nat, ended: Nat]
SessType == [auth: BOOLEAN, mailFrom: Addr, delivery: Nat, deliveryErr: Nat]
ConnType == [state: {"none", "open", "closed"}, from: Addr \cup {Refused},
             rcpt: BOOLEAN, cmd: {"none", "mail", "rcpt", "data", "reset"}, arg: Addr]

-----------------------------------------------------------------------------
(* Permits and deliveries when a delivery starts, ends, or neither *)

\* The delivery a session works on is one it started.
LEMMA CurrentDelivery ==
  ASSUME SessionInv, NEW s \in Session
  PROVE  /\ deliveries[s] \in Seq(Del) /\ Len(deliveries[s]) \in Nat
         /\ DOMAIN deliveries[s] = 1..Len(deliveries[s])
         /\ sess[s] \in SessType /\ sess[s].mailFrom \in Addr /\ sess[s].delivery \in Nat
         /\ sess[s].delivery # 0 => /\ sess[s].delivery \in DOMAIN deliveries[s]
                                    /\ deliveries[s][sess[s].delivery] \in Del
                                    /\ deliveries[s][sess[s].delivery].from \in Addr
<1>1. deliveries[s] \in Seq(Del) /\ sess[s] \in SessType
  BY DEF SessionInv, DeliveriesCurrent, TypeOK, Del, SessType
<1>2. Len(deliveries[s]) \in Nat /\ DOMAIN deliveries[s] = 1..Len(deliveries[s])
  BY <1>1, LenProperties
<1>3. sess[s].delivery \in 0..Len(deliveries[s])
  BY DEF SessionInv, DeliveriesCurrent, SessionShaped
<1>4. sess[s].delivery # 0 => sess[s].delivery \in 1..Len(deliveries[s])
  BY <1>2, <1>3
<1>5. sess[s].delivery # 0 => deliveries[s][sess[s].delivery] \in Del
  BY <1>1, <1>4, ElementOfSeq
<1>6. sess[s].mailFrom \in Addr /\ sess[s].delivery \in Nat
  BY <1>1 DEF SessType
<1>7. \A x \in Del : x.from \in Addr
  BY DEF Del
<1> QED BY <1>1, <1>2, <1>4, <1>5, <1>6, <1>7

\* A step that starts and ends no delivery keeps what is known of permits.
LEMMA NoDeliveryTouched ==
  ASSUME SessionInv, UNCHANGED <<mode, deliveries, taken, buckets>>,
         \A t \in Session : /\ sess'[t].delivery = sess[t].delivery
                            /\ sess[t].delivery # 0 => sess'[t].mailFrom = sess[t].mailFrom
  PROVE  PermitsBalanced' /\ NoUseAfterEnd'
<1>1. \A d \in Domains : Holders(d)' = Holders(d)
  BY DEF Holders
<1>2. NoMismatchedRelease' /\ DeferredPermitsMatch'
  BY <1>1 DEF SessionInv, PermitsBalanced, NoMismatchedRelease, DeferredPermitsMatch, PermitsMatch
<1>3. ReleasableSender'
  BY <1>1 DEF SessionInv, PermitsBalanced, ReleasableSender
<1>4. NoUseAfterEnd'
  BY DEF SessionInv, DeliveriesCurrent, NoUseAfterEnd
<1> QED BY <1>2, <1>3, <1>4 DEF PermitsBalanced

\* startDelivery for the sender a: the new delivery is the last one of the
\* session, and it holds the permit that was taken.
LEMMA DeliveryStarted ==
  ASSUME SessionInv, NEW s \in Session, NEW a \in Addr, NEW m \in Addr,
         sess[s].delivery = 0, StartSucceeds(s, a),
         txn' \in [Session -> 0..MaxMails],
         sess' = [sess EXCEPT ![s].mailFrom = m, ![s].delivery = Len(deliveries'[s])],
         Clean[m] = Clean[a], mode = "deferred" => m = Clean[a],
         mode' = mode
  PROVE  /\ sess' \in [Session -> SessType]
         /\ deliveries' \in [Session -> Seq(Del)]
         /\ taken' \in [Domains -> 0..SourceLimit] /\ buckets' \subseteq Domains
         /\ PermitsBalanced' /\ NoUseAfterEnd'
         /\ sess'[s].mailFrom = m
         /\ sess'[s].delivery \in 1..Len(deliveries'[s])
         /\ deliveries'[s][sess'[s].delivery].from = Clean[a]
         /\ deliveries'[s][sess'[s].delivery].txn = txn'[s]
         /\ \A t \in Session : t # s => sess'[t] = sess[t] /\ deliveries'[t] = deliveries[t]
<1> DEFINE n == Len(deliveries[s])
           new == [from |-> Clean[a], txn |-> txn'[s], ended |-> 0]
           d == DomainOf[Clean[a]]
<1>0. /\ TypeOK /\ ReleasableSender /\ NoUseAfterEnd
      /\ sess \in [Session -> SessType] /\ deliveries \in [Session -> Seq(Del)]
  BY DEF SessionInv, DeliveriesCurrent, PermitsBalanced, TypeOK, SessType, Del
<1>1. Clean[a] \in Addr /\ Clean[a] # Refused /\ d \in Domains
  BY SessionAssumption DEF StartSucceeds, Domains
<1>2. new \in Del
  <2>1. txn'[s] \in Nat
    BY SessionAssumption
  <2> QED BY <1>1, <2>1 DEF Del
<1>3. /\ deliveries[s] \in Seq(Del) /\ n \in Nat /\ DOMAIN deliveries[s] = 1..n
  BY CurrentDelivery
<1>4. deliveries' = [deliveries EXCEPT ![s] = Append(deliveries[s], new)]
  BY DEF StartSucceeds
<1>5. deliveries'[s] = Append(deliveries[s], new)
  BY <1>0, <1>4
<1>6. /\ deliveries'[s] \in Seq(Del) /\ Len(deliveries'[s]) = n + 1
      /\ \A i \in 1..n : deliveries'[s][i] = deliveries[s][i]
      /\ deliveries'[s][n+1] = new /\ DOMAIN deliveries'[s] = 1..(n+1)
  BY <1>2, <1>3, <1>5, AppendProperties, LenProperties
<1>7. \A t \in Session : t # s => sess'[t] = sess[t] /\ deliveries'[t] = deliveries[t]
  BY <1>0, <1>4
<1>8. /\ sess'[s].mailFrom = m /\ sess'[s].delivery = n + 1
      /\ sess' \in [Session -> SessType]
  <2>1. n + 1 \in Nat
    BY <1>3
  <2> DEFINE r == [sess[s] EXCEPT !.mailFrom = m, !.delivery = n + 1]
  <2>2. r \in SessType /\ r.mailFrom = m /\ r.delivery = n + 1
    <3>1. sess[s] \in SessType
      BY <1>0
    <3> QED BY <2>1, <3>1 DEF SessType
  <2>3. sess' = [sess EXCEPT ![s] = r]
    BY <1>6
  <2> HIDE DEF r
  <2> QED BY <1>0, <2>2, <2>3
<1>9. new.from = Clean[a] /\ new.txn = txn'[s] /\ new.ended = 0
  OBVIOUS
<1> HIDE DEF new, n
<1>10. deliveries' \in [Session -> Seq(Del)]
  BY <1>0, <1>4, <1>5, <1>6
<1>11. /\ taken' \in [Domains -> 0..SourceLimit]
       /\ taken'[d] = taken[d] + 1 /\ \A e \in Domains : e # d => taken'[e] = taken[e]
       /\ \A e \in Domains : taken[e] \in Nat
       /\ buckets' = buckets \cup {d} /\ buckets' \subseteq Domains
  BY <1>0, <1>1, SessionAssumption DEF StartSucceeds, TakeMsg, TypeOK
<1> HIDE DEF d
<1>12. NoUseAfterEnd'
  <2> SUFFICES ASSUME NEW t \in Session, NEW i \in DOMAIN deliveries'[t]
               PROVE  /\ deliveries'[t][i].ended <= 1
                      /\ sess'[t].delivery = i => deliveries'[t][i].ended = 0
    BY DEF NoUseAfterEnd
  <2>1. CASE t # s
    BY <2>1, <1>0, <1>7 DEF NoUseAfterEnd
  <2>2. CASE t = s /\ i = n + 1
    BY <2>2, <1>6, <1>9
  <2>3. CASE t = s /\ i # n + 1
    <3>1. i \in 1..n
      BY <2>3, <1>3, <1>6
    <3> QED BY <2>3, <3>1, <1>0, <1>3, <1>6, <1>8 DEF NoUseAfterEnd
  <2> QED BY <2>1, <2>2, <2>3
<1>13. /\ Holders(d)' = Holders(d) \cup {s} /\ s \notin Holders(d)
       /\ \A e \in Domains : e # d => Holders(e)' = Holders(e)
  <2>1. s \notin Holders(d) /\ \A e \in Domains : s \notin Holders(e)
    BY DEF Holders
  <2>2. sess'[s].delivery # 0 /\ DomainOf[deliveries'[s][sess'[s].delivery].from] = d
    BY <1>3, <1>6, <1>8, <1>9 DEF d
  <2>3. \A e : s \in Holders(e)' <=> e = d
    BY <2>2 DEF Holders
  <2>4. \A e : \A t \in Session : t # s => (t \in Holders(e)' <=> t \in Holders(e))
    BY <1>7 DEF Holders
  <2>5. \A e : Holders(e) \subseteq Session /\ Holders(e)' \subseteq Session
    BY DEF Holders
  <2>6. Holders(d)' = Holders(d) \cup {s}
    <3>1. s \in Holders(d)'
      BY <2>3
    <3>2. \A t \in Session : t # s => (t \in Holders(d)' <=> t \in Holders(d))
      BY <2>4
    <3>3. Holders(d) \subseteq Session /\ Holders(d)' \subseteq Session
      BY <2>5
    <3> QED BY <3>1, <3>2, <3>3
  <2>7. ASSUME NEW e \in Domains, e # d PROVE Holders(e)' = Holders(e)
    <3>1. s \notin Holders(e)' /\ s \notin Holders(e)
      BY <2>1, <2>3, <2>7
    <3>2. \A t \in Session : t # s => (t \in Holders(e)' <=> t \in Holders(e))
      BY <2>4
    <3>3. Holders(e) \subseteq Session /\ Holders(e)' \subseteq Session
      BY <2>5
    <3>4. Holders(e)' \subseteq Holders(e) /\ Holders(e) \subseteq Holders(e)'
      BY <3>1, <3>2, <3>3
    <3> QED BY <3>4
  <2> QED BY <2>1, <2>6, <2>7
<1>14. /\ \A e \in Domains : IsFiniteSet(Holders(e)) /\ Cardinality(Holders(e)) \in Nat
       /\ IsFiniteSet(Holders(d)') /\ Cardinality(Holders(d)') = Cardinality(Holders(d)) + 1
  <2>1. \A e \in Domains : IsFiniteSet(Holders(e))
    BY <1>0 DEF ReleasableSender
  <2> QED BY <1>1, <1>13, <2>1, FS_AddElement, FS_CardinalityType DEF d
<1>15. NoMismatchedRelease' /\ DeferredPermitsMatch'
  <2>1. d \in Domains
    BY <1>1 DEF d
  <2>2. ASSUME NEW e \in Domains
        PROVE  /\ taken'[e] >= Cardinality(Holders(e)')
               /\ mode = "deferred" => taken'[e] = Cardinality(Holders(e)')
    <3>1. taken[e] >= Cardinality(Holders(e)) /\ (mode = "deferred" => taken[e] = Cardinality(Holders(e)))
      BY DEF SessionInv, PermitsBalanced, NoMismatchedRelease, DeferredPermitsMatch, PermitsMatch
    <3>2. CASE e = d
      BY <3>1, <3>2, <1>11, <1>14
    <3>3. CASE e # d
      BY <3>1, <3>3, <1>11, <1>13
    <3> QED BY <3>2, <3>3
  <2> QED BY <2>2 DEF NoMismatchedRelease, DeferredPermitsMatch, PermitsMatch
<1>16. ReleasableSender'
  <2>1. ASSUME NEW t \in Session, sess'[t].delivery # 0
        PROVE  LET from == deliveries'[t][sess'[t].delivery].from
               IN  /\ Clean[sess'[t].mailFrom] = from /\ DomainOf[from] \in buckets'
                   /\ mode = "deferred" => sess'[t].mailFrom = from
    <3>1. CASE t = s
      BY <3>1, <1>6, <1>8, <1>9, <1>11 DEF d
    <3>2. CASE t # s
      BY <3>2, <2>1, <1>0, <1>7, <1>11 DEF ReleasableSender
    <3> QED BY <3>1, <3>2
  <2>2. \A e \in buckets' : \E b \in Addr : Clean[b] # Refused /\ e = DomainOf[Clean[b]]
    BY <1>0, <1>1, <1>11 DEF ReleasableSender, d
  <2>3. \A e \in Domains : IsFiniteSet(Holders(e)')
    BY <1>13, <1>14
  <2> QED BY <2>1, <2>2, <2>3 DEF ReleasableSender
<1> QED BY <1>3, <1>6, <1>7, <1>8, <1>9, <1>10, <1>11, <1>12, <1>15, <1>16 DEF PermitsBalanced

\* The domain a session releases is the one it holds a permit of, or one
\* without a bucket, where releasing does nothing; with deferred rejection it
\* is always the former.
LEMMA ReleasedDomain ==
  ASSUME SessionInv, NEW s \in Session, sess[s].delivery # 0
  PROVE  LET d == DomainOf[deliveries[s][sess[s].delivery].from]
             r == DomainOf[sess[s].mailFrom]
         IN  /\ d \in Domains /\ d \in buckets
             /\ r \in buckets => r = d
             /\ mode = "deferred" => r = d
<1> DEFINE from == deliveries[s][sess[s].delivery].from
           m == sess[s].mailFrom
<1>1. from \in Addr /\ m \in Addr
  BY CurrentDelivery
<1>2. /\ Clean[m] = from /\ DomainOf[from] \in buckets
      /\ mode = "deferred" => m = from
      /\ \A e \in buckets : \E b \in Addr : Clean[b] # Refused /\ e = DomainOf[Clean[b]]
  BY DEF SessionInv, PermitsBalanced, ReleasableSender
<1>3. ASSUME DomainOf[m] \in buckets PROVE DomainOf[m] = DomainOf[from]
  <2>1. PICK b \in Addr : Clean[b] # Refused /\ DomainOf[m] = DomainOf[Clean[b]]
    BY <1>2, <1>3
  <2>2. Clean[m] # Refused
    BY <1>1, <1>2, SessionAssumption
  <2> QED BY <1>1, <1>2, <2>1, <2>2, SessionAssumption
<1>4. DomainOf[from] \in Domains
  BY <1>1 DEF Domains
<1> QED BY <1>2, <1>3, <1>4

\* cleanSession, after Commit, Abort or neither: the session has no delivery and
\* its permit is given back.
LEMMA DeliveryEnded ==
  ASSUME SessionInv, NEW s \in Session, sess[s].delivery # 0,
         ReleaseLimits(s), sess' = [sess EXCEPT ![s] = Cleaned(s)],
         EndDelivery(s) \/ UNCHANGED deliveries, UNCHANGED <<mode, buckets>>
  PROVE  /\ sess' \in [Session -> SessType]
         /\ deliveries' \in [Session -> Seq(Del)]
         /\ taken' \in [Domains -> 0..SourceLimit]
         /\ PermitsBalanced' /\ NoUseAfterEnd'
         /\ sess'[s].delivery = 0 /\ Len(deliveries'[s]) \in Nat
         /\ \A t \in Session : t # s => sess'[t] = sess[t] /\ deliveries'[t] = deliveries[t]
<1>a. PICK i : i = sess[s].delivery
  OBVIOUS
<1>b. PICK d : d = DomainOf[deliveries[s][i].from]
  OBVIOUS
<1>c. PICK r : r = DomainOf[sess[s].mailFrom]
  OBVIOUS
<1>0. /\ TypeOK /\ ReleasableSender /\ NoUseAfterEnd
      /\ sess \in [Session -> SessType] /\ deliveries \in [Session -> Seq(Del)]
  BY DEF SessionInv, DeliveriesCurrent, PermitsBalanced, TypeOK, SessType, Del
<1>1. /\ i \in DOMAIN deliveries[s] /\ deliveries[s][i] \in Del
      /\ deliveries[s] \in Seq(Del) /\ DOMAIN deliveries[s] = 1..Len(deliveries[s])
      /\ Len(deliveries[s]) \in Nat
  BY <1>a, CurrentDelivery
<1>2. d \in Domains /\ d \in buckets /\ (r \in buckets => r = d) /\ (mode = "deferred" => r = d)
  BY <1>a, <1>b, <1>c, ReleasedDomain
<1>3. taken' = IF r \in buckets THEN [taken EXCEPT ![r] = @ - 1] ELSE taken
  BY <1>c DEF ReleaseLimits
<1>4. /\ sess'[s].delivery = 0 /\ sess' \in [Session -> SessType]
      /\ \A t \in Session : t # s => sess'[t] = sess[t]
  <2>1. NoAddr \in Addr
    BY SessionAssumption
  <2>2. Cleaned(s) \in SessType /\ Cleaned(s).delivery = 0
    BY <1>0, <2>1 DEF Cleaned, SessType
  <2> QED BY <1>0, <2>2
<1>5. ASSUME EndDelivery(s)
      PROVE  /\ deliveries'[s] \in Seq(Del) /\ DOMAIN deliveries'[s] = DOMAIN deliveries[s]
             /\ \A t \in Session : t # s => deliveries'[t] = deliveries[t]
             /\ deliveries'[s][i].ended = deliveries[s][i].ended + 1
             /\ \A j \in DOMAIN deliveries[s] : j # i => deliveries'[s][j] = deliveries[s][j]
             /\ deliveries' \in [Session -> Seq(Del)]
  <2> DEFINE x == [deliveries[s][i] EXCEPT !.ended = @ + 1]
  <2>0. \A y \in Del : /\ [y EXCEPT !.ended = @ + 1] \in Del
                       /\ [y EXCEPT !.ended = @ + 1].ended = y.ended + 1
    BY DEF Del
  <2>1. x \in Del /\ x.ended = deliveries[s][i].ended + 1
    BY <1>1, <2>0
  <2> HIDE DEF x
  <2>2. deliveries' = [deliveries EXCEPT ![s] = [deliveries[s] EXCEPT ![i] = x]]
    BY <1>5, <1>a DEF EndDelivery, x
  <2>3. deliveries'[s] = [deliveries[s] EXCEPT ![i] = x]
    BY <1>0, <2>2
  <2>4. [deliveries[s] EXCEPT ![i] = x] \in Seq(Del)
    BY <1>1, <2>1, ExceptSeq
  <2> QED BY <1>0, <1>1, <2>1, <2>2, <2>3, <2>4
<1>6. /\ deliveries' \in [Session -> Seq(Del)] /\ DOMAIN deliveries'[s] = DOMAIN deliveries[s]
      /\ \A t \in Session : t # s => deliveries'[t] = deliveries[t]
  BY <1>0, <1>5
<1>7. Len(deliveries'[s]) \in Nat
  BY <1>6, LenProperties
<1>8. NoUseAfterEnd'
  <2> SUFFICES ASSUME NEW t \in Session, NEW j \in DOMAIN deliveries'[t]
               PROVE  /\ deliveries'[t][j].ended <= 1
                      /\ sess'[t].delivery = j => deliveries'[t][j].ended = 0
    BY DEF NoUseAfterEnd
  <2>1. CASE t # s
    BY <2>1, <1>0, <1>4, <1>6 DEF NoUseAfterEnd
  <2>2. CASE t = s
    <3>1. j \in DOMAIN deliveries[s] /\ j # 0
      BY <2>2, <1>1, <1>6
    <3>2. deliveries[s][j].ended <= 1 /\ (j = i => deliveries[s][j].ended = 0)
      BY <3>1, <1>0, <1>a DEF NoUseAfterEnd
    <3>3. deliveries'[s][j].ended <= 1
      BY <3>1, <3>2, <1>5
    <3> QED BY <2>2, <3>1, <3>3, <1>4
  <2> QED BY <2>1, <2>2
<1>9. /\ Holders(d)' = Holders(d) \ {s} /\ s \in Holders(d)
      /\ \A e \in Domains : e # d => Holders(e)' = Holders(e)
  <2>1. \A e : s \in Holders(e) <=> e = d
    BY <1>a, <1>b DEF Holders
  <2>2. \A e : s \notin Holders(e)'
    BY <1>4 DEF Holders
  <2>3. \A e : \A t \in Session : t # s => (t \in Holders(e)' <=> t \in Holders(e))
    BY <1>4, <1>6 DEF Holders
  <2>4. \A e : Holders(e) \subseteq Session /\ Holders(e)' \subseteq Session
    BY DEF Holders
  <2>5. Holders(d)' = Holders(d) \ {s}
    <3>1. s \notin Holders(d)'
      BY <2>2
    <3>2. \A t \in Session : t # s => (t \in Holders(d)' <=> t \in Holders(d))
      BY <2>3
    <3>3. Holders(d) \subseteq Session /\ Holders(d)' \subseteq Session
      BY <2>4
    <3> QED BY <3>1, <3>2, <3>3
  <2>6. ASSUME NEW e \in Domains, e # d PROVE Holders(e)' = Holders(e)
    <3>1. s \notin Holders(e)' /\ s \notin Holders(e)
      BY <2>1, <2>2, <2>6
    <3>2. \A t \in Session : t # s => (t \in Holders(e)' <=> t \in Holders(e))
      BY <2>3
    <3>3. Holders(e) \subseteq Session /\ Holders(e)' \subseteq Session
      BY <2>4
    <3> QED BY <3>1, <3>2, <3>3
  <2> QED BY <2>1, <2>5, <2>6
<1>10. /\ \A e \in Domains : IsFiniteSet(Holders(e)) /\ Cardinality(Holders(e)) \in Nat
       /\ IsFiniteSet(Holders(d)') /\ Cardinality(Holders(d)') = Cardinality(Holders(d)) - 1
       /\ Cardinality(Holders(d)') \in Nat
  <2>1. \A e \in Domains : IsFiniteSet(Holders(e))
    BY <1>0 DEF ReleasableSender
  <2> QED BY <1>2, <1>9, <2>1, FS_RemoveElement, FS_CardinalityType
<1>11. \A e \in Domains : /\ taken[e] \in 0..SourceLimit /\ taken[e] >= Cardinality(Holders(e))
                          /\ mode = "deferred" => taken[e] = Cardinality(Holders(e))
  BY <1>0 DEF TypeOK, SessionInv, PermitsBalanced, NoMismatchedRelease, DeferredPermitsMatch,
     PermitsMatch
<1>12. \/ r \in buckets /\ taken'[d] = taken[d] - 1 /\ taken' = [taken EXCEPT ![d] = taken[d] - 1]
       \/ r \notin buckets /\ mode # "deferred" /\ taken' = taken
  BY <1>0, <1>2, <1>3 DEF TypeOK
<1>13. taken' \in [Domains -> 0..SourceLimit]
  <2>1. taken[d] - 1 \in 0..SourceLimit
    BY <1>2, <1>10, <1>11, SessionAssumption
  <2> QED BY <1>0, <1>12, <2>1 DEF TypeOK
<1>14. NoMismatchedRelease' /\ DeferredPermitsMatch'
  <2>1. ASSUME NEW e \in Domains
        PROVE  /\ taken'[e] >= Cardinality(Holders(e)')
               /\ mode = "deferred" => taken'[e] = Cardinality(Holders(e)')
    <3>1. CASE e = d
      BY <3>1, <1>2, <1>10, <1>11, <1>12, SessionAssumption
    <3>2. CASE e # d
      <4>1. taken'[e] = taken[e]
        BY <3>2, <1>0, <1>12 DEF TypeOK
      <4> QED BY <3>2, <4>1, <1>9, <1>11
    <3> QED BY <3>1, <3>2
  <2> QED BY <2>1 DEF NoMismatchedRelease, DeferredPermitsMatch, PermitsMatch
<1>15. ReleasableSender'
  <2>1. ASSUME NEW t \in Session, sess'[t].delivery # 0
        PROVE  LET from == deliveries'[t][sess'[t].delivery].from
               IN  /\ Clean[sess'[t].mailFrom] = from /\ DomainOf[from] \in buckets'
                   /\ mode = "deferred" => sess'[t].mailFrom = from
    BY <2>1, <1>0, <1>4, <1>6 DEF ReleasableSender
  <2>2. \A e \in buckets' : \E b \in Addr : Clean[b] # Refused /\ e = DomainOf[Clean[b]]
    BY <1>0 DEF ReleasableSender
  <2>3. \A e \in Domains : IsFiniteSet(Holders(e)')
    BY <1>9, <1>10
  <2> QED BY <2>1, <2>2, <2>3 DEF ReleasableSender
<1> QED BY <1>4, <1>6, <1>7, <1>8, <1>13, <1>14, <1>15 DEF PermitsBalanced

-----------------------------------------------------------------------------
(* One session at a time *)

\* What SessionShaped and DeliveryIsCurrent say of one session.
Local(s) ==
  /\ sess[s].delivery \in 0..Len(deliveries[s])
  /\ conn[s].state = "none" => conn[s].cmd = "none" /\ conn[s].from = Refused
  /\ conn[s].from = Refused => ~conn[s].rcpt
  /\ conn[s].from = Refused /\ conn[s].state # "closed" => sess[s].delivery = 0
  /\ conn[s].cmd = "mail" => conn[s].from = Refused /\ sess[s].delivery = 0 /\ txn[s] < MaxMails
  /\ conn[s].cmd = "rcpt" => conn[s].from # Refused
  /\ conn[s].cmd = "data" => conn[s].rcpt
  /\ conn[s].state = "open" /\ conn[s].from # Refused /\ conn[s].cmd # "reset" =>
       Clean[sess[s].mailFrom] = Clean[conn[s].from]
  /\ conn[s].state = "open" /\ conn[s].from # Refused =>
       /\ sess[s].delivery # 0 =>
            /\ deliveries[s][sess[s].delivery].txn = txn[s]
            /\ deliveries[s][sess[s].delivery].from = Clean[conn[s].from]
       /\ conn[s].cmd # "reset" /\ conn[s].rcpt => sess[s].delivery # 0

LEMMA LocalOfInv ==
  ASSUME SessionInv, NEW s \in Session
  PROVE  Local(s)
BY DEF SessionInv, DeliveriesCurrent, SessionShaped, DeliveryIsCurrent, Local

\* A step of session s keeps the two invariants if it keeps them for s.
LEMMA InvOfLocal ==
  ASSUME SessionInv, NEW s \in Session, Local(s)',
         \A t \in Session : t # s => /\ conn'[t] = conn[t] /\ sess'[t] = sess[t]
                                     /\ txn'[t] = txn[t] /\ deliveries'[t] = deliveries[t]
  PROVE  SessionShaped' /\ DeliveryIsCurrent'
<1>1. ASSUME NEW t \in Session PROVE Local(t)'
  <2>1. CASE t = s
    BY <2>1
  <2>2. CASE t # s
    BY <2>2, LocalOfInv, SMTT(30) DEF Local
  <2> QED BY <2>1, <2>2
<1>2. SessionShaped'
  BY <1>1 DEF SessionShaped, Local
<1>3. DeliveryIsCurrent'
  BY <1>1 DEF DeliveryIsCurrent, Local
<1> QED BY <1>2, <1>3

LEMMA InvTypes ==
  ASSUME SessionInv
  PROVE  /\ conn \in [Session -> ConnType] /\ sess \in [Session -> SessType]
         /\ txn \in [Session -> 0..MaxMails] /\ deliveries \in [Session -> Seq(Del)]
         /\ taken \in [Domains -> 0..SourceLimit] /\ buckets \subseteq Domains
         /\ mode \in Modes /\ sessionCnt \in Int
BY DEF SessionInv, DeliveriesCurrent, TypeOK, ConnType, SessType, Del

\* The conjuncts of the invariants of a step, put together.
LEMMA InvOfParts ==
  ASSUME mode' \in Modes, conn' \in [Session -> ConnType], sess' \in [Session -> SessType],
         txn' \in [Session -> 0..MaxMails], deliveries' \in [Session -> Seq(Del)],
         taken' \in [Domains -> 0..SourceLimit], buckets' \subseteq Domains, sessionCnt' \in Int,
         SessionShaped', DeliveryIsCurrent', PermitsBalanced', NoUseAfterEnd'
  PROVE  SessionInv'
BY DEF SessionInv, DeliveriesCurrent, TypeOK, ConnType, SessType, Del

\* The handler returned, and go-smtp remembers c of the connection.
LEMMA HandledConn ==
  ASSUME SessionInv, NEW s \in Session, NEW c \in ConnType, Handled(s, c)
  PROVE  /\ conn' \in [Session -> ConnType]
         /\ \A t \in Session : t # s => conn'[t] = conn[t]
         /\ conn'[s].state = c.state /\ conn'[s].from = c.from /\ conn'[s].rcpt = c.rcpt
         /\ conn'[s].cmd = "none"
<1>1. NoAddr \in Addr
  BY SessionAssumption
<1>2. conn \in [Session -> ConnType]
  BY InvTypes
<1>3. [c EXCEPT !.cmd = "none", !.arg = NoAddr] \in ConnType
  BY <1>1 DEF ConnType
<1>4. /\ [c EXCEPT !.cmd = "none", !.arg = NoAddr].state = c.state
      /\ [c EXCEPT !.cmd = "none", !.arg = NoAddr].from = c.from
      /\ [c EXCEPT !.cmd = "none", !.arg = NoAddr].rcpt = c.rcpt
      /\ [c EXCEPT !.cmd = "none", !.arg = NoAddr].cmd = "none"
  BY DEF ConnType
<1> QED BY <1>2, <1>3, <1>4 DEF Handled

\* A step that leaves deliveries, transactions and limits alone.
LEMMA QuietStep ==
  ASSUME SessionInv, NEW s \in Session, UNCHANGED <<mode, txn, deliveries, taken, buckets>>,
         conn' \in [Session -> ConnType], sess' \in [Session -> SessType], sessionCnt' \in Int,
         \A t \in Session : t # s => conn'[t] = conn[t] /\ sess'[t] = sess[t],
         sess'[s].delivery = sess[s].delivery, sess'[s].mailFrom = sess[s].mailFrom,
         Local(s)'
  PROVE  SessionInv'
<1>1. SessionShaped' /\ DeliveryIsCurrent'
  BY InvOfLocal
<1>2. PermitsBalanced' /\ NoUseAfterEnd'
  BY NoDeliveryTouched
<1> QED BY <1>1, <1>2, InvTypes, InvOfParts

LEMMA NewSessionStep ==
  ASSUME SessionInv, NEW s \in Session, NewSession(s) \/ NewSessionRefused(s)
  PROVE  SessionInv'
<1>1. /\ conn[s].state = "none" /\ conn \in [Session -> ConnType]
      /\ UNCHANGED <<mode, sess, txn, deliveries, taken, buckets>>
      /\ sessionCnt' \in Int
  BY InvTypes DEF NewSession, NewSessionRefused
<1>2. /\ conn' \in [Session -> ConnType] /\ \A t \in Session : t # s => conn'[t] = conn[t]
      /\ conn'[s].state \in {"open", "closed"}
      /\ conn'[s].from = conn[s].from /\ conn'[s].rcpt = conn[s].rcpt /\ conn'[s].cmd = conn[s].cmd
  BY <1>1 DEF NewSession, NewSessionRefused, ConnType
<1>3. Local(s)'
  BY <1>1, <1>2, LocalOfInv DEF Local
<1> QED BY <1>1, <1>2, <1>3, InvTypes, QuietStep

LEMMA AuthStep ==
  ASSUME SessionInv, NEW s \in Session, AuthPlain(s)
  PROVE  SessionInv'
<1>1. /\ UNCHANGED <<mode, conn, txn, deliveries, taken, buckets, sessionCnt>>
      /\ sess \in [Session -> SessType]
      /\ sess' = [sess EXCEPT ![s].auth = TRUE]
  BY InvTypes DEF AuthPlain
<1>2. /\ sess' \in [Session -> SessType] /\ \A t \in Session : t # s => sess'[t] = sess[t]
      /\ sess'[s].delivery = sess[s].delivery /\ sess'[s].mailFrom = sess[s].mailFrom
  BY <1>1 DEF SessType
<1>3. Local(s)'
  BY <1>1, <1>2, LocalOfInv DEF Local
<1> QED BY <1>1, <1>2, <1>3, InvTypes, QuietStep

LEMMA ReadStep ==
  ASSUME SessionInv, NEW s \in Session, ReadCommand(s)
  PROVE  SessionInv'
<1>1. /\ UNCHANGED <<mode, sess, txn, deliveries, taken, buckets, sessionCnt>>
      /\ conn[s].state = "open" /\ conn[s].cmd = "none" /\ conn \in [Session -> ConnType]
  BY InvTypes DEF ReadCommand
<1>2. PICK c \in Allowed(s), a \in Addr : conn' = [conn EXCEPT ![s].cmd = c, ![s].arg = a]
  BY DEF ReadCommand
<1>3. /\ c \in {"reset", "mail", "rcpt", "data"}
      /\ c = "mail" => conn[s].from = Refused /\ txn[s] < MaxMails
      /\ c = "rcpt" => conn[s].from # Refused
      /\ c = "data" => conn[s].rcpt
  BY <1>2 DEF Allowed
<1>4. /\ conn' \in [Session -> ConnType] /\ \A t \in Session : t # s => conn'[t] = conn[t]
      /\ conn'[s].state = "open" /\ conn'[s].cmd = c
      /\ conn'[s].from = conn[s].from /\ conn'[s].rcpt = conn[s].rcpt
  <2> DEFINE r == [conn[s] EXCEPT !.cmd = c, !.arg = a]
  <2>1. conn[s] \in ConnType
    BY <1>1
  <2>2. r \in ConnType /\ r.state = conn[s].state /\ r.cmd = c /\ r.from = conn[s].from /\ r.rcpt = conn[s].rcpt
    BY <1>3, <2>1 DEF ConnType
  <2>3. conn' = [conn EXCEPT ![s] = r]
    BY <1>2
  <2> HIDE DEF r
  <2> QED BY <1>1, <2>2, <2>3
<1>5. Local(s)'
  BY <1>1, <1>3, <1>4, LocalOfInv DEF Local
<1> QED BY <1>1, <1>4, <1>5, InvTypes, QuietStep

\* The handlers that change nothing but what go-smtp knows: a refused MAIL, a
\* RCPT that repeats an error, a body that cannot be read, DATA after Logout.
LEMMA RefusedStep ==
  ASSUME SessionInv, NEW s \in Session,
         MailRefused(s) \/ RcptRepeated(s) \/ DataPanics(s)
  PROVE  SessionInv'
<1>1. /\ UNCHANGED <<mode, sess, txn, deliveries, taken, buckets, sessionCnt>>
      /\ Handled(s, conn[s]) /\ conn[s] \in ConnType
      /\ conn[s].cmd \in {"mail", "rcpt", "data"}
      /\ conn[s].cmd # "mail" => sess[s].delivery = 0
  BY InvTypes DEF MailRefused, RcptRepeated, DataPanics, StartFails
<1>2. /\ conn' \in [Session -> ConnType] /\ \A t \in Session : t # s => conn'[t] = conn[t]
      /\ conn'[s].state = conn[s].state /\ conn'[s].cmd = "none"
      /\ conn'[s].from = conn[s].from /\ conn'[s].rcpt = conn[s].rcpt
  BY <1>1, HandledConn
<1>3. Local(s)'
  BY <1>1, <1>2, LocalOfInv DEF Local
<1> QED BY <1>1, <1>2, <1>3, InvTypes, QuietStep

LEMMA RcptStartFailsStep ==
  ASSUME SessionInv, NEW s \in Session, RcptStartFails(s)
  PROVE  SessionInv'
<1>1. /\ UNCHANGED <<mode, txn, deliveries, taken, buckets, sessionCnt>>
      /\ Handled(s, conn[s]) /\ conn[s] \in ConnType /\ sess \in [Session -> SessType]
      /\ conn[s].cmd = "rcpt" /\ sess[s].delivery = 0
      /\ sess' = [sess EXCEPT ![s].deliveryErr = txn[s]] /\ txn[s] \in Nat
  <2>1. txn[s] \in Nat
    BY InvTypes, SessionAssumption
  <2> QED BY <2>1, InvTypes DEF RcptStartFails, StartFails
<1>2. /\ conn' \in [Session -> ConnType] /\ \A t \in Session : t # s => conn'[t] = conn[t]
      /\ conn'[s].state = conn[s].state /\ conn'[s].cmd = "none"
      /\ conn'[s].from = conn[s].from /\ conn'[s].rcpt = conn[s].rcpt
  BY <1>1, HandledConn
<1>3. /\ sess' \in [Session -> SessType] /\ \A t \in Session : t # s => sess'[t] = sess[t]
      /\ sess'[s].delivery = 0 /\ sess'[s].mailFrom = sess[s].mailFrom
  BY <1>1 DEF SessType
<1>4. Local(s)'
  BY <1>1, <1>2, <1>3, LocalOfInv DEF Local
<1> QED BY <1>1, <1>2, <1>3, <1>4, InvTypes, QuietStep

LEMMA DataUnreadableStep ==
  ASSUME SessionInv, NEW s \in Session, DataUnreadable(s)
  PROVE  SessionInv'
<1>1. /\ UNCHANGED <<mode, sess, txn, deliveries, taken, buckets, sessionCnt>>
      /\ conn \in [Session -> ConnType] /\ conn[s].cmd = "data"
      /\ conn' = [conn EXCEPT ![s].cmd = "reset"]
  BY InvTypes DEF DataUnreadable, ThenReset
<1>2. /\ conn' \in [Session -> ConnType] /\ \A t \in Session : t # s => conn'[t] = conn[t]
      /\ conn'[s].state = conn[s].state /\ conn'[s].cmd = "reset"
      /\ conn'[s].from = conn[s].from /\ conn'[s].rcpt = conn[s].rcpt
  BY <1>1 DEF ConnType
<1>3. Local(s)'
  BY <1>1, <1>2, LocalOfInv DEF Local
<1> QED BY <1>1, <1>2, <1>3, InvTypes, QuietStep

LEMMA MailStep ==
  ASSUME SessionInv, NEW s \in Session, Mail(s)
  PROVE  SessionInv'
<1>a. PICK a : a = conn[s].arg
  OBVIOUS
<1>0. Local(s) /\ conn[s] \in ConnType /\ sess \in [Session -> SessType] /\ mode \in Modes
  BY LocalOfInv, InvTypes
<1>1. /\ conn[s].cmd = "mail" /\ a \in Addr /\ a # Refused
      /\ conn[s].from = Refused /\ sess[s].delivery = 0 /\ txn[s] < MaxMails /\ ~conn[s].rcpt
      /\ UNCHANGED <<mode, sessionCnt>>
  BY <1>a, <1>0, SessionAssumption DEF Mail, Local, ConnType
<1>2. /\ txn' \in [Session -> 0..MaxMails]
      /\ \A t \in Session : t # s => txn'[t] = txn[t]
  BY <1>1, InvTypes, SessionAssumption DEF Mail
<1>3. [conn[s] EXCEPT !.from = a] \in ConnType
  BY <1>0, <1>1 DEF ConnType
<1>4. /\ conn' \in [Session -> ConnType] /\ \A t \in Session : t # s => conn'[t] = conn[t]
      /\ conn'[s].state = conn[s].state /\ conn'[s].cmd = "none"
      /\ conn'[s].from = a /\ conn'[s].rcpt = conn[s].rcpt
  <2>1. Handled(s, [conn[s] EXCEPT !.from = a])
    BY <1>a DEF Mail
  <2>2. /\ [conn[s] EXCEPT !.from = a].state = conn[s].state
        /\ [conn[s] EXCEPT !.from = a].from = a
        /\ [conn[s] EXCEPT !.from = a].rcpt = conn[s].rcpt
    BY <1>0 DEF ConnType
  <2> QED BY <1>3, <2>1, <2>2, HandledConn
<1>5. conn[s].state # "none"
  BY <1>0, <1>1 DEF Local
<1>6. CASE /\ mode = "immediate" /\ StartSucceeds(s, a)
           /\ sess' = [sess EXCEPT ![s].mailFrom = a, ![s].delivery = Len(deliveries'[s])]
  <2>0. mode = "deferred" => a = Clean[a]
    BY <1>6
  <2>1. /\ sess' \in [Session -> SessType]
        /\ deliveries' \in [Session -> Seq(Del)]
        /\ taken' \in [Domains -> 0..SourceLimit] /\ buckets' \subseteq Domains
        /\ PermitsBalanced' /\ NoUseAfterEnd'
        /\ sess'[s].mailFrom = a
        /\ sess'[s].delivery \in 1..Len(deliveries'[s])
        /\ deliveries'[s][sess'[s].delivery].from = Clean[a]
        /\ deliveries'[s][sess'[s].delivery].txn = txn'[s]
        /\ \A t \in Session : t # s => sess'[t] = sess[t] /\ deliveries'[t] = deliveries[t]
    BY <1>1, <1>2, <1>6, <2>0, DeliveryStarted
  <2>2. Local(s)'
    BY <1>1, <1>4, <1>5, <2>1 DEF Local
  <2>3. SessionShaped' /\ DeliveryIsCurrent'
    BY <1>2, <1>4, <2>1, <2>2, InvOfLocal
  <2> QED BY <1>1, <1>2, <1>4, <2>1, <2>3, InvTypes, InvOfParts
<1>7. CASE /\ mode = "deferred" /\ sess' = [sess EXCEPT ![s].mailFrom = a]
           /\ UNCHANGED <<deliveries, taken, buckets>>
  <2>1. /\ sess' \in [Session -> SessType] /\ \A t \in Session : t # s => sess'[t] = sess[t]
        /\ sess'[s].delivery = sess[s].delivery /\ sess'[s].mailFrom = a
    BY <1>0, <1>1, <1>7 DEF SessType
  <2>2. PermitsBalanced' /\ NoUseAfterEnd'
    BY <1>1, <1>7, <2>1, NoDeliveryTouched
  <2>3. Local(s)'
    BY <1>0, <1>1, <1>4, <1>5, <1>7, <2>1 DEF Local
  <2>4. SessionShaped' /\ DeliveryIsCurrent'
    BY <1>2, <1>4, <1>7, <2>1, <2>3, InvOfLocal
  <2> QED BY <1>1, <1>2, <1>4, <1>7, <2>1, <2>2, <2>4, InvTypes, InvOfParts
<1> QED BY <1>a, <1>6, <1>7 DEF Mail

LEMMA RcptStep ==
  ASSUME SessionInv, NEW s \in Session, Rcpt(s)
  PROVE  SessionInv'
<1>0. Local(s) /\ conn[s] \in ConnType /\ sess \in [Session -> SessType] /\ mode \in Modes
  BY LocalOfInv, InvTypes
<1>1. /\ conn[s].cmd = "rcpt" /\ conn[s].from # Refused
      /\ UNCHANGED <<mode, txn, sessionCnt>>
  BY <1>0 DEF Rcpt, Local
<1>2. /\ conn' \in [Session -> ConnType] /\ \A t \in Session : t # s => conn'[t] = conn[t]
      /\ conn'[s].state = conn[s].state /\ conn'[s].cmd = "none"
      /\ conn'[s].from = conn[s].from
  <2>1. PICK ok \in BOOLEAN : Handled(s, [conn[s] EXCEPT !.rcpt = @ \/ ok])
    BY DEF Rcpt
  <2>2. /\ [conn[s] EXCEPT !.rcpt = @ \/ ok] \in ConnType
        /\ [conn[s] EXCEPT !.rcpt = @ \/ ok].state = conn[s].state
        /\ [conn[s] EXCEPT !.rcpt = @ \/ ok].from = conn[s].from
    BY <1>0 DEF ConnType
  <2> QED BY <2>1, <2>2, HandledConn
<1>3. CASE sess[s].delivery # 0 /\ UNCHANGED <<sess, deliveries, taken, buckets>>
  <2>1. Local(s)'
    BY <1>0, <1>1, <1>2, <1>3 DEF Local
  <2> QED BY <1>1, <1>2, <1>3, <2>1, InvTypes, QuietStep
<1>4. CASE /\ sess[s].delivery = 0
           /\ StartSucceeds(s, sess[s].mailFrom)
           /\ sess' = [sess EXCEPT ![s].mailFrom = Clean[@], ![s].delivery = Len(deliveries'[s])]
  <2>a. PICK m : m = sess[s].mailFrom
    OBVIOUS
  <2>0. m \in Addr /\ Clean[m] \in Addr /\ Clean[Clean[m]] = Clean[m] /\ StartSucceeds(s, m)
    BY <1>0, <1>4, <2>a, SessionAssumption DEF SessType, StartSucceeds
  <2>1. sess' = [sess EXCEPT ![s].mailFrom = Clean[m], ![s].delivery = Len(deliveries'[s])]
    BY <1>0, <1>4, <2>a
  <2>t. txn' \in [Session -> 0..MaxMails]
    BY <1>1, InvTypes
  <2>2. /\ sess' \in [Session -> SessType]
        /\ deliveries' \in [Session -> Seq(Del)]
        /\ taken' \in [Domains -> 0..SourceLimit] /\ buckets' \subseteq Domains
        /\ PermitsBalanced' /\ NoUseAfterEnd'
        /\ sess'[s].mailFrom = Clean[m]
        /\ sess'[s].delivery \in 1..Len(deliveries'[s])
        /\ deliveries'[s][sess'[s].delivery].from = Clean[m]
        /\ deliveries'[s][sess'[s].delivery].txn = txn'[s]
        /\ \A t \in Session : t # s => sess'[t] = sess[t] /\ deliveries'[t] = deliveries[t]
    BY <1>1, <1>4, <2>0, <2>1, <2>t, DeliveryStarted
  <2>3. Local(s)'
    BY <1>0, <1>1, <1>2, <2>a, <2>0, <2>2 DEF Local
  <2>4. SessionShaped' /\ DeliveryIsCurrent'
    BY <1>1, <1>2, <2>2, <2>3, InvOfLocal
  <2> QED BY <1>1, <1>2, <2>2, <2>4, <2>t, InvTypes, InvOfParts
<1> QED BY <1>3, <1>4 DEF Rcpt

\* The end of DATA and everything that aborts: the session has no delivery
\* afterwards, and go-smtp calls Reset, leaves the transaction or is gone.
LEMMA EndStep ==
  ASSUME SessionInv, NEW s \in Session, sess[s].delivery # 0,
         ReleaseLimits(s), sess' = [sess EXCEPT ![s] = Cleaned(s)],
         EndDelivery(s) \/ UNCHANGED deliveries, UNCHANGED <<mode, txn, buckets>>,
         sessionCnt' \in Int, conn' \in [Session -> ConnType],
         \A t \in Session : t # s => conn'[t] = conn[t],
         conn'[s].state # "none",
         \/ /\ conn'[s].cmd = "reset" /\ conn'[s].from # Refused
         \/ /\ conn'[s].cmd = "none" /\ conn'[s].from = Refused /\ ~conn'[s].rcpt
         \/ /\ conn'[s].state = "closed" /\ conn'[s].cmd = conn[s].cmd
            /\ conn'[s].from = conn[s].from /\ conn'[s].rcpt = conn[s].rcpt
  PROVE  SessionInv'
<1>0. Local(s)
  BY LocalOfInv
<1>1. /\ sess' \in [Session -> SessType]
      /\ deliveries' \in [Session -> Seq(Del)]
      /\ taken' \in [Domains -> 0..SourceLimit]
      /\ PermitsBalanced' /\ NoUseAfterEnd'
      /\ sess'[s].delivery = 0 /\ Len(deliveries'[s]) \in Nat
      /\ \A t \in Session : t # s => sess'[t] = sess[t] /\ deliveries'[t] = deliveries[t]
  BY DeliveryEnded
<1>2. Local(s)'
  <2>1. sess'[s].delivery \in 0..Len(deliveries'[s])
    BY <1>1
  <2> QED BY <1>0, <1>1, <2>1 DEF Local
<1>3. SessionShaped' /\ DeliveryIsCurrent'
  BY <1>1, <1>2, InvOfLocal
<1> QED BY <1>1, <1>3, InvTypes, InvOfParts

LEMMA DataStep ==
  ASSUME SessionInv, NEW s \in Session, DataRejected(s) \/ DataCommitted(s)
  PROVE  SessionInv'
<1>0. Local(s) /\ conn \in [Session -> ConnType] /\ sessionCnt \in Int
  BY LocalOfInv, InvTypes
<1>1. /\ conn[s].cmd = "data" /\ sess[s].delivery # 0 /\ ReleaseLimits(s)
      /\ sess' = [sess EXCEPT ![s] = Cleaned(s)]
      /\ EndDelivery(s) \/ UNCHANGED deliveries
      /\ UNCHANGED <<mode, txn, buckets, sessionCnt>>
      /\ conn' = [conn EXCEPT ![s].cmd = "reset"]
  BY DEF DataRejected, DataCommitted, ThenReset
<1>2. /\ conn' \in [Session -> ConnType] /\ \A t \in Session : t # s => conn'[t] = conn[t]
      /\ conn'[s].cmd = "reset" /\ conn'[s].from = conn[s].from /\ conn'[s].state = conn[s].state
  BY <1>0, <1>1 DEF ConnType
<1>3. conn[s].from # Refused /\ conn[s].state # "none"
  BY <1>0, <1>1 DEF Local
<1> QED BY <1>0, <1>1, <1>2, <1>3, EndStep

LEMMA ResetStep ==
  ASSUME SessionInv, NEW s \in Session, Reset(s)
  PROVE  SessionInv'
<1>0. Local(s) /\ conn \in [Session -> ConnType] /\ sessionCnt \in Int
  BY LocalOfInv, InvTypes
<1>1. /\ conn[s].cmd = "reset" /\ AbortIfOpen(s)
      /\ Handled(s, [conn[s] EXCEPT !.from = Refused, !.rcpt = FALSE])
      /\ UNCHANGED <<mode, txn, buckets, sessionCnt>>
  BY DEF Reset
<1>2. /\ conn' \in [Session -> ConnType] /\ \A t \in Session : t # s => conn'[t] = conn[t]
      /\ conn'[s].cmd = "none" /\ conn'[s].from = Refused /\ ~conn'[s].rcpt
      /\ conn'[s].state = conn[s].state
  <2>1. /\ [conn[s] EXCEPT !.from = Refused, !.rcpt = FALSE] \in ConnType
        /\ [conn[s] EXCEPT !.from = Refused, !.rcpt = FALSE].from = Refused
        /\ [conn[s] EXCEPT !.from = Refused, !.rcpt = FALSE].rcpt = FALSE
        /\ [conn[s] EXCEPT !.from = Refused, !.rcpt = FALSE].state = conn[s].state
    BY <1>0 DEF ConnType
  <2> QED BY <1>1, <2>1, HandledConn
<1>3. conn[s].state # "none"
  BY <1>0, <1>1 DEF Local
<1>4. CASE sess[s].delivery # 0 /\ Abort(s)
  BY <1>0, <1>1, <1>2, <1>3, <1>4, EndStep DEF Abort
<1>5. CASE sess[s].delivery = 0 /\ UNCHANGED <<sess, deliveries, taken>>
  <2>1. Local(s)'
    BY <1>0, <1>1, <1>2, <1>3, <1>5 DEF Local
  <2> QED BY <1>1, <1>2, <1>5, <2>1, InvTypes, QuietStep
<1> QED BY <1>1, <1>4, <1>5 DEF AbortIfOpen

LEMMA LogoutStep ==
  ASSUME SessionInv, NEW s \in Session, Logout(s)
  PROVE  SessionInv'
<1>0. Local(s) /\ conn \in [Session -> ConnType] /\ sessionCnt \in Int
  BY LocalOfInv, InvTypes
<1>1. /\ conn[s].state = "open" /\ AbortIfOpen(s)
      /\ conn' = [conn EXCEPT ![s].state = "closed"]
      /\ UNCHANGED <<mode, txn, buckets>> /\ sessionCnt' \in Int
  BY <1>0 DEF Logout
<1>2. /\ conn' \in [Session -> ConnType] /\ \A t \in Session : t # s => conn'[t] = conn[t]
      /\ conn'[s].state = "closed" /\ conn'[s].cmd = conn[s].cmd
      /\ conn'[s].from = conn[s].from /\ conn'[s].rcpt = conn[s].rcpt
  BY <1>0, <1>1 DEF ConnType
<1>4. CASE sess[s].delivery # 0 /\ Abort(s)
  BY <1>1, <1>2, <1>4, EndStep DEF Abort
<1>5. CASE sess[s].delivery = 0 /\ UNCHANGED <<sess, deliveries, taken>>
  <2>1. Local(s)'
    BY <1>0, <1>1, <1>2, <1>5 DEF Local
  <2> QED BY <1>1, <1>2, <1>5, <2>1, InvTypes, QuietStep
<1> QED BY <1>1, <1>4, <1>5 DEF AbortIfOpen

-----------------------------------------------------------------------------
(* The invariants of the specification *)

LEMMA SessionInit ==
  ASSUME Init
  PROVE  SessionInv
<1>1. /\ NoAddr \in Addr /\ 0 \in 0..MaxMails /\ 0 \in 0..SourceLimit
      /\ <<>> \in Seq(Del) /\ Len(<<>>) = 0
  BY SessionAssumption, EmptySeq
<1>2. NewSess \in SessType /\ NoConn \in ConnType
  BY <1>1 DEF NewSess, SessType, NoConn, ConnType
<1>3. \A s \in Session : /\ sess[s].delivery = 0 /\ conn[s].state = "none" /\ conn[s].cmd = "none"
                         /\ conn[s].from = Refused /\ conn[s].rcpt = FALSE
                         /\ deliveries[s] = <<>>
  BY DEF Init, NewSess, NoConn
<1>4. TypeOK
  <2>1. /\ conn \in [Session -> ConnType] /\ sess \in [Session -> SessType]
        /\ txn \in [Session -> 0..MaxMails] /\ deliveries \in [Session -> Seq(Del)]
        /\ taken \in [Domains -> 0..SourceLimit]
    BY <1>1, <1>2 DEF Init
  <2> QED BY <2>1 DEF Init, TypeOK, ConnType, SessType, Del
<1>5. SessionShaped
  <2>1. \A s \in Session : Len(deliveries[s]) = 0
    BY <1>1, <1>3
  <2> QED BY <1>3, <2>1 DEF SessionShaped
<1>6. DeliveryIsCurrent /\ NoUseAfterEnd
  BY <1>3 DEF DeliveryIsCurrent, NoUseAfterEnd
<1>7. \A d \in Domains : Holders(d) = {} /\ taken[d] = 0
  BY <1>3 DEF Holders, Init
<1>8. PermitsBalanced
  <2>1. IsFiniteSet({}) /\ Cardinality({}) = 0
    BY FS_EmptySet
  <2>2. NoMismatchedRelease /\ DeferredPermitsMatch
    BY <1>7, <2>1 DEF NoMismatchedRelease, DeferredPermitsMatch, PermitsMatch
  <2>3. ReleasableSender
    BY <1>3, <1>7, <2>1 DEF ReleasableSender, Init
  <2> QED BY <2>2, <2>3 DEF PermitsBalanced
<1> QED BY <1>4, <1>5, <1>6, <1>8 DEF SessionInv, DeliveriesCurrent

LEMMA SessionStep ==
  ASSUME SessionInv, [Next]_vars
  PROVE  SessionInv'
<1>1. CASE UNCHANGED vars
  <2>1. /\ UNCHANGED <<mode, conn, sess, txn, deliveries, taken, buckets, sessionCnt>>
    BY <1>1 DEF vars
  <2>2. PermitsBalanced' /\ NoUseAfterEnd'
    BY <2>1, NoDeliveryTouched
  <2>3. SessionShaped' /\ DeliveryIsCurrent'
    BY <2>1 DEF SessionInv, DeliveriesCurrent, SessionShaped, DeliveryIsCurrent
  <2> QED BY <2>1, <2>2, <2>3, InvTypes, InvOfParts
<1>2. ASSUME NEW s \in Session,
             \/ NewSession(s) \/ NewSessionRefused(s) \/ AuthPlain(s) \/ ReadCommand(s)
             \/ MailRefused(s) \/ Mail(s)
             \/ RcptRepeated(s) \/ RcptStartFails(s) \/ Rcpt(s)
             \/ DataUnreadable(s) \/ DataRejected(s) \/ DataCommitted(s) \/ DataPanics(s)
             \/ Reset(s) \/ Logout(s)
      PROVE  SessionInv'
  BY <1>2, NewSessionStep, AuthStep, ReadStep, RefusedStep, MailStep, RcptStartFailsStep,
     RcptStep, DataUnreadableStep, DataStep, ResetStep, LogoutStep
<1> QED BY <1>1, <1>2 DEF Next

LEMMA SessionInvariant == Spec => []SessionInv
<1>1. Init => SessionInv
  BY SessionInit
<1>2. SessionInv /\ [Next]_vars => SessionInv'
  BY SessionStep
<1> QED BY <1>1, <1>2, PTL DEF Spec

\* Whatever commands the clients send and whenever the endpoint logs a session
\* out, a session only works on the delivery of the transaction it is in, and no
\* delivery is committed or aborted twice.
THEOREM SessionsCurrent == Spec => []DeliveriesCurrent
<1>1. SessionInv => DeliveriesCurrent
  BY DEF SessionInv
<1> QED BY <1>1, SessionInvariant, PTL

\* releaseLimits never gives back more permits of a domain than its messages in
\* progress hold; with deferred sender rejection it gives back every one.
THEOREM SessionPermits == Spec => []PermitsBalanced
<1>1. SessionInv => PermitsBalanced
  BY DEF SessionInv
<1> QED BY <1>1, SessionInvariant, PTL

-----------------------------------------------------------------------------
(* ServerLife: what the configuration fixes, and what a step that leaves it alone keeps *)

core == <<cfg, pc, next, initialized, stack, done, hooks, closed>>

\* The configuration's references are sequences of references.
LEMMA LifeRefs ==
  ASSUME cfg \in Config, NEW i \in Blocks \cup {0}
  PROVE  RefsIn(i) \in Seq(Reference) /\ Len(RefsIn(i)) \in Nat /\ Len(cfg.blocks) \in Nat
<1>1. cfg.globals \in Seq(Reference)
      /\ cfg.blocks \in Seq([kind : STRING, inst : STRING, aliases : Seq(STRING), refs : Seq(Reference), ok : BOOLEAN])
  BY DEF Config
<1>2. Len(cfg.blocks) \in Nat
  BY <1>1, LenProperties
<1>3. i # 0 => cfg.blocks[i] \in [kind : STRING, inst : STRING, aliases : Seq(STRING), refs : Seq(Reference), ok : BOOLEAN]
  BY <1>1, ElementOfSeq DEF Blocks
<1>4. RefsIn(i) \in Seq(Reference)
  BY <1>1, <1>3 DEF RefsIn
<1> QED BY <1>2, <1>4, LenProperties

\* Once every block is registered a name stands for the same block from step to step.
LEMMA LifeNamesKept ==
  ASSUME cfg' = cfg, pc # "register", pc' # "register"
  PROVE  /\ Blocks' = Blocks /\ \A n : Resolve(n)' = Resolve(n)
         /\ \A i : RefsIn(i)' = RefsIn(i) /\ InlineOf(i)' = InlineOf(i) /\ Uses(i)' = Uses(i)
         /\ \A o : RefsOf(o)' = RefsOf(o) /\ KindOf(o)' = KindOf(o) /\ Deps(o)' = Deps(o)
         /\ \A i, j : Reaches(i, j)' = Reaches(i, j)
<1>1. Blocks' = Blocks
  BY DEF Blocks
<1>2. \A i : /\ RefsIn(i)' = RefsIn(i) /\ InlineOf(i)' = InlineOf(i)
             /\ IsEndpoint(i)' = IsEndpoint(i) /\ Names(i)' = Names(i)
  BY DEF RefsIn, InlineOf, IsEndpoint, Names
<1>3. Registered' = Registered
  BY <1>1, <1>2 DEF Registered
<1>4. \A n : Resolve(n)' = Resolve(n)
  BY <1>2, <1>3 DEF Resolve
<1>5. \A i : Uses(i)' = Uses(i)
  BY <1>2, <1>4 DEF Uses
<1>6. \A o : RefsOf(o)' = RefsOf(o) /\ KindOf(o)' = KindOf(o)
  BY <1>2 DEF RefsOf, KindOf
<1>7. \A o : Deps(o)' = Deps(o)
  BY <1>2, <1>5 DEF Deps
<1>8. \A i, j : Reaches(i, j)' = Reaches(i, j)
  BY <1>1, <1>5 DEF Reaches
<1> QED BY <1>1, <1>2, <1>4, <1>5, <1>6, <1>7, <1>8

\* A step of a signal handler, of a reloader or of the operator.
LEMMA LifeQuietStep ==
  ASSUME LifeInv, UNCHANGED core
  PROVE  LifeInv'
<1> USE DEF core
<1>1. Held' = Held /\ StackObjs' = StackObjs
  BY DEF Held, StackObjs
<1>2. Blocks' = Blocks /\ Registered' = Registered
  BY DEF Blocks, Registered, IsEndpoint
<1>3. \A n : Resolve(n)' = Resolve(n)
  BY <1>2 DEF Resolve, Names
<1>4. \A i : RefsIn(i)' = RefsIn(i) /\ InlineOf(i)' = InlineOf(i)
  BY DEF RefsIn, InlineOf
<1>5. \A i : Uses(i)' = Uses(i)
  BY <1>3, <1>4 DEF Uses
<1>6. \A o : RefsOf(o)' = RefsOf(o) /\ KindOf(o)' = KindOf(o) /\ Deps(o)' = Deps(o)
  BY <1>4, <1>5 DEF RefsOf, KindOf, Deps
<1>7. \A i, j : Reaches(i, j)' = Reaches(i, j)
  BY <1>2, <1>5 DEF Reaches
<1>8. LifeShape' /\ HeldOnce'
  BY <1>1, <1>6 DEF LifeInv, LifeShape, HeldOnce, BeforeInit
<1>9. HeldIsMarked' /\ MarkedIsHeld'
  BY <1>1, <1>2 DEF LifeInv, HeldIsMarked, MarkedIsHeld, Settled, Begun, Marked, IsEndpoint
<1>10. NamesDistinct'
  BY <1>2 DEF LifeInv, NamesDistinct, Names
<1>11. DepsHeld'
  BY <1>1, <1>3, <1>4, <1>6 DEF LifeInv, DepsHeld, Settled, RefHeld
<1>12. StackChains' /\ HooksOrdered'
  BY <1>6, <1>7 DEF LifeInv, StackChains, HooksOrdered, Settled
<1>13. ClosedFromLast' /\ AllInitialised'
  BY <1>2 DEF LifeInv, ClosedFromLast, AllInitialised
<1> QED BY <1>8, <1>9, <1>10, <1>11, <1>12, <1>13 DEF LifeInv

\* A start that fails.
LEMMA LifeFailStep ==
  ASSUME LifeInv, Starting, Fail
  PROVE  LifeInv'
<1> USE DEF Fail, serving
<1>1. Held' = Held /\ StackObjs' = StackObjs /\ Blocks' = Blocks
  BY DEF Held, StackObjs, Blocks
<1>2. \A o : KindOf(o)' = KindOf(o)
  BY DEF KindOf, RefsIn
<1>3. LifeShape' /\ HeldOnce'
  BY <1>1, <1>2 DEF LifeInv, LifeShape, HeldOnce, BeforeInit
<1>4. HeldIsMarked'
  BY <1>1 DEF LifeInv, HeldIsMarked, Begun, Marked, IsEndpoint
<1>5. MarkedIsHeld' /\ NamesDistinct' /\ DepsHeld' /\ StackChains' /\ HooksOrdered' /\ AllInitialised'
  BY DEF MarkedIsHeld, NamesDistinct, DepsHeld, StackChains, HooksOrdered, AllInitialised, Settled
<1>6. ClosedFromLast'
  BY DEF LifeInv, ClosedFromLast, Starting
<1> QED BY <1>3, <1>4, <1>5, <1>6 DEF LifeInv

\* From one phase to the next, with no Init under way.
LEMMA LifePhaseStep ==
  ASSUME LifeInv, UNCHANGED <<cfg, next, initialized, stack, done, hooks, closed>>, Settled, Settled', stack = <<>>,
         closed # <<>> => pc' \in {"stopping", "exited", "killed"},
         pc' = "exited" => Len(closed) = Len(hooks.shutdown),
         pc' = "running" => \A i \in Blocks : Obj(i, 0) \in done
  PROVE  LifeInv'
<1>1. Held' = Held /\ StackObjs' = StackObjs /\ StackObjs = {}
  BY DEF Held, StackObjs
<1>2. pc # "register" /\ pc' # "register" /\ pc # "globals" /\ pc' # "globals" /\ pc # "failed"
  BY DEF Settled
<1>3. /\ Blocks' = Blocks /\ Registered' = Registered /\ \A n : Resolve(n)' = Resolve(n)
      /\ \A i : RefsIn(i)' = RefsIn(i)
      /\ \A o : RefsOf(o)' = RefsOf(o) /\ KindOf(o)' = KindOf(o) /\ Deps(o)' = Deps(o)
      /\ \A i, j : Reaches(i, j)' = Reaches(i, j)
  BY <1>2, LifeNamesKept DEF Registered, IsEndpoint
<1>4. LifeShape' /\ HeldOnce'
  BY <1>1, <1>2, <1>3 DEF LifeInv, LifeShape, HeldOnce, BeforeInit, Settled
<1>5. HeldIsMarked' /\ MarkedIsHeld'
  BY <1>1, <1>2, <1>3 DEF LifeInv, HeldIsMarked, MarkedIsHeld, Begun, Marked, IsEndpoint
<1>6. NamesDistinct'
  BY <1>2, <1>3 DEF LifeInv, NamesDistinct, Names
<1>7. DepsHeld'
  BY <1>1, <1>3 DEF LifeInv, DepsHeld, RefHeld
<1>8. StackChains' /\ HooksOrdered'
  BY <1>3 DEF LifeInv, StackChains, HooksOrdered
<1>9. ClosedFromLast' /\ AllInitialised'
  BY <1>3 DEF LifeInv, ClosedFromLast, AllInitialised
<1> QED BY <1>4, <1>5, <1>6, <1>7, <1>8, <1>9 DEF LifeInv

\* A block is registered under names no other block has.
LEMMA LifeRegisterStep ==
  ASSUME LifeInv, RegisterModules
  PROVE  LifeInv'
<1> USE DEF RegisterModules, serving
<1>1. Held' = Held /\ StackObjs' = StackObjs /\ Blocks' = Blocks /\ stack = <<>> /\ StackObjs = {}
  BY DEF Held, StackObjs, Blocks, LifeInv, LifeShape
<1>2. \A o : KindOf(o)' = KindOf(o)
  BY DEF KindOf, RefsIn
<1>3. LifeShape' /\ HeldOnce'
  BY <1>1, <1>2 DEF LifeInv, LifeShape, HeldOnce, BeforeInit
<1>4. \A o \in Held : o.at # 0
  BY <1>1 DEF LifeInv, LifeShape, BeforeInit, Held
<1>5. HeldIsMarked'
  BY <1>1, <1>4 DEF LifeInv, HeldIsMarked, Begun
<1>6. MarkedIsHeld' /\ DepsHeld' /\ StackChains' /\ HooksOrdered' /\ AllInitialised'
  BY DEF MarkedIsHeld, DepsHeld, StackChains, HooksOrdered, AllInitialised, Settled
<1>7. ClosedFromLast'
  BY DEF LifeInv, ClosedFromLast
<1>8. \A i : Names(i)' = Names(i) /\ IsEndpoint(i)' = IsEndpoint(i)
  BY DEF Names, IsEndpoint
<1>9. next \in Nat
  BY DEF LifeInv, LifeShape
<1>10. Registered' \subseteq Registered \cup {next} /\ (IsEndpoint(next) => Registered' \subseteq Registered)
  BY <1>1, <1>8, <1>9 DEF Registered, Blocks
<1>11. ~IsEndpoint(next) => \A i \in Registered : Names(i) \cap Names(next) = {}
  BY DEF AlreadyExists, HasInstance, Resolve
<1>12. NamesDistinct'
  BY <1>8, <1>10, <1>11 DEF LifeInv, NamesDistinct
<1> QED BY <1>3, <1>5, <1>6, <1>7, <1>12 DEF LifeInv

\* The global block was read.
LEMMA LifeGlobalsStep ==
  ASSUME LifeInv, pc = "globals", pc' = "register", stack' = <<>>,
         UNCHANGED <<cfg, next, initialized, done, hooks, closed>>
  PROVE  LifeInv'
<1>1. StackObjs' = {} /\ Held' = done /\ done \subseteq Held
  BY DEF Held, StackObjs
<1>2. \A o : KindOf(o)' = KindOf(o)
  BY DEF KindOf, RefsIn
<1>3. LifeShape'
  BY <1>1, EmptySeq DEF LifeInv, LifeShape, BeforeInit
<1>4. HeldOnce'
  BY <1>1, <1>2 DEF LifeInv, HeldOnce
<1>5. HeldIsMarked'
  BY <1>1 DEF LifeInv, LifeShape, BeforeInit, HeldIsMarked, Begun
<1>6. MarkedIsHeld' /\ DepsHeld' /\ StackChains' /\ HooksOrdered' /\ AllInitialised'
  BY DEF MarkedIsHeld, DepsHeld, StackChains, HooksOrdered, AllInitialised, Settled
<1>7. ClosedFromLast'
  BY DEF LifeInv, ClosedFromLast
<1>8. Registered' = {}
  BY DEF LifeInv, LifeShape, Registered, Blocks
<1>9. NamesDistinct'
  BY <1>8 DEF NamesDistinct
<1> QED BY <1>3, <1>4, <1>5, <1>6, <1>7, <1>9 DEF LifeInv

\* Every block was registered.
LEMMA LifeRegisteredStep ==
  ASSUME LifeInv, AllRegistered, pc' = "init", next' = 1, UNCHANGED <<cfg, initialized, stack, done, hooks, closed>>
  PROVE  LifeInv'
<1> USE DEF AllRegistered
<1>1. Held' = Held /\ StackObjs' = StackObjs /\ Blocks' = Blocks /\ stack = <<>> /\ StackObjs = {} /\ initialized = {}
  BY DEF Held, StackObjs, Blocks, LifeInv, LifeShape, BeforeInit
<1>2. \A o : KindOf(o)' = KindOf(o)
  BY DEF KindOf, RefsIn
<1>3. Held = done /\ \A o \in done : o.at # 0 /\ o.block = 0
  BY <1>1 DEF LifeInv, LifeShape, BeforeInit, Held
<1>4. LifeShape' /\ HeldOnce'
  BY <1>1, <1>2 DEF LifeInv, LifeShape, HeldOnce, BeforeInit
<1>5. HeldIsMarked'
  BY <1>1, <1>3 DEF LifeInv, HeldIsMarked, Begun
<1>6. MarkedIsHeld'
  BY <1>1 DEF MarkedIsHeld, Marked, Blocks
<1>7. \A o \in done : Deps(o)' = {}
  BY <1>3 DEF Deps
<1>8. DepsHeld' /\ StackChains' /\ AllInitialised'
  BY <1>1, <1>7 DEF DepsHeld, StackChains, AllInitialised
<1>9. \A p \in 1..Len(hooks.shutdown) : hooks.shutdown[p] \in done
  <2>1. hooks.shutdown \in Seq(Object) /\ ToSet(hooks.shutdown) \subseteq done
    BY DEF LifeInv, LifeShape, HeldOnce
  <2> QED BY <2>1, LenProperties DEF ToSet
<1>10. HooksOrdered'
  BY <1>7, <1>9 DEF HooksOrdered
<1>11. ClosedFromLast'
  BY DEF LifeInv, ClosedFromLast
<1>12. Registered' = Registered
  BY <1>1 DEF LifeInv, LifeShape, Registered, Blocks, IsEndpoint
<1>13. NamesDistinct'
  BY <1>12 DEF LifeInv, NamesDistinct, Names
<1> QED BY <1>4, <1>5, <1>6, <1>8, <1>10, <1>11, <1>13 DEF LifeInv

-----------------------------------------------------------------------------
(* ServerLife: Init is called, asks for modules and returns *)

Frame == [obj : Object, at : Nat \ {0}]

\* The next endpoint is initialised.
LEMMA LifeEndpointStep ==
  ASSUME LifeInv, InitEndpoint
  PROVE  LifeInv'
<1>1. PICK i \in EndpointsLeft : /\ \A j \in EndpointsLeft : i <= j
                                 /\ stack' = Append(stack, [obj |-> Obj(i, 0), at |-> 1]) /\ next' = i + 1
  BY DEF InitEndpoint, Push
<1>2. /\ pc = "init" /\ pc' = "init" /\ stack = <<>>
      /\ UNCHANGED <<cfg, initialized, done, hooks, closed>>
  BY DEF InitEndpoint, serving
<1>3. i \in Blocks /\ i \in Nat /\ i >= next /\ IsEndpoint(i) /\ next \in Nat
  BY DEF EndpointsLeft, Blocks, LifeInv, LifeShape
<1>4. Obj(i, 0) \in Object /\ Obj(i, 0).block = i /\ Obj(i, 0).at = 0 /\ Obj(i, 0) # Globals
  BY <1>3 DEF Obj, Object, Globals, Blocks
<1>5. /\ stack' \in Seq(Frame) /\ Len(stack') = 1 /\ stack'[1] = [obj |-> Obj(i, 0), at |-> 1]
      /\ StackObjs' = {Obj(i, 0)} /\ StackObjs = {}
  <2>1. stack' = << [obj |-> Obj(i, 0), at |-> 1] >>
    BY <1>1, <1>2
  <2> QED BY <1>2, <1>4, <2>1 DEF Frame, StackObjs
<1>6. Held = done /\ Held' = done \cup {Obj(i, 0)}
  BY <1>2, <1>5 DEF Held
<1>7. /\ Blocks' = Blocks /\ Registered' = Registered /\ \A n : Resolve(n)' = Resolve(n)
      /\ \A k : RefsIn(k)' = RefsIn(k)
      /\ \A o : RefsOf(o)' = RefsOf(o) /\ KindOf(o)' = KindOf(o) /\ Deps(o)' = Deps(o)
      /\ \A k, j : Reaches(k, j)' = Reaches(k, j)
  BY <1>2, LifeNamesKept DEF Registered, IsEndpoint
<1>8. Obj(i, 0) \notin done
  BY <1>3, <1>4, <1>6 DEF LifeInv, HeldIsMarked, Marked
<1>9. LifeShape'
  BY <1>2, <1>3, <1>4, <1>5, <1>1 DEF LifeInv, LifeShape, BeforeInit, Frame
<1>10. HeldOnce'
  BY <1>2, <1>5, <1>7, <1>8 DEF LifeInv, HeldOnce
<1>11. HeldIsMarked'
  <2>1. \A o \in done : o.at # 0 => Begun(o)'
    BY <1>2, <1>6 DEF LifeInv, HeldIsMarked, Begun
  <2>2. \A k \in Blocks : Marked(k) => Marked(k)'
    BY <1>1, <1>2, <1>3 DEF Marked, IsEndpoint, Blocks
  <2>3. Marked(i)'
    BY <1>1, <1>2, <1>3 DEF Marked, IsEndpoint
  <2> QED BY <1>2, <1>3, <1>4, <1>6, <1>7, <2>1, <2>2, <2>3 DEF LifeInv, HeldIsMarked
<1>12. MarkedIsHeld'
  <2> SUFFICES ASSUME NEW k \in Blocks, Marked(k)' PROVE Obj(k, 0) \in Held'
    BY <1>7 DEF MarkedIsHeld
  <2>1. k \in Nat /\ (Marked(k) => Obj(k, 0) \in done)
    BY <1>2, <1>6 DEF LifeInv, MarkedIsHeld, Settled, Blocks
  <2>2. CASE IsEndpoint(k) /\ ~(k < next)
    <3>1. k \in EndpointsLeft /\ k < i + 1
      BY <1>1, <1>2, <1>3, <2>1, <2>2 DEF EndpointsLeft, Marked, IsEndpoint
    <3> QED BY <1>1, <1>3, <1>6, <2>1, <3>1
  <2>3. CASE ~(IsEndpoint(k) /\ ~(k < next))
    BY <1>2, <1>6, <2>1, <2>3 DEF Marked, IsEndpoint
  <2> QED BY <2>2, <2>3
<1>13. NamesDistinct'
  BY <1>2, <1>7 DEF LifeInv, NamesDistinct, Names
<1>14. DepsHeld'
  BY <1>2, <1>5, <1>6, <1>7 DEF LifeInv, DepsHeld, Settled
<1>15. StackChains' /\ HooksOrdered'
  BY <1>2, <1>5, <1>7 DEF LifeInv, StackChains, HooksOrdered, Settled
<1>16. ClosedFromLast' /\ AllInitialised'
  BY <1>2 DEF LifeInv, ClosedFromLast, AllInitialised
<1> QED BY <1>9, <1>10, <1>11, <1>12, <1>13, <1>14, <1>15, <1>16 DEF LifeInv

\* The Init on top of the stack goes on to its next reference.
LEMMA LifeAdvanced ==
  ASSUME stack \in Seq(Frame), stack # <<>>
  PROVE  /\ Len(stack) \in Nat /\ Len(stack) >= 1 /\ Top \in Frame /\ Top = stack[Len(stack)]
         /\ Advanced \in Seq(Frame) /\ Len(Advanced) = Len(stack)
         /\ \A k \in 1..Len(stack) : /\ stack[k] \in Frame /\ stack[k].at \in Nat /\ stack[k].obj \in Object
                                     /\ Advanced[k].obj = stack[k].obj
                                     /\ Advanced[k].at = IF k = Len(stack) THEN Top.at + 1 ELSE stack[k].at
<1>1. Len(stack) \in Nat /\ Len(stack) >= 1 /\ DOMAIN stack = 1..Len(stack)
  BY EmptySeq, LenProperties
<1>2. \A k \in 1..Len(stack) : stack[k] \in Frame
  BY ElementOfSeq
<1>3. Top = stack[Len(stack)] /\ Top \in Frame
  BY <1>1, <1>2 DEF Top, Last
<1> DEFINE e == [stack[Len(stack)] EXCEPT !.at = @ + 1]
<1>4. e \in Frame /\ e.obj = Top.obj /\ e.at = Top.at + 1
  BY <1>3 DEF Frame
<1>5. Advanced = [stack EXCEPT ![Len(stack)] = e]
  BY <1>1 DEF Advanced
<1> HIDE DEF e
<1>6. /\ Advanced \in Seq(Frame) /\ Len(Advanced) = Len(stack)
      /\ \A k \in 1..Len(stack) : Advanced[k] = IF k = Len(stack) THEN e ELSE stack[k]
  BY <1>1, <1>4, <1>5, ExceptSeq
<1>7. \A k \in 1..Len(stack) : stack[k].at \in Nat /\ stack[k].obj \in Object
  BY <1>2 DEF Frame
<1> QED BY <1>1, <1>2, <1>3, <1>4, <1>6, <1>7

\* An Init that waits for a reference is that of a block.
LEMMA LifePending ==
  ASSUME LifeInv, Pending
  PROVE  /\ stack \in Seq(Frame) /\ stack # <<>> /\ Top.obj \in StackObjs /\ Top.obj \in Object
         /\ Top.obj.at = 0 /\ Top.obj = Obj(Top.obj.block, 0) /\ Top.obj.block \in Blocks \cup {0}
         /\ Top.at \in 1..Len(RefsIn(Top.obj.block)) /\ Ref = RefsIn(Top.obj.block)[Top.at]
         /\ RefsOf(Top.obj) = RefsIn(Top.obj.block)
<1>1. stack \in Seq(Frame) /\ stack # <<>>
  BY DEF LifeInv, LifeShape, Frame, Pending
<1>2. Top \in Frame /\ Top = stack[Len(stack)] /\ Len(stack) \in 1..Len(stack)
  BY <1>1, LifeAdvanced
<1>3. Top.obj \in StackObjs /\ Top.obj \in Object /\ Top.at \in Nat \ {0}
  BY <1>2 DEF StackObjs, Frame
<1>4. Top.obj.at = 0
  <2>1. SUFFICES ASSUME Top.obj.at # 0 PROVE FALSE
    OBVIOUS
  <2>2. RefsOf(Top.obj) = <<>>
    BY <2>1 DEF RefsOf
  <2> QED BY <1>3, <2>2 DEF Pending
<1>5. RefsOf(Top.obj) = RefsIn(Top.obj.block) /\ Top.obj = Obj(Top.obj.block, 0)
  BY <1>3, <1>4 DEF RefsOf, Obj, Object
<1>6. Top.obj.block \in Blocks \cup {0}
  BY <1>3, <1>4 DEF LifeInv, HeldIsMarked, Held, Globals, Obj
<1>7. Len(RefsIn(Top.obj.block)) \in Nat
  BY <1>6, LifeRefs DEF LifeInv, LifeShape
<1>8. Top.at \in 1..Len(RefsIn(Top.obj.block)) /\ Ref = RefsIn(Top.obj.block)[Top.at]
  BY <1>3, <1>5, <1>7 DEF Pending, Ref
<1> QED BY <1>1, <1>3, <1>4, <1>5, <1>6, <1>8
\* A reference to a block that was already asked for.
LEMMA LifeAdvanceStep ==
  ASSUME LifeInv, Pending, pc = "init", stack' = Advanced, NEW i \in Resolve(Ref.to), ~Ref.inline,
         cfg.blocks[i].inst \in initialized, UNCHANGED <<cfg, pc, next, initialized, done, hooks, closed>>
  PROVE  LifeInv'
<1>1. /\ stack \in Seq(Frame) /\ stack # <<>> /\ Top.obj = Obj(Top.obj.block, 0)
      /\ Ref = RefsIn(Top.obj.block)[Top.at] /\ Top.at \in Nat
  BY LifePending
<1>2. /\ Len(stack) \in Nat /\ Len(stack) >= 1 /\ Top = stack[Len(stack)]
      /\ stack' \in Seq(Frame) /\ Len(stack') = Len(stack)
      /\ \A k \in 1..Len(stack) : /\ stack[k] \in Frame /\ stack[k].at \in Nat /\ stack'[k].obj = stack[k].obj
                                  /\ stack'[k].at = IF k = Len(stack) THEN Top.at + 1 ELSE stack[k].at
  BY <1>1, LifeAdvanced
<1>3. StackObjs' = StackObjs /\ Held' = Held
  BY <1>2 DEF StackObjs, Held
<1>4. /\ Blocks' = Blocks /\ Registered' = Registered /\ \A n : Resolve(n)' = Resolve(n)
      /\ \A k : RefsIn(k)' = RefsIn(k)
      /\ \A o : RefsOf(o)' = RefsOf(o) /\ KindOf(o)' = KindOf(o) /\ Deps(o)' = Deps(o)
      /\ \A k, j : Reaches(k, j)' = Reaches(k, j)
  BY LifeNamesKept DEF Registered, IsEndpoint
<1>5. LifeShape'
  BY <1>2, <1>3 DEF LifeInv, LifeShape, BeforeInit, Frame
<1>6. HeldOnce'
  BY <1>2, <1>3, <1>4 DEF LifeInv, HeldOnce
<1>7. HeldIsMarked'
  <2>1. \A o \in Object : Begun(o) => Begun(o)'
    <3> SUFFICES ASSUME NEW o \in Object, Begun(o) PROVE Begun(o)'
      OBVIOUS
    <3>1. CASE \E k \in 1..Len(stack) : stack[k].obj = Obj(o.block, 0) /\ o.at < stack[k].at
      <4>1. PICK k \in 1..Len(stack) : stack[k].obj = Obj(o.block, 0) /\ o.at < stack[k].at
        BY <3>1
      <4>2. o.at \in Nat
        BY DEF Object
      <4>3. k \in 1..Len(stack') /\ stack'[k].obj = Obj(o.block, 0) /\ o.at < stack'[k].at
        BY <1>2, <4>1, <4>2
      <4> QED BY <4>3 DEF Begun
    <3> QED BY <3>1 DEF Begun
  <2>2. \A o \in Held : o \in Object
    BY <1>2 DEF LifeInv, LifeShape, Held, StackObjs, Frame
  <2> QED BY <1>3, <1>4, <2>1, <2>2 DEF LifeInv, HeldIsMarked, Marked, IsEndpoint
<1>8. MarkedIsHeld'
  BY <1>3, <1>4 DEF LifeInv, MarkedIsHeld, Settled, Marked, IsEndpoint
<1>9. NamesDistinct'
  BY <1>4 DEF LifeInv, NamesDistinct, Names
<1>10. RefHeld(Held, Top.obj.block, Top.at)
  <2>1. \A j \in Resolve(Ref.to) : j = i
    BY DEF LifeInv, NamesDistinct, Resolve
  <2>2. Obj(i, 0) \in Held
    BY DEF LifeInv, MarkedIsHeld, Settled, Marked, Resolve, Registered
  <2> QED BY <1>1, <2>1, <2>2 DEF RefHeld
<1>11. DepsHeld'
  <2>1. \A H, j, k : RefHeld(H, j, k)' <=> RefHeld(H, j, k)
    BY <1>4 DEF RefHeld
  <2>2. \A k \in 1..Len(stack) : \A l \in 1..Len(RefsOf(stack[k].obj)) :
           l < stack'[k].at => RefHeld(Held, stack[k].obj.block, l)
    <3> SUFFICES ASSUME NEW k \in 1..Len(stack), NEW l \in 1..Len(RefsOf(stack[k].obj)), l < stack'[k].at
                 PROVE  RefHeld(Held, stack[k].obj.block, l)
      OBVIOUS
    <3>1. CASE l < stack[k].at
      BY <3>1 DEF LifeInv, DepsHeld, Settled
    <3>2. CASE ~(l < stack[k].at)
      <4>1. k = Len(stack) /\ l = Top.at
        BY <1>1, <1>2, <3>2
      <4> QED BY <1>2, <1>10, <4>1
    <3> QED BY <3>1, <3>2
  <2> QED BY <1>2, <1>3, <1>4, <2>1, <2>2 DEF LifeInv, DepsHeld, Settled
<1>12. StackChains'
  BY <1>2, <1>4 DEF LifeInv, StackChains, Settled
<1>13. HooksOrdered'
  BY <1>4 DEF LifeInv, HooksOrdered, Settled
<1>14. ClosedFromLast' /\ AllInitialised'
  BY DEF LifeInv, ClosedFromLast, AllInitialised
<1> QED BY <1>5, <1>6, <1>7, <1>8, <1>9, <1>11, <1>12, <1>13, <1>14 DEF LifeInv

\* A reference to a module that was not asked for yet: its Init is called.
LEMMA LifeDescendStep ==
  ASSUME LifeInv, Pending, pc \in {"globals", "init"}, NEW o \in Object, o \notin Held,
         stack' = Append(Advanced, [obj |-> o, at |-> 1]), UNCHANGED <<cfg, pc, next, done, hooks, closed>>,
         IF o.at # 0 THEN Ref.inline /\ o = Obj(Top.obj.block, Top.at) /\ initialized' = initialized
         ELSE /\ pc = "init" /\ ~Ref.inline /\ o.block \in Resolve(Ref.to)
              /\ initialized' = initialized \cup {cfg.blocks[o.block].inst}
  PROVE  LifeInv'
<1>1. /\ stack \in Seq(Frame) /\ stack # <<>> /\ Top.obj.at = 0 /\ Top.obj = Obj(Top.obj.block, 0)
      /\ Top.obj \in StackObjs /\ Top.at \in 1..Len(RefsIn(Top.obj.block))
      /\ Ref = RefsIn(Top.obj.block)[Top.at] /\ Top.at \in Nat /\ Top.at >= 1
  BY LifePending
<1>2. /\ Len(stack) \in Nat /\ Len(stack) >= 1 /\ Top = stack[Len(stack)]
      /\ Advanced \in Seq(Frame) /\ Len(Advanced) = Len(stack)
      /\ \A k \in 1..Len(stack) : /\ stack[k] \in Frame /\ stack[k].at \in Nat /\ Advanced[k].obj = stack[k].obj
                                  /\ Advanced[k].at = IF k = Len(stack) THEN Top.at + 1 ELSE stack[k].at
  BY <1>1, LifeAdvanced
<1>3. /\ stack' \in Seq(Frame) /\ Len(stack') = Len(stack) + 1
      /\ \A k \in 1..Len(stack) : /\ stack'[k].obj = stack[k].obj
                                  /\ stack'[k].at = IF k = Len(stack) THEN Top.at + 1 ELSE stack[k].at
      /\ stack'[Len(stack) + 1].obj = o /\ stack'[Len(stack) + 1].at = 1
  <2>1. [obj |-> o, at |-> 1] \in Frame
    BY DEF Frame
  <2>2. /\ stack' \in Seq(Frame) /\ Len(stack') = Len(stack) + 1
        /\ \A k \in 1..Len(stack) : stack'[k] = Advanced[k]
        /\ stack'[Len(stack) + 1] = [obj |-> o, at |-> 1]
    <3>1. Advanced \in Seq(Frame) /\ Len(Advanced) = Len(stack)
      BY <1>2
    <3> QED BY <2>1, <3>1, AppendProperties
  <2>3. \A k \in 1..Len(stack) : /\ stack'[k].obj = stack[k].obj
                                  /\ stack'[k].at = IF k = Len(stack) THEN Top.at + 1 ELSE stack[k].at
    BY <1>2, <2>2
  <2>4. stack'[Len(stack) + 1].obj = o /\ stack'[Len(stack) + 1].at = 1
    BY <2>2
  <2> QED BY <2>2, <2>3, <2>4
<1>4. StackObjs' = StackObjs \cup {o} /\ Held' = Held \cup {o}
  <2>1. StackObjs' = {stack'[k].obj : k \in 1..(Len(stack) + 1)}
    BY <1>3 DEF StackObjs
  <2>2. StackObjs' = StackObjs \cup {o}
    <3>1. 1..(Len(stack) + 1) = 1..Len(stack) \cup {Len(stack) + 1}
      BY <1>2
    <3>2. StackObjs' = {stack'[k].obj : k \in 1..Len(stack)} \cup {o}
      BY <1>3, <2>1, <3>1
    <3> QED BY <1>3, <3>2 DEF StackObjs
  <2> QED BY <2>2 DEF Held
<1>5. /\ Blocks' = Blocks /\ Registered' = Registered /\ \A n : Resolve(n)' = Resolve(n)
      /\ \A k : RefsIn(k)' = RefsIn(k)
      /\ \A x : RefsOf(x)' = RefsOf(x) /\ KindOf(x)' = KindOf(x) /\ Deps(x)' = Deps(x)
      /\ \A k, j : Reaches(k, j)' = Reaches(k, j)
  BY LifeNamesKept DEF Registered, IsEndpoint
<1>6. o.block \in Resolve(Ref.to) => o.block \in Blocks /\ ~IsEndpoint(o.block) /\ o.block \in Registered
  BY DEF Resolve, Registered
<1>7. o # Globals
  BY <1>6 DEF Globals, Obj, Blocks
<1>8. LifeShape'
  <2>1. BeforeInit => o.block = 0 /\ initialized' = {}
    <3>1. SUFFICES ASSUME BeforeInit PROVE o.block = 0 /\ initialized' = {}
      OBVIOUS
    <3>2. o.at # 0 /\ Top.obj.block = 0 /\ initialized = {}
      BY <1>1, <3>1 DEF BeforeInit, LifeInv, LifeShape, Held
    <3> QED BY <3>2 DEF Obj
  <2> QED BY <1>3, <1>4, <1>7, <2>1 DEF LifeInv, LifeShape, BeforeInit, Frame
<1>9. HeldOnce'
  <2>1. \A k, j \in 1..(Len(stack) + 1) : stack'[k].obj = stack'[j].obj => k = j
    BY <1>2, <1>3 DEF LifeInv, HeldOnce, Held, StackObjs
  <2> QED BY <1>3, <1>4, <1>5, <2>1 DEF LifeInv, HeldOnce, Held
<1>10. HeldIsMarked'
  <2>1. \A x \in Object : Begun(x) => Begun(x)'
    <3> SUFFICES ASSUME NEW x \in Object, Begun(x) PROVE Begun(x)'
      OBVIOUS
    <3>1. CASE \E k \in 1..Len(stack) : stack[k].obj = Obj(x.block, 0) /\ x.at < stack[k].at
      <4>1. PICK k \in 1..Len(stack) : stack[k].obj = Obj(x.block, 0) /\ x.at < stack[k].at
        BY <3>1
      <4>2. x.at \in Nat
        BY DEF Object
      <4>3. k \in 1..(Len(stack) + 1) /\ stack'[k].obj = Obj(x.block, 0) /\ x.at < stack'[k].at
        BY <1>2, <1>3, <4>1, <4>2
      <4> QED BY <1>3, <4>3 DEF Begun
    <3> QED BY <3>1 DEF Begun
  <2>2. \A x \in Held : x \in Object
    BY <1>2 DEF LifeInv, LifeShape, Held, StackObjs, Frame
  <2>3. \A k \in Blocks : Marked(k) => Marked(k)'
    BY DEF Marked, IsEndpoint
  <2>4. o.at # 0 => Begun(o)'
    <3>1. SUFFICES ASSUME o.at # 0 PROVE Begun(o)'
      OBVIOUS
    <3>2. o.block = Top.obj.block /\ o.at = Top.at
      BY <3>1 DEF Obj
    <3>3. Len(stack) \in 1..Len(stack') /\ stack'[Len(stack)].obj = Obj(o.block, 0) /\ o.at < stack'[Len(stack)].at
      BY <1>1, <1>2, <1>3, <3>2
    <3> QED BY <3>3 DEF Begun
  <2>5. o.at = 0 => o.block \in Blocks /\ Marked(o.block)'
    BY <1>6 DEF Marked, IsEndpoint
  <2> QED BY <1>4, <1>5, <2>1, <2>2, <2>3, <2>4, <2>5 DEF LifeInv, HeldIsMarked
<1>11. MarkedIsHeld'
  <2> SUFFICES ASSUME pc = "init", NEW k \in Blocks, Marked(k)' PROVE Obj(k, 0) \in Held'
    BY <1>5 DEF MarkedIsHeld, Settled
  <2>1. CASE Marked(k)
    BY <1>4, <2>1 DEF LifeInv, MarkedIsHeld, Settled
  <2>2. CASE ~Marked(k)
    <3>1. ~IsEndpoint(k) /\ o.at = 0 /\ cfg.blocks[k].inst = cfg.blocks[o.block].inst
      BY <2>2 DEF Marked, IsEndpoint
    <3>2. k \in Registered /\ o.block \in Registered /\ cfg.blocks[k].inst \in Names(k) \cap Names(o.block)
      BY <1>6, <3>1 DEF Registered, Names
    <3>3. k = o.block
      BY <3>2 DEF LifeInv, NamesDistinct
    <3>4. Obj(k, 0) = o
      BY <3>1, <3>3 DEF Obj, Object
    <3> QED BY <1>4, <3>4
  <2> QED BY <2>1, <2>2
<1>12. NamesDistinct'
  BY <1>5 DEF LifeInv, NamesDistinct, Names
<1>13. Settled => RefHeld(Held', Top.obj.block, Top.at)
  <2> SUFFICES ASSUME Settled PROVE RefHeld(Held', Top.obj.block, Top.at)
    OBVIOUS
  <2>1. CASE o.at # 0
    BY <1>1, <1>4, <2>1 DEF RefHeld
  <2>2. CASE o.at = 0
    <3>1. \A j \in Resolve(Ref.to) : j = o.block
      BY <2>2 DEF LifeInv, NamesDistinct, Resolve
    <3>2. Obj(o.block, 0) = o
      BY <2>2 DEF Obj, Object
    <3> QED BY <1>1, <1>4, <2>2, <3>1, <3>2 DEF RefHeld
  <2> QED BY <2>1, <2>2
<1>14. DepsHeld'
  <2> SUFFICES ASSUME Settled PROVE /\ \A x \in done : Deps(x) \subseteq Held'
                                    /\ \A k \in 1..Len(stack') : \A l \in 1..Len(RefsOf(stack'[k].obj)) :
                                         l < stack'[k].at => RefHeld(Held', stack'[k].obj.block, l)
    <3>1. \A H, j, k : RefHeld(H, j, k)' <=> RefHeld(H, j, k)
      BY <1>5 DEF RefHeld
    <3> QED BY <1>5, <3>1 DEF DepsHeld, Settled
  <2>1. \A j, k : RefHeld(Held, j, k) => RefHeld(Held', j, k)
    BY <1>4 DEF RefHeld
  <2>2. ASSUME NEW k \in 1..Len(stack'), NEW l \in 1..Len(RefsOf(stack'[k].obj)), l < stack'[k].at
        PROVE  RefHeld(Held', stack'[k].obj.block, l)
    <3>1. CASE k = Len(stack) + 1
      BY <1>3, <2>2, <3>1
    <3>2. CASE k \in 1..Len(stack) /\ l < stack[k].at
      <4>1. RefHeld(Held, stack[k].obj.block, l)
        BY <1>3, <2>2, <3>2 DEF LifeInv, DepsHeld
      <4> QED BY <1>3, <2>1, <3>2, <4>1
    <3>3. CASE k \in 1..Len(stack) /\ ~(l < stack[k].at)
      <4>1. k = Len(stack) /\ l = Top.at
        BY <1>1, <1>2, <1>3, <2>2, <3>3
      <4>2. stack'[k].obj = Top.obj
        BY <1>2, <1>3, <3>3, <4>1
      <4> QED BY <1>13, <4>1, <4>2
    <3>4. k = Len(stack) + 1 \/ k \in 1..Len(stack)
      BY <1>2, <1>3, <2>2
    <3> QED BY <3>1, <3>2, <3>3, <3>4
  <2> QED BY <1>4, <2>2 DEF LifeInv, DepsHeld
<1>15. StackChains'
  <2> SUFFICES ASSUME Settled, NEW k \in 1..(Len(stack) + 1), NEW j \in 1..(Len(stack) + 1), k < j
               PROVE  /\ stack'[k].obj.at = 0
                      /\ stack'[j].obj.at = 0 => Reaches(stack'[k].obj.block, stack'[j].obj.block)
    BY <1>3, <1>5 DEF StackChains, Settled
  <2>1. CASE j \in 1..Len(stack)
    <3>1. k \in 1..Len(stack) /\ stack'[k].obj = stack[k].obj /\ stack'[j].obj = stack[j].obj
      BY <1>2, <1>3, <2>1
    <3> QED BY <2>1, <3>1 DEF LifeInv, StackChains
  <2>2. CASE j = Len(stack) + 1
    <3>1. k \in 1..Len(stack) /\ stack'[k].obj = stack[k].obj /\ stack'[j].obj = o
      BY <1>2, <1>3, <2>2
    <3>2. stack[k].obj.at = 0
      BY <1>1, <1>2, <3>1 DEF LifeInv, StackChains
    <3>3. o.at = 0 => o.block \in Uses(Top.obj.block)
      BY <1>1 DEF Uses, InlineOf
    <3>4. o.at = 0 => Reaches(Top.obj.block, o.block)
      BY <3>3 DEF Reaches
    <3>5. o.at = 0 /\ k < Len(stack) => Reaches(stack[k].obj.block, o.block)
      <4>1. SUFFICES ASSUME o.at = 0, k < Len(stack) PROVE Reaches(stack[k].obj.block, o.block)
        OBVIOUS
      <4>2. Reaches(stack[k].obj.block, Top.obj.block)
        BY <1>1, <1>2, <3>1, <4>1 DEF LifeInv, StackChains
      <4> QED BY <3>3, <4>1, <4>2 DEF Reaches
    <3>6. k = Len(stack) => stack[k].obj = Top.obj
      BY <1>2
    <3>7. k = Len(stack) \/ k < Len(stack)
      BY <1>2, <3>1
    <3> QED BY <3>1, <3>2, <3>4, <3>5, <3>6, <3>7
  <2>3. j \in 1..Len(stack) \/ j = Len(stack) + 1
    BY <1>2
  <2> QED BY <2>1, <2>2, <2>3
<1>16. HooksOrdered'
  BY <1>5 DEF LifeInv, HooksOrdered, Settled
<1>17. ClosedFromLast' /\ AllInitialised'
  BY DEF LifeInv, ClosedFromLast, AllInitialised
<1> QED BY <1>8, <1>9, <1>10, <1>11, <1>12, <1>14, <1>15, <1>16, <1>17 DEF LifeInv
\* Init returns: the module is closed by a hook that comes after those of the
\* modules it holds, unless one of them is still in its own Init.
LEMMA LifeReturnStep ==
  ASSUME LifeInv, InitReturns
  PROVE  LifeInv'
<1> DEFINE x == Top.obj
<1> DEFINE sh == hooks.shutdown
<1>1. /\ stack \in Seq(Frame) /\ stack # <<>> /\ ~Pending /\ x # Globals /\ Starting
      /\ stack' = Front(stack) /\ done' = done \cup {x} /\ hooks' = HooksAfter(x)
      /\ UNCHANGED <<cfg, pc, next, initialized, closed>>
  BY DEF InitReturns, LifeInv, LifeShape, Frame, serving
<1>2. /\ Len(stack) \in Nat /\ Len(stack) >= 1 /\ Top \in Frame /\ Top = stack[Len(stack)]
      /\ \A k \in 1..Len(stack) : stack[k] \in Frame /\ stack[k].at \in Nat /\ stack[k].obj \in Object
  BY <1>1, LifeAdvanced
<1>3. x \in Object /\ x \in StackObjs /\ x \in Held /\ x \notin done /\ Top.at \in Nat
  BY <1>2 DEF StackObjs, Frame, Held, LifeInv, HeldOnce
<1>4. /\ stack' \in Seq(Frame) /\ Len(stack') = Len(stack) - 1
      /\ \A k \in 1..(Len(stack) - 1) : stack'[k] = stack[k]
  <2>1. stack' = SubSeq(stack, 1, Len(stack) - 1)
    BY <1>1 DEF Front
  <2>2. \A k \in 1..(Len(stack) - 1) : stack[k] \in Frame
    BY <1>2
  <2>3. 1 \in Int /\ Len(stack) - 1 \in Int
    BY <1>2
  <2>4. /\ stack' \in Seq(Frame) /\ Len(stack') = IF 1 <= Len(stack) - 1 THEN Len(stack) - 1 - 1 + 1 ELSE 0
        /\ \A k \in 1..(Len(stack) - 1 - 1 + 1) : stack'[k] = stack[1 + k - 1]
    BY <2>1, <2>2, <2>3, SubSeqProperties
  <2>5. Len(stack') = Len(stack) - 1
    <3>1. Len(stack) \in Nat /\ Len(stack) >= 1
      BY <1>2
    <3>2. Len(stack') = IF 1 <= Len(stack) - 1 THEN Len(stack) - 1 - 1 + 1 ELSE 0
      BY <2>4
    <3>3. \A n \in Nat : n >= 1 => (IF 1 <= n - 1 THEN n - 1 - 1 + 1 ELSE 0) = n - 1
      OBVIOUS
    <3> QED BY <3>1, <3>2, <3>3
  <2>6. \A k \in 1..(Len(stack) - 1) : k \in 1..(Len(stack) - 1 - 1 + 1) /\ 1 + k - 1 = k
    BY <1>2
  <2>7. \A k \in 1..(Len(stack) - 1) : stack'[k] = stack[k]
    BY <2>4, <2>6
  <2> QED BY <2>4, <2>5, <2>7
<1>a. Len(stack) \in 1..Len(stack) /\ \A k \in 1..Len(stack') : k \in 1..Len(stack) /\ stack'[k] = stack[k]
  BY <1>2, <1>4
<1>5. StackObjs' = StackObjs \ {x} /\ Held' = Held
  <2>1. 1..Len(stack) = 1..(Len(stack) - 1) \cup {Len(stack)}
    BY <1>2
  <2>2. StackObjs' = {stack[k].obj : k \in 1..(Len(stack) - 1)}
    BY <1>4 DEF StackObjs
  <2>3. StackObjs = StackObjs' \cup {x}
    BY <1>2, <2>1, <2>2 DEF StackObjs
  <2>4. x \notin StackObjs'
    <3>1. SUFFICES ASSUME NEW k \in 1..(Len(stack) - 1), stack[k].obj = stack[Len(stack)].obj PROVE FALSE
      BY <1>2, <2>2
    <3>2. k \in 1..Len(stack) /\ Len(stack) \in 1..Len(stack) /\ k # Len(stack)
      BY <1>2
    <3> QED BY <3>1, <3>2 DEF LifeInv, HeldOnce
  <2> QED BY <1>1, <2>3, <2>4 DEF Held
<1>6. pc # "register" /\ pc' # "register" /\ pc \in {"globals", "init"} /\ closed = <<>>
  BY <1>1 DEF LifeInv, LifeShape, Starting, ClosedFromLast
<1>7. /\ Blocks' = Blocks /\ Registered' = Registered /\ \A n : Resolve(n)' = Resolve(n)
      /\ \A k : RefsIn(k)' = RefsIn(k)
      /\ \A o : RefsOf(o)' = RefsOf(o) /\ KindOf(o)' = KindOf(o) /\ Deps(o)' = Deps(o)
      /\ \A k, j : Reaches(k, j)' = Reaches(k, j)
  BY <1>1, <1>6, LifeNamesKept DEF Registered, IsEndpoint
<1>8. /\ sh \in Seq(Object) /\ Len(sh) \in Nat /\ IsInjective(sh) /\ ToSet(sh) = {o \in done : Closer(KindOf(o))}
      /\ DOMAIN sh = 1..Len(sh) /\ \A p \in 1..Len(sh) : sh[p] \in done
  <2>1. sh \in Seq(Object) /\ IsInjective(sh) /\ ToSet(sh) = {o \in done : Closer(KindOf(o))}
    BY DEF LifeInv, LifeShape, HeldOnce
  <2> QED BY <2>1, LenProperties DEF ToSet
<1>9. hooks'.shutdown = IF Closer(KindOf(x)) THEN Append(sh, x) ELSE sh
  BY <1>1 DEF HooksAfter
<1>10. /\ hooks'.shutdown \in Seq(Object) /\ Len(sh) <= Len(hooks'.shutdown)
       /\ Len(hooks'.shutdown) \in Nat /\ DOMAIN hooks'.shutdown = 1..Len(hooks'.shutdown)
       /\ \A p \in 1..Len(sh) : hooks'.shutdown[p] = sh[p]
       /\ \A p \in 1..Len(hooks'.shutdown) : p \in 1..Len(sh) \/ (p = Len(sh) + 1 /\ hooks'.shutdown[p] = x)
       /\ Closer(KindOf(x)) <=> Len(sh) + 1 \in 1..Len(hooks'.shutdown)
  <2>1. CASE Closer(KindOf(x))
    <3>1. /\ Append(sh, x) \in Seq(Object) /\ Len(Append(sh, x)) = Len(sh) + 1
          /\ \A p \in 1..Len(sh) : Append(sh, x)[p] = sh[p]
          /\ Append(sh, x)[Len(sh) + 1] = x
      BY <1>3, <1>8, AppendProperties
    <3> QED BY <1>8, <1>9, <2>1, <3>1, LenProperties
  <2>2. CASE ~Closer(KindOf(x))
    BY <1>8, <1>9, <2>2
  <2> QED BY <2>1, <2>2
<1>11. LifeShape'
  <2>1. HooksAfter(x) \in [shutdown : Seq(Object), reload : Seq(Object)]
    <3>1. hooks.reload \in Seq(Object) /\ Append(hooks.reload, x) \in Seq(Object) /\ Append(sh, x) \in Seq(Object)
      BY <1>3, <1>8, AppendProperties DEF LifeInv, LifeShape
    <3> QED BY <1>8, <3>1 DEF HooksAfter
  <2>2. BeforeInit => x.block = 0 /\ x.at # 0
    BY <1>1, <1>3 DEF LifeInv, LifeShape, Globals, Obj, Object
  <2> QED BY <1>1, <1>3, <1>4, <1>5, <1>6, <2>1, <2>2 DEF LifeInv, LifeShape, BeforeInit, Frame
<1>12. HeldOnce'
  <2>1. \A k, j \in 1..Len(stack') : stack'[k].obj = stack'[j].obj => k = j
    BY <1>2, <1>4 DEF LifeInv, HeldOnce
  <2>2. StackObjs' \cap done' = {}
    BY <1>1, <1>5 DEF LifeInv, HeldOnce
  <2>3. IsInjective(hooks'.shutdown)
    BY <1>3, <1>8, <1>10 DEF IsInjective
  <2>4. ToSet(hooks'.shutdown) = {o \in done' : Closer(KindOf(o))}
    <3>1. ToSet(hooks'.shutdown) = ToSet(sh) \cup (IF Closer(KindOf(x)) THEN {x} ELSE {})
      <4>1. ToSet(hooks'.shutdown) = {hooks'.shutdown[p] : p \in 1..Len(hooks'.shutdown)}
            /\ ToSet(sh) = {sh[p] : p \in 1..Len(sh)}
        BY <1>8, <1>10 DEF ToSet
      <4>2. ToSet(sh) \subseteq ToSet(hooks'.shutdown)
        BY <1>8, <1>10, <4>1
      <4>3. Closer(KindOf(x)) => x \in ToSet(hooks'.shutdown)
        BY <1>8, <1>10, <4>1
      <4>4. ToSet(hooks'.shutdown) \subseteq ToSet(sh) \cup (IF Closer(KindOf(x)) THEN {x} ELSE {})
        BY <1>10, <4>1
      <4> QED BY <4>2, <4>3, <4>4
    <3> QED BY <1>1, <1>8, <3>1
  <2>5. {o \in done' : Closer(KindOf(o))} = {o \in done' : Closer(KindOf(o)')}
    BY <1>7
  <2> QED BY <2>1, <2>2, <2>3, <2>4, <2>5 DEF HeldOnce, Closer
<1>13. HeldIsMarked'
  <2>1. \A o \in Object : Begun(o) => Begun(o)'
    <3> SUFFICES ASSUME NEW o \in Object, Begun(o) PROVE Begun(o)'
      OBVIOUS
    <3>1. CASE \E k \in 1..Len(stack) : stack[k].obj = Obj(o.block, 0) /\ o.at < stack[k].at
      <4>1. PICK k \in 1..Len(stack) : stack[k].obj = Obj(o.block, 0) /\ o.at < stack[k].at
        BY <3>1
      <4>2. CASE k = Len(stack)
        BY <1>1, <1>2, <4>1, <4>2 DEF Begun
      <4>3. CASE k # Len(stack)
        <5>1. k \in 1..Len(stack') /\ stack'[k] = stack[k]
          BY <1>2, <1>4, <4>3
        <5> QED BY <4>1, <5>1 DEF Begun
      <4> QED BY <4>2, <4>3
    <3> QED BY <1>1, <3>1 DEF Begun
  <2>2. \A o \in Held : o \in Object
    BY <1>2 DEF LifeInv, LifeShape, Held, StackObjs
  <2>3. \A k : Marked(k)' <=> Marked(k)
    BY <1>1 DEF Marked, IsEndpoint
  <2> QED BY <1>5, <1>7, <2>1, <2>2, <2>3 DEF LifeInv, HeldIsMarked
<1>14. MarkedIsHeld'
  BY <1>1, <1>5, <1>7 DEF LifeInv, MarkedIsHeld, Settled, Marked, IsEndpoint
<1>15. NamesDistinct'
  BY <1>1, <1>7 DEF LifeInv, NamesDistinct, Names
<1>16. Settled => Deps(x) \subseteq Held
  <2> SUFFICES ASSUME Settled, x.at = 0 PROVE Deps(x) \subseteq Held
    BY DEF Deps
  <2>1. x.block \in Blocks
    BY <1>1, <1>3 DEF LifeInv, HeldIsMarked
  <2>2. RefsOf(x) = RefsIn(x.block) /\ Len(RefsIn(x.block)) \in Nat
    BY <2>1, LifeRefs DEF RefsOf, LifeInv, LifeShape
  <2>3. Len(RefsOf(x)) < Top.at
    BY <1>1, <1>3, <2>2 DEF Pending
  <2>4. \A l \in 1..Len(RefsIn(x.block)) : RefHeld(Held, x.block, l)
    <3>1. \A l \in 1..Len(RefsIn(x.block)) : l < Top.at
      BY <1>3, <2>2, <2>3
    <3>2. \A l \in 1..Len(RefsOf(stack[Len(stack)].obj)) :
             l < stack[Len(stack)].at => RefHeld(Held, stack[Len(stack)].obj.block, l)
      BY <1>a DEF LifeInv, DepsHeld
    <3> QED BY <1>2, <2>2, <3>1, <3>2
  <2> HIDE DEF x
  <2> QED BY <2>4 DEF Deps, Uses, InlineOf, RefHeld
<1>17. DepsHeld'
  <2>1. \A H, j, k : RefHeld(H, j, k)' <=> RefHeld(H, j, k)
    BY <1>7 DEF RefHeld
  <2>2. Settled => \A k \in 1..Len(stack') : \A l \in 1..Len(RefsOf(stack'[k].obj)) :
           l < stack'[k].at => RefHeld(Held, stack'[k].obj.block, l)
    BY <1>a DEF LifeInv, DepsHeld
  <2>3. Settled' = Settled
    BY <1>1 DEF Settled
  <2>4. Settled => \A o \in done' : Deps(o) \subseteq Held
    BY <1>1, <1>16 DEF LifeInv, DepsHeld
  <2> QED BY <1>5, <1>7, <2>1, <2>2, <2>3, <2>4 DEF DepsHeld
<1>18. StackChains'
  BY <1>1, <1>7, <1>a DEF LifeInv, StackChains, Settled
<1>19. HooksOrdered'
  <2> SUFFICES ASSUME Settled, NEW p \in 1..Len(hooks'.shutdown), NEW d \in Deps(hooks'.shutdown[p])
               PROVE  \/ d.at = 0 /\ Reaches(d.block, hooks'.shutdown[p].block)
                      \/ d \in done' /\ \A q \in 1..Len(hooks'.shutdown) : hooks'.shutdown[q] = d => q < p
    BY <1>1, <1>7 DEF HooksOrdered, Settled
  <2>1. CASE p \in 1..Len(sh)
    <3>1. \/ d.at = 0 /\ Reaches(d.block, sh[p].block)
          \/ d \in done /\ \A q \in 1..Len(sh) : sh[q] = d => q < p
      BY <1>10, <2>1 DEF LifeInv, HooksOrdered
    <3>2. d \in done => d # x
      BY <1>3
    <3> QED BY <1>1, <1>10, <2>1, <3>1, <3>2
  <2>2. CASE p = Len(sh) + 1
    <3>1. d \in Deps(x) /\ hooks'.shutdown[p] = x
      BY <1>10, <1>8, <2>2
    <3>2. d \in Held /\ x.at = 0
      BY <1>16, <3>1 DEF Deps
    <3>3. CASE d \in done
      <4>1. d # x
        BY <1>3, <3>3
      <4>2. \A q \in 1..Len(hooks'.shutdown) : hooks'.shutdown[q] = d => q \in 1..Len(sh)
        BY <1>10, <4>1
      <4> QED BY <1>1, <1>8, <2>2, <3>3, <4>2
    <3>4. CASE d \in StackObjs /\ d # x
      <4>1. PICK k \in 1..Len(stack) : d = stack[k].obj
        BY <3>4 DEF StackObjs
      <4>2. k < Len(stack) /\ Len(stack) \in 1..Len(stack)
        BY <1>2, <3>4, <4>1
      <4>3. d.at = 0 /\ Reaches(d.block, x.block)
        BY <1>2, <3>2, <4>1, <4>2 DEF LifeInv, StackChains
      <4> QED BY <3>1, <4>3
    <3>5. CASE d = x
      <4>1. x.block \in Uses(x.block)
        <5> HIDE DEF x
        <5> QED BY <3>1, <3>2, <3>5 DEF Deps, Obj, InlineOf
      <4>2. Reaches(x.block, x.block)
        BY <4>1 DEF Reaches
      <4> QED BY <3>1, <3>2, <3>5, <4>2
    <3> QED BY <3>2, <3>3, <3>4, <3>5 DEF Held
  <2> QED BY <1>10, <2>1, <2>2
<1>20. ClosedFromLast' /\ AllInitialised'
  BY <1>1, <1>6, <1>10 DEF ClosedFromLast, AllInitialised
<1> QED BY <1>11, <1>12, <1>13, <1>14, <1>15, <1>17, <1>18, <1>19, <1>20 DEF LifeInv
-----------------------------------------------------------------------------
(* ServerLife: the steps together *)

\* Init returns in the end: the server is ready.
LEMMA LifeReadyStep ==
  ASSUME LifeInv, Ready
  PROVE  LifeInv'
<1>1. CASE Unused # {}
  BY <1>1, LifeFailStep DEF Ready, Starting
<1>2. CASE Unused = {}
  <2>1. /\ pc = "init" /\ pc' = "running" /\ stack = <<>> /\ EndpointsLeft = {}
        /\ UNCHANGED <<cfg, next, initialized, stack, done, hooks, closed>>
    BY <1>2 DEF Ready
  <2>2. ASSUME NEW i \in Blocks PROVE Obj(i, 0) \in done
    <3>1. next \in Nat /\ i \in Nat
      BY DEF LifeInv, LifeShape, Blocks
    <3>2. Marked(i)
      BY <1>2, <2>1, <3>1 DEF Marked, EndpointsLeft, Unused
    <3>3. Obj(i, 0) \in Held
      BY <2>1, <3>2 DEF LifeInv, MarkedIsHeld, Settled
    <3> QED BY <2>1, <3>3 DEF Held, StackObjs
  <2>3. closed = <<>>
    BY <2>1 DEF LifeInv, ClosedFromLast
  <2> QED BY <2>1, <2>2, <2>3, LifePhaseStep DEF Settled
<1> QED BY <1>1, <1>2

\* A reference to a block of the configuration.
LEMMA LifeGetInstanceStep ==
  ASSUME LifeInv, GetInstance
  PROVE  LifeInv'
<1>1. CASE pc = "globals" \/ ~HasInstance(Ref.to)
  BY <1>1, LifeFailStep DEF GetInstance
<1>2. CASE ~(pc = "globals" \/ ~HasInstance(Ref.to))
  <2>1. PICK i \in Resolve(Ref.to) :
          /\ IF cfg.blocks[i].inst \in initialized THEN stack' = Advanced /\ UNCHANGED initialized
             ELSE /\ initialized' = initialized \cup {cfg.blocks[i].inst}
                  /\ stack' = Append(Advanced, [obj |-> Obj(i, 0), at |-> 1])
          /\ UNCHANGED <<cfg, pc, next, done, hooks, closed>>
    BY <1>2 DEF GetInstance, serving
  <2>2. Pending /\ ~Ref.inline /\ stack # <<>> /\ pc = "init"
    BY <1>2 DEF GetInstance, Starting, Pending, LifeInv, LifeShape
  <2>3. i \in Blocks /\ i \in Nat /\ ~IsEndpoint(i)
    BY DEF Resolve, Registered, Blocks
  <2>4. Obj(i, 0) \in Object /\ Obj(i, 0).at = 0 /\ Obj(i, 0).block = i /\ Obj(i, 0) # Globals
    BY <2>3 DEF Obj, Object, Globals, Blocks
  <2>5. CASE cfg.blocks[i].inst \in initialized
    BY <2>1, <2>2, <2>5, LifeAdvanceStep
  <2>6. CASE cfg.blocks[i].inst \notin initialized
    <3>1. Obj(i, 0) \notin Held
      BY <2>3, <2>4, <2>6 DEF LifeInv, HeldIsMarked, Marked
    <3> QED BY <2>1, <2>2, <2>4, <2>6, <3>1, LifeDescendStep
  <2> QED BY <2>5, <2>6
<1> QED BY <1>1, <1>2

\* A reference to an inline module.
LEMMA LifeInlineStep ==
  ASSUME LifeInv, InlineModule
  PROVE  LifeInv'
<1>1. CASE Ref.to \notin ModuleKinds
  BY <1>1, LifeFailStep DEF InlineModule
<1>2. CASE Ref.to \in ModuleKinds
  <2> DEFINE o == Obj(Top.obj.block, Top.at)
  <2>1. /\ Pending /\ Ref.inline /\ stack' = Append(Advanced, [obj |-> o, at |-> 1])
        /\ UNCHANGED <<cfg, pc, next, initialized, done, hooks, closed>>
    BY <1>2 DEF InlineModule, serving
  <2>2. pc \in {"globals", "init"}
    BY DEF InlineModule, Starting, Pending, LifeInv, LifeShape
  <2>3. /\ stack \in Seq(Frame) /\ stack # <<>> /\ Top.obj \in StackObjs /\ Top.obj \in Object
        /\ Top.obj = Obj(Top.obj.block, 0) /\ Top.at \in Nat /\ Top.at >= 1
    BY <2>1, LifePending
  <2>4. Len(stack) \in 1..Len(stack) /\ Top = stack[Len(stack)]
    BY <2>3, LifeAdvanced
  <2>5. o \in Object /\ o.at = Top.at /\ o.block = Top.obj.block /\ o.at # 0
    BY <2>3 DEF Obj, Object
  <2>6. o \notin Held
    <3>1. SUFFICES ASSUME o \in Held PROVE FALSE
      OBVIOUS
    <3>2. Begun(o)
      BY <2>5, <3>1 DEF LifeInv, HeldIsMarked
    <3>3. Top.obj \notin done
      BY <2>3 DEF LifeInv, HeldOnce
    <3>4. o.block = 0 => pc = "globals"
      BY <2>2, <2>3, <2>5 DEF LifeInv, LifeShape, Globals
    <3>5. PICK k \in 1..Len(stack) : stack[k].obj = Top.obj /\ o.at < stack[k].at
      BY <2>3, <2>5, <3>2, <3>3, <3>4 DEF Begun
    <3>6. k = Len(stack)
      BY <2>4, <3>5 DEF LifeInv, HeldOnce
    <3> QED BY <2>3, <2>4, <2>5, <3>5, <3>6
  <2> HIDE DEF o
  <2> QED BY <2>1, <2>2, <2>5, <2>6, LifeDescendStep DEF o
<1> QED BY <1>1, <1>2

\* The hook that runs next closes its module.
LEMMA LifeCloseStep ==
  ASSUME LifeInv, Remaining, closed' = Append(closed, ToClose),
         UNCHANGED <<cfg, pc, next, initialized, stack, done, hooks>>
  PROVE  LifeInv'
<1> DEFINE sh == hooks.shutdown
<1>1. /\ closed \in Seq(Object) /\ sh \in Seq(Object) /\ Len(closed) < Len(sh) /\ pc = "stopping"
      /\ Len(closed) \in Nat /\ Len(sh) \in Nat
  BY LenProperties DEF LifeInv, LifeShape, Remaining
<1>2. Len(sh) - Len(closed) \in 1..Len(sh) /\ ToClose = sh[Len(sh) - Len(closed)]
  BY <1>1 DEF ToClose
<1>3. ToClose \in Object
  BY <1>1, <1>2, ElementOfSeq
<1>4. /\ closed' \in Seq(Object) /\ Len(closed') = Len(closed) + 1
      /\ \A i \in 1..Len(closed) : closed'[i] = closed[i]
      /\ closed'[Len(closed) + 1] = ToClose
  BY <1>1, <1>3, AppendProperties
<1>5. ClosedFromLast'
  <2>1. \A i \in 1..Len(closed') : closed'[i] = sh[Len(sh) + 1 - i]
    <3> SUFFICES ASSUME NEW i \in 1..Len(closed') PROVE closed'[i] = sh[Len(sh) + 1 - i]
      OBVIOUS
    <3>1. CASE i \in 1..Len(closed)
      BY <1>4, <3>1 DEF LifeInv, ClosedFromLast
    <3>2. CASE i = Len(closed) + 1
      <4>1. \A m, n \in Nat : m + 1 - (n + 1) = m - n
        OBVIOUS
      <4>2. Len(sh) + 1 - i = Len(sh) - Len(closed)
        BY <1>1, <3>2, <4>1
      <4> QED BY <1>2, <1>4, <3>2, <4>2
    <3> QED BY <1>1, <1>4, <3>1, <3>2
  <2> QED BY <1>1, <1>4, <2>1 DEF ClosedFromLast
<1>6. pc # "register" /\ pc' # "register"
  BY <1>1
<1>7. /\ Blocks' = Blocks /\ Registered' = Registered /\ \A n : Resolve(n)' = Resolve(n)
      /\ \A k : RefsIn(k)' = RefsIn(k)
      /\ \A o : RefsOf(o)' = RefsOf(o) /\ KindOf(o)' = KindOf(o) /\ Deps(o)' = Deps(o)
      /\ \A k, j : Reaches(k, j)' = Reaches(k, j)
  BY <1>6, LifeNamesKept DEF Registered, IsEndpoint
<1>8. Held' = Held /\ StackObjs' = StackObjs /\ stack = <<>>
  BY <1>1 DEF Held, StackObjs, LifeInv, LifeShape
<1>9. LifeShape' /\ HeldOnce'
  BY <1>4, <1>7, <1>8 DEF LifeInv, LifeShape, HeldOnce, BeforeInit
<1>10. HeldIsMarked' /\ MarkedIsHeld'
  BY <1>7, <1>8 DEF LifeInv, HeldIsMarked, MarkedIsHeld, Settled, Begun, Marked, IsEndpoint
<1>11. NamesDistinct' /\ AllInitialised'
  BY <1>1, <1>7 DEF LifeInv, NamesDistinct, Names, AllInitialised
<1>12. DepsHeld'
  BY <1>7, <1>8 DEF LifeInv, DepsHeld, Settled
<1>13. StackChains' /\ HooksOrdered'
  BY <1>7, <1>8 DEF LifeInv, StackChains, HooksOrdered, Settled
<1> QED BY <1>5, <1>9, <1>10, <1>11, <1>12, <1>13 DEF LifeInv

LEMMA LifeInvInit ==
  ASSUME NEW config \in Config, InitWith(config, "globals")
  PROVE  LifeInv
<1>1. /\ stack = << [obj |-> Globals, at |-> 1] >> /\ Len(stack) = 1 /\ stack[1].obj = Globals /\ stack[1].at = 1
      /\ pc = "globals" /\ cfg = config /\ next = 1 /\ initialized = {} /\ done = {}
      /\ hooks = [shutdown |-> <<>>, reload |-> <<>>] /\ closed = <<>>
  BY DEF InitWith
<1>2. Globals \in Object /\ Globals.at = 0 /\ Globals.block = 0
  BY DEF Globals, Obj, Object
<1>3. StackObjs = {Globals} /\ Held = {Globals}
  BY <1>1 DEF StackObjs, Held
<1>4. stack \in Seq([obj : Object, at : Nat \ {0}])
  BY <1>1, <1>2
<1>5. hooks \in [shutdown : Seq(Object), reload : Seq(Object)] /\ closed \in Seq(Object)
  BY <1>1, EmptySeq
<1>6. LifeShape
  BY <1>1, <1>2, <1>3, <1>4, <1>5 DEF LifeShape, BeforeInit
<1>7. HeldOnce
  BY <1>1, <1>3 DEF HeldOnce, IsInjective, ToSet
<1>8. HeldIsMarked
  BY <1>2, <1>3 DEF HeldIsMarked
<1>9. MarkedIsHeld /\ NamesDistinct /\ DepsHeld /\ StackChains /\ HooksOrdered /\ AllInitialised
  BY <1>1 DEF MarkedIsHeld, NamesDistinct, DepsHeld, StackChains, HooksOrdered, AllInitialised, Settled
<1>10. ClosedFromLast
  BY <1>1 DEF ClosedFromLast
<1> QED BY <1>6, <1>7, <1>8, <1>9, <1>10 DEF LifeInv

LEMMA LifeInvStep ==
  ASSUME LifeInv, [LifeNext]_lifeVars
  PROVE  LifeInv'
<1>1. CASE UNCHANGED core
  BY <1>1, LifeQuietStep
<1>2. CASE Startup
  <2>1. CASE RegisterModules
    BY <2>1, LifeRegisterStep
  <2>2. CASE RegisterFails \/ InitFails
    BY <2>2, LifeFailStep DEF RegisterFails, InitFails, Starting
  <2>3. CASE RegisterEnds
    BY <2>3, LifeFailStep, LifeRegisteredStep DEF RegisterEnds, AllRegistered, Starting, serving
  <2>4. CASE InitEndpoint
    BY <2>4, LifeEndpointStep
  <2>5. CASE GetInstance
    BY <2>5, LifeGetInstanceStep
  <2>6. CASE InlineModule
    BY <2>6, LifeInlineStep
  <2>7. CASE InitReturns
    BY <2>7, LifeReturnStep
  <2>8. CASE GlobalsRead
    BY <2>8, LifeFailStep, LifeGlobalsStep DEF GlobalsRead, Starting, serving
  <2>9. CASE Ready
    BY <2>9, LifeReadyStep
  <2> QED BY <1>2, <2>1, <2>2, <2>3, <2>4, <2>5, <2>6, <2>7, <2>8, <2>9 DEF Startup
<1>3. CASE Handles
  <2>1. CASE Terminate
    <3>1. /\ pc = "running" /\ pc' = "stopping"
          /\ UNCHANGED <<cfg, next, initialized, stack, done, hooks, closed>>
      BY <2>1 DEF Terminate, Waiting
    <3>2. stack = <<>>
      BY <3>1 DEF LifeInv, LifeShape
    <3> QED BY <3>1, <3>2, LifePhaseStep DEF Settled
  <2>2. CASE ForcedExit
    <3>1. /\ pc = "stopping" /\ pc' = "killed"
          /\ UNCHANGED <<cfg, next, initialized, stack, done, hooks, closed>>
      BY <2>2 DEF ForcedExit, Waiting, serving
    <3>2. stack = <<>>
      BY <3>1 DEF LifeInv, LifeShape
    <3> QED BY <3>1, <3>2, LifePhaseStep DEF Settled
  <2>3. CASE ForceListens \/ \E h \in Handler : LogRotate(h) \/ Reload(h) \/ ForceReload(h)
    BY <1>1, <2>3 DEF ForceListens, LogRotate, Reload, ForceReload, core
  <2> QED BY <1>3, <2>1, <2>2, <2>3 DEF Handles
<1>4. CASE Reloading
  <2>1. CASE \E o \in DOMAIN tab : \/ Tick(o) \/ reloadStat(o) \/ reloadRead(o) \/ reloadCheck(o)
                                   \/ reloadPanics(o) \/ reloaderStops(o)
    BY <1>1, <2>1 DEF Tick, reloadStat, reloadRead, reloadCheck, reloadPanics, reloaderStops, TableStep, serving, core
  <2>2. CASE \E o \in DOMAIN certs : CertTick(o)
    BY <1>1, <2>2 DEF CertTick, serving, core
  <2>3. CASE \E w \in Handler \cup {"tick"} : loadCert(w) \/ loadKey(w)
    BY <1>1, <2>3 DEF loadCert, loadKey, serving, core
  <2> QED BY <1>4, <2>1, <2>2, <2>3 DEF Reloading
<1>5. CASE Shutdown
  <2>1. CASE ClosePlain \/ CloseTableEnds \/ CloseLoader
    <3>1. /\ Remaining /\ closed' = Append(closed, ToClose)
          /\ UNCHANGED <<cfg, pc, next, initialized, stack, done, hooks>>
      BY <2>1 DEF ClosePlain, CloseTableEnds, CloseLoader, Closes
    <3> QED BY <3>1, LifeCloseStep
  <2>2. CASE CloseTableSends
    BY <1>1, <2>2 DEF CloseTableSends, core
  <2>3. CASE Exit
    <3>1. /\ pc = "stopping" /\ pc' = "exited" /\ ~(Len(closed) < Len(hooks.shutdown))
          /\ UNCHANGED <<cfg, next, initialized, stack, done, hooks, closed>>
      BY <2>3 DEF Exit, Remaining, serving
    <3>2. closed \in Seq(Object) /\ hooks.shutdown \in Seq(Object) /\ Len(closed) <= Len(hooks.shutdown) /\ stack = <<>>
      BY <3>1 DEF LifeInv, LifeShape, ClosedFromLast
    <3>3. Len(closed) = Len(hooks.shutdown)
      BY <3>1, <3>2, LenProperties
    <3> QED BY <3>1, <3>2, <3>3, LifePhaseStep DEF Settled
  <2> QED BY <1>5, <2>1, <2>2, <2>3 DEF Shutdown
<1>6. CASE Operator
  <2>1. CASE \E s \in Signals : Signal(s)
    BY <1>1, <2>1 DEF Signal, core
  <2>2. CASE WriteBegins \/ WriteEnds \/ Quiet \/ Unlink \/ Restore
    BY <1>1, <2>2 DEF WriteBegins, WriteEnds, Quiet, Unlink, Restore, Edits, serving, core
  <2>3. CASE RotateCert \/ RotateKey
    BY <1>1, <2>3 DEF RotateCert, RotateKey, Rotate, serving, core
  <2> QED BY <1>6, <2>1, <2>2, <2>3 DEF Operator
<1>7. CASE UNCHANGED lifeVars
  BY <1>1, <1>7 DEF lifeVars, core
<1> QED BY <1>2, <1>3, <1>4, <1>5, <1>6, <1>7 DEF LifeNext

\* The order of the hooks, closed from the last to the first, is the order promised.
LEMMA LifeInvEnough ==
  ASSUME LifeInv
  PROVE  ClosedInOrder
<1> DEFINE sh == hooks.shutdown
<1>1. /\ sh \in Seq(Object) /\ closed \in Seq(Object) /\ Len(sh) \in Nat /\ Len(closed) \in Nat
      /\ DOMAIN sh = 1..Len(sh) /\ DOMAIN closed = 1..Len(closed) /\ Len(closed) <= Len(sh)
  BY LenProperties DEF LifeInv, LifeShape, ClosedFromLast
<1>2. \A i \in 1..Len(closed) : closed[i] = sh[Len(sh) + 1 - i] /\ Len(sh) + 1 - i \in 1..Len(sh)
  BY <1>1 DEF LifeInv, ClosedFromLast
<1>3. IsInjective(sh) /\ \A o \in done : Closer(KindOf(o)) => o \in ToSet(sh)
  BY DEF LifeInv, HeldOnce
<1>4. IsInjective(closed)
  <2> SUFFICES ASSUME NEW i \in 1..Len(closed), NEW j \in 1..Len(closed), closed[i] = closed[j] PROVE i = j
    BY <1>1 DEF IsInjective
  <2>1. sh[Len(sh) + 1 - i] = sh[Len(sh) + 1 - j] /\ Len(sh) + 1 - i \in DOMAIN sh /\ Len(sh) + 1 - j \in DOMAIN sh
    BY <1>1, <1>2
  <2>2. Len(sh) + 1 - i = Len(sh) + 1 - j
    BY <1>3, <2>1 DEF IsInjective
  <2> QED BY <1>1, <2>2
<1>5. pc = "exited" => ToSet(closed) = ToSet(sh)
  <2>1. SUFFICES ASSUME Len(closed) = Len(sh) PROVE ToSet(closed) = ToSet(sh)
    BY DEF LifeInv, ClosedFromLast
  <2>2. ToSet(closed) \subseteq ToSet(sh)
    BY <1>1, <1>2 DEF ToSet
  <2>3. ASSUME NEW p \in 1..Len(sh) PROVE sh[p] \in ToSet(closed)
    <3>1. Len(sh) + 1 - p \in 1..Len(closed) /\ Len(sh) + 1 - (Len(sh) + 1 - p) = p
      BY <1>1, <2>1
    <3>2. closed[Len(sh) + 1 - p] = sh[p]
      BY <1>2, <3>1
    <3> QED BY <1>1, <3>1, <3>2 DEF ToSet
  <2> QED BY <1>1, <2>2, <2>3 DEF ToSet
<1>6. ClosedOnce
  BY <1>3, <1>4, <1>5 DEF ClosedOnce
<1>7. CloseOrder
  <2> SUFFICES ASSUME NEW o \in ToSet(sh) \ ToSet(closed), NEW d \in Deps(o) \cap ToSet(closed)
               PROVE  d.at = 0 /\ Reaches(d.block, o.block)
    BY DEF CloseOrder
  <2>1. PICK p \in 1..Len(sh) : o = sh[p]
    BY <1>1 DEF ToSet
  <2>2. PICK i \in 1..Len(closed) : d = closed[i]
    BY <1>1 DEF ToSet
  <2>3. d = sh[Len(sh) + 1 - i] /\ Len(sh) + 1 - i \in 1..Len(sh)
    BY <1>2, <2>2
  <2>4. ~(Len(sh) + 1 - i < p)
    <3>1. SUFFICES ASSUME Len(sh) + 1 - i < p PROVE o \in ToSet(closed)
      OBVIOUS
    <3>2. Len(sh) + 1 - p \in 1..Len(closed) /\ Len(sh) + 1 - (Len(sh) + 1 - p) = p
      BY <1>1, <3>1
    <3>3. closed[Len(sh) + 1 - p] = o
      BY <1>2, <2>1, <3>2
    <3> QED BY <1>1, <3>2, <3>3 DEF ToSet
  <2>5. Settled
    <3>1. closed # <<>>
      BY <1>1, <2>2
    <3> QED BY <3>1 DEF LifeInv, ClosedFromLast, Settled
  <2> QED BY <2>1, <2>3, <2>4, <2>5 DEF LifeInv, HooksOrdered
<1>8. ReadyIsComplete
  <2> SUFFICES ASSUME pc = "running" PROVE (\A i \in Blocks : Obj(i, 0) \in done) /\ \A o \in done : Deps(o) \subseteq done
    BY DEF ReadyIsComplete
  <2>1. Held = done
    BY DEF LifeInv, LifeShape, Held, StackObjs
  <2> QED BY <2>1 DEF LifeInv, AllInitialised, DepsHeld, Settled
<1> QED BY <1>6, <1>7, <1>8 DEF ClosedInOrder

\* Whatever blocks a configuration has, under whatever names and aliases, and however
\* they refer to each other: each is initialised and closed once, the server is ready
\* only when all of them are initialised, and none is closed while a module that uses it
\* is not, circles of references apart (GetInstance, initModules, RunHooks).
THEOREM ModulesClosedInOrder == LifeSpec => []ClosedInOrder
<1>1. (\E config \in Config : InitWith(config, "globals")) => LifeInv
  BY LifeInvInit
<1>2. LifeInv /\ [LifeNext]_lifeVars => LifeInv'
  BY LifeInvStep
<1>3. LifeInv => ClosedInOrder
  BY LifeInvEnough
<1> QED BY <1>1, <1>2, <1>3, PTL DEF LifeSpec
-----------------------------------------------------------------------------
(* ServerLife: what a table is loaded from *)

LEMMA LifeVersions == Torn \in Int /\ Empty \in Int /\ Empty # Torn /\ \A n \in Nat : n # Torn
BY DEF Torn, Empty

LEMMA TableInvInit ==
  ASSUME NEW config, InitWith(config, "globals")
  PROVE  TableInv
<1>1. /\ tab = <<>> /\ spent = [edits |-> 0, rotations |-> 0, signals |-> 0]
      /\ file = [exists |-> TRUE, mtime |-> 1, content |-> 0, quiet |-> TRUE, writing |-> FALSE, copied |-> FALSE]
  BY DEF InitWith, CopyTime
<1>2. DOMAIN tab = {}
  BY <1>1
<1>3. FileInv
  BY <1>1 DEF FileInv, Torn
<1>4. tab \in [DOMAIN tab -> TabRecord]
  BY <1>1
<1> QED BY <1>2, <1>3, <1>4 DEF TableInv, NoTornTable

\* A step that leaves the file, and the reloads between stat and check, alone.
LEMMA TableElsewhere ==
  ASSUME TableInv, file' = file, spent' \in [edits : Nat, rotations : Nat, signals : Nat], spent'.edits = spent.edits,
         tab' \in [DOMAIN tab' -> TabRecord],
         \A o \in DOMAIN tab' :
            \/ o \in DOMAIN tab /\ tab'[o] = tab[o]
            \/ /\ tab'[o].at \notin {"read", "check"}
               /\ \/ tab'[o].stamp = 0 \/ tab'[o].m # Torn
                  \/ o \in DOMAIN tab /\ tab'[o].m = tab[o].m /\ tab'[o].stamp = tab[o].stamp
  PROVE  TableInv'
<1>1. FileInv'
  BY DEF TableInv, FileInv
<1>2. NoTornTable'
  BY DEF TableInv, NoTornTable
<1>3. \A o \in DOMAIN tab' : tab'[o].at \in {"read", "check"} => o \in DOMAIN tab /\ tab'[o] = tab[o]
  OBVIOUS
<1>4. \A t : Unchecked(t)' <=> Unchecked(t)
  BY DEF Unchecked
<1> QED BY <1>1, <1>2, <1>3, <1>4 DEF TableInv

\* A goroutine of a table goes somewhere else than to read or check.
LEMMA TableMoves ==
  ASSUME TableInv, NEW o \in DOMAIN tab, NEW a \in {"stat", "answer", "panicked", "gone"}, Moves(o, a), UNCHANGED <<file, spent>>
  PROVE  TableInv'
<1>1. tab \in [DOMAIN tab -> TabRecord] /\ spent \in [edits : Nat, rotations : Nat, signals : Nat]
  BY DEF TableInv, FileInv
<1>2. tab' = [tab EXCEPT ![o] = [tab[o] EXCEPT !.at = a]]
  BY DEF Moves
<1>3. /\ [tab[o] EXCEPT !.at = a] \in TabRecord /\ [tab[o] EXCEPT !.at = a].at = a
      /\ [tab[o] EXCEPT !.at = a].m = tab[o].m /\ [tab[o] EXCEPT !.at = a].stamp = tab[o].stamp
  BY <1>1 DEF TabRecord
<1>4. DOMAIN tab' = DOMAIN tab /\ \A x \in DOMAIN tab : tab'[x] = IF x = o THEN [tab[o] EXCEPT !.at = a] ELSE tab[x]
  BY <1>1, <1>2
<1>5. tab' \in [DOMAIN tab' -> TabRecord]
  BY <1>1, <1>2, <1>3
<1> QED BY <1>1, <1>3, <1>4, <1>5, TableElsewhere

\* A step of a reload.
LEMMA TableReloads ==
  ASSUME TableInv, NEW o \in DOMAIN tab, reloadStat(o) \/ reloadRead(o) \/ reloadCheck(o)
  PROVE  TableInv'
<1>1. /\ tab \in [DOMAIN tab -> TabRecord] /\ tab[o] \in TabRecord /\ UNCHANGED <<file, spent>> /\ FileInv
      /\ tab[o].m \in Int /\ tab[o].stamp \in Int /\ tab[o].info \in Int /\ tab[o].new \in Int
  BY DEF TableInv, reloadStat, reloadRead, reloadCheck, TableStep, env, TabRecord
<1>2. /\ file.mtime \in Nat /\ file.content \in Int /\ spent.edits \in Nat /\ file.mtime <= 2 * spent.edits + 1
      /\ file.content = Torn => file.writing
      /\ file.writing => ~file.quiet /\ file.mtime = 2 * spent.edits
  BY <1>1 DEF FileInv
<1>3. \E t \in TabRecord :
        /\ tab' = [tab EXCEPT ![o] = t]
        /\ t.at \in {"read", "check"} => Unchecked(t)
        /\ t.stamp > 0 /\ t.m = Torn => file.copied /\ t.stamp = CopyTime
  <2>0. tab[o].stamp > 0 /\ tab[o].m = Torn => file.copied /\ tab[o].stamp = CopyTime
    BY DEF TableInv, NoTornTable
  <2>1. CASE reloadStat(o)
    <3> DEFINE t == IF ~file.exists THEN [tab[o] EXCEPT !.at = "select", !.m = Empty]
                    ELSE IF file.mtime < tab[o].stamp \/ ~file.quiet THEN [tab[o] EXCEPT !.at = "select"]
                    ELSE [tab[o] EXCEPT !.at = "read", !.info = file.mtime]
    <3>1. tab' = [tab EXCEPT ![o] = t]
      BY <2>1 DEF reloadStat
    <3>2. t \in TabRecord
      <4>1. [tab[o] EXCEPT !.at = "select", !.m = Empty] \in TabRecord
        BY <1>1, LifeVersions DEF TabRecord
      <4>2. [tab[o] EXCEPT !.at = "select"] \in TabRecord
        BY <1>1 DEF TabRecord
      <4>3. [tab[o] EXCEPT !.at = "read", !.info = file.mtime] \in TabRecord
        <5>1. file.mtime \in Int
          BY <1>2
        <5> QED BY <1>1, <5>1 DEF TabRecord
      <4> QED BY <4>1, <4>2, <4>3
    <3>3. t.at \in {"read", "check"} => t.at = "read" /\ t.info = file.mtime /\ file.quiet
      BY <1>1 DEF TabRecord
    <3>4. t.at \in {"read", "check"} => Unchecked(t)
      BY <1>2, <3>3 DEF Unchecked
    <3>5. t.stamp = tab[o].stamp /\ (t.m = tab[o].m \/ t.m = Empty)
      BY <1>1 DEF TabRecord
    <3>6. t.stamp > 0 /\ t.m = Torn => file.copied /\ t.stamp = CopyTime
      BY <2>0, <3>5, LifeVersions
    <3> HIDE DEF t
    <3> QED BY <3>1, <3>2, <3>4, <3>6
  <2>2. CASE reloadRead(o)
    <3> DEFINE t == IF ~file.exists THEN [tab[o] EXCEPT !.at = "select"]
                    ELSE [tab[o] EXCEPT !.at = "check", !.new = file.content]
    <3>1. tab' = [tab EXCEPT ![o] = t] /\ tab[o].at = "read"
      BY <2>2 DEF reloadRead, At
    <3>2. t \in TabRecord
      BY <1>1, <1>2 DEF TabRecord
    <3>3. t.at \in {"read", "check"} => t.info = tab[o].info /\ t.new = file.content
      BY <1>1 DEF TabRecord
    <3>4. tab[o].info <= 2 * spent.edits + 1 /\ (file.writing => tab[o].info < 2 * spent.edits)
      BY <3>1 DEF TableInv, Unchecked
    <3>5. t.at \in {"read", "check"} => Unchecked(t)
      BY <1>1, <1>2, <3>3, <3>4 DEF Unchecked
    <3>6. t.stamp = tab[o].stamp /\ t.m = tab[o].m
      BY <1>1 DEF TabRecord
    <3> QED BY <2>0, <3>1, <3>2, <3>5, <3>6
  <2>3. CASE reloadCheck(o)
    <3> DEFINE ok == file.exists /\ file.mtime = tab[o].info
    <3> DEFINE t == IF ok THEN [tab[o] EXCEPT !.at = "select", !.m = tab[o].new, !.stamp = tab[o].info]
                    ELSE [tab[o] EXCEPT !.at = "select"]
    <3>1. tab' = [tab EXCEPT ![o] = t] /\ tab[o].at = "check"
      BY <2>3 DEF reloadCheck, At
    <3>2. t \in TabRecord /\ t.at = "select"
      BY <1>1 DEF TabRecord
    <3>3. IF ok THEN t.m = tab[o].new /\ t.stamp = tab[o].info ELSE t.m = tab[o].m /\ t.stamp = tab[o].stamp
      BY <1>1 DEF TabRecord
    <3>4. tab[o].new = Torn /\ tab[o].info = file.mtime => file.copied /\ tab[o].info = CopyTime
      BY <3>1 DEF TableInv, Unchecked
    <3>5. t.stamp > 0 /\ t.m = Torn => file.copied /\ t.stamp = CopyTime
      BY <2>0, <3>3, <3>4
    <3> QED BY <3>1, <3>2, <3>5
  <2> QED BY <2>1, <2>2, <2>3
<1>4. PICK t \in TabRecord :
        /\ tab' = [tab EXCEPT ![o] = t]
        /\ t.at \in {"read", "check"} => Unchecked(t)
        /\ t.stamp > 0 /\ t.m = Torn => file.copied /\ t.stamp = CopyTime
  BY <1>3
<1>5. DOMAIN tab' = DOMAIN tab /\ \A x \in DOMAIN tab : tab'[x] = IF x = o THEN t ELSE tab[x]
  BY <1>1, <1>4
<1>6. FileInv' /\ tab' \in [DOMAIN tab' -> TabRecord]
  BY <1>1, <1>4 DEF FileInv
<1>7. NoTornTable'
  BY <1>1, <1>4, <1>5 DEF TableInv, NoTornTable
<1>8. \A r : Unchecked(r)' <=> Unchecked(r)
  BY <1>1 DEF Unchecked
<1>9. \A x \in DOMAIN tab' : tab'[x].at \in {"read", "check"} => Unchecked(tab'[x])
  BY <1>4, <1>5 DEF TableInv
<1> QED BY <1>6, <1>7, <1>8, <1>9 DEF TableInv

\* An edit of the file.
LEMMA TableEdits ==
  ASSUME TableInv, WriteBegins \/ WriteEnds \/ Quiet \/ Unlink \/ Restore
  PROVE  TableInv'
<1>1. /\ tab' = tab /\ tab \in [DOMAIN tab -> TabRecord] /\ spent \in [edits : Nat, rotations : Nat, signals : Nat]
      /\ file \in [exists : BOOLEAN, mtime : Nat, content : Int, quiet : BOOLEAN, writing : BOOLEAN, copied : BOOLEAN]
  BY DEF TableInv, FileInv, WriteBegins, WriteEnds, Quiet, Unlink, Restore, Edits, loading
<1>2. /\ spent.edits \in Nat /\ file.mtime \in Nat /\ file.mtime <= 2 * spent.edits + 1
      /\ file.content = Torn => file.writing
      /\ file.writing => ~file.quiet /\ file.mtime = 2 * spent.edits
  BY <1>1 DEF TableInv, FileInv
<1>3. /\ spent' \in [edits : Nat, rotations : Nat, signals : Nat] /\ spent'.edits \in {spent.edits, spent.edits + 1}
      /\ file' \in [exists : BOOLEAN, mtime : Nat, content : Int, quiet : BOOLEAN, writing : BOOLEAN, copied : BOOLEAN]
      /\ file'.mtime <= 2 * spent'.edits + 1 /\ (file'.content = Torn => file'.writing)
      /\ file'.writing => ~file'.quiet /\ file'.mtime = 2 * spent'.edits
      /\ file.copied => file'.copied
      /\ file'.writing => spent'.edits = spent.edits + 1 \/ file.writing
      /\ \/ file'.mtime = file.mtime
         \/ file'.mtime = 2 * spent'.edits /\ spent'.edits = spent.edits + 1
         \/ file'.mtime = 2 * spent.edits + 1
         \/ file'.mtime = CopyTime /\ file'.copied
  <2>1. CASE WriteBegins
    <3>1. /\ spent' = [spent EXCEPT !.edits = @ + 1]
          /\ file' = [file EXCEPT !.exists = TRUE, !.mtime = 2 * (spent.edits + 1), !.content = Torn,
                                  !.quiet = FALSE, !.writing = TRUE]
      BY <2>1 DEF WriteBegins, Edits, Counted
    <3>2. spent' \in [edits : Nat, rotations : Nat, signals : Nat] /\ spent'.edits = spent.edits + 1
      BY <1>1, <3>1
    <3>3. /\ file' \in [exists : BOOLEAN, mtime : Nat, content : Int, quiet : BOOLEAN, writing : BOOLEAN, copied : BOOLEAN]
          /\ file'.mtime = 2 * (spent.edits + 1) /\ ~file'.quiet /\ file'.writing /\ file'.copied = file.copied
      <4>1. 2 * (spent.edits + 1) \in Nat
        BY <1>2
      <4> QED BY <1>1, <3>1, <4>1, LifeVersions
    <3> QED BY <1>2, <3>2, <3>3
  <2>2. CASE WriteEnds
    <3>1. /\ spent' = spent
          /\ file' = [file EXCEPT !.mtime = 2 * spent.edits + 1, !.content = spent.edits, !.quiet = FALSE, !.writing = FALSE]
      BY <2>2 DEF WriteEnds, Edits
    <3>2. /\ file' \in [exists : BOOLEAN, mtime : Nat, content : Int, quiet : BOOLEAN, writing : BOOLEAN, copied : BOOLEAN]
          /\ file'.mtime = 2 * spent.edits + 1 /\ file'.content = spent.edits /\ ~file'.writing /\ file'.copied = file.copied
      <4>1. 2 * spent.edits + 1 \in Nat /\ spent.edits \in Int
        BY <1>2
      <4> QED BY <1>1, <3>1, <4>1
    <3> QED BY <1>1, <1>2, <3>1, <3>2, LifeVersions
  <2>3. CASE Quiet
    BY <1>1, <1>2, <2>3 DEF Quiet, Edits
  <2>4. CASE Unlink
    <3>1. spent' = [spent EXCEPT !.edits = @ + 1] /\ file' = [file EXCEPT !.exists = FALSE] /\ ~file.writing
      BY <2>4 DEF Unlink, Edits, Counted
    <3>2. spent' \in [edits : Nat, rotations : Nat, signals : Nat] /\ spent'.edits = spent.edits + 1
      BY <1>1, <3>1
    <3>3. /\ file' \in [exists : BOOLEAN, mtime : Nat, content : Int, quiet : BOOLEAN, writing : BOOLEAN, copied : BOOLEAN]
          /\ file'.mtime = file.mtime /\ file'.content = file.content /\ ~file'.writing /\ file'.copied = file.copied
      BY <1>1, <3>1
    <3> QED BY <1>2, <3>1, <3>2, <3>3
  <2>5. CASE Restore
    BY <1>1, <1>2, <2>5 DEF Restore, Edits, Counted, CopyTime, Torn
  <2> QED BY <2>1, <2>2, <2>3, <2>4, <2>5
<1>4. FileInv'
  BY <1>3 DEF FileInv
<1>5. NoTornTable'
  BY <1>1, <1>3 DEF TableInv, NoTornTable
<1>6. ASSUME NEW o \in DOMAIN tab, tab[o].at \in {"read", "check"}
      PROVE  Unchecked(tab[o])'
  <2>1. /\ tab[o].info \in Int /\ tab[o].info <= 2 * spent.edits + 1 /\ (file.writing => tab[o].info < 2 * spent.edits)
        /\ tab[o].at = "check" /\ tab[o].new = Torn =>
             tab[o].info < 2 * spent.edits /\ (tab[o].info = file.mtime => file.copied /\ tab[o].info = CopyTime)
    BY <1>1, <1>6 DEF TableInv, Unchecked, TabRecord
  <2>2. tab[o].info <= 2 * spent'.edits + 1 /\ (file'.writing => tab[o].info < 2 * spent'.edits)
    BY <1>2, <1>3, <2>1
  <2>3. tab[o].at = "check" /\ tab[o].new = Torn =>
          tab[o].info < 2 * spent'.edits /\ (tab[o].info = file'.mtime => file'.copied /\ tab[o].info = CopyTime)
    BY <1>2, <1>3, <2>1
  <2> QED BY <1>1, <2>2, <2>3 DEF Unchecked
<1> QED BY <1>1, <1>4, <1>5, <1>6 DEF TableInv

LEMMA TableInvStep ==
  ASSUME TableInv, [LifeNext]_lifeVars
  PROVE  TableInv'
<1>1. tab \in [DOMAIN tab -> TabRecord] /\ spent \in [edits : Nat, rotations : Nat, signals : Nat] /\ file.content \in Int
  BY DEF TableInv, FileInv
<1>2. ASSUME tab' = tab, file' = file, spent' = spent PROVE TableInv'
  BY <1>1, <1>2, TableElsewhere
<1>3. CASE InitReturns
  <2>1. file' = file /\ spent' = spent
    BY <1>3 DEF InitReturns, env
  <2>2. CASE tab' = tab
    BY <1>2, <2>1, <2>2
  <2>3. CASE tab' # tab
    <3> DEFINE o == Top.obj
    <3> DEFINE t == [m |-> readFile, stamp |-> 0, at |-> "select", info |-> 0, new |-> Empty]
    <3>1. tab' = [x \in DOMAIN tab \cup {o} |-> IF x = o THEN t ELSE tab[x]]
      BY <1>3, <2>3 DEF InitReturns
    <3>2. t \in TabRecord /\ t.at = "select" /\ t.stamp = 0
      BY <1>1, LifeVersions DEF TabRecord, readFile
    <3> HIDE DEF o, t
    <3>3. DOMAIN tab' = DOMAIN tab \cup {o} /\ \A x \in DOMAIN tab' : tab'[x] = IF x = o THEN t ELSE tab[x]
      BY <3>1
    <3>4. tab' \in [DOMAIN tab' -> TabRecord]
      BY <1>1, <3>1, <3>2
    <3> QED BY <1>1, <2>1, <3>2, <3>3, <3>4, TableElsewhere
  <2> QED BY <2>2, <2>3
<1>4. CASE Startup /\ ~InitReturns
  BY <1>2, <1>4 DEF Startup, RegisterModules, RegisterFails, RegisterEnds, InitEndpoint, GetInstance, InlineModule,
     InitFails, GlobalsRead, Ready, Fail, loading, env
<1>5. CASE Handles
  <2>1. CASE \E h \in Handler : ForceReload(h)
    <3>1. PICK h \in Handler : ForceReload(h)
      BY <2>1
    <3>2. Head(run[h]) \in DOMAIN tab /\ Moves(Head(run[h]), "stat") /\ UNCHANGED <<file, spent>>
      BY <3>1 DEF ForceReload, At, env
    <3> QED BY <3>2, TableMoves
  <2>2. CASE ~\E h \in Handler : ForceReload(h)
    BY <1>2, <1>5, <2>2 DEF Handles, Terminate, ForceListens, ForcedExit, LogRotate, Reload, loading, env
  <2> QED BY <2>1, <2>2
<1>6. CASE Reloading
  <2>1. CASE \E o \in DOMAIN tab : reloadStat(o) \/ reloadRead(o) \/ reloadCheck(o)
    BY <2>1, TableReloads
  <2>2. CASE \E o \in DOMAIN tab : Tick(o) \/ reloadPanics(o) \/ reloaderStops(o)
    BY <2>2, TableMoves DEF Tick, reloadPanics, reloaderStops, TableStep, env
  <2>3. CASE \E o \in DOMAIN certs : CertTick(o)
    BY <1>2, <2>3 DEF CertTick, env
  <2>4. CASE \E w \in Handler \cup {"tick"} : loadCert(w) \/ loadKey(w)
    BY <1>2, <2>4 DEF loadCert, loadKey, env
  <2> QED BY <1>6, <2>1, <2>2, <2>3, <2>4 DEF Reloading
<1>7. CASE Shutdown
  <2>1. CASE CloseTableSends
    <3>1. ToClose \in DOMAIN tab /\ Moves(ToClose, "answer") /\ UNCHANGED <<file, spent>>
      BY <2>1 DEF CloseTableSends, At, env
    <3> QED BY <3>1, TableMoves
  <2>2. CASE ~CloseTableSends
    BY <1>2, <1>7, <2>2 DEF Shutdown, ClosePlain, CloseTableEnds, CloseLoader, Exit, loading, env
  <2> QED BY <2>1, <2>2
<1>8. CASE Operator
  <2>1. CASE WriteBegins \/ WriteEnds \/ Quiet \/ Unlink \/ Restore
    BY <2>1, TableEdits
  <2>2. CASE (\E s \in Signals : Signal(s)) \/ RotateCert \/ RotateKey
    <3>1. tab' = tab /\ file' = file
      BY <2>2 DEF Signal, RotateCert, RotateKey, Rotate, loading
    <3>2. spent' \in [edits : Nat, rotations : Nat, signals : Nat] /\ spent'.edits = spent.edits
      BY <1>1, <2>2 DEF Signal, RotateCert, RotateKey, Counted
    <3> QED BY <1>1, <3>1, <3>2, TableElsewhere
  <2> QED BY <1>8, <2>1, <2>2 DEF Operator
<1>9. CASE UNCHANGED lifeVars
  BY <1>2, <1>9 DEF lifeVars
<1> QED BY <1>3, <1>4, <1>5, <1>6, <1>7, <1>8, <1>9 DEF LifeNext

\* However the edits of a table's file interleave with its reloads, a reload loads no
\* file that was being written, unless an older copy of the file, put back after the
\* read, has the modification time seen before it (File.reload, which compares only that).
THEOREM TablesWhole == LifeSpec => []NoTornTable
<1>1. (\E config \in Config : InitWith(config, "globals")) => TableInv
  BY TableInvInit
<1>2. TableInv /\ [LifeNext]_lifeVars => TableInv'
  BY TableInvStep
<1>3. TableInv => NoTornTable
  BY DEF TableInv
<1> QED BY <1>1, <1>2, <1>3, PTL DEF LifeSpec
=============================================================================
