---------------------------- MODULE SharedProofs ----------------------------
(***************************************************************************)
(* Proofs about the state that goroutines, sessions and processes share    *)
(* beside the path of a message.  ConnPool: for every number of            *)
(* deliveries, keys, channels and connections, every configuration of the  *)
(* pool and every clock.  Tools (the table of credentials, the mailboxes,  *)
(* the DKIM keys): for every number of commands, sessions, users and       *)
(* mailboxes, every chain of providers and every list of domains.          *)
(***************************************************************************)
EXTENDS ConnPool, Tools, FiniteSetTheorems, SequenceTheorems, TLAPS

-----------------------------------------------------------------------------
(* What the pieces of the operations do *)

\* Channels of distinct slots are distinct, so dropping slots K closes no other.
LEMMA ChansOfRest ==
  ASSUME ConnectionsKept, NEW K \in SUBSET DOMAIN keys
  PROVE  /\ ChansOf(K) \subseteq made \ shut
         /\ \A k \in DOMAIN keys \ K : keys[k].c \notin ChansOf(K)
BY DEF ConnectionsKept, MapChannelsOpen, ChansOf

\* A state in which nobody's channel, connection or place changed.
LEMMA Frame ==
  ASSUME ConnectionsKept, TypeOK',
         UNCHANGED <<keys, closed, buf, made, shut, conn, user>>
  PROVE  ConnectionsKept'
BY DEF ConnectionsKept, UsersShaped, OneOwner, MapChannelsOpen, NoIdleLost, ChansOf

\* Dropping the slots K and closing their channels, as CleanUp and Close do: the
\* connections in them are closed, all others stay where they are.
LEMMA DroppedSlots ==
  ASSUME ConnectionsKept, NEW K \in SUBSET DOMAIN keys,
         CloseAll(ChansOf(K)), keys' = Without(keys, K),
         UNCHANGED <<made, user>>, closed' \in BOOLEAN, closed => closed',
         closed' => closed \/ K = DOMAIN keys,
         TypeOK'
  PROVE  ConnectionsKept'
<1> DEFINE H == ChansOf(K)
<1> USE DEF ConnectionsKept
<1>1. H \subseteq made \ shut /\ \A k \in DOMAIN keys \ K : keys[k].c \notin H
  BY ChansOfRest
<1> HIDE DEF H
<1>2. /\ DOMAIN keys' = DOMAIN keys \ K
      /\ \A k \in DOMAIN keys' : keys'[k] = keys[k]
  BY DEF Without
<1>3. /\ shut' = shut \cup H
      /\ \A h \in Chan : buf'[h] = IF h \in H THEN {} ELSE buf[h]
      /\ \A c \in Conn : conn'[c] = IF \E h \in H : c \in buf[h] THEN "closed" ELSE conn[c]
  BY DEF CloseAll, H
<1>4. H \subseteq Chan
  BY <1>1 DEF TypeOK
<1>5. UsersShaped'
  BY DEF UsersShaped
<1>6. MapChannelsOpen'
  BY <1>1, <1>2, <1>3 DEF MapChannelsOpen
<1>7. OneOwner'
  <2> SUFFICES ASSUME NEW c \in Conn
               PROVE  /\ \A u, v \in User : user[u].c = c /\ user[v].c = c => u = v
                      /\ \A u \in User : user[u].c = c => conn'[c] = "used"
                      /\ conn'[c] = "used" /\ ~closed' => \E u \in User : user[u].c = c
                      /\ conn'[c] = "idle" <=> \E h \in Chan : c \in buf'[h]
                      /\ \A g, h \in Chan : c \in buf'[g] /\ c \in buf'[h] => g = h
    BY DEF OneOwner
  <2>1. CASE \E h \in H : c \in buf[h]
    <3>1. conn[c] = "idle" /\ conn'[c] = "closed"
      BY <2>1, <1>3, <1>4 DEF OneOwner
    <3>2. \A u \in User : user[u].c # c
      BY <3>1 DEF OneOwner
    <3>3. \A h \in Chan : c \notin buf'[h]
      BY <2>1, <1>3, <1>4 DEF OneOwner
    <3> QED BY <3>1, <3>2, <3>3
  <2>2. CASE ~ \E h \in H : c \in buf[h]
    <3>1. conn'[c] = conn[c]
      BY <2>2, <1>3
    <3>2. \A h \in Chan : c \in buf'[h] <=> c \in buf[h]
      BY <2>2, <1>3
    <3>3. ~closed' => ~closed
      OBVIOUS
    <3> QED BY <3>1, <3>2, <3>3 DEF OneOwner
  <2> QED BY <2>1, <2>2
<1>8. NoIdleLost'
  <2> SUFFICES ASSUME NEW h \in Chan, buf'[h] # {}
               PROVE  \/ h \in ChansOf(DOMAIN keys)'
                      \/ \E u \in User : user'[u].pc = "drain" /\ user'[u].h = h
    BY DEF NoIdleLost
  <2>1. h \notin H /\ buf[h] # {}
    BY <1>3
  <2>2. CASE h \in ChansOf(DOMAIN keys)
    <3>1. PICK k \in DOMAIN keys : h = keys[k].c
      BY <2>2 DEF ChansOf
    <3>2. k \notin K
      BY <2>1, <3>1 DEF H, ChansOf
    <3>3. k \in DOMAIN keys' /\ keys'[k].c = h
      BY <1>2, <3>1, <3>2
    <3> QED BY <3>3 DEF ChansOf
  <2>3. CASE \E u \in User : user[u].pc = "drain" /\ user[u].h = h
    BY <2>3
  <2> QED BY <2>1, <2>2, <2>3 DEF NoIdleLost
<1> QED BY <1>5, <1>6, <1>7, <1>8

\* cfg.New at the end of Get: the caller holds no channel any more, and if it
\* was draining one, that is empty.
LEMMA NewConnKeeps ==
  ASSUME ConnectionsKept, NEW u \in User, NEW k \in Key, NewConn(u, k),
         user[u].pc # "using", user[u].pc = "drain" => buf[user[u].h] = {},
         UNCHANGED <<keys, closed, buf, made, shut>>, TypeOK'
  PROVE  ConnectionsKept'
<1> USE DEF ConnectionsKept, TypeOK
<1>0. user[u].c \notin Conn
  BY DEF UsersShaped
<1>1. MapChannelsOpen'
  BY DEF MapChannelsOpen
<1>2. \A v \in User : v # u => user'[v] = user[v]
  BY DEF NewConn
<1>3. NoIdleLost'
  <2>1. \A h \in Chan : buf[h] # {} => \A v \in User : user[v].pc = "drain" /\ user[v].h = h => v # u
    OBVIOUS
  <2> QED BY <1>2, <2>1 DEF NoIdleLost, ChansOf
<1>4. CASE /\ user' = [user EXCEPT ![u] = NoUser]
           /\ UNCHANGED <<conn, usable, usedAt>>
  <2>1. user'[u].pc = "idle" /\ user'[u].c = None /\ user'[u].h = None
    BY <1>4 DEF NoUser
  <2>2. UsersShaped'
    BY <1>2, <2>1, PoolAssumption DEF UsersShaped
  <2>3. OneOwner'
    BY <1>0, <1>2, <1>4, <2>1, PoolAssumption DEF OneOwner
  <2> QED BY <1>1, <1>3, <2>2, <2>3
<1>5. ASSUME NEW c \in Conn, conn[c] = "unborn",
             conn' = [conn EXCEPT ![c] = "used"],
             user' = [user EXCEPT ![u] = [pc |-> "using", key |-> k, h |-> None, c |-> c]]
      PROVE  ConnectionsKept'
  <2>1. user'[u].pc = "using" /\ user'[u].c = c /\ user'[u].h = None /\ user'[u].key = k
    BY <1>5
  <2>2. UsersShaped'
    BY <1>2, <2>1, PoolAssumption DEF UsersShaped
  <2>3. \A v \in User : user[v].c # c
    BY <1>5 DEF OneOwner
  <2>4. conn'[c] = "used" /\ \A x \in Conn : x # c => conn'[x] = conn[x]
    BY <1>5
  <2>5. OneOwner'
    <3> SUFFICES ASSUME NEW x \in Conn
                 PROVE  /\ \A v, w \in User : user'[v].c = x /\ user'[w].c = x => v = w
                        /\ \A v \in User : user'[v].c = x => conn'[x] = "used"
                        /\ conn'[x] = "used" /\ ~closed => \E v \in User : user'[v].c = x
                        /\ conn'[x] = "idle" <=> \E h \in Chan : x \in buf[h]
                        /\ \A g, h \in Chan : x \in buf[g] /\ x \in buf[h] => g = h
      BY DEF OneOwner
    <3>1. CASE x = c
      BY <3>1, <1>2, <1>5, <2>1, <2>3, <2>4 DEF OneOwner
    <3>2. CASE x # c
      <4>1. \A v \in User : user'[v].c = x <=> user[v].c = x
        BY <3>2, <1>0, <1>2, <2>1
      <4> QED BY <3>2, <4>1, <2>4 DEF OneOwner
    <3> QED BY <3>1, <3>2
  <2> QED BY <1>1, <1>3, <2>2, <2>5
<1> QED BY <1>4, <1>5 DEF NewConn

\* Get takes a connection out of the channel it holds, and closes or keeps it.
LEMMA TakenOut ==
  ASSUME ConnectionsKept, NEW u \in User, user[u].pc \in {"drain", "receive"},
         NEW c \in buf[user[u].h],
         buf' = [buf EXCEPT ![user[u].h] = @ \ {c}],
         \/ conn' = [conn EXCEPT ![c] = "closed"] /\ UNCHANGED user
         \/ /\ user[u].pc = "receive"
            /\ conn' = [conn EXCEPT ![c] = "used"]
            /\ user' = [user EXCEPT ![u].pc = "using", ![u].h = None, ![u].c = c],
         UNCHANGED <<keys, closed, made, shut>>, TypeOK'
  PROVE  ConnectionsKept'
<1> DEFINE h == user[u].h
<1> USE DEF ConnectionsKept, TypeOK
<1>1. h \in Chan /\ c \in Conn /\ c \in buf[h] /\ user[u].key \in Key
  BY DEF UsersShaped
<1>2. conn[c] = "idle" /\ \A v \in User : user[v].c # c
  BY <1>1 DEF OneOwner
<1> HIDE DEF h
<1>3. /\ buf'[h] = buf[h] \ {c}
      /\ \A g \in Chan : g # h => buf'[g] = buf[g] /\ c \notin buf[g]
      /\ \A g \in Chan : c \notin buf'[g]
      /\ \A g \in Chan : \A x \in Conn : x # c => (x \in buf'[g] <=> x \in buf[g])
  BY <1>1 DEF OneOwner, h
<1>4. /\ conn'[c] \in {"closed", "used"}
      /\ \A x \in Conn : x # c => conn'[x] = conn[x]
  BY <1>1
<1>5. /\ \A v \in User : v # u => user'[v] = user[v]
      /\ \/ user'[u] = user[u] /\ conn'[c] = "closed"
         \/ /\ user[u].pc = "receive" /\ conn'[c] = "used"
            /\ user'[u].pc = "using" /\ user'[u].h = None /\ user'[u].c = c
            /\ user'[u].key = user[u].key
  BY <1>1
<1>6. UsersShaped'
  BY <1>1, <1>5, PoolAssumption DEF UsersShaped
<1>7. OneOwner'
  <2> SUFFICES ASSUME NEW x \in Conn
               PROVE  /\ \A v, w \in User : user'[v].c = x /\ user'[w].c = x => v = w
                      /\ \A v \in User : user'[v].c = x => conn'[x] = "used"
                      /\ conn'[x] = "used" /\ ~closed => \E v \in User : user'[v].c = x
                      /\ conn'[x] = "idle" <=> \E g \in Chan : x \in buf'[g]
                      /\ \A f, g \in Chan : x \in buf'[f] /\ x \in buf'[g] => f = g
    BY DEF OneOwner
  <2>1. CASE x = c
    BY <2>1, <1>2, <1>3, <1>4, <1>5
  <2>2. CASE x # c
    <3>1. user[u].c \notin Conn
      BY DEF UsersShaped
    <3>2. \A v \in User : user'[v].c = x <=> user[v].c = x
      BY <2>2, <3>1, <1>5
    <3>3. conn'[x] = conn[x] /\ \A g \in Chan : x \in buf'[g] <=> x \in buf[g]
      BY <2>2, <1>3, <1>4
    <3> QED BY <3>2, <3>3 DEF OneOwner
  <2> QED BY <2>1, <2>2
<1>8. MapChannelsOpen'
  BY <1>3 DEF MapChannelsOpen
<1>9. NoIdleLost'
  <2>1. \A g \in Chan : buf'[g] # {} => buf[g] # {}
    BY <1>1, <1>3
  <2>2. \A v \in User : user[v].pc = "drain" => user'[v] = user[v]
    BY <1>5
  <2> QED BY <2>1, <2>2 DEF NoIdleLost, ChansOf
<1> QED BY <1>6, <1>7, <1>8, <1>9

\* Get finds an old slot: its channel leaves the map, and the caller drains it.
LEMMA GetDropKeeps ==
  ASSUME ConnectionsKept, NEW u \in User, NEW k \in Key, GetDrop(u, k), TypeOK'
  PROVE  ConnectionsKept'
<1> DEFINE h == keys[k].c
<1> USE DEF ConnectionsKept, TypeOK
<1>1. /\ k \in DOMAIN keys /\ user[u].pc = "idle" /\ shut' = shut \cup {h}
      /\ UNCHANGED <<closed, buf, made, conn>>
  BY DEF GetDrop
<1>2. DOMAIN keys' = DOMAIN keys \ {k} /\ \A j \in DOMAIN keys' : keys'[j] = keys[j]
  BY DEF GetDrop, Without
<1>3. /\ \A v \in User : v # u => user'[v] = user[v]
      /\ user'[u].pc = "drain" /\ user'[u].h = h /\ user'[u].key = k /\ user'[u].c = None
  BY DEF GetDrop
<1>4. h \in Chan /\ h \in made /\ \A j \in DOMAIN keys' : keys'[j].c # h
  BY <1>1, <1>2 DEF Slot, MapChannelsOpen
<1> HIDE DEF h
<1>5. UsersShaped'
  BY <1>3, <1>4, PoolAssumption DEF UsersShaped
<1>6. OneOwner'
  <2>1. user[u].c \notin Conn
    BY <1>1 DEF UsersShaped
  <2>2. \A c \in Conn : \A v \in User : user'[v].c = c <=> user[v].c = c
    BY <1>3, <2>1, PoolAssumption
  <2> QED BY <1>1, <2>2 DEF OneOwner
<1>7. MapChannelsOpen'
  BY <1>1, <1>2, <1>4 DEF MapChannelsOpen
<1>8. NoIdleLost'
  <2> SUFFICES ASSUME NEW g \in Chan, buf[g] # {}
               PROVE  \/ g \in ChansOf(DOMAIN keys)'
                      \/ \E v \in User : user'[v].pc = "drain" /\ user'[v].h = g
    BY <1>1 DEF NoIdleLost
  <2>1. CASE g = h
    BY <2>1, <1>3
  <2>2. CASE g # h /\ g \in ChansOf(DOMAIN keys)
    BY <2>2, <1>2 DEF ChansOf, h
  <2>3. CASE \E v \in User : user[v].pc = "drain" /\ user[v].h = g
    BY <2>3, <1>1, <1>3
  <2> QED BY <2>1, <2>2, <2>3 DEF NoIdleLost
<1> QED BY <1>5, <1>6, <1>7, <1>8

\* Get finds a slot that is young enough and holds its channel.
LEMMA GetHitKeeps ==
  ASSUME ConnectionsKept, NEW u \in User, NEW k \in Key, GetHit(u, k), TypeOK'
  PROVE  ConnectionsKept'
<1> USE DEF ConnectionsKept, TypeOK
<1>1. /\ k \in DOMAIN keys /\ user[u].pc = "idle"
      /\ UNCHANGED <<keys, closed, buf, made, shut, conn>>
  BY DEF GetHit
<1>2. /\ \A v \in User : v # u => user'[v] = user[v]
      /\ user'[u].pc = "receive" /\ user'[u].h = keys[k].c /\ user'[u].key = k
      /\ user'[u].c = None
  BY DEF GetHit
<1>3. keys[k].c \in Chan
  BY <1>1 DEF Slot
<1>4. UsersShaped'
  BY <1>2, <1>3, PoolAssumption DEF UsersShaped
<1>5. OneOwner'
  <2>1. user[u].c \notin Conn
    BY <1>1 DEF UsersShaped
  <2>2. \A c \in Conn : \A v \in User : user'[v].c = c <=> user[v].c = c
    BY <1>2, <2>1, PoolAssumption
  <2> QED BY <1>1, <2>2 DEF OneOwner
<1>6. MapChannelsOpen'
  BY <1>1 DEF MapChannelsOpen
<1>7. NoIdleLost'
  <2>1. \A v \in User : user[v].pc = "drain" => user'[v] = user[v]
    BY <1>1, <1>2
  <2> QED BY <1>1, <2>1 DEF NoIdleLost, ChansOf
<1> QED BY <1>4, <1>5, <1>6, <1>7

\* A user gives its connection up, and nobody else is concerned.
LEMMA UserLeaves ==
  ASSUME ConnectionsKept, NEW u \in User, user[u].pc = "using",
         user' = [user EXCEPT ![u] = NoUser]
  PROVE  /\ UsersShaped'
         /\ user[u].c \in Conn /\ conn[user[u].c] = "used"
         /\ \A h \in Chan : user[u].c \notin buf[h]
         /\ \A v \in User : user'[v].c # user[u].c
         /\ \A x \in Conn : x # user[u].c => \A v \in User : user'[v].c = x <=> user[v].c = x
         /\ \A v \in User : user[v].pc = "drain" => user'[v] = user[v]
<1> USE DEF ConnectionsKept, TypeOK
<1>1. /\ \A v \in User : v # u => user'[v] = user[v]
      /\ user'[u].pc = "idle" /\ user'[u].c = None /\ user'[u].h = None
  BY DEF NoUser
<1>2. UsersShaped'
  BY <1>1, PoolAssumption DEF UsersShaped
<1>3. user[u].c \in Conn /\ user[u].c # None
  BY PoolAssumption DEF UsersShaped
<1>4. conn[user[u].c] = "used" /\ \A h \in Chan : user[u].c \notin buf[h]
  BY <1>3 DEF OneOwner
<1>5. \A v \in User : user'[v].c # user[u].c
  BY <1>1, <1>3 DEF OneOwner
<1>6. \A x \in Conn : x # user[u].c => \A v \in User : user'[v].c = x <=> user[v].c = x
  BY <1>1, PoolAssumption
<1> QED BY <1>1, <1>2, <1>3, <1>4, <1>5, <1>6

\* The user closes its connection, or leaves it open when the pool is closed.
LEMMA GivenUpKeeps ==
  ASSUME ConnectionsKept, NEW u \in User, Discard(u) \/ ReturnClosed(u), TypeOK'
  PROVE  ConnectionsKept'
<1> DEFINE c == user[u].c
<1> USE DEF ConnectionsKept, TypeOK
<1>1. /\ user[u].pc = "using" /\ user' = [user EXCEPT ![u] = NoUser]
      /\ UNCHANGED <<keys, closed, buf, made, shut>>
  BY DEF Discard, ReturnClosed
<1>2. /\ UsersShaped'
      /\ c \in Conn /\ conn[c] = "used"
      /\ \A h \in Chan : c \notin buf[h]
      /\ \A v \in User : user'[v].c # c
      /\ \A x \in Conn : x # c => \A v \in User : user'[v].c = x <=> user[v].c = x
      /\ \A v \in User : user[v].pc = "drain" => user'[v] = user[v]
  BY <1>1, UserLeaves
<1>3. /\ \A x \in Conn : x # c => conn'[x] = conn[x]
      /\ conn'[c] = "closed" \/ (conn'[c] = "used" /\ closed)
  BY <1>2 DEF Discard, ReturnClosed
<1> HIDE DEF c
<1>4. MapChannelsOpen' /\ NoIdleLost'
  <2>1. MapChannelsOpen'
    BY <1>1 DEF MapChannelsOpen
  <2>2. ChansOf(DOMAIN keys)' = ChansOf(DOMAIN keys)
    BY <1>1 DEF ChansOf
  <2> QED BY <1>1, <1>2, <2>1, <2>2 DEF NoIdleLost
<1>5. OneOwner'
  <2> SUFFICES ASSUME NEW x \in Conn
               PROVE  /\ \A v, w \in User : user'[v].c = x /\ user'[w].c = x => v = w
                      /\ \A v \in User : user'[v].c = x => conn'[x] = "used"
                      /\ conn'[x] = "used" /\ ~closed => \E v \in User : user'[v].c = x
                      /\ conn'[x] = "idle" <=> \E g \in Chan : x \in buf[g]
                      /\ \A f, g \in Chan : x \in buf[f] /\ x \in buf[g] => f = g
    BY <1>1 DEF OneOwner
  <2>1. CASE x = c
    BY <2>1, <1>2, <1>3
  <2>2. CASE x # c
    BY <2>2, <1>2, <1>3 DEF OneOwner
  <2> QED BY <2>1, <2>2
<1> QED BY <1>2, <1>4, <1>5

\* Return finds the slot of the key: the connection is buffered or closed.
LEMMA ReturnHitKeeps ==
  ASSUME ConnectionsKept, NEW u \in User, ReturnHit(u), TypeOK'
  PROVE  ConnectionsKept'
<1> DEFINE c == user[u].c
           h == keys[user[u].key].c
<1> USE DEF ConnectionsKept, TypeOK
<1>1. /\ user[u].pc = "using" /\ user' = [user EXCEPT ![u] = NoUser]
      /\ user[u].key \in DOMAIN keys
      /\ UNCHANGED <<keys, closed, made, shut>>
  BY DEF ReturnHit
<1>2. /\ UsersShaped'
      /\ c \in Conn /\ conn[c] = "used"
      /\ \A g \in Chan : c \notin buf[g]
      /\ \A v \in User : user'[v].c # c
      /\ \A x \in Conn : x # c => \A v \in User : user'[v].c = x <=> user[v].c = x
      /\ \A v \in User : user[v].pc = "drain" => user'[v] = user[v]
  BY <1>1, UserLeaves
<1>3. h \in Chan /\ h \in made /\ h \in ChansOf(DOMAIN keys)
  BY <1>1 DEF Slot, MapChannelsOpen, ChansOf
<1>4. /\ \A x \in Conn : x # c => conn'[x] = conn[x]
      /\ \A g \in Chan : g # h => buf'[g] = buf[g]
      /\ \/ conn'[c] = "idle" /\ buf'[h] = buf[h] \cup {c}
         \/ conn'[c] = "closed" /\ buf'[h] = buf[h]
  BY <1>2, <1>3 DEF ReturnHit
<1> HIDE DEF c, h
<1>5. MapChannelsOpen'
  BY <1>1, <1>3, <1>4 DEF MapChannelsOpen
<1>6. NoIdleLost'
  BY <1>1, <1>2, <1>3, <1>4 DEF NoIdleLost, ChansOf
<1>7. OneOwner'
  <2> SUFFICES ASSUME NEW x \in Conn
               PROVE  /\ \A v, w \in User : user'[v].c = x /\ user'[w].c = x => v = w
                      /\ \A v \in User : user'[v].c = x => conn'[x] = "used"
                      /\ conn'[x] = "used" /\ ~closed => \E v \in User : user'[v].c = x
                      /\ conn'[x] = "idle" <=> \E g \in Chan : x \in buf'[g]
                      /\ \A f, g \in Chan : x \in buf'[f] /\ x \in buf'[g] => f = g
    BY <1>1 DEF OneOwner
  <2>1. CASE x = c
    <3>1. \A g \in Chan : g # h => c \notin buf'[g]
      BY <1>2, <1>4
    <3>2. CASE conn'[c] = "idle" /\ buf'[h] = buf[h] \cup {c}
      BY <2>1, <3>1, <3>2, <1>2, <1>3
    <3>3. CASE conn'[c] = "closed" /\ buf'[h] = buf[h]
      BY <2>1, <3>1, <3>3, <1>2, <1>3
    <3> QED BY <3>2, <3>3, <1>4
  <2>2. CASE x # c
    <3>1. \A g \in Chan : x \in buf'[g] <=> x \in buf[g]
      BY <2>2, <1>3, <1>4
    <3> QED BY <2>2, <3>1, <1>2, <1>4 DEF OneOwner
  <2> QED BY <2>1, <2>2
<1> QED BY <1>2, <1>5, <1>6, <1>7

\* Return finds no slot: stale ones may be dropped, and a slot with a channel of
\* its own is made for the connection.
LEMMA ReturnMissKeeps ==
  ASSUME ConnectionsKept, NEW u \in User, ReturnMiss(u), TypeOK'
  PROVE  ConnectionsKept'
<1> DEFINE c == user[u].c
           k == user[u].key
           old == IF Cardinality(DOMAIN keys) = MaxKeys THEN StaleKeys ELSE {}
           H == ChansOf(old)
<1> USE DEF ConnectionsKept, TypeOK
<1>1. /\ user[u].pc = "using" /\ user' = [user EXCEPT ![u] = NoUser]
      /\ k \notin DOMAIN keys /\ ~closed /\ closed' = closed
  BY DEF ReturnMiss
<1>2. /\ UsersShaped'
      /\ c \in Conn /\ conn[c] = "used"
      /\ \A g \in Chan : c \notin buf[g]
      /\ \A v \in User : user'[v].c # c
      /\ \A x \in Conn : x # c => \A v \in User : user'[v].c = x <=> user[v].c = x
      /\ \A v \in User : user[v].pc = "drain" => user'[v] = user[v]
  BY <1>1, UserLeaves
<1>3. old \subseteq DOMAIN keys
  BY DEF StaleKeys
<1>4. H \subseteq made \ shut /\ \A j \in DOMAIN keys \ old : keys[j].c \notin H
  BY <1>3, ChansOfRest
<1>5. PICK h \in Chan \ made :
        /\ made' = made \cup {h}
        /\ keys' = [x \in (DOMAIN keys \ old) \cup {k} |->
                      IF x = k THEN [c |-> h, lastUse |-> now] ELSE keys[x]]
        /\ shut' = shut \cup H
        /\ buf' = [x \in Chan |-> IF x \in H THEN {}
                                  ELSE IF x = h /\ MaxConnsPerKey > 0 THEN {c} ELSE buf[x]]
        /\ conn' = [x \in Conn |-> IF \E g \in H : x \in buf[g] THEN "closed"
                                   ELSE IF x # c THEN conn[x]
                                   ELSE IF MaxConnsPerKey > 0 THEN "idle" ELSE "closed"]
  BY DEF ReturnMiss
<1> HIDE DEF c, k, old, H
<1>6. /\ DOMAIN keys' = (DOMAIN keys \ old) \cup {k}
      /\ keys'[k].c = h
      /\ \A j \in DOMAIN keys \ old : keys'[j] = keys[j]
  BY <1>1, <1>5
<1>7. buf[h] = {} /\ h \notin H /\ h \notin shut
  BY <1>4, <1>5 DEF MapChannelsOpen
<1>8. /\ \A g \in H : buf'[g] = {}
      /\ \A g \in Chan : g \notin H /\ g # h => buf'[g] = buf[g]
      /\ \/ conn'[c] = "idle" /\ buf'[h] = {c}
         \/ conn'[c] = "closed" /\ buf'[h] = {}
      /\ \A x \in Conn : x # c => conn'[x] = IF \E g \in H : x \in buf[g] THEN "closed" ELSE conn[x]
  <2>1. ~ \E g \in H : c \in buf[g]
    BY <1>2, <1>4
  <2>2. H \subseteq Chan
    BY <1>4
  <2> QED BY <1>2, <1>5, <1>7, <2>1, <2>2
<1>9. MapChannelsOpen'
  <2>1. \A j \in DOMAIN keys' : keys'[j].c \in made' \ shut'
    BY <1>4, <1>5, <1>6, <1>7 DEF MapChannelsOpen
  <2>2. \A i, j \in DOMAIN keys' : keys'[i].c = keys'[j].c => i = j
    BY <1>5, <1>6 DEF MapChannelsOpen
  <2>3. \A g \in Chan \ made' : buf'[g] = {}
    BY <1>5, <1>8 DEF MapChannelsOpen
  <2> QED BY <1>1, <2>1, <2>2, <2>3 DEF MapChannelsOpen
<1>10. NoIdleLost'
  <2> SUFFICES ASSUME NEW g \in Chan, buf'[g] # {}
               PROVE  \/ g \in ChansOf(DOMAIN keys)'
                      \/ \E v \in User : user'[v].pc = "drain" /\ user'[v].h = g
    BY DEF NoIdleLost
  <2>1. CASE g = h
    BY <2>1, <1>6 DEF ChansOf
  <2>2. CASE g # h
    <3>1. g \notin H /\ buf[g] # {}
      BY <2>2, <1>8
    <3>2. CASE g \in ChansOf(DOMAIN keys)
      <4>1. PICK j \in DOMAIN keys : g = keys[j].c
        BY <3>2 DEF ChansOf
      <4>2. j \notin old
        BY <3>1, <4>1 DEF H, ChansOf
      <4>3. j \in DOMAIN keys' /\ keys'[j].c = g
        BY <1>6, <4>1, <4>2
      <4> QED BY <4>3 DEF ChansOf
    <3>3. CASE \E v \in User : user[v].pc = "drain" /\ user[v].h = g
      BY <3>3, <1>2
    <3> QED BY <3>1, <3>2, <3>3 DEF NoIdleLost
  <2> QED BY <2>1, <2>2
<1>11. OneOwner'
  <2> SUFFICES ASSUME NEW x \in Conn
               PROVE  /\ \A v, w \in User : user'[v].c = x /\ user'[w].c = x => v = w
                      /\ \A v \in User : user'[v].c = x => conn'[x] = "used"
                      /\ conn'[x] = "used" /\ ~closed => \E v \in User : user'[v].c = x
                      /\ conn'[x] = "idle" <=> \E g \in Chan : x \in buf'[g]
                      /\ \A f, g \in Chan : x \in buf'[f] /\ x \in buf'[g] => f = g
    BY <1>1 DEF OneOwner
  <2>0. H \subseteq Chan
    BY <1>4
  <2>1. CASE x = c
    <3>1. \A g \in Chan : g # h => c \notin buf'[g]
      BY <1>2, <1>8
    <3> QED BY <2>1, <3>1, <1>2, <1>8
  <2>2. CASE x # c /\ \E g \in H : x \in buf[g]
    <3>1. conn[x] = "idle" /\ conn'[x] = "closed"
      BY <2>0, <2>2, <1>8 DEF OneOwner
    <3>2. \A v \in User : user'[v].c # x
      BY <2>2, <3>1, <1>2 DEF OneOwner
    <3>3. \A g \in Chan : x \notin buf'[g]
      BY <2>0, <2>2, <1>8 DEF OneOwner
    <3> QED BY <3>1, <3>2, <3>3
  <2>3. CASE x # c /\ ~ \E g \in H : x \in buf[g]
    <3>1. conn'[x] = conn[x]
      BY <2>3, <1>8
    <3>2. \A g \in Chan : x \in buf'[g] <=> x \in buf[g]
      BY <2>0, <2>3, <1>7, <1>8
    <3> QED BY <2>3, <3>1, <3>2, <1>2 DEF OneOwner
  <2> QED BY <2>1, <2>2, <2>3
<1> QED BY <1>2, <1>9, <1>10, <1>11

-----------------------------------------------------------------------------
(* Types.  Only Return adds to a channel, and only when there is room. *)

LEMMA RemovedFinite ==
  ASSUME NEW S, NEW c, IsFiniteSet(S), Cardinality(S) <= MaxConnsPerKey
  PROVE  IsFiniteSet(S \ {c}) /\ Cardinality(S \ {c}) <= MaxConnsPerKey
<1>1. /\ IsFiniteSet(S \ {c}) /\ Cardinality(S) \in Nat
      /\ Cardinality(S \ {c}) = IF c \in S THEN Cardinality(S) - 1 ELSE Cardinality(S)
  BY FS_RemoveElement, FS_CardinalityType
<1> QED BY <1>1, PoolAssumption

LEMMA NewConnType ==
  ASSUME ConnectionsKept, NEW u \in User, NEW k \in Key, NewConn(u, k)
  PROVE  /\ conn' \in [Conn -> {"unborn", "idle", "used", "closed"}]
         /\ usable' \in [Conn -> BOOLEAN]
         /\ usedAt' \in [Conn -> 0..MaxTime]
         /\ user' \in [User -> [pc: {"idle", "drain", "receive", "using"}, key: Key \cup {None},
                                h: Chan \cup {None}, c: Conn \cup {None}]]
BY DEF ConnectionsKept, TypeOK, NewConn, NoUser

\* Dropping slots leaves the other slots and the contents of their channels.
LEMMA CloseAllType ==
  ASSUME ConnectionsKept, NEW K \in SUBSET DOMAIN keys, CloseAll(ChansOf(K))
  PROVE  /\ shut' \subseteq made
         /\ buf' \in [Chan -> SUBSET Conn]
         /\ \A h \in Chan : IsFiniteSet(buf'[h]) /\ Cardinality(buf'[h]) <= MaxConnsPerKey
         /\ conn' \in [Conn -> {"unborn", "idle", "used", "closed"}]
<1> USE DEF ConnectionsKept, TypeOK
<1>1. shut' \subseteq made
  BY ChansOfRest DEF CloseAll
<1>2. buf' \in [Chan -> SUBSET Conn]
  BY DEF CloseAll
<1>3. \A h \in Chan : IsFiniteSet(buf'[h]) /\ Cardinality(buf'[h]) <= MaxConnsPerKey
  BY FS_EmptySet, PoolAssumption DEF CloseAll
<1>4. conn' \in [Conn -> {"unborn", "idle", "used", "closed"}]
  BY DEF CloseAll
<1> QED BY <1>1, <1>2, <1>3, <1>4

LEMMA WithoutType ==
  ASSUME ConnectionsKept, NEW K
  PROVE  /\ DOMAIN Without(keys, K) \subseteq Key
         /\ \A k \in DOMAIN Without(keys, K) : Without(keys, K)[k] \in Slot
BY DEF ConnectionsKept, TypeOK, Without

LEMMA TypeStep ==
  ASSUME ConnectionsKept, [Next]_vars
  PROVE  TypeOK'
<1> USE DEF ConnectionsKept, TypeOK, connVars, goroutines
<1>1. ASSUME NEW u \in User, NEW k \in Key, GetMiss(u, k) PROVE TypeOK'
  BY <1>1, NewConnType DEF GetMiss
<1>2. ASSUME NEW u \in User, NEW k \in Key, GetDrop(u, k) PROVE TypeOK'
  <2>1. keys[k] \in Slot /\ keys[k].c \in Chan /\ keys[k].c \in made
    BY <1>2 DEF GetDrop, Slot, MapChannelsOpen
  <2>2. user' \in [User -> [pc: {"idle", "drain", "receive", "using"}, key: Key \cup {None},
                            h: Chan \cup {None}, c: Conn \cup {None}]]
    BY <1>2, <2>1 DEF GetDrop
  <2>3. DOMAIN keys' \subseteq Key /\ \A j \in DOMAIN keys' : keys'[j] \in Slot
    BY <1>2, WithoutType DEF GetDrop
  <2> QED BY <1>2, <2>1, <2>2, <2>3 DEF GetDrop
<1>3. ASSUME NEW u \in User, NEW k \in Key, GetHit(u, k) PROVE TypeOK'
  <2>1. keys[k].c \in Chan
    BY <1>3 DEF GetHit, Slot
  <2> QED BY <1>3, <2>1 DEF GetHit
<1>4. ASSUME NEW u \in User, Drain(u) PROVE TypeOK'
  <2>1. user[u].key \in Key /\ user[u].h \in Chan
    BY <1>4 DEF Drain, UsersShaped
  <2>2. CASE NewConn(u, user[u].key) /\ UNCHANGED buf
    BY <1>4, <2>1, <2>2, NewConnType DEF Drain
  <2>3. ASSUME NEW c \in buf[user[u].h],
               buf' = [buf EXCEPT ![user[u].h] = @ \ {c}],
               conn' = [conn EXCEPT ![c] = "closed"], UNCHANGED <<user, connVars>>
        PROVE  TypeOK'
    <3>1. \A h \in Chan : IsFiniteSet(buf'[h]) /\ Cardinality(buf'[h]) <= MaxConnsPerKey
      BY <2>1, <2>3, RemovedFinite
    <3>2. buf' \in [Chan -> SUBSET Conn]
      BY <2>1, <2>3
    <3> QED BY <1>4, <2>1, <2>3, <3>1, <3>2 DEF Drain
  <2> QED BY <1>4, <2>2, <2>3 DEF Drain
<1>5. ASSUME NEW u \in User, Receive(u) PROVE TypeOK'
  <2>1. user[u].key \in Key /\ user[u].h \in Chan
    BY <1>5 DEF Receive, UsersShaped
  <2>2. CASE NewConn(u, user[u].key) /\ UNCHANGED buf
    BY <1>5, <2>1, <2>2, NewConnType DEF Receive
  <2>3. ASSUME NEW c \in buf[user[u].h],
               buf' = [buf EXCEPT ![user[u].h] = @ \ {c}],
               \/ /\ conn' = [conn EXCEPT ![c] = "used"]
                  /\ user' = [user EXCEPT ![u].pc = "using", ![u].h = None, ![u].c = c]
               \/ conn' = [conn EXCEPT ![c] = "closed"] /\ UNCHANGED user,
               UNCHANGED connVars
        PROVE  TypeOK'
    <3>1. \A h \in Chan : IsFiniteSet(buf'[h]) /\ Cardinality(buf'[h]) <= MaxConnsPerKey
      BY <2>1, <2>3, RemovedFinite
    <3>2. buf' \in [Chan -> SUBSET Conn] /\ c \in Conn
      BY <2>1, <2>3
    <3>3. user' \in [User -> [pc: {"idle", "drain", "receive", "using"}, key: Key \cup {None},
                              h: Chan \cup {None}, c: Conn \cup {None}]]
      BY <2>3, <3>2
    <3>4. conn' \in [Conn -> {"unborn", "idle", "used", "closed"}]
      BY <2>3, <3>2
    <3> QED BY <1>5, <2>3, <3>1, <3>2, <3>3, <3>4 DEF Receive
  <2> QED BY <1>5, <2>2, <2>3 DEF Receive
<1>6. ASSUME NEW u \in User, Use(u) \/ Discard(u) \/ ReturnClosed(u) PROVE TypeOK'
  <2>1. user[u].c \in Conn
    BY <1>6 DEF Use, Discard, ReturnClosed, UsersShaped
  <2>2. NoUser \in [pc: {"idle", "drain", "receive", "using"}, key: Key \cup {None},
                    h: Chan \cup {None}, c: Conn \cup {None}]
    BY DEF NoUser
  <2> QED BY <1>6, <2>1, <2>2 DEF Use, Discard, ReturnClosed
<1>7. ASSUME NEW u \in User, ReturnHit(u) PROVE TypeOK'
  <2> DEFINE c == user[u].c
             h == keys[user[u].key].c
  <2>1. c \in Conn /\ h \in Chan
    BY <1>7 DEF ReturnHit, UsersShaped, Slot
  <2>2. user' \in [User -> [pc: {"idle", "drain", "receive", "using"}, key: Key \cup {None},
                            h: Chan \cup {None}, c: Conn \cup {None}]]
    BY <1>7 DEF ReturnHit, NoUser
  <2>3. CASE /\ Cardinality(buf[h]) < MaxConnsPerKey
             /\ buf' = [buf EXCEPT ![h] = @ \cup {c}]
             /\ conn' = [conn EXCEPT ![c] = "idle"]
    <3>1. /\ IsFiniteSet(buf[h] \cup {c}) /\ Cardinality(buf[h]) \in Nat
          /\ Cardinality(buf[h] \cup {c}) <= Cardinality(buf[h]) + 1
      <4> DEFINE B == buf[h]
      <4>1. IsFiniteSet(B)
        BY <2>1
      <4> HIDE DEF B, c, h
      <4>2. /\ IsFiniteSet(B \cup {c}) /\ Cardinality(B) \in Nat
            /\ Cardinality(B \cup {c}) = IF c \in B THEN Cardinality(B) ELSE Cardinality(B) + 1
        BY <4>1, FS_AddElement, FS_CardinalityType
      <4>3. Cardinality(B \cup {c}) <= Cardinality(B) + 1
        BY <4>2
      <4> QED BY <4>2, <4>3 DEF B
    <3>2. IsFiniteSet(buf[h] \cup {c}) /\ Cardinality(buf[h] \cup {c}) <= MaxConnsPerKey
      <4>1. Cardinality(buf[h] \cup {c}) \in Nat
        BY <3>1, FS_CardinalityType
      <4> QED BY <2>3, <3>1, <4>1, PoolAssumption
    <3>3. \A g \in Chan : IsFiniteSet(buf'[g]) /\ Cardinality(buf'[g]) <= MaxConnsPerKey
      BY <2>1, <2>3, <3>2
    <3> QED BY <1>7, <2>1, <2>2, <2>3, <3>3 DEF ReturnHit
  <2>4. CASE conn' = [conn EXCEPT ![c] = "closed"] /\ UNCHANGED buf
    BY <1>7, <2>1, <2>2, <2>4 DEF ReturnHit
  <2> QED BY <1>7, <2>3, <2>4 DEF ReturnHit
<1>8. ASSUME NEW u \in User, ReturnMiss(u) PROVE TypeOK'
  <2> DEFINE c == user[u].c
             k == user[u].key
             old == IF Cardinality(DOMAIN keys) = MaxKeys THEN StaleKeys ELSE {}
             H == ChansOf(old)
  <2>1. c \in Conn /\ k \in Key
    BY <1>8 DEF ReturnMiss, UsersShaped
  <2>2. H \subseteq made
    <3>1. old \subseteq DOMAIN keys
      BY DEF StaleKeys
    <3> QED BY <3>1, ChansOfRest
  <2>3. PICK h \in Chan \ made :
        /\ made' = made \cup {h}
        /\ keys' = [x \in (DOMAIN keys \ old) \cup {k} |->
                      IF x = k THEN [c |-> h, lastUse |-> now] ELSE keys[x]]
        /\ shut' = shut \cup H
        /\ buf' = [x \in Chan |-> IF x \in H THEN {}
                                  ELSE IF x = h /\ MaxConnsPerKey > 0 THEN {c} ELSE buf[x]]
        /\ conn' = [x \in Conn |-> IF \E g \in H : x \in buf[g] THEN "closed"
                                   ELSE IF x # c THEN conn[x]
                                   ELSE IF MaxConnsPerKey > 0 THEN "idle" ELSE "closed"]
    BY <1>8 DEF ReturnMiss
  <2>4. /\ user' = [user EXCEPT ![u] = NoUser]
        /\ UNCHANGED <<now, closed, usable, usedAt, lock, ticker, closer>>
    BY <1>8 DEF ReturnMiss
  <2> HIDE DEF c, k, old, H
  <2>5. DOMAIN keys' \subseteq Key /\ \A x \in DOMAIN keys' : keys'[x] \in Slot
    <3>1. [c |-> h, lastUse |-> now] \in Slot
      BY PoolAssumption DEF Slot
    <3> QED BY <2>1, <2>3, <3>1
  <2>6. buf' \in [Chan -> SUBSET Conn]
    BY <2>1, <2>3
  <2>7. \A g \in Chan : IsFiniteSet(buf'[g]) /\ Cardinality(buf'[g]) <= MaxConnsPerKey
    <3>1. IsFiniteSet({}) /\ Cardinality({}) <= MaxConnsPerKey
      BY FS_EmptySet, PoolAssumption
    <3>2. MaxConnsPerKey > 0 => IsFiniteSet({c}) /\ Cardinality({c}) <= MaxConnsPerKey
      <4>1. IsFiniteSet({c}) /\ Cardinality({c}) = 1
        BY FS_Singleton
      <4> QED BY <4>1, PoolAssumption
    <3> QED BY <2>3, <3>1, <3>2
  <2>8. conn' \in [Conn -> {"unborn", "idle", "used", "closed"}]
    BY <2>3
  <2>9. user' \in [User -> [pc: {"idle", "drain", "receive", "using"}, key: Key \cup {None},
                            h: Chan \cup {None}, c: Conn \cup {None}]]
    BY <2>4 DEF NoUser
  <2>10. made' \subseteq Chan /\ shut' \subseteq made'
    BY <2>2, <2>3
  <2> QED BY <2>4, <2>5, <2>6, <2>7, <2>8, <2>9, <2>10
<1>9. CASE CleanUp
  <2>1. StaleKeys \subseteq DOMAIN keys
    BY DEF StaleKeys
  <2> QED BY <1>9, <2>1, CloseAllType, WithoutType DEF CleanUp
<1>10. CASE CloseDrops
  BY <1>10, CloseAllType DEF CloseDrops
<1>11. CASE UNCHANGED vars \/ CleanUpTick \/ CloseCalled \/ CloseStops
  BY <1>11 DEF vars, CleanUpTick, CloseCalled, CloseStops
<1>12. CASE Tick
  BY <1>12, PoolAssumption DEF Tick
<1>13. ASSUME NEW c \in Conn, Break(c) PROVE TypeOK'
  BY <1>13 DEF Break
<1> QED
  BY <1>1, <1>2, <1>3, <1>4, <1>5, <1>6, <1>7, <1>8, <1>9, <1>10, <1>11, <1>12, <1>13 DEF Next

-----------------------------------------------------------------------------
(* ConnectionsKept is inductive *)

LEMMA PoolInit ==
  ASSUME Init
  PROVE  ConnectionsKept
<1>1. IsFiniteSet({}) /\ Cardinality({}) <= MaxConnsPerKey
  BY FS_EmptySet, PoolAssumption
<1>2. TypeOK
  <2>1. 0 \in 0..MaxTime
    BY PoolAssumption
  <2>2. NoUser \in [pc: {"idle", "drain", "receive", "using"}, key: Key \cup {None},
                    h: Chan \cup {None}, c: Conn \cup {None}]
    BY DEF NoUser
  <2>3. usable \in [Conn -> BOOLEAN] /\ DOMAIN keys = {}
    BY DEF Init
  <2> QED BY <1>1, <2>1, <2>2, <2>3 DEF Init, TypeOK
<1>3. UsersShaped /\ OneOwner
  BY PoolAssumption DEF Init, NoUser, UsersShaped, OneOwner
<1>4. MapChannelsOpen /\ NoIdleLost
  BY DEF Init, MapChannelsOpen, NoIdleLost
<1> QED BY <1>2, <1>3, <1>4 DEF ConnectionsKept

LEMMA PoolStep ==
  ASSUME ConnectionsKept, [Next]_vars
  PROVE  ConnectionsKept'
<1>0. TypeOK'
  BY TypeStep
<1>1. ASSUME NEW u \in User, NEW k \in Key, GetMiss(u, k) PROVE ConnectionsKept'
  BY <1>0, <1>1, NewConnKeeps DEF GetMiss
<1>2. ASSUME NEW u \in User, NEW k \in Key, GetDrop(u, k) \/ GetHit(u, k) PROVE ConnectionsKept'
  BY <1>0, <1>2, GetDropKeeps, GetHitKeeps
<1>3. ASSUME NEW u \in User, Drain(u) PROVE ConnectionsKept'
  <2>1. user[u].key \in Key
    BY <1>3 DEF Drain, ConnectionsKept, UsersShaped
  <2>2. CASE buf[user[u].h] = {} /\ NewConn(u, user[u].key) /\ UNCHANGED buf
    BY <1>0, <1>3, <2>1, <2>2, NewConnKeeps DEF Drain
  <2>3. ASSUME NEW c \in buf[user[u].h],
               buf' = [buf EXCEPT ![user[u].h] = @ \ {c}],
               conn' = [conn EXCEPT ![c] = "closed"], UNCHANGED user
        PROVE  ConnectionsKept'
    <3>1. user[u].pc \in {"drain", "receive"} /\ UNCHANGED <<keys, closed, made, shut>>
      BY <1>3 DEF Drain
    <3> QED BY <1>0, <2>3, <3>1, TakenOut
  <2> QED BY <1>3, <2>2, <2>3 DEF Drain
<1>4. ASSUME NEW u \in User, Receive(u) PROVE ConnectionsKept'
  <2>1. user[u].key \in Key
    BY <1>4 DEF Receive, ConnectionsKept, UsersShaped
  <2>2. CASE NewConn(u, user[u].key) /\ UNCHANGED buf
    BY <1>0, <1>4, <2>1, <2>2, NewConnKeeps DEF Receive
  <2>3. ASSUME NEW c \in buf[user[u].h],
               buf' = [buf EXCEPT ![user[u].h] = @ \ {c}],
               \/ /\ conn' = [conn EXCEPT ![c] = "used"]
                  /\ user' = [user EXCEPT ![u].pc = "using", ![u].h = None, ![u].c = c]
               \/ conn' = [conn EXCEPT ![c] = "closed"] /\ UNCHANGED user
        PROVE  ConnectionsKept'
    <3>1. user[u].pc = "receive" /\ UNCHANGED <<keys, closed, made, shut>>
      BY <1>4 DEF Receive
    <3> QED BY <1>0, <2>3, <3>1, TakenOut
  <2> QED BY <1>4, <2>2, <2>3 DEF Receive
<1>5. ASSUME NEW u \in User, Discard(u) \/ ReturnClosed(u) PROVE ConnectionsKept'
  BY <1>0, <1>5, GivenUpKeeps
<1>6. ASSUME NEW u \in User, ReturnHit(u) \/ ReturnMiss(u) PROVE ConnectionsKept'
  BY <1>0, <1>6, ReturnHitKeeps, ReturnMissKeeps
<1>7. CASE CleanUp
  <2>1. StaleKeys \in SUBSET DOMAIN keys
    BY DEF StaleKeys
  <2>2. closed \in BOOLEAN
    BY DEF ConnectionsKept, TypeOK
  <2> QED BY <1>0, <1>7, <2>1, <2>2, DroppedSlots DEF CleanUp
<1>8. CASE CloseDrops
  <2>1. keys' = Without(keys, DOMAIN keys)
    BY <1>8 DEF CloseDrops, Without
  <2> QED BY <1>0, <1>8, <2>1, DroppedSlots DEF CloseDrops
<1>9. CASE UNCHANGED vars \/ CleanUpTick \/ CloseCalled \/ CloseStops \/ Tick
  BY <1>0, <1>9, Frame DEF vars, CleanUpTick, CloseCalled, CloseStops, Tick
<1>10. ASSUME NEW u \in User, Use(u) PROVE ConnectionsKept'
  BY <1>0, <1>10, Frame DEF Use
<1>11. ASSUME NEW c \in Conn, Break(c) PROVE ConnectionsKept'
  BY <1>0, <1>11, Frame DEF Break
<1> QED
  BY <1>1, <1>2, <1>3, <1>4, <1>5, <1>6, <1>7, <1>8, <1>9, <1>10, <1>11 DEF Next

\* However Get, Return, CleanUp and Close overlap, a connection belongs to one
\* delivery or to one channel, nobody sends on or closes a closed channel, and
\* no idle connection is left in a channel that nobody can reach.
THEOREM PoolCorrect == Spec => []ConnectionsKept
<1>1. Init => ConnectionsKept
  BY PoolInit
<1>2. ConnectionsKept /\ [Next]_vars => ConnectionsKept'
  BY PoolStep
<1> QED BY <1>1, <1>2, PTL DEF Spec

-----------------------------------------------------------------------------
(* Signing *)

LEMMA KeysInit == SigningInit => KeyInv
<1> SUFFICES ASSUME SigningInit PROVE KeyInv
  OBVIOUS
<1>1. group \in Groups /\ SignDomains \in Seq(KeyDomains) /\ SignDomains # <<>>
  BY SigningAssumption DEF SigningInit, SignDomains
<1>2. SignDomains[1] \in KeyDomains
  BY <1>1
<1>3. KeysTyped
  BY <1>1, <1>2 DEF KeysTyped, SigningInit, NoSigners, FilesRecord, BootRecord, DnsRecord, SpentRecord, Making
<1> QED BY <1>1, <1>3 DEF KeyInv, BootPlace, RecordsKept, KeyUnderWay, SignersSoFar, SigningInit, Making

\* The domain a start is at is one of the configured domains.
LEMMA DomainAt ==
  ASSUME KeysTyped, BootPlace
  PROVE  /\ SignDomains \in Seq(KeyDomains) /\ Len(SignDomains) \in Nat /\ Len(SignDomains) > 0
         /\ \A j \in 1 .. Len(SignDomains) : SignDomains[j] \in KeyDomains
         /\ boot.at \in Making \cup {"load"} => Domain1 \in KeyDomains
         /\ SignSet \subseteq KeyDomains
<1>1. SignDomains \in Seq(KeyDomains) /\ SignDomains # <<>>
  BY SigningAssumption DEF KeysTyped, SignDomains
<1>2. Len(SignDomains) \in Nat /\ Len(SignDomains) > 0 /\ \A j \in 1 .. Len(SignDomains) : SignDomains[j] \in KeyDomains
  BY <1>1, EmptySeq, LenProperties
<1>3. SignSet \subseteq KeyDomains
  BY <1>1, <1>2 DEF SignSet, ToSet
<1> QED BY <1>1, <1>2, <1>3 DEF BootPlace, Domain1

\* The steps of the key files, by what they write.
KeyIsReady(k) == \* KeyReady, as a relation of the records
  /\ boot'.signers = [boot.signers EXCEPT ![Domain1] = k] /\ boot'.i = boot.i + 1
  /\ boot'.at = (IF boot.i = Len(SignDomains) THEN "running" ELSE "load")

LEMMA ReadyTyped ==
  ASSUME KeysTyped, NEW k \in Int, KeyReady(k)
  PROVE  boot' \in BootRecord /\ KeyIsReady(k)
<1>1. PICK at \in {"running", "load"} : at = (IF boot.i = Len(SignDomains) THEN "running" ELSE "load")
  OBVIOUS
<1>2. [boot.signers EXCEPT ![Domain1] = k] \in [KeyDomains -> Int]
  BY DEF KeysTyped, BootRecord
<1>3. boot' = [boot EXCEPT !.signers = [boot.signers EXCEPT ![Domain1] = k], !.i = boot.i + 1, !.k = 0, !.at = at]
  BY <1>1 DEF KeyReady, KeysTyped, BootRecord
<1>4. boot' = [at |-> at, i |-> boot.i + 1, k |-> 0, signers |-> [boot.signers EXCEPT ![Domain1] = k]]
  BY <1>3 DEF KeysTyped, BootRecord
<1>5. boot' \in BootRecord
  BY <1>1, <1>2, <1>4 DEF KeysTyped, BootRecord, Making
<1> QED BY <1>1, <1>4, <1>5 DEF KeyIsReady

LEMMA SpentTyped ==
  ASSUME NEW s \in SpentRecord, NEW b \in BOOLEAN, NEW n \in Nat
  PROVE  /\ [s EXCEPT !.breaks = n] \in SpentRecord /\ [s EXCEPT !.sends = n] \in SpentRecord
         /\ [s EXCEPT !.keys = n] \in SpentRecord
         /\ [s EXCEPT !.boots = n, !.meddled = b] \in SpentRecord
         /\ [s EXCEPT !.keys = n, !.meddled = b] \in SpentRecord
         /\ [s EXCEPT !.breaks = n, !.meddled = b] \in SpentRecord
<1>1. [s EXCEPT !.breaks = n] \in SpentRecord /\ [s EXCEPT !.sends = n] \in SpentRecord /\ [s EXCEPT !.keys = n] \in SpentRecord
  BY DEF SpentRecord
<1>2. [s EXCEPT !.boots = n, !.meddled = b] \in SpentRecord
  BY DEF SpentRecord
<1>3. [s EXCEPT !.keys = n, !.meddled = b] \in SpentRecord
  BY DEF SpentRecord
<1>4. [s EXCEPT !.breaks = n, !.meddled = b] \in SpentRecord
  BY DEF SpentRecord
<1> QED BY <1>1, <1>2, <1>3, <1>4

LEMMA MeddledKept ==
  ASSUME NEW s \in SpentRecord, NEW n \in Nat
  PROVE  /\ [s EXCEPT !.breaks = n].meddled = s.meddled /\ [s EXCEPT !.sends = n].meddled = s.meddled
         /\ [s EXCEPT !.keys = n].meddled = s.meddled
  BY DEF SpentRecord

LEMMA MeddledSet ==
  ASSUME NEW s \in SpentRecord, NEW b \in BOOLEAN, NEW n \in Nat
  PROVE  [s EXCEPT !.boots = n, !.meddled = b].meddled = b /\ [s EXCEPT !.keys = n, !.meddled = b].meddled = b
  BY DEF SpentRecord

LEMMA KeysTypedStep == KeysTyped /\ BootPlace /\ [SigningNext]_svars => KeysTyped'
<1> SUFFICES ASSUME KeysTyped, BootPlace, [SigningNext]_svars PROVE KeysTyped'
  OBVIOUS
<1>d. /\ boot.at \in Making \cup {"load"} => Domain1 \in KeyDomains
      /\ SignSet \subseteq KeyDomains
  BY DomainAt
<1>s. /\ spent \in SpentRecord /\ spent.keys + 1 \in Nat /\ spent.boots + 1 \in Nat /\ spent.sends + 1 \in Nat /\ spent.breaks + 1 \in Nat
      /\ (spent.meddled \/ dnscmd.at # "off") \in BOOLEAN /\ (spent.meddled \/ boot.at # "off") \in BOOLEAN
  BY DEF KeysTyped, SpentRecord
<1>t. /\ [spent EXCEPT !.breaks = @ + 1] \in SpentRecord
      /\ [spent EXCEPT !.keys = @ + 1, !.meddled = @ \/ boot.at # "off"] \in SpentRecord
  BY <1>s, SpentTyped
<1>1. CASE UNCHANGED svars
  BY <1>1 DEF svars, KeysTyped
<1>2. CASE BootStarts
  <2>1. spent' \in SpentRecord
    BY <1>2, <1>s, SpentTyped DEF BootStarts
  <2>2. boot' \in BootRecord
    BY <1>2 DEF BootStarts, NoSigners, BootRecord, Making
  <2> QED BY <1>2, <2>1, <2>2 DEF BootStarts, KeysTyped
<1>4. CASE loadOrGenerateKey
  <2>0. files[Domain1].key \in Int
    BY <1>4, <1>d DEF loadOrGenerateKey, KeysTyped, FilesRecord, Making
  <2>1. CASE files[Domain1].key > 0 /\ KeyReady(files[Domain1].key) /\ UNCHANGED spent
    BY <1>4, <2>0, <2>1, ReadyTyped DEF loadOrGenerateKey, KeysTyped
  <2>2. CASE files[Domain1].key = Torn /\ boot' = [boot EXCEPT !.at = "failed"] /\ UNCHANGED spent
    <3>1. boot' \in BootRecord
      BY <2>2 DEF KeysTyped, BootRecord, Making
    <3> QED BY <1>4, <2>2, <3>1 DEF loadOrGenerateKey, KeysTyped
  <2>3. CASE files[Domain1].key = 0 /\ spent.keys < MaxPairs /\ spent' = [spent EXCEPT !.keys = @ + 1]
             /\ boot' = [boot EXCEPT !.at = "record", !.k = spent.keys + 1]
    <3>1. boot' \in BootRecord
      BY <2>3, <1>s DEF KeysTyped, BootRecord, Making
    <3>2. spent' \in SpentRecord
      BY <2>3, <1>s, SpentTyped
    <3> QED BY <1>4, <3>1, <3>2 DEF loadOrGenerateKey, KeysTyped
  <2> QED BY <1>4, <2>1, <2>2, <2>3 DEF loadOrGenerateKey
<1>5. ASSUME NEW at \in Making, NEW f \in {"key", "dns"}, NEW v \in Int,
             NEW next \in {"text", "keyfile", "pem", "ready"}, BootWrites(at, f, v, next)
      PROVE  KeysTyped'
  <2>1. files' \in [KeyDomains -> FilesRecord]
    BY <1>5 DEF BootWrites, File, KeysTyped, FilesRecord
  <2>2. CASE next = "ready"
    BY <1>5, <2>1, <2>2, ReadyTyped DEF BootWrites, KeysTyped, BootRecord
  <2>3. CASE next # "ready"
    <3>1. boot' \in BootRecord
      BY <1>5, <2>3 DEF BootWrites, KeysTyped, BootRecord, Making
    <3> QED BY <1>5, <2>1, <3>1 DEF BootWrites, KeysTyped
  <2> QED BY <2>2, <2>3
<1>6. CASE generateAndWrite
  BY <1>6, <1>5 DEF generateAndWrite, Torn, KeysTyped, BootRecord, Making
<1>7. CASE generateFails
  <2>1. boot' \in BootRecord
    BY <1>7 DEF generateFails, KeysTyped, BootRecord, Making
  <2>2. spent' \in SpentRecord
    BY <1>7, <1>s, <1>t DEF generateFails, Breaks
  <2> QED BY <1>7, <2>1, <2>2 DEF generateFails, KeysTyped
<1>8. CASE BootEnds
  <2>1. boot' \in BootRecord
    <3>1. NoSigners \in [KeyDomains -> Int]
      BY DEF NoSigners
    <3>2. boot' = [at |-> "off", i |-> 0, k |-> 0, signers |-> NoSigners]
      BY <1>8, <3>1 DEF BootEnds, KeysTyped, BootRecord, Making
    <3> QED BY <3>1, <3>2 DEF BootRecord
  <2>2. spent' \in SpentRecord
    BY <1>8, <1>s, <1>t DEF BootEnds, Breaks
  <2> QED BY <1>8, <2>1, <2>2 DEF BootEnds, KeysTyped
<1>9. CASE ensureDKIMKeys
  <2>1. PICK d \in SignSet :
       \/ UNCHANGED <<dnscmd, spent>>
       \/ /\ spent' = [spent EXCEPT !.keys = @ + 1, !.meddled = @ \/ boot.at # "off"]
          /\ dnscmd' = [at |-> "key", d |-> d, k |-> spent.keys + 1]
    BY <1>9 DEF ensureDKIMKeys
  <2>2. spent' \in SpentRecord
    BY <2>1, <1>s, <1>t
  <2>3. dnscmd' \in DnsRecord
    BY <2>1, <1>s, <1>d DEF DnsRecord, KeysTyped
  <2> QED BY <1>9, <2>2, <2>3 DEF ensureDKIMKeys, KeysTyped
<1>10. CASE ensureWrites
  <2>1. ASSUME NEW at \in {"key", "pem", "dns", "text"}, NEW f \in {"key", "dns"}, NEW v \in Int,
               NEW next \in {"off", "pem", "dns", "text"}, DnsWrites(at, f, v, next)
        PROVE  KeysTyped'
    <3>1. files' \in [KeyDomains -> FilesRecord]
      BY <2>1 DEF DnsWrites, KeysTyped, FilesRecord
    <3>2. dnscmd' \in DnsRecord
      BY <2>1 DEF DnsWrites, Dns, KeysTyped, DnsRecord
    <3> QED BY <2>1, <3>1, <3>2 DEF DnsWrites, KeysTyped
  <2> QED BY <1>10, <2>1 DEF ensureWrites, Torn, KeysTyped, DnsRecord
<1>11. CASE DnsKilled
  <2>1. spent' \in SpentRecord
    BY <1>11, <1>s, SpentTyped DEF DnsKilled
  <2>2. dnscmd' \in DnsRecord
    BY <1>11 DEF DnsKilled, Dns, KeysTyped, DnsRecord
  <2> QED BY <1>11, <2>1, <2>2 DEF DnsKilled, KeysTyped
<1>12. CASE MsgStarts
  <2>1. spent' \in SpentRecord
    BY <1>12, <1>s, SpentTyped DEF MsgStarts
  <2> QED BY <1>12, <2>1 DEF MsgStarts, KeysTyped
<1>13. CASE RewriteSender \/ RewriteRcpt \/ RewriteBody \/ Commits \/ ComesAgain
  BY <1>13 DEF RewriteSender, RewriteRcpt, RewriteBody, Commits, ComesAgain, KeysTyped
<1> QED BY <1>1, <1>2, <1>4, <1>6, <1>7, <1>8, <1>9, <1>10, <1>11, <1>12, <1>13 DEF SigningNext

\* The steps of a message leave the keys alone.
LEMMA KeyFrame ==
  ASSUME KeyInv, KeysTyped', UNCHANGED <<files, boot, dnscmd, group>>, spent'.meddled = spent.meddled
  PROVE  KeyInv'
<1>1. BootPlace' /\ (RecordsKept => RecordsKept') /\ (KeyUnderWay => KeyUnderWay') /\ (SignersSoFar => SignersSoFar')
  BY DEF KeyInv, BootPlace, RecordsKept, KeyUnderWay, SignersSoFar, SignDomains, Domain1
<1> QED BY <1>1 DEF KeyInv

LEMMA KeyStep == KeyInv /\ [SigningNext]_svars => KeyInv'
<1> SUFFICES ASSUME KeyInv, [SigningNext]_svars PROVE KeyInv'
  OBVIOUS
<1>t. KeysTyped /\ BootPlace /\ KeysTyped'
  BY KeysTypedStep DEF KeyInv
<1>d. /\ Len(SignDomains) \in Nat /\ Len(SignDomains) > 0
      /\ \A j \in 1 .. Len(SignDomains) : SignDomains[j] \in KeyDomains
      /\ boot.at \in Making \cup {"load"} => Domain1 \in KeyDomains
      /\ SignSet \subseteq KeyDomains
  BY <1>t, DomainAt
<1>s. /\ spent \in SpentRecord /\ spent.keys + 1 \in Nat /\ spent.boots + 1 \in Nat /\ spent.sends + 1 \in Nat /\ spent.breaks + 1 \in Nat
      /\ (spent.meddled \/ dnscmd.at # "off") \in BOOLEAN /\ (spent.meddled \/ boot.at # "off") \in BOOLEAN
  BY <1>t DEF KeysTyped, SpentRecord
<1>m. /\ [spent EXCEPT !.breaks = @ + 1].meddled = spent.meddled /\ [spent EXCEPT !.sends = @ + 1].meddled = spent.meddled
      /\ [spent EXCEPT !.keys = @ + 1].meddled = spent.meddled
      /\ [spent EXCEPT !.boots = @ + 1, !.meddled = @ \/ dnscmd.at # "off"].meddled = (spent.meddled \/ dnscmd.at # "off")
      /\ [spent EXCEPT !.keys = @ + 1, !.meddled = @ \/ boot.at # "off"].meddled = (spent.meddled \/ boot.at # "off")
  <2>1. /\ [spent EXCEPT !.breaks = @ + 1].meddled = spent.meddled /\ [spent EXCEPT !.sends = @ + 1].meddled = spent.meddled
        /\ [spent EXCEPT !.keys = @ + 1].meddled = spent.meddled
    BY <1>s, MeddledKept
  <2>2. [spent EXCEPT !.boots = @ + 1, !.meddled = @ \/ dnscmd.at # "off"].meddled = (spent.meddled \/ dnscmd.at # "off")
    BY <1>s, MeddledSet
  <2>3. [spent EXCEPT !.keys = @ + 1, !.meddled = @ \/ boot.at # "off"].meddled = (spent.meddled \/ boot.at # "off")
    BY <1>s, MeddledSet
  <2> QED BY <2>1, <2>2, <2>3
<1>k. /\ \A d \in KeyDomains : files[d].key \in Int /\ files[d].dns \in Int
      /\ boot.i \in Nat /\ boot.k \in Nat /\ dnscmd.k \in Nat /\ dnscmd.d \in KeyDomains
      /\ boot.at \in Making \cup {"off", "load", "failed", "running"}
      /\ dnscmd.at \in {"off", "key", "pem", "dns", "text"}
      /\ \A d \in KeyDomains : boot.signers[d] \in Int
  BY <1>t DEF KeysTyped, FilesRecord, BootRecord, DnsRecord
<1>u. group' = group => SignDomains' = SignDomains
  BY DEF SignDomains
<1>1. CASE UNCHANGED svars
  BY <1>1, <1>t, KeyFrame DEF svars
<1>2. CASE BootStarts
  <2>1. /\ UNCHANGED <<files, dnscmd, group>> /\ SignDomains' = SignDomains /\ boot.at = "off"
        /\ boot'.at = "load" /\ boot'.i = 1 /\ spent'.meddled = (spent.meddled \/ dnscmd.at # "off")
    BY <1>2, <1>u, <1>m DEF BootStarts
  <2>2. BootPlace'
    BY <2>1, <1>t, <1>d DEF BootPlace, Making
  <2>3. SUFFICES ASSUME ~spent'.meddled PROVE RecordsKept' /\ KeyUnderWay' /\ SignersSoFar' /\ dnscmd'.at = "off"
    BY <2>2, <1>t DEF KeyInv
  <2>4. ~spent.meddled /\ dnscmd.at = "off" /\ RecordsKept
    BY <2>1, <2>3 DEF KeyInv
  <2> QED BY <2>1, <2>4, <1>k DEF RecordsKept, KeyUnderWay, SignersSoFar
\* What the domain at hand gets when its key is ready.
<1>3. ASSUME NEW k \in Int, KeyIsReady(k), boot.at \in Making \cup {"load"}, group' = group, dnscmd' = dnscmd,
             spent'.meddled = spent.meddled, k > 0,
             ~spent.meddled => files'[Domain1].key = k /\ files'[Domain1].dns = k,
             \A d \in KeyDomains : d # Domain1 => files'[d] = files[d]
      PROVE  KeyInv'
  <2>1. boot'.at \in {"load", "running"} /\ boot'.i = boot.i + 1 /\ Domain1 \in KeyDomains /\ boot.i \in 1 .. Len(SignDomains)
    BY <1>3, <1>d, <1>t DEF KeyIsReady, BootPlace
  <2>2. BootPlace'
    BY <1>3, <2>1, <1>u, <1>t, <1>d, <1>k DEF BootPlace, KeyIsReady, Making
  <2>3. SUFFICES ASSUME ~spent'.meddled PROVE RecordsKept' /\ KeyUnderWay' /\ SignersSoFar' /\ dnscmd'.at = "off"
    BY <2>2, <1>t DEF KeyInv
  <2>4. ~spent.meddled /\ dnscmd.at = "off" /\ RecordsKept /\ SignersSoFar
    BY <1>3, <2>1, <2>3 DEF KeyInv, Making
  <2>5. RecordsKept'
    BY <1>3, <2>4 DEF RecordsKept
  <2>6. KeyUnderWay'
    BY <2>1 DEF KeyUnderWay, Making
  <2>7. SignersSoFar'
    <3>1. SUFFICES ASSUME NEW j \in 1 .. Len(SignDomains), j < boot.i + 1
                   PROVE  LET d == SignDomains[j] IN boot'.signers[d] # 0 /\ files'[d].key = boot'.signers[d] /\ files'[d].dns = boot'.signers[d]
      BY <1>3, <1>u, <2>1 DEF SignersSoFar
    <3>2. SignDomains[j] \in KeyDomains /\ boot.signers \in [KeyDomains -> Int]
      BY <1>d, <1>t DEF KeysTyped, BootRecord
    <3>3. boot'.signers[SignDomains[j]] = IF SignDomains[j] = Domain1 THEN k ELSE boot.signers[SignDomains[j]]
      BY <1>3, <3>2 DEF KeyIsReady
    <3>4. CASE SignDomains[j] = Domain1
      BY <1>3, <2>4, <3>3, <3>4
    <3>5. CASE SignDomains[j] # Domain1
      <4>1. j < boot.i
        BY <3>1, <3>5, <2>1 DEF Domain1
      <4>2. boot.at \notin {"off", "failed"}
        BY <1>3 DEF Making
      <4> QED BY <1>3, <2>4, <3>2, <3>3, <3>5, <4>1, <4>2 DEF SignersSoFar
    <3> QED BY <3>4, <3>5
  <2> QED BY <1>3, <2>4, <2>5, <2>6, <2>7
<1>4. CASE loadOrGenerateKey
  <2>0. boot.at = "load" /\ UNCHANGED <<files, dnscmd, group>> /\ SignDomains' = SignDomains /\ Domain1 \in KeyDomains
    BY <1>4, <1>d, <1>u DEF loadOrGenerateKey
  <2>1. CASE files[Domain1].key > 0 /\ KeyReady(files[Domain1].key) /\ UNCHANGED spent
    <3>1. KeyIsReady(files[Domain1].key) /\ files[Domain1].key \in Int
      BY <1>t, <1>k, <2>0, <2>1, ReadyTyped
    <3>2. ~spent.meddled => files[Domain1].dns = files[Domain1].key
      BY <2>0, <2>1 DEF KeyInv, RecordsKept
    <3> QED BY <1>3, <2>0, <2>1, <3>1, <3>2
  <2>2. CASE files[Domain1].key = Torn /\ boot' = [boot EXCEPT !.at = "failed"] /\ UNCHANGED spent
    <3>1. boot'.at = "failed"
      BY <2>2, <1>t DEF KeysTyped, BootRecord
    <3>2. BootPlace' /\ (RecordsKept => RecordsKept') /\ KeyUnderWay' /\ SignersSoFar'
      BY <2>0, <3>1, <1>t DEF BootPlace, RecordsKept, KeyUnderWay, SignersSoFar, Making
    <3> QED BY <1>t, <2>0, <2>2, <3>2 DEF KeyInv
  <2>3. CASE files[Domain1].key = 0 /\ spent.keys < MaxPairs /\ spent' = [spent EXCEPT !.keys = @ + 1]
             /\ boot' = [boot EXCEPT !.at = "record", !.k = spent.keys + 1]
    <3>1. boot'.at = "record" /\ boot'.i = boot.i /\ boot'.k = spent.keys + 1 /\ boot'.signers = boot.signers
      BY <2>3, <1>t DEF KeysTyped, BootRecord
    <3>2. spent'.meddled = spent.meddled /\ spent.keys + 1 > 0
      BY <2>3, <1>m, <1>s DEF SpentRecord
    <3>3. BootPlace' /\ (RecordsKept => RecordsKept') /\ KeyUnderWay' /\ (SignersSoFar => SignersSoFar')
      BY <2>0, <2>3, <3>1, <3>2, <1>t DEF BootPlace, RecordsKept, KeyUnderWay, SignersSoFar, Making, Domain1
    <3> QED BY <1>t, <2>0, <3>2, <3>3 DEF KeyInv
  <2> QED BY <1>4, <2>1, <2>2, <2>3 DEF loadOrGenerateKey
\* A write of a start: only the file at hand changes.
<1>5. ASSUME NEW at \in Making, NEW f \in {"key", "dns"}, NEW v \in Int, NEW next, BootWrites(at, f, v, next)
      PROVE  /\ boot.at = at /\ UNCHANGED <<dnscmd, group, spent>> /\ SignDomains' = SignDomains /\ Domain1 \in KeyDomains
             /\ \A d \in KeyDomains : d # Domain1 => files'[d] = files[d]
             /\ f = "key" => files'[Domain1].key = v /\ files'[Domain1].dns = files[Domain1].dns
             /\ f = "dns" => files'[Domain1].dns = v /\ files'[Domain1].key = files[Domain1].key
             /\ next \in Making => boot'.at = next /\ boot'.i = boot.i /\ boot'.k = boot.k /\ boot'.signers = boot.signers
             /\ next = "ready" => KeyIsReady(boot.k)
  <2>1. boot.at = at /\ UNCHANGED <<dnscmd, group, spent>> /\ SignDomains' = SignDomains /\ Domain1 \in KeyDomains
    BY <1>5, <1>d, <1>u DEF BootWrites
  <2>2. files' = [files EXCEPT ![Domain1][f] = v] /\ files \in [KeyDomains -> FilesRecord]
    BY <1>5, <1>t DEF BootWrites, File, KeysTyped
  <2>3. \A d \in KeyDomains : d # Domain1 => files'[d] = files[d]
    BY <2>1, <2>2
  <2>4. /\ f = "key" => files'[Domain1].key = v /\ files'[Domain1].dns = files[Domain1].dns
        /\ f = "dns" => files'[Domain1].dns = v /\ files'[Domain1].key = files[Domain1].key
    BY <2>1, <2>2 DEF FilesRecord
  <2>5. next \in Making => boot'.at = next /\ boot'.i = boot.i /\ boot'.k = boot.k /\ boot'.signers = boot.signers
    BY <1>5, <1>t DEF BootWrites, Making, KeysTyped, BootRecord
  <2>6. next = "ready" => KeyIsReady(boot.k)
    BY <1>5, <1>t, <1>k, ReadyTyped DEF BootWrites
  <2> QED BY <2>1, <2>3, <2>4, <2>5, <2>6
\* No domain before the one at hand is that domain, while its key is not there.
<1>6. ASSUME NEW next \in {"text", "keyfile", "pem"}, boot.at \in {"record", "text", "keyfile"}, UNCHANGED <<dnscmd, group, spent>>,
             boot'.at = next, boot'.i = boot.i, boot'.k = boot.k, boot'.signers = boot.signers,
             \A d \in KeyDomains : d # Domain1 => files'[d] = files[d],
             ~spent.meddled => /\ files'[Domain1].key = (IF next = "pem" THEN Torn ELSE 0)
                               /\ next # "text" => files'[Domain1].dns = boot.k
      PROVE  KeyInv'
  <2>1. BootPlace'
    BY <1>6, <1>t, <1>u DEF BootPlace, Making
  <2>2. SUFFICES ASSUME ~spent'.meddled PROVE RecordsKept' /\ KeyUnderWay' /\ SignersSoFar' /\ dnscmd'.at = "off"
    BY <2>1, <1>t DEF KeyInv
  <2>3. ~spent.meddled /\ dnscmd.at = "off" /\ RecordsKept /\ KeyUnderWay /\ SignersSoFar
    BY <1>6, <2>2 DEF KeyInv, Making
  <2>4. Domain1 \in KeyDomains /\ Domain1' = Domain1 /\ files[Domain1].key = 0 /\ ~(files'[Domain1].key > 0)
    BY <1>6, <1>d, <1>u, <2>3 DEF KeyUnderWay, Making, Domain1, Torn
  <2>5. RecordsKept'
    BY <1>6, <2>3, <2>4 DEF RecordsKept
  <2>6. KeyUnderWay'
    BY <1>6, <2>3, <2>4 DEF KeyUnderWay
  <2>7. SignersSoFar'
    <3>1. SUFFICES ASSUME NEW j \in 1 .. Len(SignDomains), j < boot.i
                   PROVE  LET d == SignDomains[j] IN boot.signers[d] # 0 /\ files'[d].key = boot.signers[d] /\ files'[d].dns = boot.signers[d]
      BY <1>6, <1>u DEF SignersSoFar
    <3>2. SignDomains[j] \in KeyDomains
      BY <1>d
    <3>3. LET d == SignDomains[j] IN boot.signers[d] # 0 /\ files[d].key = boot.signers[d] /\ files[d].dns = boot.signers[d]
      BY <1>6, <2>3, <3>1 DEF SignersSoFar, Making
    <3> QED BY <1>6, <2>4, <3>2, <3>3
  <2> QED BY <1>6, <2>3, <2>5, <2>6, <2>7
<1>7. CASE generateAndWrite
  <2>0. ~spent.meddled => KeyUnderWay
    BY DEF KeyInv
  <2>1. CASE BootWrites("record", "dns", Torn, "text")
    <3>1. Torn \in Int /\ "record" \in Making /\ "text" \in Making
      BY DEF Torn, Making
    <3>2. /\ boot.at = "record" /\ UNCHANGED <<dnscmd, group, spent>>
          /\ \A d \in KeyDomains : d # Domain1 => files'[d] = files[d]
          /\ files'[Domain1].key = files[Domain1].key
          /\ boot'.at = "text" /\ boot'.i = boot.i /\ boot'.k = boot.k /\ boot'.signers = boot.signers
      BY <1>5, <2>1, <3>1
    <3> QED BY <1>6, <2>0, <3>2 DEF KeyUnderWay
  <2>2. CASE BootWrites("text", "dns", boot.k, "keyfile")
    <3>1. boot.k \in Int /\ "text" \in Making /\ "keyfile" \in Making
      BY <1>k DEF Making
    <3>2. /\ boot.at = "text" /\ UNCHANGED <<dnscmd, group, spent>>
          /\ \A d \in KeyDomains : d # Domain1 => files'[d] = files[d]
          /\ files'[Domain1].key = files[Domain1].key /\ files'[Domain1].dns = boot.k
          /\ boot'.at = "keyfile" /\ boot'.i = boot.i /\ boot'.k = boot.k /\ boot'.signers = boot.signers
      BY <1>5, <2>2, <3>1
    <3> QED BY <1>6, <2>0, <3>2 DEF KeyUnderWay
  <2>3. CASE BootWrites("keyfile", "key", Torn, "pem")
    <3>1. Torn \in Int /\ "keyfile" \in Making /\ "pem" \in Making
      BY DEF Torn, Making
    <3>2. /\ boot.at = "keyfile" /\ UNCHANGED <<dnscmd, group, spent>>
          /\ \A d \in KeyDomains : d # Domain1 => files'[d] = files[d]
          /\ files'[Domain1].key = Torn /\ files'[Domain1].dns = files[Domain1].dns
          /\ boot'.at = "pem" /\ boot'.i = boot.i /\ boot'.k = boot.k /\ boot'.signers = boot.signers
      BY <1>5, <2>3, <3>1
    <3> QED BY <1>6, <2>0, <3>2 DEF KeyUnderWay
  <2>4. CASE BootWrites("pem", "key", boot.k, "ready")
    <3>1. boot.k \in Int /\ "pem" \in Making
      BY <1>k DEF Making
    <3>2. /\ boot.at = "pem" /\ UNCHANGED <<dnscmd, group, spent>> /\ KeyIsReady(boot.k)
          /\ \A d \in KeyDomains : d # Domain1 => files'[d] = files[d]
          /\ files'[Domain1].key = boot.k /\ files'[Domain1].dns = files[Domain1].dns
      BY <1>5, <2>4, <3>1
    <3>3. boot.k > 0 /\ (~spent.meddled => files[Domain1].dns = boot.k)
      BY <2>0, <3>1, <3>2, <1>t DEF KeyUnderWay, BootPlace
    <3> QED BY <1>3, <3>1, <3>2, <3>3
  <2> QED BY <1>7, <2>1, <2>2, <2>3, <2>4 DEF generateAndWrite
\* A start that failed or ended makes no claim.
<1>8. ASSUME boot'.at \in {"failed", "off"}, UNCHANGED <<files, dnscmd, group>>, boot.at # "off",
             spent'.meddled = spent.meddled
      PROVE  KeyInv'
  <2>1. BootPlace' /\ (RecordsKept => RecordsKept') /\ KeyUnderWay' /\ SignersSoFar'
    BY <1>8, <1>t DEF BootPlace, RecordsKept, KeyUnderWay, SignersSoFar, Making
  <2> QED BY <1>t, <1>8, <2>1 DEF KeyInv
<1>9. CASE generateFails
  <2>1. boot'.at = "failed" /\ boot.at # "off" /\ UNCHANGED <<files, dnscmd, group>>
    BY <1>9, <1>t DEF generateFails, KeysTyped, BootRecord
  <2>2. spent'.meddled = spent.meddled
    BY <1>9, <1>m DEF generateFails, Breaks
  <2> QED BY <1>8, <2>1, <2>2
<1>10. CASE BootEnds
  <2>1. boot'.at = "off" /\ boot.at # "off" /\ UNCHANGED <<files, dnscmd, group>>
    BY <1>10, <1>t DEF BootEnds, KeysTyped, BootRecord
  <2>2. spent'.meddled = spent.meddled
    BY <1>10, <1>m DEF BootEnds, Breaks
  <2> QED BY <1>8, <2>1, <2>2
<1>11. CASE ensureDKIMKeys
  <2>0. UNCHANGED <<files, boot, group>> /\ dnscmd.at = "off" /\ SignDomains' = SignDomains /\ Domain1' = Domain1
    BY <1>11, <1>u DEF ensureDKIMKeys, Domain1
  <2>1. PICK d \in SignSet :
       \/ UNCHANGED <<dnscmd, spent>>
       \/ /\ spent' = [spent EXCEPT !.keys = @ + 1, !.meddled = @ \/ boot.at # "off"]
          /\ dnscmd' = [at |-> "key", d |-> d, k |-> spent.keys + 1]
    BY <1>11 DEF ensureDKIMKeys
  <2>2. CASE UNCHANGED <<dnscmd, spent>>
    BY <1>t, <2>0, <2>2, KeyFrame
  <2>3. CASE /\ spent' = [spent EXCEPT !.keys = @ + 1, !.meddled = @ \/ boot.at # "off"]
             /\ dnscmd' = [at |-> "key", d |-> d, k |-> spent.keys + 1]
    <3>1. spent'.meddled = (spent.meddled \/ boot.at # "off") /\ dnscmd'.at = "key" /\ dnscmd'.k > 0
      BY <2>3, <1>m, <1>s DEF SpentRecord
    <3>2. BootPlace' /\ (RecordsKept => RecordsKept') /\ (KeyUnderWay => KeyUnderWay') /\ (SignersSoFar => SignersSoFar')
      BY <2>0, <3>1, <1>t DEF BootPlace, RecordsKept, KeyUnderWay, SignersSoFar
    <3> QED BY <1>t, <2>0, <3>1, <3>2 DEF KeyInv
  <2> QED BY <2>1, <2>2, <2>3
<1>12. CASE ensureWrites
  <2>1. ASSUME NEW at \in {"key", "pem", "dns", "text"}, NEW f \in {"key", "dns"}, NEW v \in Int,
               NEW next \in {"off", "pem", "dns", "text"}, DnsWrites(at, f, v, next),
               <<at, f, next>> \in {<<"key", "key", "pem">>, <<"pem", "key", "dns">>, <<"dns", "dns", "text">>, <<"text", "dns", "off">>},
               v = (IF at \in {"key", "dns"} THEN Torn ELSE dnscmd.k)
        PROVE  KeyInv'
    <3>1. /\ dnscmd.at = at /\ at # "off" /\ UNCHANGED <<boot, group, spent>> /\ SignDomains' = SignDomains /\ Domain1' = Domain1
          /\ dnscmd'.at = next /\ dnscmd'.d = dnscmd.d /\ (next # "off" => dnscmd'.k = dnscmd.k)
      BY <2>1, <1>t, <1>u DEF DnsWrites, Dns, KeysTyped, DnsRecord, Domain1
    <3>2. files' = [files EXCEPT ![dnscmd.d][f] = v] /\ files \in [KeyDomains -> FilesRecord] /\ dnscmd.d \in KeyDomains
      BY <2>1, <1>t, <1>k DEF DnsWrites, KeysTyped
    <3>3. \A d \in KeyDomains : d # dnscmd.d => files'[d] = files[d]
      BY <3>2
    <3>4. /\ f = "key" => files'[dnscmd.d].key = v /\ files'[dnscmd.d].dns = files[dnscmd.d].dns
          /\ f = "dns" => files'[dnscmd.d].dns = v /\ files'[dnscmd.d].key = files[dnscmd.d].key
      BY <3>2 DEF FilesRecord
    <3>5. BootPlace'
      BY <3>1, <1>t DEF BootPlace
    <3>6. SUFFICES ASSUME ~spent'.meddled PROVE RecordsKept' /\ KeyUnderWay' /\ SignersSoFar' /\ boot'.at = "off"
      BY <3>5, <1>t DEF KeyInv
    <3>7. ~spent.meddled /\ boot.at = "off" /\ RecordsKept
      BY <3>1, <3>6 DEF KeyInv
    <3>8. KeyUnderWay' /\ SignersSoFar'
      BY <3>1, <3>7 DEF KeyUnderWay, SignersSoFar
    <3>9. RecordsKept'
      <4> SUFFICES ASSUME NEW d \in KeyDomains
                   PROVE  /\ files'[d].key > 0 => files'[d].dns = files'[d].key \/ (dnscmd'.at \in {"dns", "text"} /\ dnscmd'.d = d)
                          /\ dnscmd'.at \in {"dns", "text"} /\ dnscmd'.d = d => files'[d].key = dnscmd'.k
        BY DEF RecordsKept
      <4>1. CASE d # dnscmd.d
        BY <3>1, <3>3, <3>7, <4>1 DEF RecordsKept
      <4>2. CASE d = dnscmd.d
        BY <2>1, <3>1, <3>4, <3>7, <4>2 DEF RecordsKept, Torn
      <4> QED BY <4>1, <4>2
    <3> QED BY <3>1, <3>7, <3>8, <3>9
  <2>2. Torn \in Int /\ dnscmd.k \in Int
    BY <1>k DEF Torn
  <2>3. CASE DnsWrites("key", "key", Torn, "pem")
    BY <2>1, <2>2, <2>3
  <2>4. CASE DnsWrites("pem", "key", dnscmd.k, "dns")
    BY <2>1, <2>2, <2>4
  <2>5. CASE DnsWrites("dns", "dns", Torn, "text")
    BY <2>1, <2>2, <2>5
  <2>6. CASE DnsWrites("text", "dns", dnscmd.k, "off")
    BY <2>1, <2>2, <2>6
  <2> QED BY <1>12, <2>3, <2>4, <2>5, <2>6 DEF ensureWrites
<1>13. CASE DnsKilled
  <2>1. spent'.meddled /\ dnscmd'.at = "off" /\ UNCHANGED <<boot, group>> /\ SignDomains' = SignDomains
    BY <1>13, <1>t, <1>u DEF DnsKilled, Dns, KeysTyped, DnsRecord, SpentRecord
  <2>2. BootPlace'
    BY <2>1, <1>t DEF BootPlace
  <2> QED BY <1>t, <2>1, <2>2 DEF KeyInv
<1>14. CASE MsgStarts \/ RewriteSender \/ RewriteRcpt \/ RewriteBody \/ Commits \/ ComesAgain
  <2>1. UNCHANGED <<files, boot, dnscmd, group>>
    BY <1>14 DEF MsgStarts, RewriteSender, RewriteRcpt, RewriteBody, Commits, ComesAgain
  <2>2. spent'.meddled = spent.meddled
    BY <1>14, <1>m DEF MsgStarts, RewriteSender, RewriteRcpt, RewriteBody, Commits, ComesAgain
  <2> QED BY <1>t, <2>1, <2>2, KeyFrame
<1> QED BY <1>1, <1>2, <1>4, <1>7, <1>9, <1>10, <1>11, <1>12, <1>13, <1>14 DEF SigningNext

LEMMA KeyPublished == KeyInv => SignerPublished
<1> SUFFICES ASSUME KeyInv, boot.at = "running", ~spent.meddled, NEW d \in SignSet
             PROVE  boot.signers[d] # 0 /\ files[d].key = boot.signers[d] /\ files[d].dns = boot.signers[d]
  BY DEF SignerPublished
<1>1. SignDomains \in Seq(KeyDomains) /\ Len(SignDomains) \in Nat
  BY DomainAt DEF KeyInv
<1>2. PICK j \in 1 .. Len(SignDomains) : d = SignDomains[j]
  BY <1>1 DEF SignSet, ToSet
<1> QED BY <1>1, <1>2 DEF KeyInv, BootPlace, SignersSoFar

-----------------------------------------------------------------------------
(* Credentials: the commands *)

\* What CommandsTruthful says of one command.
TruthOf(c, tab) ==
  c.at = "done" /\ c.alone =>
    /\ c.op \in {"create", "password"} /\ c.said = "ok" => tab[c.key] = c.hash \/ (c.lost /\ tab[c.key] = Absent)
    /\ c.op = "remove" /\ c.said = "ok" => tab[c.key] = Absent
    /\ c.said = "exists" => tab[c.key] # Absent

LEMMA TruthAll ==
  /\ CommandsTruthful <=> \A t \in Tools : TruthOf(cmd[t], table)
  /\ CommandsTruthful' <=> \A t \in Tools : TruthOf(cmd'[t], table')
BY DEF CommandsTruthful, TruthOf

LEMMA CommandsInit == CredentialsInit => CommandInv
<1> SUFFICES ASSUME CredentialsInit PROVE CommandInv
  OBVIOUS
<1>1. table \in [Keys -> HashRecord]
  <2>1. PICK h \in {Absent, [algo |-> "argon2", pass |-> "p1", form |-> "short"]} : table = [k \in Keys |-> h]
    BY DEF CredentialsInit
  <2>2. h \in HashRecord
    BY DEF HashRecord, Hashes, HashVerify
  <2> QED BY <2>1, <2>2
<1>2. cmd \in [Tools -> CommandRecord] /\ \A t \in Tools : cmd[t] = NoCommand
  BY DEF CredentialsInit, NoCommand, CommandRecord, AskedHash, HashRecord
<1>3. \A t \in Tools : CommandAt(cmd[t]) /\ ~Running(t) /\ ~cmd[t].alone
  <2>1. \A t \in Tools : cmd[t].at = "done" /\ cmd[t].said = "none" /\ cmd[t].alone = FALSE
    BY <1>2 DEF NoCommand
  <2> QED BY <2>1 DEF CommandAt, Running
<1> QED BY <1>1, <1>2, <1>3 DEF CommandInv, CommandsTruthful

\* One step of a command that runs: it changes its own key only, which nobody else is alone with.
LEMMA CommandGoesOn ==
  ASSUME CommandInv, NEW t \in Tools, NEW c \in CommandRecord, Running(t),
         cmd' = [cmd EXCEPT ![t] = c], c.key = cmd[t].key, c.alone => cmd[t].alone,
         table' \in [Keys -> HashRecord], \A k \in Keys : k # c.key => table'[k] = table[k],
         CommandAt(c)', TruthOf(c, table')
  PROVE  CommandInv'
<1>0. /\ cmd \in [Tools -> CommandRecord] /\ c.key \in Keys
      /\ \A u \in Tools : CommandAt(cmd[u]) /\ TruthOf(cmd[u], table)
      /\ \A u, v \in Tools : u # v /\ cmd[u].alone /\ cmd[v].key = cmd[u].key => ~Running(v)
  BY TruthAll DEF CommandInv, CommandAt, Running
<1>1. cmd' \in [Tools -> CommandRecord] /\ cmd'[t] = c /\ \A u \in Tools \ {t} : cmd'[u] = cmd[u]
  BY <1>0
<1>2. ASSUME NEW u \in Tools \ {t} PROVE CommandAt(cmd[u])' /\ TruthOf(cmd'[u], table')
  <2>1. CASE cmd[u].key = c.key
    <3>1. ~cmd[u].alone
      BY <1>0, <1>2, <2>1
    <3> QED BY <1>0, <1>1, <1>2, <3>1 DEF CommandAt, TruthOf
  <2>2. CASE cmd[u].key # c.key /\ cmd[u].key \in Keys
    <3>1. table'[cmd[u].key] = table[cmd[u].key]
      BY <2>2
    <3> QED BY <1>0, <1>1, <1>2, <3>1 DEF CommandAt, TruthOf
  <2>3. CASE cmd[u].key \notin Keys
    <3>1. cmd[u].at = "done"
      BY <1>0, <1>2, <2>3 DEF CommandAt
    <3> QED BY <1>0, <1>1, <1>2, <2>3, <3>1 DEF CommandAt, TruthOf
  <2> QED BY <2>1, <2>2, <2>3
<1>3. \A u, v \in Tools : u # v /\ cmd'[u].alone /\ cmd'[v].key = cmd'[u].key => ~Running(v)'
  BY <1>0, <1>1 DEF Running
<1> QED BY <1>1, <1>2, <1>3, TruthAll DEF CommandInv

\* A command that starts ends the claim of every other command of its key.
LEMMA CommandStarts ==
  ASSUME CommandInv, NEW t \in Tools, NEW c \in CommandRecord, ~Running(t), Starts(t, c), table' = table,
         c.at # "done" => c.key \in Keys, c.at # "set", c.op \in {"create", "password", "remove"} => c.said # "ok", c.said # "exists",
         c.at = "lookup" => c.op = "create" /\ c.hash # Absent, c.at = "del" => c.op = "remove",
         c.at = "add" => c.op \in {"create", "password"} /\ c.hash # Absent, c.at # "done" => c.hash \in HashRecord
  PROVE  CommandInv'
<1> DEFINE lone == \A v \in Tools \ {t} : ~(Running(v) /\ cmd[v].key = c.key)
           c1 == [c EXCEPT !.alone = lone]
<1>0. /\ cmd \in [Tools -> CommandRecord]
      /\ \A u \in Tools : CommandAt(cmd[u]) /\ TruthOf(cmd[u], table)
      /\ \A u, v \in Tools : u # v /\ cmd[u].alone /\ cmd[v].key = cmd[u].key => ~Running(v)
  BY TruthAll DEF CommandInv
<1>1. cmd' = [u \in Tools |-> IF u = t THEN c1 ELSE IF cmd[u].key = c.key THEN [cmd[u] EXCEPT !.alone = FALSE] ELSE cmd[u]]
  BY DEF Starts
<1>2. /\ cmd'[t] = c1 /\ c1 \in CommandRecord /\ c1.at = c.at /\ c1.said = c.said /\ c1.key = c.key /\ c1.op = c.op
      /\ c1.hash = c.hash /\ c1.lost = c.lost /\ (c1.alone => \A v \in Tools \ {t} : ~(Running(v) /\ cmd[v].key = c.key))
  <2>1. lone \in BOOLEAN
    OBVIOUS
  <2>2. PICK b \in BOOLEAN : b = lone
    BY <2>1
  <2>3. c1 = [c EXCEPT !.alone = b]
    BY <2>2
  <2> QED BY <1>1, <2>2, <2>3 DEF CommandRecord
<1>3. ASSUME NEW u \in Tools \ {t}
      PROVE  /\ cmd'[u] \in CommandRecord /\ cmd'[u].at = cmd[u].at /\ cmd'[u].said = cmd[u].said /\ cmd'[u].key = cmd[u].key
             /\ cmd'[u].op = cmd[u].op /\ cmd'[u].hash = cmd[u].hash /\ cmd'[u].lost = cmd[u].lost
             /\ cmd'[u].alone => cmd[u].alone /\ cmd[u].key # c.key
  <2>1. cmd[u] \in CommandRecord /\ cmd'[u] = IF cmd[u].key = c.key THEN [cmd[u] EXCEPT !.alone = FALSE] ELSE cmd[u]
    BY <1>0, <1>1
  <2> QED BY <2>1 DEF CommandRecord
<1>4. cmd' \in [Tools -> CommandRecord]
  BY <1>1, <1>2, <1>3
<1> HIDE DEF c1
<1>5. ASSUME NEW u \in Tools PROVE CommandAt(cmd[u])' /\ TruthOf(cmd'[u], table')
  <2>1. CASE u = t
    BY <1>2, <2>1 DEF CommandAt, TruthOf
  <2>2. CASE u # t
    BY <1>0, <1>3, <2>2 DEF CommandAt, TruthOf
  <2> QED BY <2>1, <2>2
<1>6. ASSUME NEW u \in Tools, NEW v \in Tools, u # v, cmd'[u].alone, cmd'[v].key = cmd'[u].key
      PROVE  ~Running(v)'
  <2>1. CASE u = t
    BY <1>2, <1>3, <1>6, <2>1 DEF Running
  <2>2. CASE v = t
    BY <1>2, <1>3, <1>6, <2>2
  <2>3. CASE u # t /\ v # t
    BY <1>0, <1>3, <1>6, <2>3 DEF Running
  <2> QED BY <2>1, <2>2, <2>3
<1> QED BY <1>4, <1>5, <1>6, TruthAll DEF CommandInv

LEMMA CommandFrame ==
  ASSUME CommandInv, UNCHANGED <<table, cmd>> PROVE CommandInv'
BY DEF CommandInv, CommandAt, Running, CommandsTruthful

LEMMA CommandStep == CommandInv /\ [CredentialsNext]_cvars => CommandInv'
<1> SUFFICES ASSUME CommandInv, [CredentialsNext]_cvars PROVE CommandInv'
  OBVIOUS
<1>0. table \in [Keys -> HashRecord] /\ cmd \in [Tools -> CommandRecord] /\ \A t \in Tools : CommandAt(cmd[t])
  BY DEF CommandInv
\* The steps that neither write the table nor belong to a command.
<1>1. CASE \/ UNCHANGED cvars \/ ConnLost \/ NewDay
           \/ \E s \in Sessions : ServesLogin(s) \/ CreateLogin(s) \/ \E n \in Names, p \in Passwords : CreatePlain(s, n, p)
  <2>1. UNCHANGED <<table, cmd>>
    BY <1>1 DEF cvars, ConnLost, NewDay, ServesLogin, CreateLogin, CreatePlain, loginChallenge, loginUsername, loginPassword,
                AuthPlain, getConn, ldapSearch, ldapBind, returnConn
  <2> QED BY <2>1, CommandFrame
<1>2. ASSUME NEW t \in Tools, CredsCommand(t) PROVE CommandInv'
  <2>0. cmd[t] \in CommandRecord /\ CommandAt(cmd[t])
    BY <1>0, <1>2
  \* A command starts.
  <2>1. ASSUME NEW todo \in {"create", "password", "remove"}, NEW n \in Names, NEW p \in Passwords \cup {"none"},
               NEW algo \in Hashes \cup {"none"}, NEW at \in {"lookup", "add", "del"}, NEW bad \in BOOLEAN,
               <<todo, at>> \in {<<"create", "lookup">>, <<"password", "add">>, <<"remove", "del">>},
               todo = "remove" => algo = "none" /\ p = "none", todo # "remove" => algo \in Hashes /\ p \in Passwords,
               CompareKey[n] = BadName => bad,
               Begins(t), table' = table,
               Starts(t, IF bad THEN Refused(Command(todo, n, p, algo, at)) ELSE Command(todo, n, p, algo, at))
        PROVE  CommandInv'
    <3> DEFINE h == [algo |-> algo, pass |-> p, form |-> "good"]
    <3>1. h \in HashRecord /\ (todo # "remove" => h # Absent)
      BY <2>1 DEF HashRecord, Absent, Hashes, HashVerify
    <3>2. CompareKey[n] \in Keys \cup {BadName}
      BY DEF Keys
    <3>3. PICK c \in CommandRecord : /\ c = IF bad THEN Refused(Command(todo, n, p, algo, at)) ELSE Command(todo, n, p, algo, at)
                                     /\ c.key = CompareKey[n] /\ c.op = todo /\ c.hash = h
                                     /\ c.at = (IF bad THEN "done" ELSE at) /\ c.said = (IF bad THEN "refused" ELSE "none")
      <4>1. Command(todo, n, p, algo, at) \in CommandRecord
        BY <3>1, <3>2 DEF Command, CommandRecord, AskedHash
      <4>2. Refused(Command(todo, n, p, algo, at)) \in CommandRecord
        BY <4>1 DEF Refused, CommandRecord
      <4> QED BY <4>1, <4>2 DEF Command, Refused
    <3>4. ~Running(t) /\ Starts(t, c)
      BY <2>1, <3>3 DEF Begins
    <3> QED BY <2>1, <3>1, <3>2, <3>3, <3>4, CommandStarts
  <2>2. ASSUME NEW n \in Names, NEW p \in Passwords, CredsPassword(t, n, p) PROVE CommandInv'
    <3>1. Begins(t) /\ table' = table /\ Starts(t, IF CompareKey[n] = BadName THEN Refused(Command("password", n, p, "bcrypt", "add"))
                                                   ELSE Command("password", n, p, "bcrypt", "add"))
      BY <2>2 DEF CredsPassword
    <3>2. (CompareKey[n] = BadName) \in BOOLEAN /\ "bcrypt" \in Hashes
      BY DEF Hashes, HashVerify
    <3> QED BY <2>1, <3>1, <3>2
  <2>3. ASSUME NEW n \in Names, NEW p \in Passwords, NEW a \in Hashes, CredsCreate(t, n, p, a) PROVE CommandInv'
    <3>1. PICK bad \in BOOLEAN : bad = (a \notin HashVerify \/ CompareKey[n] = BadName)
      OBVIOUS
    <3>2. Begins(t) /\ table' = table /\ Starts(t, IF bad THEN Refused(Command("create", n, p, a, "lookup"))
                                                   ELSE Command("create", n, p, a, "lookup"))
      BY <2>3, <3>1 DEF CredsCreate
    <3> QED BY <2>1, <3>1, <3>2
  <2>4. ASSUME NEW n \in Names, CredsRemove(t, n) PROVE CommandInv'
    <3>1. Begins(t) /\ table' = table /\ Starts(t, IF CompareKey[n] = BadName THEN Refused(Command("remove", n, "none", "none", "del"))
                                                   ELSE Command("remove", n, "none", "none", "del"))
      BY <2>4 DEF CredsRemove
    <3>2. (CompareKey[n] = BadName) \in BOOLEAN
      OBVIOUS
    <3> QED BY <2>1, <3>1, <3>2
  <2>5. ASSUME NEW n \in Names, NEW p \in Passwords, NEW todo \in {"evm_create", "evm_password", "evm_remove"},
               CredsEVM(t, todo, n, p)
        PROVE  CommandInv'
    <3>1. PICK said \in {"ok", "error"} : Starts(t, AtOnce(todo, n, p, said))
      BY <2>5 DEF CredsEVM
    <3>2. PICK c \in CommandRecord : c = AtOnce(todo, n, p, said) /\ c.op = todo /\ c.at = "done" /\ c.said = said
      <4>1. PICK h \in AskedHash : h = [algo |-> "none", pass |-> p, form |-> "good"]
        BY DEF AskedHash
      <4> DEFINE d == [op |-> todo, name |-> n, key |-> "none", hash |-> h, at |-> "done", said |-> said, alone |-> TRUE, lost |-> FALSE]
      <4>2. d \in CommandRecord /\ d.op = todo /\ d.at = "done" /\ d.said = said
        BY DEF CommandRecord
      <4> QED BY <4>1, <4>2 DEF AtOnce
    <3>3. ~Running(t) /\ table' = table
      BY <2>5 DEF CredsEVM
    <3> QED BY <3>1, <3>2, <3>3, CommandStarts
  \* A command goes on: what becomes of its record.
  <2>6. ASSUME NEW at \in {"done", "lookup", "add", "set", "del"},
               NEW said \in {"none", "refused", "exists", "panic", "error", "ok", "killed"}, Tool(t, at, said)
        PROVE  \E c \in CommandRecord : /\ cmd' = [cmd EXCEPT ![t] = c] /\ c.at = at /\ c.said = said /\ c.alone = cmd[t].alone
                                        /\ c.key = cmd[t].key /\ c.op = cmd[t].op /\ c.hash = cmd[t].hash /\ c.lost = cmd[t].lost
    <3> DEFINE c == [cmd[t] EXCEPT !.at = at, !.said = said]
    <3>1. c \in CommandRecord /\ c.at = at /\ c.said = said /\ c.alone = cmd[t].alone
             /\ c.key = cmd[t].key /\ c.op = cmd[t].op /\ c.hash = cmd[t].hash /\ c.lost = cmd[t].lost
      BY <2>0, ZenonT(60) DEF CommandRecord
    <3>2. cmd' = [cmd EXCEPT ![t] = c]
      BY <2>6, <2>0, <1>0 DEF Tool, CommandRecord
    <3> QED BY <3>1, <3>2
  <2>7. CASE CreateUserLooksUp(t)
    <3>0. cmd[t].at = "lookup" /\ cmd[t].op = "create" /\ cmd[t].hash # Absent /\ cmd[t].key \in Keys /\ Running(t) /\ table' = table
      BY <2>7, <2>0 DEF CreateUserLooksUp, CommandAt, Running
    <3>1. CASE table[cmd[t].key] # Absent /\ Tool(t, "done", "exists")
      <4>1. PICK c \in CommandRecord : /\ cmd' = [cmd EXCEPT ![t] = c] /\ c.at = "done" /\ c.said = "exists" /\ c.alone = cmd[t].alone
                                       /\ c.key = cmd[t].key
        BY <3>1, <2>6
      <4> QED BY <1>0, <3>0, <3>1, <4>1, CommandGoesOn DEF CommandAt, TruthOf
    <3>2. ASSUME NEW said \in {"panic", "error"}, Tool(t, "done", said) PROVE CommandInv'
      <4>1. PICK c \in CommandRecord : /\ cmd' = [cmd EXCEPT ![t] = c] /\ c.at = "done" /\ c.said = said /\ c.alone = cmd[t].alone
                                       /\ c.key = cmd[t].key
        BY <3>2, <2>6
      <4> QED BY <1>0, <3>0, <3>2, <4>1, CommandGoesOn DEF CommandAt, TruthOf
    <3>3. CASE Tool(t, "add", "none") /\ HashCompute(cmd[t].hash.algo, cmd[t].hash.pass) # "panic"
      <4>1. PICK c \in CommandRecord : /\ cmd' = [cmd EXCEPT ![t] = c] /\ c.at = "add" /\ c.said = "none" /\ c.alone = cmd[t].alone
                                       /\ c.key = cmd[t].key /\ c.op = cmd[t].op /\ c.hash = cmd[t].hash
        BY <3>3, <2>6
      <4> QED BY <1>0, <3>0, <2>0, <4>1, CommandGoesOn DEF CommandAt, TruthOf
    <3> QED BY <2>7, <3>1, <3>2, <3>3 DEF CreateUserLooksUp
  <2>8. CASE SetKeyAdds(t)
    <3>0. /\ cmd[t].at = "add" /\ cmd[t].op \in {"create", "password"} /\ cmd[t].key \in Keys /\ Running(t)
          /\ cmd[t].hash # Absent /\ cmd[t].hash \in HashRecord /\ cmd[t].lost \in BOOLEAN
      BY <2>8, <2>0 DEF SetKeyAdds, CommandAt, Running, CommandRecord
    <3>1. CASE table' = [table EXCEPT ![cmd[t].key] = cmd[t].hash] /\ Tool(t, "done", "ok")
      <4>1. PICK c \in CommandRecord : /\ cmd' = [cmd EXCEPT ![t] = c] /\ c.at = "done" /\ c.said = "ok" /\ c.alone = cmd[t].alone
                                       /\ c.key = cmd[t].key /\ c.op = cmd[t].op /\ c.hash = cmd[t].hash
        BY <3>1, <2>6
      <4>2. /\ table' \in [Keys -> HashRecord] /\ table'[c.key] = c.hash
            /\ \A k \in Keys : k # c.key => table'[k] = table[k]
        BY <1>0, <3>0, <3>1, <4>1
      <4>3. CommandAt(c)' /\ TruthOf(c, table')
        BY <3>0, <4>1, <4>2 DEF CommandAt, TruthOf
      <4> QED BY <3>0, <4>1, <4>2, <4>3, CommandGoesOn
    <3>2. CASE table[cmd[t].key] # Absent /\ table' = table /\ Tool(t, "set", "none")
      <4>1. PICK c \in CommandRecord : /\ cmd' = [cmd EXCEPT ![t] = c] /\ c.at = "set" /\ c.said = "none" /\ c.alone = cmd[t].alone
                                       /\ c.key = cmd[t].key /\ c.op = cmd[t].op /\ c.hash = cmd[t].hash
        BY <3>2, <2>6
      <4> QED BY <1>0, <3>0, <3>2, <4>1, CommandGoesOn DEF CommandAt, TruthOf
    <3>3. CASE table' = table /\ cmd' = [cmd EXCEPT ![t].at = "set", ![t].lost = TRUE]
      <4>1. PICK c \in CommandRecord : /\ c = [cmd[t] EXCEPT !.at = "set", !.lost = TRUE]
                                       /\ c.at = "set" /\ c.said = cmd[t].said /\ c.alone = cmd[t].alone /\ c.lost
                                       /\ c.key = cmd[t].key /\ c.op = cmd[t].op /\ c.hash = cmd[t].hash
        <5> DEFINE d == [cmd[t] EXCEPT !.at = "set", !.lost = TRUE]
        <5>1. d \in CommandRecord
          BY <2>0 DEF CommandRecord
        <5>2. d.at = "set" /\ d.said = cmd[t].said /\ d.alone = cmd[t].alone /\ d.lost = TRUE
              /\ d.key = cmd[t].key /\ d.op = cmd[t].op /\ d.hash = cmd[t].hash
          BY <2>0 DEF CommandRecord
        <5> QED BY <5>1, <5>2
      <4>2. cmd' = [cmd EXCEPT ![t] = c]
        BY <3>3, <2>0, <1>0, <4>1 DEF CommandRecord
      <4>3. CommandAt(c)' /\ TruthOf(c, table')
        BY <3>0, <4>1 DEF CommandAt, TruthOf
      <4> QED BY <1>0, <3>0, <3>3, <4>1, <4>2, <4>3, CommandGoesOn
    <3> QED BY <2>8, <3>1, <3>2, <3>3 DEF SetKeyAdds
  <2>9. CASE SetKeySets(t)
    <3>0. /\ cmd[t].at = "set" /\ cmd[t].op \in {"create", "password"} /\ cmd[t].key \in Keys /\ Running(t)
          /\ cmd[t].hash \in HashRecord /\ (cmd[t].alone => table[cmd[t].key] # Absent \/ cmd[t].lost)
      BY <2>9, <2>0 DEF SetKeySets, CommandAt, Running, CommandRecord
    <3>1. CASE Tool(t, "done", "ok") /\ table' = [table EXCEPT ![cmd[t].key] = IF @ = Absent THEN Absent ELSE cmd[t].hash]
      <4>1. PICK c \in CommandRecord : /\ cmd' = [cmd EXCEPT ![t] = c] /\ c.at = "done" /\ c.said = "ok" /\ c.alone = cmd[t].alone
                                       /\ c.key = cmd[t].key /\ c.op = cmd[t].op /\ c.hash = cmd[t].hash /\ c.lost = cmd[t].lost
        BY <3>1, <2>6
      <4>2. /\ table' \in [Keys -> HashRecord] /\ (c.alone => table'[c.key] = c.hash \/ (c.lost /\ table'[c.key] = Absent))
            /\ \A k \in Keys : k # c.key => table'[k] = table[k]
        <5>1. PICK h \in HashRecord : h = IF table[cmd[t].key] = Absent THEN Absent ELSE cmd[t].hash
          BY <1>0, <3>0
        <5>2. table' = [table EXCEPT ![cmd[t].key] = h]
          BY <3>1, <5>1
        <5> QED BY <1>0, <3>0, <4>1, <5>1, <5>2
      <4>3. CommandAt(c)' /\ TruthOf(c, table')
        BY <3>0, <4>1, <4>2 DEF CommandAt, TruthOf
      <4> QED BY <3>0, <4>1, <4>2, <4>3, CommandGoesOn
    <3>2. CASE table' = table /\ Tool(t, "done", "error")
      <4>1. PICK c \in CommandRecord : /\ cmd' = [cmd EXCEPT ![t] = c] /\ c.at = "done" /\ c.said = "error" /\ c.alone = cmd[t].alone
                                       /\ c.key = cmd[t].key
        BY <3>2, <2>6
      <4> QED BY <1>0, <3>0, <3>2, <4>1, CommandGoesOn DEF CommandAt, TruthOf
    <3> QED BY <2>9, <3>1, <3>2 DEF SetKeySets
  <2>10. CASE RemoveKey(t)
    <3>0. cmd[t].at = "del" /\ cmd[t].op = "remove" /\ cmd[t].key \in Keys /\ Running(t)
      BY <2>10, <2>0 DEF RemoveKey, CommandAt, Running
    <3>1. CASE table' = [table EXCEPT ![cmd[t].key] = Absent] /\ Tool(t, "done", "ok")
      <4>1. PICK c \in CommandRecord : /\ cmd' = [cmd EXCEPT ![t] = c] /\ c.at = "done" /\ c.said = "ok" /\ c.alone = cmd[t].alone
                                       /\ c.key = cmd[t].key /\ c.op = cmd[t].op /\ c.hash = cmd[t].hash
        BY <3>1, <2>6
      <4>0. Absent \in HashRecord
        BY DEF HashRecord
      <4>2. /\ table' \in [Keys -> HashRecord] /\ table'[c.key] = Absent
            /\ \A k \in Keys : k # c.key => table'[k] = table[k]
        BY <1>0, <3>0, <3>1, <4>0, <4>1
      <4>3. CommandAt(c)' /\ TruthOf(c, table')
        BY <3>0, <4>1, <4>2 DEF CommandAt, TruthOf
      <4> QED BY <3>0, <4>1, <4>2, <4>3, CommandGoesOn
    <3>2. CASE table' = table /\ Tool(t, "done", "error")
      <4>1. PICK c \in CommandRecord : /\ cmd' = [cmd EXCEPT ![t] = c] /\ c.at = "done" /\ c.said = "error" /\ c.alone = cmd[t].alone
                                       /\ c.key = cmd[t].key
        BY <3>2, <2>6
      <4> QED BY <1>0, <3>0, <3>2, <4>1, CommandGoesOn DEF CommandAt, TruthOf
    <3> QED BY <2>10, <3>1, <3>2 DEF RemoveKey
  <2>11. CASE Killed(t)
    <3>0. Running(t) /\ table' = table /\ Tool(t, "done", "killed")
      BY <2>11 DEF Killed
    <3>1. PICK c \in CommandRecord : /\ cmd' = [cmd EXCEPT ![t] = c] /\ c.at = "done" /\ c.said = "killed" /\ c.alone = cmd[t].alone
                                     /\ c.key = cmd[t].key
      BY <3>0, <2>6
    <3> QED BY <1>0, <3>0, <3>1, CommandGoesOn DEF CommandAt, TruthOf
  <2> QED BY <1>2, <2>2, <2>3, <2>4, <2>5, <2>7, <2>8, <2>9, <2>10, <2>11 DEF CredsCommand
<1> QED BY <1>1, <1>2 DEF CredentialsNext

-----------------------------------------------------------------------------
(* Credentials: the logins *)

\* What IdentityChecked and ExpiredRefused say of one login.
CheckedOf(l) ==
  l.at = "idle" /\ l.said = "ok" =>
    /\ l.asked = usernameForAuth(l.id)
    /\ CheckedBy(setup.provs[l.i], l)
    /\ setup.provs[l.i] = "shadow" =>
         /\ Shadow[l.asked].acctExpiry # -1 => l.day < Shadow[l.asked].acctExpiry
         /\ -1 \notin {Shadow[l.asked].lastChange, Shadow[l.asked].maxPassAge, Shadow[l.asked].inactivity} =>
              l.day < Shadow[l.asked].lastChange + Shadow[l.asked].maxPassAge + Shadow[l.asked].inactivity

LEMMA CheckedAll ==
  /\ IdentityChecked /\ ExpiredRefused <=> \A s \in Sessions : CheckedOf(login[s])
  /\ (IdentityChecked /\ ExpiredRefused)' <=> \A s \in Sessions : CheckedOf(login[s])'
<1>1. IdentityChecked /\ ExpiredRefused <=> \A s \in Sessions : CheckedOf(login[s])
  BY DEF IdentityChecked, ExpiredRefused, CheckedOf
<1>2. (IdentityChecked /\ ExpiredRefused)' <=> \A s \in Sessions : CheckedOf(login[s])'
  BY DEF IdentityChecked, ExpiredRefused, CheckedOf
<1> QED BY <1>1, <1>2

\* The configuration never changes, and with it what a login's record means.
LEMMA SetupKept ==
  ASSUME setup' = setup, NEW l
  PROVE  /\ CheckedOf(l)' <=> CheckedOf(l)
         /\ LoginAt(l)' <=> LoginAt(l)
<1>1. \A n : usernameForAuth(n)' = usernameForAuth(n)
  BY DEF usernameForAuth
<1>2. CheckedOf(l)' <=> CheckedOf(l)
  BY <1>1 DEF CheckedOf, CheckedBy
<1>3. LoginAt(l)' <=> LoginAt(l)
  BY <1>1 DEF LoginAt
<1> QED BY <1>2, <1>3

LEMMA UserTyped ==
  ASSUME NEW n \in Names \cup Keys, setup.amap \in AuthMaps
  PROVE  usernameForAuth(n) \in Names \cup Keys \cup {NoName} /\ CompareKey[n] \in Keys \cup {BadName}
<1>1. CompareKey[n] \in Keys \cup {BadName}
  BY CredentialsAssumption
<1> QED BY <1>1, CredentialsAssumption DEF usernameForAuth

LEMMA LoginsInit == CredentialsInit => LoginInv
<1> SUFFICES ASSUME CredentialsInit PROVE LoginInv
  OBVIOUS
<1>1. table \in [Keys -> HashRecord]
  BY CommandsInit DEF CommandInv
<1>2. login \in [Sessions -> LoginRecord] /\ \A s \in Sessions : login[s] = NoLogin
  BY DEF CredentialsInit, NoLogin, LoginRecord, HashRecord
<1>3. setup \in [amap : AuthMaps, provs : Providers, bind : {"off", "plain"}] /\ Len(setup.provs) \in Nat
  BY CredentialsAssumption DEF CredentialsInit
<1>4. \A s \in Sessions : login[s].at = "idle" /\ login[s].said = "none" /\ login[s].i = 0
  BY <1>2 DEF NoLogin
<1>5. \A s \in Sessions : LoginAt(login[s]) /\ ~UsesConn(s) /\ CheckedOf(login[s])
  BY <1>3, <1>4 DEF LoginAt, UsesConn, CheckedOf
<1>6. /\ ldap \in [conn : {"nil", "open", "closing"}, bound : Names \cup Keys \cup {"none", NoName, "anonymous", "reader"},
                    holder : Sessions \cup {NoSession}]
      /\ ldap.holder = NoSession /\ (setup.bind # "off" => ldap.bound = "reader")
  BY DEF CredentialsInit
<1>7. used \in [acts : Nat, faults : Nat, day : Int]
  BY DEF CredentialsInit
<1>8. SearchesAsReader /\ ConnReturned
  BY <1>4, <1>6 DEF SearchesAsReader, ConnReturned
<1> QED BY <1>1, <1>2, <1>3, <1>5, <1>6, <1>7, <1>8, CheckedAll DEF LoginInv

\* One step of one login.
LEMMA LoginGoesOn ==
  ASSUME LoginInv, CommandInv', used' \in [acts : Nat, faults : Nat, day : Int], setup' = setup,
         NEW s \in Sessions, NEW l \in LoginRecord, login' = [login EXCEPT ![s] = l], LoginAt(l), CheckedOf(l),
         ldap' \in [conn : {"nil", "open", "closing"}, bound : Names \cup Keys \cup {"none", NoName, "anonymous", "reader"},
                     holder : Sessions \cup {NoSession}],
         l.at \in {"search", "bind", "return"} => ldap'.holder = s,
         l.at \notin {"search", "bind", "return"} => ldap'.holder # s,
         ldap.holder = s \/ (ldap.holder = NoSession /\ ldap'.holder = s) \/ ldap' = ldap,
         ldap.holder = s => ldap'.holder \in {s, NoSession},
         l.at = "search" /\ setup.bind # "off" => ldap'.bound = "reader",
         setup.bind # "off" /\ ldap'.conn = "open" /\ ldap'.holder = NoSession => ldap'.bound = "reader"
  PROVE  LoginInv'
<1>0. /\ login \in [Sessions -> LoginRecord] /\ NoSession \notin Sessions
      /\ setup \in [amap : AuthMaps, provs : Providers, bind : {"off", "plain"}]
      /\ \A u \in Sessions : LoginAt(login[u]) /\ CheckedOf(login[u]) /\ (UsesConn(u) => ldap.holder = u)
      /\ SearchesAsReader /\ ConnReturned
  BY CheckedAll, CredentialsAssumption DEF LoginInv
<1>1. login' \in [Sessions -> LoginRecord] /\ login'[s] = l /\ \A u \in Sessions \ {s} : login'[u] = login[u]
  BY <1>0
<1>2. ASSUME NEW u \in Sessions PROVE LoginAt(login[u])' /\ CheckedOf(login[u])'
  <2>1. PICK m \in LoginRecord : m = login'[u] /\ LoginAt(m) /\ CheckedOf(m)
    BY <1>0, <1>1
  <2>2. LoginAt(m)' /\ CheckedOf(m)'
    BY <2>1, SetupKept
  <2> QED BY <2>1, <2>2
<1>3. \A u \in Sessions : UsesConn(u)' => ldap'.holder = u
  BY <1>0, <1>1 DEF UsesConn
<1>4. SearchesAsReader'
  <2> SUFFICES ASSUME NEW u \in Sessions, login'[u].at = "search", setup.bind # "off" PROVE ldap'.bound = "reader"
    BY DEF SearchesAsReader
  <2>1. CASE u = s
    BY <1>1, <2>1
  <2>2. CASE u # s
    <3>1. login[u].at = "search" /\ ldap.holder = u /\ ldap.bound = "reader"
      BY <1>0, <1>1, <2>2 DEF UsesConn, SearchesAsReader
    <3> QED BY <1>0, <2>2, <3>1
  <2> QED BY <2>1, <2>2
<1>5. ConnReturned'
  <2> SUFFICES ASSUME ldap'.holder # NoSession PROVE login'[ldap'.holder].at \in {"search", "bind", "return"}
    BY DEF ConnReturned
  <2>1. CASE ldap'.holder = s
    BY <1>1, <2>1
  <2>2. CASE ldap'.holder # s
    <3>1. ldap' = ldap /\ ldap'.holder \in Sessions \ {s}
      BY <2>2
    <3> QED BY <1>0, <1>1, <3>1 DEF ConnReturned
  <2> QED BY <2>1, <2>2
<1>6. table' \in [Keys -> HashRecord]
  BY DEF CommandInv
<1> QED BY <1>0, <1>1, <1>2, <1>3, <1>4, <1>5, <1>6, CheckedAll DEF LoginInv

\* A step that leaves the connection alone, of a login that does not hold it.
LEMMA LoginAside ==
  ASSUME LoginInv, CommandInv', used' \in [acts : Nat, faults : Nat, day : Int], setup' = setup, ldap' = ldap,
         NEW s \in Sessions, ~UsesConn(s), NEW l \in LoginRecord, login' = [login EXCEPT ![s] = l], LoginAt(l), CheckedOf(l),
         l.at \notin {"search", "bind", "return"}
  PROVE  LoginInv'
<1>1. /\ ldap \in [conn : {"nil", "open", "closing"}, bound : Names \cup Keys \cup {"none", NoName, "anonymous", "reader"},
                   holder : Sessions \cup {NoSession}]
      /\ ldap.holder # s
      /\ setup.bind # "off" /\ ldap.conn = "open" /\ ldap.holder = NoSession => ldap.bound = "reader"
  BY CredentialsAssumption DEF LoginInv, ConnReturned, UsesConn
<1> QED BY <1>1, LoginGoesOn

\* A login that ends keeps the rest of its record.
LEMMA EndsWith ==
  ASSUME NEW A, NEW B, NEW C, NEW D, NEW T, NEW E, NEW F, NEW H, NEW Z, NEW S,
         NEW l \in [mech : A, name : B, id : C, pass : D, at : T, i : E, asked : F, seen : H, day : Z, said : S],
         NEW p \in T, NEW x \in S
  PROVE  [l EXCEPT !.at = p, !.said = x]
           \in [mech : A, name : B, id : C, pass : D, at : T, i : E, asked : F, seen : H, day : Z, said : S]
  OBVIOUS

\* What AuthPlain makes of an answer.
LEMMA AnsweredIs ==
  ASSUME setup.provs \in Seq(ProviderKinds), NEW s \in Sessions, NEW l \in LoginRecord, NEW answer, Answered(s, answer, l),
         l.i \in 1 .. Len(setup.provs)
  PROVE  \E m \in LoginRecord :
           /\ login' = [login EXCEPT ![s] = m] /\ m.name = l.name /\ m.id = l.id /\ m.pass = l.pass
           /\ m.asked = l.asked /\ m.seen = l.seen /\ m.day = l.day
           /\ \/ m.at = "idle" /\ m.i = l.i /\ m.said \in {"ok", "panic", "no"} /\ (m.said = "ok" => answer = "ok")
              \/ m.at = "ask" /\ m.i = l.i + 1 /\ m.i \in 1 .. Len(setup.provs)
<1>0. Len(setup.provs) \in Nat /\ l.i + 1 \in Nat
  OBVIOUS
<1>j. ASSUME NEW j \in Nat PROVE [l EXCEPT !.i = j, !.at = "ask"] \in LoginRecord
  BY DEF LoginRecord
<1>k. ASSUME NEW x, x \in {"ok", "panic", "no"} PROVE [l EXCEPT !.at = "idle", !.said = x] \in LoginRecord
  <2>1. x \in {"none", "ok", "no", "panic", "error", "unknown"}
    BY <1>k
  <2>2. "idle" \in {"idle", "loginNotStarted", "loginWaitingUsername", "loginWaitingPassword", "ask", "search", "bind", "return"}
    OBVIOUS
  <2> DEFINE N == Names \cup Keys \cup {"none"}
             P == Passwords \cup {"none"}
             M == {"none", "PLAIN", "LOGIN"}
             T == {"idle", "loginNotStarted", "loginWaitingUsername", "loginWaitingPassword", "ask", "search", "bind", "return"}
             A == Names \cup Keys \cup {"none", NoName}
             S == {"none", "ok", "no", "panic", "error", "unknown"}
  <2>3. LoginRecord = [mech : M, name : N, id : N, pass : P, at : T, i : Nat, asked : A, seen : HashRecord, day : Int, said : S]
    BY Zenon DEF LoginRecord
  <2>4. x \in S /\ "idle" \in T
    BY <2>1, <2>2
  <2> HIDE DEF N, P, M, T, A, S
  <2> QED BY <2>3, <2>4, EndsWith
<1>1. CASE answer \in {"ok", "panic"}
  <2> DEFINE m == [l EXCEPT !.at = "idle", !.said = answer]
  <2>1. login' = [login EXCEPT ![s] = m]
    BY <1>1 DEF Answered, Session
  <2>2. m \in LoginRecord
    BY <1>1, <1>k
  <2>3. m.name = l.name /\ m.id = l.id /\ m.pass = l.pass /\ m.asked = l.asked /\ m.seen = l.seen /\ m.day = l.day
    BY DEF LoginRecord
  <2>4. m.at = "idle" /\ m.said = answer /\ m.i = l.i
    BY <1>1 DEF LoginRecord
  <2> HIDE DEF m
  <2> QED BY <1>1, <2>1, <2>2, <2>3, <2>4
<1>2. CASE answer \notin {"ok", "panic"} /\ l.i = Len(setup.provs)
  <2> DEFINE m == [l EXCEPT !.at = "idle", !.said = "no"]
  <2>1. login' = [login EXCEPT ![s] = m]
    BY <1>2 DEF Answered, Session
  <2>2. m \in LoginRecord
    BY <1>k
  <2>3. m.name = l.name /\ m.id = l.id /\ m.pass = l.pass /\ m.asked = l.asked /\ m.seen = l.seen /\ m.day = l.day
    BY DEF LoginRecord
  <2>4. m.at = "idle" /\ m.said = "no" /\ m.i = l.i
    BY <1>2 DEF LoginRecord
  <2> HIDE DEF m
  <2> QED BY <1>2, <2>1, <2>2, <2>3, <2>4
<1>3. CASE answer \notin {"ok", "panic"} /\ l.i # Len(setup.provs)
  <2> DEFINE m == [l EXCEPT !.i = l.i + 1, !.at = "ask"]
  <2>1. login' = [login EXCEPT ![s] = m]
    BY <1>3 DEF Answered, Session
  <2>2. m \in LoginRecord
    BY <1>0, <1>j
  <2>3. m.name = l.name /\ m.id = l.id /\ m.pass = l.pass /\ m.asked = l.asked /\ m.seen = l.seen /\ m.day = l.day
    BY DEF LoginRecord
  <2>4. m.at = "ask" /\ m.i = l.i + 1 /\ l.i + 1 \in 1 .. Len(setup.provs)
    BY <1>0, <1>3 DEF LoginRecord
  <2> HIDE DEF m
  <2> QED BY <1>3, <2>1, <2>2, <2>3, <2>4
<1> QED BY <1>1, <1>2, <1>3

\* A provider that accepts has checked the password.
LEMMA AnswerSound ==
  ASSUME table \in [Keys -> HashRecord], setup.amap \in AuthMaps, NEW kind \in ProviderKinds \ {"ldap"}, NEW n \in Names \cup Keys, NEW p,
         NEW up \in BOOLEAN, "ok" \in AnswerOf(kind, n, p, up)
  PROVE  /\ kind \in {"pass_table", "plain_separate"} =>
              /\ CompareKey[n] # BadName /\ table[CompareKey[n]] # Absent
              /\ table[CompareKey[n]].form = "good" /\ table[CompareKey[n]].pass = p
         /\ kind \in {"netauth", "dovecot_sasl", "pam"} => Knows(n, p)
         /\ kind = "external" => Knows(n, p) \/ Knows(LocalOf[n], p)
         /\ kind = "pass_evm" => Knows(LocalOf[n], p)
         /\ kind = "shadow" => /\ IsAccountValid(Shadow[n], used.day) /\ IsPasswordValid(Shadow[n], used.day)
                               /\ Shadow[n].pass = p /\ ~Shadow[n].locked
<1>1. ASSUME "ok" = passTable(n, p, table, ~up)
      PROVE  /\ CompareKey[n] # BadName /\ table[CompareKey[n]] # Absent
             /\ table[CompareKey[n]].form = "good" /\ table[CompareKey[n]].pass = p
  <2>2. CompareKey[n] # BadName /\ table[CompareKey[n]] # Absent /\ "ok" = VerifyHash(p, table[CompareKey[n]])
    BY <1>1 DEF passTable
  <2>3. CompareKey[n] \in Keys
    BY <2>2, UserTyped
  <2>4. PICK h \in HashRecord : h = table[CompareKey[n]]
    BY <2>3
  <2>5. h.form \in {"good", "short"}
    BY DEF HashRecord, Absent
  <2>6. "ok" = verifyArgon2(p, h) \/ "ok" = verifyBcrypt(p, h)
    BY <2>2, <2>4 DEF VerifyHash
  <2>7. h.form = "good" /\ h.pass = p
    BY <2>5, <2>6 DEF verifyArgon2, verifyBcrypt
  <2> QED BY <2>2, <2>4, <2>7
<1>2. ASSUME NEW m, "ok" = AuthUsingHelper(m, p, up) PROVE Knows(m, p)
  BY <1>2 DEF AuthUsingHelper
<1>3. CASE kind = "pass_table"
  <2>1. "ok" = passTable(n, p, table, ~up)
    BY <1>3 DEF AnswerOf
  <2> QED BY <1>1, <1>3, <2>1
<1>4. CASE kind = "plain_separate"
  <2>1. PICK tables \in UserTables(n) : "ok" = plainSeparate(n, tables, <<passTable(n, p, table, ~up)>>)
    BY <1>4 DEF AnswerOf
  <2>2. "ok" = passTable(n, p, table, ~up)
    <3> DEFINE answers == <<passTable(n, p, table, ~up)>>
    <3>1. Len(answers) = 1 /\ answers # <<>> /\ answers[1] = passTable(n, p, table, ~up)
      OBVIOUS
    <3>2. "ok" = answers[1]
      BY <2>1, <3>1 DEF plainSeparate
    <3> QED BY <3>1, <3>2
  <2> QED BY <1>1, <1>4, <2>2
<1>5. CASE kind = "netauth"
  <2>1. PICK member \in BOOLEAN : "ok" = netauth(n, p, up, member)
    BY <1>5 DEF AnswerOf
  <2> QED BY <1>5, <2>1 DEF netauth
<1>6. CASE kind = "dovecot_sasl"
  <2>1. PICK mechs \in {{}, {"LOGIN"}} : "ok" = dovecot(n, p, up, mechs)
    BY <1>6 DEF AnswerOf
  <2> QED BY <1>6, <2>1 DEF dovecot
<1>7. CASE kind = "pam"
  <2>1. PICK helper \in BOOLEAN, lib \in BOOLEAN : "ok" = pam(n, p, up, helper, lib)
    BY <1>7 DEF AnswerOf
  <2>2. "ok" = AuthUsingHelper(n, p, up)
    BY <2>1 DEF pam
  <2> QED BY <1>2, <1>7, <2>2
<1>8. CASE kind = "external"
  <2>1. PICK perDomain \in BOOLEAN : "ok" = external(n, p, up, perDomain)
    BY <1>8 DEF AnswerOf
  <2>2. "ok" = AuthUsingHelper(n, p, up) \/ "ok" = AuthUsingHelper(LocalOf[n], p, up)
    BY <2>1 DEF external
  <2> QED BY <1>2, <1>8, <2>2
<1>9. CASE kind = "pass_evm"
  <2>1. "ok" = evm(n, p, up)
    BY <1>9 DEF AnswerOf
  <2> QED BY <1>9, <2>1 DEF evm
<1>10. CASE kind = "shadow"
  <2>1. "ok" = shadow(n, p, used.day, ~up)
    BY <1>10 DEF AnswerOf
  <2>2. IsAccountValid(Shadow[n], used.day) /\ IsPasswordValid(Shadow[n], used.day) /\ "ok" = VerifyPassword(Shadow[n], p)
    BY <2>1 DEF shadow
  <2>3. Shadow[n].pass = p /\ ~Shadow[n].locked
    BY <2>2 DEF VerifyPassword
  <2> QED BY <1>10, <2>2, <2>3
<1>11. CASE kind = "plain_separate_nopass"
  BY <1>11
<1> QED BY <1>3, <1>4, <1>5, <1>6, <1>7, <1>8, <1>9, <1>10, <1>11 DEF ProviderKinds

LEMMA LoginStep == LoginInv /\ CommandInv' /\ [CredentialsNext]_cvars => LoginInv'
<1> SUFFICES ASSUME LoginInv, CommandInv', [CredentialsNext]_cvars PROVE LoginInv'
  OBVIOUS
<1>0. /\ table \in [Keys -> HashRecord] /\ login \in [Sessions -> LoginRecord] /\ NoSession \notin Sessions
      /\ setup.amap \in AuthMaps /\ setup.provs \in Seq(ProviderKinds) /\ Len(setup.provs) \in Nat /\ Len(setup.provs) > 0
      /\ setup.bind \in {"off", "plain"}
      /\ \A s \in Sessions : LoginAt(login[s]) /\ CheckedOf(login[s]) /\ (UsesConn(s) => ldap.holder = s)
      /\ SearchesAsReader /\ ConnReturned
  <2>1. setup.provs \in Seq(ProviderKinds) /\ setup.provs # <<>>
    BY CredentialsAssumption DEF LoginInv
  <2>2. Len(setup.provs) \in Nat /\ Len(setup.provs) > 0
    BY <2>1, EmptySeq, LenProperties
  <2> QED BY <2>1, <2>2, CheckedAll, CredentialsAssumption DEF LoginInv
<1>l. /\ ldap.conn \in {"nil", "open", "closing"} /\ ldap.holder \in Sessions \cup {NoSession}
      /\ ldap.bound \in Names \cup Keys \cup {"none", NoName, "anonymous", "reader"}
      /\ setup.bind # "off" /\ ldap.conn = "open" /\ ldap.holder = NoSession => ldap.bound = "reader"
  BY DEF LoginInv
\* The counters and the day.
<1>u. /\ used \in [acts : Nat, faults : Nat, day : Int]
      /\ Works \/ Fault \/ Acts => used' \in [acts : Nat, faults : Nat, day : Int]
  <2>1. used \in [acts : Nat, faults : Nat, day : Int]
    BY DEF LoginInv
  <2>2. used.acts + 1 \in Nat /\ used.faults + 1 \in Nat
    BY <2>1
  <2>3. Fault => used' \in [acts : Nat, faults : Nat, day : Int]
    BY <2>1, <2>2 DEF Fault
  <2>4. Acts => used' \in [acts : Nat, faults : Nat, day : Int]
    BY <2>1, <2>2 DEF Acts
  <2> QED BY <2>1, <2>3, <2>4 DEF Works
\* Steps that change no login and not the connection.
<1>1. ASSUME UNCHANGED <<login, ldap, setup>>, used' \in [acts : Nat, faults : Nat, day : Int] PROVE LoginInv'
  <2>1. \A s \in Sessions : LoginAt(login[s])' /\ CheckedOf(login[s])'
    <3> SUFFICES ASSUME NEW s \in Sessions PROVE LoginAt(login[s])' /\ CheckedOf(login[s])'
      OBVIOUS
    <3>1. PICK m : m = login[s] /\ LoginAt(m) /\ CheckedOf(m)
      BY <1>0
    <3>2. LoginAt(m)' /\ CheckedOf(m)'
      BY <1>1, <3>1, SetupKept
    <3> QED BY <1>1, <3>1, <3>2
  <2>2. SearchesAsReader' /\ ConnReturned' /\ \A s \in Sessions : UsesConn(s)' => ldap'.holder = s
    BY <1>0, <1>1 DEF SearchesAsReader, ConnReturned, UsesConn
  <2>3. table' \in [Keys -> HashRecord]
    BY DEF CommandInv
  <2> QED BY <1>1, <2>1, <2>2, <2>3, CheckedAll DEF LoginInv
<1>2. CASE UNCHANGED cvars
  BY <1>1, <1>2, <1>u DEF cvars
<1>3. CASE \E t \in Tools : CredsCommand(t)
  <2>1. UNCHANGED <<login, ldap, setup>> /\ (Works \/ Fault \/ Acts)
    BY <1>3 DEF CredsCommand, CredsPassword, CredsCreate, CredsRemove, CredsEVM, CreateUserLooksUp, SetKeyAdds, SetKeySets, RemoveKey,
                 Killed, Begins
  <2> QED BY <1>1, <1>u, <2>1
<1>4. CASE NewDay
  <2>1. used' \in [acts : Nat, faults : Nat, day : Int]
    <3>1. used.day + 1 \in Int
      BY <1>u
    <3> QED BY <1>4, <1>u, <3>1 DEF NewDay
  <2> QED BY <1>1, <1>4, <2>1 DEF NewDay
<1>5. CASE ConnLost
  <2>1. UNCHANGED <<login, setup>> /\ used' \in [acts : Nat, faults : Nat, day : Int]
        /\ ldap' = [conn |-> "closing", bound |-> ldap.bound, holder |-> ldap.holder]
    BY <1>5, <1>u DEF ConnLost, Ldap
  <2>2. \A s \in Sessions : LoginAt(login[s])' /\ CheckedOf(login[s])'
    <3> SUFFICES ASSUME NEW s \in Sessions PROVE LoginAt(login[s])' /\ CheckedOf(login[s])'
      OBVIOUS
    <3>1. PICK m : m = login[s] /\ LoginAt(m) /\ CheckedOf(m)
      BY <1>0
    <3>2. LoginAt(m)' /\ CheckedOf(m)'
      BY <2>1, <3>1, SetupKept
    <3> QED BY <2>1, <3>1, <3>2
  <2>3. SearchesAsReader' /\ ConnReturned' /\ \A s \in Sessions : UsesConn(s)' => ldap'.holder = s
    BY <1>0, <2>1 DEF SearchesAsReader, ConnReturned, UsesConn
  <2>4. table' \in [Keys -> HashRecord]
    BY DEF CommandInv
  <2>5. ldap' \in [conn : {"nil", "open", "closing"}, bound : Names \cup Keys \cup {"none", NoName, "anonymous", "reader"},
                    holder : Sessions \cup {NoSession}] /\ ldap'.conn # "open"
    BY <1>l, <2>1
  <2> QED BY <2>1, <2>2, <2>3, <2>4, <2>5, CheckedAll DEF LoginInv
<1>6. ASSUME NEW s \in Sessions,
             ServesLogin(s) \/ CreateLogin(s) \/ \E n \in Names, p \in Passwords : CreatePlain(s, n, p)
      PROVE  LoginInv'
  <2>0. login[s] \in LoginRecord /\ LoginAt(login[s])
    BY <1>0
  <2>n. NoLogin \in LoginRecord /\ NoLogin.i = 0
    BY DEF NoLogin, LoginRecord, HashRecord
  <2>r. ASSUME NEW l \in LoginRecord, NEW at \in {"idle", "bind", "return"}, NEW said \in {"no", "unknown", "error", "ok"}
        PROVE  [l EXCEPT !.at = at, !.said = said] \in LoginRecord
    <3>1. \A k \in LoginRecord : [k EXCEPT !.at = at] \in LoginRecord
      BY DEF LoginRecord
    <3>2. \A k \in LoginRecord : [k EXCEPT !.said = said] \in LoginRecord
      BY DEF LoginRecord
    <3>3. [l EXCEPT !.at = at, !.said = said] = [[l EXCEPT !.at = at] EXCEPT !.said = said]
      BY DEF LoginRecord
    <3> QED BY <3>1, <3>2, <3>3
  <2>1. CASE CreateLogin(s)
    <3>1. PICK l \in LoginRecord : l = [NoLogin EXCEPT !.mech = "LOGIN", !.at = "loginNotStarted"]
          /\ l.at = "loginNotStarted" /\ l.i = 0
      <4> DEFINE m == [NoLogin EXCEPT !.mech = "LOGIN", !.at = "loginNotStarted"]
      <4>1. m \in LoginRecord
        BY <2>n, ZenonT(60) DEF LoginRecord
      <4>2. m.at = "loginNotStarted" /\ m.i = 0
        BY <2>n DEF LoginRecord
      <4> QED BY <4>1, <4>2
    <3>2. /\ login' = [login EXCEPT ![s] = l] /\ UNCHANGED <<ldap, setup>> /\ ~UsesConn(s)
          /\ used' \in [acts : Nat, faults : Nat, day : Int]
      BY <2>1, <1>u, <3>1 DEF CreateLogin, Session, UsesConn
    <3>3. LoginAt(l) /\ CheckedOf(l)
      BY <1>0, <3>1 DEF LoginAt, CheckedOf
    <3> QED BY <3>1, <3>2, <3>3, LoginAside
  <2>2. ASSUME NEW n \in Names, NEW p \in Passwords, CreatePlain(s, n, p) PROVE LoginInv'
    <3>1. PICK l \in LoginRecord : l = [NoLogin EXCEPT !.mech = "PLAIN", !.name = n, !.id = n, !.pass = p, !.at = "ask", !.i = 1]
          /\ l.at = "ask" /\ l.i = 1 /\ l.name = n /\ l.id = n
      <4> DEFINE m == [NoLogin EXCEPT !.mech = "PLAIN", !.name = n, !.id = n, !.pass = p, !.at = "ask", !.i = 1]
      <4>1. m \in LoginRecord
        <5> DEFINE k == [NoLogin EXCEPT !.mech = "PLAIN", !.name = n, !.id = n]
        <5>1. k \in LoginRecord
          BY <2>n DEF LoginRecord
        <5>2. m = [k EXCEPT !.pass = p, !.at = "ask", !.i = 1]
          BY <2>n DEF LoginRecord
        <5> HIDE DEF k
        <5>3. [k EXCEPT !.pass = p, !.at = "ask", !.i = 1] \in LoginRecord
          BY <5>1 DEF LoginRecord
        <5> QED BY <5>2, <5>3
      <4>2. m.at = "ask" /\ m.i = 1 /\ m.name = n /\ m.id = n
        BY <2>n DEF LoginRecord
      <4> QED BY <4>1, <4>2
    <3>2. /\ login' = [login EXCEPT ![s] = l] /\ UNCHANGED <<ldap, setup>> /\ ~UsesConn(s)
          /\ used' \in [acts : Nat, faults : Nat, day : Int]
      BY <2>2, <1>u, <3>1 DEF CreatePlain, Session, UsesConn
    <3>3. LoginAt(l) /\ CheckedOf(l)
      BY <1>0, <3>1 DEF LoginAt, CheckedOf
    <3> QED BY <3>1, <3>2, <3>3, LoginAside
  <2>3. CASE loginChallenge(s)
    <3>1. PICK l \in LoginRecord : l = [login[s] EXCEPT !.at = "loginWaitingUsername"]
          /\ l.at = "loginWaitingUsername" /\ l.i = login[s].i
      <4> DEFINE m == [login[s] EXCEPT !.at = "loginWaitingUsername"]
      <4>1. m \in LoginRecord
        BY <2>0 DEF LoginRecord
      <4>2. m.at = "loginWaitingUsername" /\ m.i = login[s].i
        BY <2>0 DEF LoginRecord
      <4> QED BY <4>1, <4>2
    <3>2. /\ login' = [login EXCEPT ![s] = l] /\ UNCHANGED <<ldap, setup, used>> /\ ~UsesConn(s)
      BY <2>3, <3>1 DEF loginChallenge, Session, UsesConn
    <3>3. LoginAt(l) /\ CheckedOf(l)
      BY <2>0, <3>1 DEF LoginAt, CheckedOf
    <3> QED BY <1>u, <3>1, <3>2, <3>3, LoginAside
  <2>4. ASSUME NEW n \in Names, loginUsername(s, n) PROVE LoginInv'
    <3>1. PICK l \in LoginRecord : l = [login[s] EXCEPT !.name = n, !.at = "loginWaitingPassword"]
          /\ l.at = "loginWaitingPassword" /\ l.i = login[s].i /\ l.name = n
      <4> DEFINE m == [login[s] EXCEPT !.name = n, !.at = "loginWaitingPassword"]
      <4>1. m \in LoginRecord
        BY <2>0 DEF LoginRecord
      <4>2. m.at = "loginWaitingPassword" /\ m.i = login[s].i /\ m.name = n
        BY <2>0 DEF LoginRecord
      <4> QED BY <4>1, <4>2
    <3>2. /\ login' = [login EXCEPT ![s] = l] /\ UNCHANGED <<ldap, setup, used>> /\ ~UsesConn(s)
      BY <2>4, <3>1 DEF loginUsername, Session, UsesConn
    <3>3. LoginAt(l) /\ CheckedOf(l)
      BY <2>0, <3>1 DEF LoginAt, CheckedOf
    <3> QED BY <1>u, <3>1, <3>2, <3>3, LoginAside
  \* A login that is told no.
  <2>5. ASSUME Says(s, "no"), ~UsesConn(s), UNCHANGED <<ldap, setup, used>> PROVE LoginInv'
    <3>1. PICK l \in LoginRecord : l = [login[s] EXCEPT !.at = "idle", !.said = "no"]
          /\ l.at = "idle" /\ l.i = login[s].i /\ l.said = "no"
      <4> DEFINE m == [login[s] EXCEPT !.at = "idle", !.said = "no"]
      <4>1. m \in LoginRecord
        BY <2>0, <2>r
      <4>2. m.at = "idle" /\ m.i = login[s].i /\ m.said = "no"
        BY <2>0 DEF LoginRecord
      <4> QED BY <4>1, <4>2
    <3>2. login' = [login EXCEPT ![s] = l]
      BY <2>5, <3>1 DEF Says, Session
    <3>3. LoginAt(l) /\ CheckedOf(l)
      BY <2>0, <3>1 DEF LoginAt, CheckedOf
    <3> QED BY <1>u, <2>5, <3>1, <3>2, <3>3, LoginAside
  <2>6. ASSUME NEW p \in Passwords, loginPassword(s, p) PROVE LoginInv'
    <3>0. login[s].at = "loginWaitingPassword" /\ login[s].name \in Names \cup Keys /\ UNCHANGED <<ldap, setup, used>> /\ ~UsesConn(s)
      BY <2>0, <2>6 DEF loginPassword, LoginAt, UsesConn
    <3>1. CASE usernameForAuth(login[s].name) = NoName
      BY <2>5, <2>6, <3>0, <3>1 DEF loginPassword
    <3>2. CASE usernameForAuth(login[s].name) # NoName
      <4>1. PICK n \in Names \cup Keys : n = usernameForAuth(login[s].name)
        BY <1>0, <3>0, <3>2, UserTyped
      <4>2. login' = [login EXCEPT ![s] = [login[s] EXCEPT !.pass = p, !.id = n, !.name = n, !.at = "ask", !.i = 1]]
        BY <2>6, <3>2, <4>1 DEF loginPassword, Session
      <4>3. PICK l \in LoginRecord : l = [login[s] EXCEPT !.pass = p, !.id = n, !.name = n, !.at = "ask", !.i = 1]
            /\ l.at = "ask" /\ l.i = 1 /\ l.name = n /\ l.id = n
        <5> DEFINE m == [login[s] EXCEPT !.pass = p, !.id = n, !.name = n, !.at = "ask", !.i = 1]
        <5>1. m \in LoginRecord
          BY <2>0 DEF LoginRecord
        <5>2. m.at = "ask" /\ m.i = 1 /\ m.name = n /\ m.id = n
          BY <2>0 DEF LoginRecord
        <5> QED BY <5>1, <5>2
      <4>4. LoginAt(l) /\ CheckedOf(l)
        BY <1>0, <4>3 DEF LoginAt, CheckedOf
      <4> QED BY <1>u, <3>0, <4>2, <4>3, <4>4, LoginAside
    <3> QED BY <3>1, <3>2
  \* A login that asks a provider is at one of them, with a name of its own.
  <2>7. ASSUME login[s].at \in {"ask", "search", "bind", "return"}
        PROVE  /\ login[s].i \in 1 .. Len(setup.provs) /\ login[s].name \in Names \cup Keys /\ login[s].id = login[s].name
               /\ Provider(s) = setup.provs[login[s].i] /\ Provider(s) \in ProviderKinds
    <3>1. login[s].i \in 1 .. Len(setup.provs) /\ login[s].name \in Names \cup Keys /\ login[s].id = login[s].name
      BY <1>0, <2>0, <2>7 DEF LoginAt
    <3>2. Provider(s) = setup.provs[login[s].i]
      BY <2>7, <3>1 DEF Provider
    <3> QED BY <1>0, <3>1, <3>2
  <2>8. CASE AuthPlain(s)
    <3>0. login[s].at = "ask" /\ UNCHANGED <<ldap, setup>> /\ ~UsesConn(s)
      BY <2>8 DEF AuthPlain, UsesConn
    <3>1. CASE usernameForAuth(login[s].name) = NoName
      BY <2>5, <2>8, <3>0, <3>1 DEF AuthPlain, Works
    <3>2. CASE usernameForAuth(login[s].name) # NoName
      <4>1. PICK n \in Names \cup Keys : n = usernameForAuth(login[s].name)
        BY <1>0, <2>7, <3>0, <3>2, UserTyped
      <4>2. PICK kind \in ProviderKinds \ {"ldap"} : kind = Provider(s) /\ kind = setup.provs[login[s].i]
        BY <2>7, <2>8, <3>0, <3>2 DEF AuthPlain
      <4>3. PICK seen \in HashRecord : /\ seen = IF kind \in {"pass_table", "plain_separate"} /\ CompareKey[n] # BadName
                                                 THEN table[CompareKey[n]] ELSE Absent
        <5>1. CompareKey[n] # BadName => CompareKey[n] \in Keys
          BY <1>0, UserTyped
        <5> QED BY <1>0, <5>1 DEF HashRecord
      <4> DEFINE l == [login[s] EXCEPT !.asked = n, !.seen = seen, !.day = used.day]
      <4>4. l \in LoginRecord
        BY <1>u, <2>0 DEF LoginRecord
      <4>5. /\ l.asked = n /\ l.seen = seen /\ l.day = used.day /\ l.i = login[s].i /\ l.id = login[s].id
            /\ l.name = login[s].name /\ l.pass = login[s].pass
        BY <1>u, <2>0 DEF LoginRecord
      <4>0. PICK up \in BOOLEAN : (IF up THEN Works ELSE Fault) /\ \E a \in AnswerOf(kind, n, l.pass, up) : Answered(s, a, l)
        BY <2>8, <3>2, <4>1, <4>2, <4>3 DEF AuthPlain
      <4>6. PICK a \in AnswerOf(kind, n, login[s].pass, up) : used' \in [acts : Nat, faults : Nat, day : Int] /\ Answered(s, a, l)
        BY <1>u, <4>0, <4>5
      <4>7. PICK m \in LoginRecord :
              /\ login' = [login EXCEPT ![s] = m] /\ m.name = l.name /\ m.id = l.id /\ m.pass = l.pass
              /\ m.asked = l.asked /\ m.seen = l.seen /\ m.day = l.day
              /\ \/ m.at = "idle" /\ m.i = l.i /\ m.said \in {"ok", "panic", "no"} /\ (m.said = "ok" => a = "ok")
                 \/ m.at = "ask" /\ m.i = l.i + 1 /\ m.i \in 1 .. Len(setup.provs)
        <5>1. l.i \in 1 .. Len(setup.provs)
          BY <2>7, <3>0, <4>5
        <5> HIDE DEF l
        <5> QED BY <1>0, <4>4, <4>6, <5>1, AnsweredIs
      <4> HIDE DEF l
      <4>8. LoginAt(m)
        BY <1>0, <2>7, <3>0, <4>5, <4>7 DEF LoginAt
      <4>9. CheckedOf(m)
        <5> SUFFICES ASSUME m.at = "idle", m.said = "ok" PROVE CheckedOf(m)
          BY DEF CheckedOf
        <5>1. "ok" \in AnswerOf(kind, n, login[s].pass, up) /\ m.i = login[s].i
          BY <4>5, <4>6, <4>7
        <5>2. m.asked = n /\ n = usernameForAuth(m.id) /\ m.seen = seen /\ m.pass = login[s].pass /\ m.day = used.day /\ kind = setup.provs[m.i]
          BY <2>7, <3>0, <4>1, <4>2, <4>5, <4>7, <5>1
        <5>7. PICK q : q = login[s].pass
          OBVIOUS
        <5>6. /\ kind \in {"pass_table", "plain_separate"} =>
                   /\ CompareKey[n] # BadName /\ table[CompareKey[n]] # Absent
                   /\ table[CompareKey[n]].form = "good" /\ table[CompareKey[n]].pass = q
              /\ kind \in {"netauth", "dovecot_sasl", "pam"} => Knows(n, q)
              /\ kind = "external" => Knows(n, q) \/ Knows(LocalOf[n], q)
              /\ kind = "pass_evm" => Knows(LocalOf[n], q)
              /\ kind = "shadow" => /\ IsAccountValid(Shadow[n], used.day) /\ IsPasswordValid(Shadow[n], used.day)
                                    /\ Shadow[n].pass = q /\ ~Shadow[n].locked
          BY <1>0, <5>1, <5>7, AnswerSound
        <5>3. /\ kind \in {"pass_table", "plain_separate"} =>
                   /\ CompareKey[n] # BadName /\ table[CompareKey[n]] # Absent
                   /\ table[CompareKey[n]].form = "good" /\ table[CompareKey[n]].pass = m.pass
              /\ kind \in {"netauth", "dovecot_sasl", "pam"} => Knows(n, m.pass)
              /\ kind = "external" => Knows(n, m.pass) \/ Knows(LocalOf[n], m.pass)
              /\ kind = "pass_evm" => Knows(LocalOf[n], m.pass)
              /\ kind = "shadow" => /\ IsAccountValid(Shadow[n], used.day) /\ IsPasswordValid(Shadow[n], used.day)
                                    /\ Shadow[n].pass = m.pass /\ ~Shadow[n].locked
          BY <5>2, <5>6, <5>7
        <5>4. CheckedBy(kind, m)
          <6>1. kind \in {"pass_table", "plain_separate"} => m.seen = table[CompareKey[n]]
            BY <4>3, <5>2, <5>3
          <6> QED BY <5>2, <5>3, <6>1 DEF CheckedBy
        <5>5. kind = "shadow" => /\ Shadow[n].acctExpiry # -1 => used.day < Shadow[n].acctExpiry
                                 /\ -1 \notin {Shadow[n].lastChange, Shadow[n].maxPassAge, Shadow[n].inactivity} =>
                                      used.day < Shadow[n].lastChange + Shadow[n].maxPassAge + Shadow[n].inactivity
          BY <5>3 DEF IsAccountValid, IsPasswordValid
        <5> QED BY <5>2, <5>3, <5>4, <5>5 DEF CheckedOf
      <4> QED BY <3>0, <4>6, <4>7, <4>8, <4>9, LoginAside
    <3> QED BY <3>1, <3>2
  <2>9. ASSUME NEW c \in {"nil", "open", "closing"}, NEW bound \in Names \cup Keys \cup {"none", NoName, "anonymous", "reader"},
               NEW holder \in {s, NoSession}, Ldap(c, bound, holder)
        PROVE  /\ ldap' \in [conn : {"nil", "open", "closing"}, bound : Names \cup Keys \cup {"none", NoName, "anonymous", "reader"},
                          holder : Sessions \cup {NoSession}]
               /\ ldap'.conn = c /\ ldap'.bound = bound /\ ldap'.holder = holder
    BY <2>9 DEF Ldap
  <2>10. CASE getConn(s)
    <3>0. /\ login[s].at = "ask" /\ Provider(s) = "ldap" /\ ldap.holder = NoSession /\ setup' = setup /\ ~UsesConn(s)
          /\ usernameForAuth(login[s].name) # NoName
      BY <2>10 DEF getConn, WantsConn, UsesConn
    <3>1. PICK n \in Names \cup Keys : n = usernameForAuth(login[s].name)
      BY <1>0, <2>7, <3>0, UserTyped
    <3> DEFINE l == [login[s] EXCEPT !.asked = n]
    <3>2. l \in LoginRecord
      BY <2>0 DEF LoginRecord
    <3>3. /\ l.asked = n /\ l.i = login[s].i /\ l.id = login[s].id /\ l.name = login[s].name /\ l.pass = login[s].pass
      BY <2>0 DEF LoginRecord
    <3>4. \/ /\ Works /\ Session(s, [l EXCEPT !.at = "search"])
             /\ IF ldap.conn = "open" THEN Ldap("open", ldap.bound, s) ELSE Ldap("open", newBind, s)
          \/ Works /\ Answered(s, "error", l) /\ UNCHANGED ldap
      BY <2>10, <3>1 DEF getConn
    <3> HIDE DEF l
    <3>5. CASE /\ Works /\ Session(s, [l EXCEPT !.at = "search"])
               /\ IF ldap.conn = "open" THEN Ldap("open", ldap.bound, s) ELSE Ldap("open", newBind, s)
      <4> DEFINE m == [l EXCEPT !.at = "search"]
      <4>1. m \in LoginRecord
        BY <3>2 DEF LoginRecord
      <4>2. m.at = "search" /\ m.asked = n /\ m.i = login[s].i /\ m.id = login[s].id /\ m.name = login[s].name
        BY <3>2, <3>3 DEF LoginRecord
      <4>3. login' = [login EXCEPT ![s] = m]
        BY <3>5 DEF Session
      <4>4. newBind \in {"anonymous", "reader"} /\ (setup.bind # "off" => newBind = "reader")
        BY DEF newBind
      <4>5. PICK b \in Names \cup Keys \cup {"none", NoName, "anonymous", "reader"} :
              Ldap("open", b, s) /\ (setup.bind # "off" => b = "reader")
        BY <1>l, <3>0, <3>5, <4>4
      <4>6. /\ ldap' \in [conn : {"nil", "open", "closing"}, bound : Names \cup Keys \cup {"none", NoName, "anonymous", "reader"},
                          holder : Sessions \cup {NoSession}]
            /\ ldap'.bound = b /\ ldap'.holder = s
        BY <2>9, <4>5
      <4> HIDE DEF m
      <4>7. LoginAt(m) /\ CheckedOf(m)
        BY <2>7, <3>0, <3>1, <4>2 DEF LoginAt, CheckedOf
      <4> QED BY <1>0, <1>u, <3>0, <3>5, <4>1, <4>2, <4>3, <4>5, <4>6, <4>7, LoginGoesOn
    <3>6. CASE Works /\ Answered(s, "error", l) /\ UNCHANGED ldap
      <4>1. l.i \in 1 .. Len(setup.provs)
        BY <2>7, <3>0, <3>3
      <4>2. PICK m \in LoginRecord :
              /\ login' = [login EXCEPT ![s] = m] /\ m.name = l.name /\ m.id = l.id
              /\ \/ m.at = "idle" /\ m.i = l.i /\ m.said \in {"ok", "panic", "no"} /\ m.said # "ok"
                 \/ m.at = "ask" /\ m.i = l.i + 1 /\ m.i \in 1 .. Len(setup.provs)
        BY <1>0, <3>2, <3>6, <4>1, AnsweredIs
      <4>3. LoginAt(m) /\ CheckedOf(m) /\ m.at \notin {"search", "bind", "return"}
        BY <1>0, <2>7, <3>0, <3>3, <4>1, <4>2 DEF LoginAt, CheckedOf
      <4> QED BY <1>u, <3>0, <3>6, <4>2, <4>3, LoginAside
    <3> QED BY <3>4, <3>5, <3>6
  \* A step of the login that holds the connection, which it keeps.
  <2>11. ASSUME NEW at \in {"bind", "return"}, NEW said \in {"unknown", "error", "ok"}, UsesConn(s), ldap.holder = s, setup' = setup,
                Session(s, [login[s] EXCEPT !.at = at, !.said = said]), said = "ok" => Knows(login[s].asked, login[s].pass),
                ldap' \in [conn : {"nil", "open", "closing"}, bound : Names \cup Keys \cup {"none", NoName, "anonymous", "reader"},
                          holder : Sessions \cup {NoSession}],
                ldap'.holder = s, used' \in [acts : Nat, faults : Nat, day : Int]
         PROVE  LoginInv'
    <3> DEFINE m == [login[s] EXCEPT !.at = at, !.said = said]
    <3>1. m \in LoginRecord
      BY <2>0, <2>r
    <3>2. /\ m.at = at /\ m.said = said /\ m.asked = login[s].asked /\ m.i = login[s].i /\ m.id = login[s].id
          /\ m.name = login[s].name /\ m.pass = login[s].pass
      BY <2>0 DEF LoginRecord
    <3>3. login' = [login EXCEPT ![s] = m]
      BY <2>11 DEF Session
    <3> HIDE DEF m
    <3>4. LoginAt(m) /\ CheckedOf(m)
      BY <2>0, <2>11, <3>2 DEF LoginAt, CheckedOf, UsesConn
    <3> QED BY <1>0, <2>11, <3>1, <3>2, <3>3, <3>4, LoginGoesOn
  <2>12. CASE ldapSearch(s)
    <3>1. UsesConn(s) /\ ldap.holder = s /\ setup' = setup /\ ldap' = ldap
      BY <2>12 DEF ldapSearch, Holding, UsesConn
    <3>2. \E at \in {"bind", "return"}, said \in {"unknown", "error"} :
            Session(s, [login[s] EXCEPT !.at = at, !.said = said])
      BY <2>12 DEF ldapSearch
    <3>3. Works \/ Fault
      BY <2>12 DEF ldapSearch
    <3>4. ldap \in [conn : {"nil", "open", "closing"}, bound : Names \cup Keys \cup {"none", NoName, "anonymous", "reader"},
                          holder : Sessions \cup {NoSession}]
      BY DEF LoginInv
    <3> QED BY <1>u, <2>11, <3>1, <3>2, <3>3, <3>4
  <2>13. CASE ldapBind(s)
    <3>1. UsesConn(s) /\ ldap.holder = s /\ setup' = setup /\ used' = used
      BY <2>13 DEF ldapBind, Holding, UsesConn
    <3>2. PICK good \in BOOLEAN :
            /\ good => Knows(login[s].asked, login[s].pass)
            /\ Session(s, [login[s] EXCEPT !.at = "return", !.said = IF good THEN "ok" ELSE "unknown"])
            /\ Ldap(ldap.conn, IF good THEN login[s].asked ELSE "anonymous", s)
      BY <2>13 DEF ldapBind
    <3>3. login[s].asked \in Names \cup Keys \cup {"none", NoName}
      BY <2>0 DEF LoginRecord
    <3>4. /\ ldap' \in [conn : {"nil", "open", "closing"}, bound : Names \cup Keys \cup {"none", NoName, "anonymous", "reader"},
                          holder : Sessions \cup {NoSession}]
          /\ ldap'.holder = s
      BY <1>l, <2>9, <3>2, <3>3
    <3>5. CASE good
      BY <1>u, <2>11, <3>1, <3>2, <3>4, <3>5
    <3>6. CASE ~good
      BY <1>u, <2>11, <3>1, <3>2, <3>4, <3>6
    <3> QED BY <3>5, <3>6
  <2>14. CASE returnConn(s)
    <3>0. /\ login[s].at = "return" /\ ldap.holder = s /\ setup' = setup
          /\ setup.provs[login[s].i] = "ldap" /\ login[s].asked = usernameForAuth(login[s].id)
          /\ login[s].said = "ok" => Knows(login[s].asked, login[s].pass)
      BY <2>0, <2>14 DEF returnConn, Holding, LoginAt
    <3>1. PICK answer \in {"ok", "no", "panic", "error", "unknown", "none"} :
            Answered(s, answer, login[s]) /\ (answer = "ok" => login[s].said = "ok")
      BY <2>0, <2>14 DEF returnConn, LoginRecord
    <3>2. Works \/ Fault
      BY <2>14 DEF returnConn
    <3>3. /\ ldap' \in [conn : {"nil", "open", "closing"}, bound : Names \cup Keys \cup {"none", NoName, "anonymous", "reader"},
                          holder : Sessions \cup {NoSession}]
          /\ ldap'.holder = NoSession /\ (setup.bind # "off" /\ ldap'.conn = "open" => ldap'.bound = "reader")
      <4>1. readBind \in Names \cup Keys \cup {"none", NoName, "anonymous", "reader"} /\ (setup.bind # "off" => readBind = "reader")
        BY <1>l DEF readBind
      <4> QED BY <1>l, <2>9, <2>14, <4>1 DEF returnConn
    <3>4. PICK m \in LoginRecord :
              /\ login' = [login EXCEPT ![s] = m] /\ m.name = login[s].name /\ m.id = login[s].id /\ m.pass = login[s].pass
              /\ m.asked = login[s].asked
              /\ \/ m.at = "idle" /\ m.i = login[s].i /\ m.said \in {"ok", "panic", "no"} /\ (m.said = "ok" => answer = "ok")
                 \/ m.at = "ask" /\ m.i = login[s].i + 1 /\ m.i \in 1 .. Len(setup.provs)
      BY <1>0, <2>0, <2>7, <3>0, <3>1, AnsweredIs
    <3>5. LoginAt(m) /\ CheckedOf(m) /\ m.at \notin {"search", "bind", "return"}
      BY <1>0, <2>7, <3>0, <3>1, <3>4 DEF LoginAt, CheckedOf, CheckedBy
    <3> QED BY <1>0, <1>u, <3>0, <3>2, <3>3, <3>4, <3>5, LoginGoesOn
  <2> QED BY <1>6, <2>1, <2>2, <2>3, <2>4, <2>6, <2>8, <2>10, <2>12, <2>13, <2>14 DEF ServesLogin
<1> QED BY <1>2, <1>3, <1>4, <1>5, <1>6 DEF CredentialsNext

LEMMA LoginsSafe == CommandInv /\ LoginInv => LoginsChecked
<1> SUFFICES ASSUME CommandInv, LoginInv PROVE CredentialsTypeOK
  BY DEF LoginInv, LoginsChecked
<1>1. \A k \in Keys : table[k] = Absent \/ table[k].algo \in Hashes
  <2> SUFFICES ASSUME NEW h \in HashRecord PROVE h = Absent \/ h.algo \in Hashes
    BY DEF CommandInv
  <2> QED BY DEF HashRecord
<1>2. \A t \in Tools : cmd[t].at \in {"done", "lookup", "add", "set", "del"}
  BY DEF CommandInv, CommandRecord
<1>3. \A s \in Sessions : login[s].i \in 0..Len(setup.provs)
  BY DEF LoginInv, LoginAt
<1>4. \A s \in Sessions : login[s].at \in {"idle", "loginNotStarted", "loginWaitingUsername", "loginWaitingPassword",
                                           "ask", "search", "bind", "return"}
  BY DEF LoginInv, LoginRecord
<1>5. ldap.conn \in {"nil", "open", "closing"} /\ ldap.holder \in Sessions \cup {NoSession}
  BY DEF LoginInv
<1> QED BY <1>1, <1>2, <1>3, <1>4, <1>5 DEF CredentialsTypeOK

-----------------------------------------------------------------------------
(* Mailboxes *)

\* MailboxInv, as a relation of a store and of the record of one command.
StoreOk(st, ids) ==
  /\ \A n \in BoxNames : \A u \in DOMAIN st.boxes[n].msgs : u < st.boxes[n].next
  /\ st.gen <= ids /\ (st.gen = 0 => \A n \in BoxNames : st.boxes[n].id = 0)
  /\ \A n \in BoxNames : /\ st.boxes[n].id <= ids
                          /\ \A m \in BoxNames : st.boxes[m].id = st.boxes[n].id => m = n \/ st.boxes[n].id = 0
ShapeOk(c) ==
  /\ c.at \in OpNames => c.name = c.at
  /\ c.at \notin {"done", "create", "remove"} => c.gen # 0
  /\ c.at = "folder" => c.name = "create" /\ c.i \in 1 .. Len(DefaultFolders)
  /\ c.at = "store" => c.name = "add" /\ c.id # 0
  /\ c.at = "mark" => c.name = "flags"
  /\ c.at = "delete" => c.name = "rmmsg"
  /\ c.name = "add" /\ c.said = "ok" => c.at = "done" /\ c.id # 0
  /\ c.name = "create" /\ c.said = "ok" => c.at = "done" /\ c.gen # 0
  /\ c.at # "done" => c.said = "none" /\ c.gone = {}
  /\ c.i <= Len(DefaultFolders) /\ c.seen = c.asked
  /\ c.name = "rmmsg" /\ ~c.uid => c.gone \subseteq {u \in c.asked : Position(u, c.asked) \in c.arg}
UIDOk(t, c, st) ==
  c.alone =>
    /\ c.at = "store" => /\ st.boxes[c.box].id # 0 /\ st.boxes[c.box].id = c.id /\ st.boxes[c.box].next = c.next
    /\ c.at = "done" /\ c.name = "add" /\ c.said = "ok" =>
         \A n \in BoxNames : st.boxes[n].id = c.id =>
           c.next < st.boxes[n].next /\ \A u \in DOMAIN st.boxes[n].msgs : st.boxes[n].msgs[u].of = t => u <= c.next
FoldersOk(c, st) ==
  c.alone /\ ~c.failed /\ st.gen = c.gen =>
    /\ c.at = "folder" => \A k \in 1 .. (c.i - 1) : st.boxes[DefaultFolders[k]].id # 0
    /\ c.at = "done" /\ c.name = "create" /\ c.said = "ok" => \A k \in 1 .. Len(DefaultFolders) : st.boxes[DefaultFolders[k]].id # 0
OpOk(t, c, st, ids) == c.gen <= ids /\ c.id <= ids /\ ShapeOk(c) /\ UIDOk(t, c, st) /\ FoldersOk(c, st)

StoreRecord == [gen : Nat, limit : -1 .. (LimitWidth - 1), boxes : [BoxNames -> BoxRecord]]
CountRecord == [ops : Nat, mail : Nat, fails : Nat, ids : Nat]

MailboxIs ==
  /\ store \in StoreRecord /\ op \in [Operators -> OpRecord] /\ count \in CountRecord
  /\ StoreOk(store, count.ids) /\ \A t \in Operators : OpOk(t, op[t], store, count.ids)

LEMMA MailboxParts == MailboxInv <=> MailboxIs
<1>t. MailboxesTyped <=> store \in StoreRecord /\ op \in [Operators -> OpRecord] /\ count \in CountRecord
  BY DEF MailboxesTyped, StoreRecord, CountRecord
<1>1. ASSUME MailboxInv
      PROVE  StoreOk(store, count.ids) /\ \A t \in Operators : OpOk(t, op[t], store, count.ids)
  <2>1. StoreOk(store, count.ids)
    BY <1>1 DEF MailboxInv, MailboxesTypeOK, IdsFresh, Exists, Uids, StoreOk
  <2>2. ASSUME NEW t \in Operators PROVE OpOk(t, op[t], store, count.ids)
    <3>1. op[t].gen <= count.ids /\ op[t].id <= count.ids
      BY <1>1 DEF MailboxInv, IdsFresh
    <3>2. ShapeOk(op[t])
      BY <1>1 DEF MailboxInv, OpShape, RemovesWhatWasAsked, ShapeOk
    <3>3. UIDOk(t, op[t], store)
      BY <1>1 DEF MailboxInv, UIDKnown, UIDOk, Exists, Uids
    <3>4. FoldersOk(op[t], store)
      BY <1>1 DEF MailboxInv, FoldersSoFar, AccountComplete, FoldersOk, Exists
    <3> QED BY <3>1, <3>2, <3>3, <3>4 DEF OpOk
  <2> QED BY <2>1, <2>2
<1>2. ASSUME store \in StoreRecord, op \in [Operators -> OpRecord], count \in CountRecord,
             StoreOk(store, count.ids), \A t \in Operators : OpOk(t, op[t], store, count.ids)
      PROVE  MailboxInv
  <2>0. Len(DefaultFolders) \in Nat
    BY MailboxesAssumption
  <2>1. store.limit \in -1 .. (LimitWidth - 1) /\ \A t \in Operators : op[t].i \in Nat /\ op[t].i <= Len(DefaultFolders)
    BY <1>2 DEF StoreRecord, OpRecord, OpOk, ShapeOk
  <2>2. MailboxesTypeOK
    BY <1>2, <2>0, <2>1 DEF MailboxesTypeOK, Uids, StoreOk
  <2>3. IdsFresh
    BY <1>2 DEF IdsFresh, Exists, StoreOk, OpOk
  <2>4. OpShape
    BY <1>2 DEF OpShape, OpOk, ShapeOk
  <2>5. RemovesWhatWasAsked
    BY <1>2 DEF RemovesWhatWasAsked, OpOk, ShapeOk
  <2>6. UIDKnown
    BY <1>2 DEF UIDKnown, OpOk, UIDOk, Exists, Uids
  <2>7. FoldersSoFar
    BY <1>2 DEF FoldersSoFar, OpOk, FoldersOk, Exists
  <2>8. AccountComplete
    BY <1>2 DEF AccountComplete, OpOk, FoldersOk, Exists
  <2> QED BY <1>2, <1>t, <2>2, <2>3, <2>4, <2>5, <2>6, <2>7, <2>8 DEF MailboxInv
<1>3. MailboxInv => MailboxesTyped
  BY DEF MailboxInv
<1> QED BY <1>t, <1>1, <1>2, <1>3 DEF MailboxIs

LEMMA MailboxPartsNext == MailboxInv' <=> MailboxIs'
BY MailboxParts, PTL

\* The messages of a mailbox: a function on a set of UIDs.
LEMMA MessagesAre ==
  ASSUME NEW m PROVE m \in Messages <=> DOMAIN m \subseteq Nat /\ m \in [DOMAIN m -> Message]
<1>1. ASSUME m \in Messages PROVE DOMAIN m \subseteq Nat /\ m \in [DOMAIN m -> Message]
  <2>1. PICK S \in SUBSET Nat : m \in [S -> Message]
    BY <1>1 DEF Messages
  <2>2. DOMAIN m = S
    BY <2>1
  <2> QED BY <2>1, <2>2
<1>2. ASSUME DOMAIN m \subseteq Nat, m \in [DOMAIN m -> Message] PROVE m \in Messages
  BY <1>2 DEF Messages
<1> QED BY <1>1, <1>2

LEMMA WithIs ==
  ASSUME NEW m \in Messages, NEW u \in Nat, NEW e \in Message
  PROVE  /\ With(m, u, e) \in Messages /\ DOMAIN With(m, u, e) = DOMAIN m \cup {u}
         /\ With(m, u, e)[u] = e /\ \A v \in DOMAIN m : v # u => With(m, u, e)[v] = m[v]
<1>1. DOMAIN m \subseteq Nat /\ m \in [DOMAIN m -> Message]
  BY MessagesAre
<1>2. /\ DOMAIN With(m, u, e) = DOMAIN m \cup {u} /\ With(m, u, e) \in [DOMAIN m \cup {u} -> Message]
      /\ With(m, u, e)[u] = e /\ \A v \in DOMAIN m : v # u => With(m, u, e)[v] = m[v]
  BY <1>1 DEF With
<1> QED BY <1>1, <1>2, MessagesAre

LEMMA WithoutIs ==
  ASSUME NEW m \in Messages, NEW S
  PROVE  LET r == Restrict(m, DOMAIN m \ S)
         IN r \in Messages /\ DOMAIN r = DOMAIN m \ S /\ \A v \in DOMAIN r : r[v] = m[v]
<1> DEFINE r == Restrict(m, DOMAIN m \ S)
<1>1. DOMAIN m \subseteq Nat /\ m \in [DOMAIN m -> Message]
  BY MessagesAre
<1>2. DOMAIN r = DOMAIN m \ S /\ r \in [DOMAIN m \ S -> Message] /\ \A v \in DOMAIN r : r[v] = m[v]
  BY <1>1 DEF Restrict
<1>3. r \in Messages
  BY <1>1, <1>2, MessagesAre
<1> QED BY <1>2, <1>3

LEMMA FlaggedIs ==
  ASSUME NEW m \in Messages, NEW S, NEW f \in BOOLEAN
  PROVE  /\ Flagged(m, S, f) \in Messages /\ DOMAIN Flagged(m, S, f) = DOMAIN m
         /\ \A v \in DOMAIN m : Flagged(m, S, f)[v].of = m[v].of
<1> DEFINE r == Flagged(m, S, f)
<1>1. DOMAIN m \subseteq Nat /\ m \in [DOMAIN m -> Message]
  BY MessagesAre
<1>2. DOMAIN r = DOMAIN m /\ r \in [DOMAIN m -> Message] /\ \A v \in DOMAIN m : r[v].of = m[v].of
  BY <1>1 DEF Flagged, Message
<1>3. r \in Messages
  BY <1>1, <1>2, MessagesAre
<1> QED BY <1>2, <1>3

LEMMA MailboxTruthful == MailboxInv => MailboxToolsTruthful
<1> SUFFICES ASSUME MailboxInv PROVE AddedUIDNamed
  BY DEF MailboxInv, MailboxToolsTruthful
<1> SUFFICES ASSUME NEW t \in Operators, op[t].at = "done", op[t].name = "add", op[t].said = "ok", op[t].alone,
                    store.boxes[op[t].box].id = op[t].id, NEW u \in Uids(store.boxes[op[t].box]),
                    store.boxes[op[t].box].msgs[u].of = t, u + 1 = store.boxes[op[t].box].next
             PROVE  u = op[t].next
  BY DEF AddedUIDNamed
<1>1. op[t].box \in BoxNames /\ op[t].next \in Nat
  BY DEF MailboxInv, MailboxesTyped, OpRecord
<1>2. op[t].next < store.boxes[op[t].box].next /\ u <= op[t].next
  BY <1>1 DEF MailboxInv, UIDKnown
<1>3. u \in Nat
  <2>1. store.boxes[op[t].box].msgs \in Messages
    BY <1>1 DEF MailboxInv, MailboxesTyped, BoxRecord
  <2> QED BY <2>1, MessagesAre DEF Uids
<1> QED BY <1>1, <1>2, <1>3

LEMMA EmptyIs ==
  /\ INBOX \in BoxNames /\ LimitWidth \in Nat \ {0} /\ Len(DefaultFolders) \in Nat /\ "server" \notin Operators
  /\ NoBox \in BoxRecord /\ NoBox.id = 0 /\ NoBox.next = 1 /\ DOMAIN NoBox.msgs = {}
  /\ EmptyStore \in StoreRecord /\ EmptyStore.gen = 0 /\ EmptyStore.limit = -1 /\ EmptyStore.boxes = [b \in BoxNames |-> NoBox]
<1>0. INBOX \in BoxNames /\ LimitWidth \in Nat \ {0} /\ Len(DefaultFolders) \in Nat /\ "server" \notin Operators
  BY MailboxesAssumption
<1>1. <<>> \in Messages
  <2>1. <<>> \in [{} -> Message] /\ {} \in SUBSET Nat
    OBVIOUS
  <2> QED BY <2>1 DEF Messages
<1>2. NoBox \in BoxRecord /\ NoBox.id = 0 /\ NoBox.next = 1 /\ DOMAIN NoBox.msgs = {}
  BY <1>1 DEF NoBox, BoxRecord
<1>3. EmptyStore \in StoreRecord /\ EmptyStore.gen = 0 /\ EmptyStore.limit = -1 /\ EmptyStore.boxes = [b \in BoxNames |-> NoBox]
  BY <1>0, <1>2 DEF EmptyStore, StoreRecord
<1> QED BY <1>0, <1>2, <1>3

LEMMA MailboxesStart == MailboxesInit => MailboxInv
<1> SUFFICES ASSUME MailboxesInit PROVE MailboxInv
  OBVIOUS
<1>0. INBOX \in BoxNames /\ LimitWidth \in Nat \ {0} /\ Len(DefaultFolders) \in Nat
  BY EmptyIs
<1> DEFINE first == [u \in {1} |-> [of |-> "server", flag |-> FALSE]]
           box == [id |-> 1, next |-> 2, msgs |-> first]
<1>1. first \in Messages /\ DOMAIN first = {1}
  <2>1. first \in [{1} -> Message] /\ DOMAIN first = {1}
    BY DEF Message
  <2> HIDE DEF first
  <2>2. first \in Messages
    BY <2>1, MessagesAre
  <2> QED BY <2>1, <2>2
<1>2. NoBox \in BoxRecord /\ box \in BoxRecord
  BY <1>1, EmptyIs DEF BoxRecord
<1>e. EmptyStore \in StoreRecord /\ EmptyStore.gen = 0 /\ EmptyStore.limit = -1 /\ EmptyStore.boxes = [b \in BoxNames |-> NoBox]
  BY EmptyIs
<1>u. /\ UsedStore \in StoreRecord /\ UsedStore.gen = 1
      /\ UsedStore.boxes = [b \in BoxNames |-> IF b = INBOX THEN box ELSE NoBox]
  <2> DEFINE boxes == [b \in BoxNames |-> IF b = INBOX THEN box ELSE NoBox]
  <2>1. [EmptyStore.boxes EXCEPT ![INBOX] = box] = boxes
    BY <1>0, <1>e
  <2>2. boxes \in [BoxNames -> BoxRecord]
    <3> HIDE DEF box
    <3> QED BY <1>2
  <2>3. UsedStore = [EmptyStore EXCEPT !.gen = 1, !.boxes = [EmptyStore.boxes EXCEPT ![INBOX] = box]]
    BY <1>e DEF UsedStore, StoreRecord
  <2> HIDE DEF boxes, box
  <2>4. UsedStore = [EmptyStore EXCEPT !.gen = 1, !.boxes = boxes]
    BY <2>1, <2>3
  <2>5. UsedStore \in StoreRecord /\ UsedStore.gen = 1 /\ UsedStore.boxes = boxes
    BY <1>e, <2>2, <2>4 DEF StoreRecord
  <2> QED BY <2>5 DEF boxes
<1>3. StoreOk(EmptyStore, 1) /\ StoreOk(UsedStore, 1)
  <2>1. NoBox.id = 0 /\ DOMAIN NoBox.msgs = {} /\ box.id = 1 /\ box.next = 2 /\ DOMAIN box.msgs = {1}
    BY EmptyIs
  <2> HIDE DEF box
  <2>2. StoreOk(EmptyStore, 1)
    BY <1>e, <2>1 DEF StoreOk
  <2>3. StoreOk(UsedStore, 1)
    BY <1>u, <2>1 DEF StoreOk
  <2> QED BY <2>2, <2>3
<1>4. NoOp \in OpRecord
  BY <1>0 DEF NoOp, OpRecord
<1>5. \A t \in Operators : OpOk(t, NoOp, store, 1)
  <2>1. /\ NoOp.gen = 0 /\ NoOp.id = 0 /\ NoOp.at = "done" /\ NoOp.name = "none" /\ NoOp.said = "none" /\ NoOp.i = 0
        /\ NoOp.seen = NoOp.asked
    BY DEF NoOp
  <2> QED BY <1>0, <2>1 DEF OpOk, ShapeOk, UIDOk, FoldersOk, OpNames
<1>6. count \in CountRecord /\ count.ids = 1 /\ op \in [Operators -> OpRecord] /\ \A t \in Operators : op[t] = NoOp
  BY <1>4 DEF MailboxesInit, CountRecord
<1> QED BY <1>e, <1>u, <1>3, <1>5, <1>6, MailboxParts DEF MailboxesInit, MailboxIs

\* What a command that still speaks for a mailbox or for its folders needs of a change of the store.
Compatible(t, c, st, st2) ==
  /\ c.at = "store" => st2.boxes[c.box].id = st.boxes[c.box].id /\ st2.boxes[c.box].next = st.boxes[c.box].next
  /\ c.id # 0 /\ c.at = "done" => \A n \in BoxNames : st2.boxes[n].id = c.id =>
       \E m \in BoxNames : /\ st.boxes[m].id = c.id /\ st.boxes[m].next <= st2.boxes[n].next
                           /\ \A u \in DOMAIN st2.boxes[n].msgs : st2.boxes[n].msgs[u].of = t =>
                                u \in DOMAIN st.boxes[m].msgs /\ st.boxes[m].msgs[u].of = t
  /\ c.name = "create" /\ c.gen # 0 /\ st2.gen = c.gen =>
       st.gen = c.gen /\ \A n \in BoxNames : st.boxes[n].id # 0 => st2.boxes[n].id # 0

LEMMA OpKept ==
  ASSUME NEW t \in Operators, NEW c \in OpRecord, NEW b \in BOOLEAN, NEW st \in StoreRecord, NEW st2 \in StoreRecord,
         NEW ids \in Nat, NEW ids2 \in Nat, ids <= ids2, OpOk(t, c, st, ids), b => c.alone /\ Compatible(t, c, st, st2)
  PROVE  [c EXCEPT !.alone = b] \in OpRecord /\ OpOk(t, [c EXCEPT !.alone = b], st2, ids2)
<1>1. PICK d \in OpRecord : d = [c EXCEPT !.alone = b]
  BY DEF OpRecord
<1>2. /\ d.name = c.name /\ d.at = c.at /\ d.box = c.box /\ d.arg = c.arg /\ d.uid = c.uid /\ d.i = c.i
      /\ d.gen = c.gen /\ d.id = c.id /\ d.seen = c.seen /\ d.asked = c.asked /\ d.gone = c.gone /\ d.next = c.next
      /\ d.failed = c.failed /\ d.said = c.said /\ d.alone = b
  BY <1>1 DEF OpRecord
<1>3. d.gen <= ids2 /\ d.id <= ids2
  <2>1. c.gen \in Nat /\ c.id \in Nat /\ c.gen <= ids /\ c.id <= ids
    BY DEF OpRecord, OpOk
  <2> QED BY <1>2, <2>1
<1>4. ShapeOk(d)
  <2>1. ShapeOk(c)
    BY DEF OpOk
  <2> QED BY <1>2, <2>1 DEF ShapeOk
<1>5. UIDOk(t, d, st2)
  <2> SUFFICES ASSUME b PROVE UIDOk(t, d, st2)
    BY <1>2 DEF UIDOk
  <2>0. c.alone /\ Compatible(t, c, st, st2) /\ UIDOk(t, c, st) /\ ShapeOk(c)
    BY DEF OpOk
  <2>1. CASE c.at = "store"
    BY <1>2, <2>0, <2>1 DEF UIDOk, Compatible
  <2>2. CASE c.at = "done" /\ c.name = "add" /\ c.said = "ok"
    <3>1. c.id # 0
      BY <2>0, <2>2 DEF ShapeOk
    <3>2. ASSUME NEW n \in BoxNames, st2.boxes[n].id = c.id
          PROVE  c.next < st2.boxes[n].next /\ \A u \in DOMAIN st2.boxes[n].msgs : st2.boxes[n].msgs[u].of = t => u <= c.next
      <4>1. PICK m \in BoxNames : /\ st.boxes[m].id = c.id /\ st.boxes[m].next <= st2.boxes[n].next
                                  /\ \A u \in DOMAIN st2.boxes[n].msgs : st2.boxes[n].msgs[u].of = t =>
                                       u \in DOMAIN st.boxes[m].msgs /\ st.boxes[m].msgs[u].of = t
        BY <2>0, <2>2, <3>1, <3>2 DEF Compatible
      <4>2. c.next < st.boxes[m].next /\ \A u \in DOMAIN st.boxes[m].msgs : st.boxes[m].msgs[u].of = t => u <= c.next
        BY <2>0, <2>2, <4>1 DEF UIDOk
      <4>3. c.next \in Nat /\ st.boxes[m].next \in Nat /\ st2.boxes[n].next \in Nat
        BY <3>2, <4>1 DEF OpRecord, StoreRecord, BoxRecord
      <4>4. c.next < st2.boxes[n].next
        BY <4>1, <4>2, <4>3
      <4> QED BY <4>1, <4>2, <4>4
    <3> QED BY <1>2, <2>2, <3>2 DEF UIDOk
  <2> QED BY <1>2, <2>1, <2>2 DEF UIDOk
<1>6. FoldersOk(d, st2)
  <2> SUFFICES ASSUME b, ~c.failed, st2.gen = c.gen PROVE FoldersOk(d, st2)
    BY <1>2 DEF FoldersOk
  <2>0. c.alone /\ Compatible(t, c, st, st2) /\ FoldersOk(c, st) /\ ShapeOk(c)
    BY DEF OpOk
  <2>f. Len(DefaultFolders) \in Nat /\ \A k \in 1 .. Len(DefaultFolders) : DefaultFolders[k] \in BoxNames
    BY MailboxesAssumption
  <2>1. CASE c.at = "folder" \/ (c.at = "done" /\ c.name = "create" /\ c.said = "ok")
    <3>1. c.name = "create" /\ c.gen # 0
      BY <2>0, <2>1 DEF ShapeOk
    <3>2. st.gen = c.gen /\ \A n \in BoxNames : st.boxes[n].id # 0 => st2.boxes[n].id # 0
      BY <2>0, <3>1 DEF Compatible
    <3>3. c.at = "folder" => \A k \in 1 .. (c.i - 1) : st2.boxes[DefaultFolders[k]].id # 0
      <4> SUFFICES ASSUME c.at = "folder", NEW k \in 1 .. (c.i - 1) PROVE st2.boxes[DefaultFolders[k]].id # 0
        OBVIOUS
      <4>1. c.i \in 1 .. Len(DefaultFolders)
        BY <2>0 DEF ShapeOk
      <4>2. DefaultFolders[k] \in BoxNames
        BY <2>f, <4>1
      <4> QED BY <2>0, <3>2, <4>2 DEF FoldersOk
    <3>4. c.at = "done" /\ c.said = "ok" => \A k \in 1 .. Len(DefaultFolders) : st2.boxes[DefaultFolders[k]].id # 0
      BY <2>0, <2>f, <3>1, <3>2 DEF FoldersOk
    <3> QED BY <1>2, <3>3, <3>4 DEF FoldersOk
  <2> QED BY <1>2, <2>1 DEF FoldersOk
<1> QED BY <1>1, <1>3, <1>4, <1>5, <1>6 DEF OpOk

\* A step: the commands it does not write about keep what they say, or stop saying it.
LEMMA MailboxGoesOn ==
  ASSUME MailboxInv, store' \in StoreRecord, count' \in CountRecord, count.ids <= count'.ids, StoreOk(store', count'.ids),
         op' \in [Operators -> OpRecord],
         \A t \in Operators : \/ OpOk(t, op'[t], store', count'.ids)
                              \/ \E b \in BOOLEAN : op'[t] = [op[t] EXCEPT !.alone = b] /\ (b => op[t].alone /\ Compatible(t, op[t], store, store'))
  PROVE  MailboxInv'
<1>1. /\ store \in StoreRecord /\ op \in [Operators -> OpRecord] /\ count.ids \in Nat /\ count'.ids \in Nat
      /\ \A t \in Operators : OpOk(t, op[t], store, count.ids)
  BY MailboxParts DEF MailboxIs, CountRecord
<1>2. ASSUME NEW t \in Operators PROVE OpOk(t, op'[t], store', count'.ids)
  <2>1. ASSUME NEW b \in BOOLEAN, op'[t] = [op[t] EXCEPT !.alone = b], b => op[t].alone /\ Compatible(t, op[t], store, store')
        PROVE  OpOk(t, op'[t], store', count'.ids)
    BY <1>1, <2>1, OpKept
  <2> QED BY <2>1
<1> QED BY <1>2, MailboxPartsNext DEF MailboxIs

Saids == {"none", "ok", "refused", "cancelled", "error", "no-specialuse"}
\* The fields of a command that an end of it leaves alone.
Kept(d, c) ==
  /\ d.name = c.name /\ d.box = c.box /\ d.to = c.to /\ d.arg = c.arg /\ d.uid = c.uid /\ d.i = c.i /\ d.gen = c.gen /\ d.id = c.id
  /\ d.seen = c.seen /\ d.asked = c.asked /\ d.gone = c.gone /\ d.next = c.next

LEMMA EndedRecord ==
  ASSUME NEW c \in OpRecord, NEW said \in Saids
  PROVE  LET d == [c EXCEPT !.at = "done", !.said = said]
         IN d \in OpRecord /\ Kept(d, c) /\ d.at = "done" /\ d.said = said /\ d.alone = c.alone /\ d.failed = c.failed
<1>1. \A k \in OpRecord : [k EXCEPT !.at = "done"] \in OpRecord
  BY DEF OpRecord
<1>2. \A k \in OpRecord : [k EXCEPT !.said = said] \in OpRecord
  BY DEF OpRecord, Saids
<1>3. [c EXCEPT !.at = "done", !.said = said] = [[c EXCEPT !.at = "done"] EXCEPT !.said = said]
  BY DEF OpRecord
<1> DEFINE d == [c EXCEPT !.at = "done", !.said = said]
<1>4. d \in OpRecord
  BY <1>1, <1>2, <1>3
<1>5. Kept(d, c) /\ d.at = "done" /\ d.said = said /\ d.alone = c.alone /\ d.failed = c.failed
  BY DEF OpRecord, Kept
<1> QED BY <1>4, <1>5

LEMMA EndsIs ==
  ASSUME op \in [Operators -> OpRecord], NEW t \in Operators, NEW said \in Saids
  PROVE  /\ Ends(t, said) \in [Operators -> OpRecord] /\ \A u \in Operators \ {t} : Ends(t, said)[u] = op[u]
         /\ Kept(Ends(t, said)[t], op[t]) /\ Ends(t, said)[t].at = "done" /\ Ends(t, said)[t].said = said
         /\ Ends(t, said)[t].alone = op[t].alone /\ Ends(t, said)[t].failed = op[t].failed
<1> DEFINE d == [op[t] EXCEPT !.at = "done", !.said = said]
<1>1. d \in OpRecord /\ Kept(d, op[t]) /\ d.at = "done" /\ d.said = said /\ d.alone = op[t].alone /\ d.failed = op[t].failed
  BY EndedRecord
<1>2. Ends(t, said) = [op EXCEPT ![t] = d]
  BY DEF Ends, OpRecord
<1> HIDE DEF d
<1> QED BY <1>1, <1>2

\* A command that ended without a claim.
LEMMA EndedOk ==
  ASSUME NEW t, NEW c \in OpRecord, NEW d \in OpRecord, NEW st, NEW st2, NEW ids \in Nat, NEW ids2 \in Nat, ids <= ids2,
         OpOk(t, c, st, ids), Kept(d, c), d.at = "done", d.said = "ok" => c.name \notin {"add", "create"}
  PROVE  OpOk(t, d, st2, ids2)
<1>1. ShapeOk(c) /\ c.gen \in Nat /\ c.id \in Nat /\ c.gen <= ids /\ c.id <= ids
  BY DEF OpOk, OpRecord
<1>2. d.gen <= ids2 /\ d.id <= ids2
  BY <1>1 DEF Kept
<1>3. ShapeOk(d)
  BY <1>1 DEF ShapeOk, Kept, OpNames
<1>4. UIDOk(t, d, st2) /\ FoldersOk(d, st2)
  BY DEF UIDOk, FoldersOk, Kept
<1> QED BY <1>2, <1>3, <1>4 DEF OpOk

LEMMA SameAlone ==
  ASSUME NEW c \in OpRecord PROVE c.alone \in BOOLEAN /\ [c EXCEPT !.alone = c.alone] = c
BY DEF OpRecord

LEMMA TouchesIs ==
  ASSUME NEW e \in [Operators -> OpRecord], NEW n, NEW u \in Operators
  PROVE  /\ \E b \in BOOLEAN : /\ Touches(n, e)[u] = [e[u] EXCEPT !.alone = b]
                               /\ b <=> e[u].alone /\ (e[u].at = "done" \/ e[u].box # n)
         /\ \E b \in BOOLEAN : /\ Restructures(n, e)[u] = [e[u] EXCEPT !.alone = b]
                               /\ b <=> e[u].alone /\ (e[u].at = "done" \/ e[u].box # n) /\ e[u].name # "create"
<1>0. e[u] \in OpRecord /\ e[u].alone \in BOOLEAN /\ [e[u] EXCEPT !.alone = e[u].alone] = e[u]
  BY SameAlone
<1>1. PICK b \in BOOLEAN : /\ Touches(n, e)[u] = [e[u] EXCEPT !.alone = b]
                           /\ b <=> e[u].alone /\ (e[u].at = "done" \/ e[u].box # n)
  <2>1. Touches(n, e)[u] = IF e[u].at # "done" /\ e[u].box = n THEN [e[u] EXCEPT !.alone = FALSE] ELSE e[u]
    BY DEF Touches
  <2>2. CASE e[u].at # "done" /\ e[u].box = n
    BY <2>1, <2>2
  <2>3. CASE ~(e[u].at # "done" /\ e[u].box = n)
    <3>1. Touches(n, e)[u] = [e[u] EXCEPT !.alone = e[u].alone]
      BY <1>0, <2>1, <2>3
    <3> QED BY <1>0, <2>3, <3>1
  <2> QED BY <2>2, <2>3
<1>2. Restructures(n, e)[u] = [Touches(n, e)[u] EXCEPT !.alone = Touches(n, e)[u].alone /\ e[u].name # "create"]
  BY DEF Restructures
<1>3. PICK f \in OpRecord : f = [e[u] EXCEPT !.alone = b] /\ f.alone = b
  <2>1. [e[u] EXCEPT !.alone = b] \in OpRecord
    BY <1>0 DEF OpRecord
  <2>2. [e[u] EXCEPT !.alone = b].alone = b
    BY <1>0 DEF OpRecord
  <2> QED BY <2>1, <2>2
<1>4. PICK g \in BOOLEAN : g <=> b /\ e[u].name # "create"
  OBVIOUS
<1>5. Restructures(n, e)[u] = [f EXCEPT !.alone = g]
  BY <1>1, <1>2, <1>3, <1>4
<1>6. [f EXCEPT !.alone = g] = [e[u] EXCEPT !.alone = g]
  BY <1>0, <1>3 DEF OpRecord
<1> QED BY <1>1, <1>4, <1>5, <1>6

\* Only messages are taken away, or nothing.
LEMMA ShrinkOk ==
  ASSUME MailboxInv, NEW st \in StoreRecord, st.gen = store.gen,
         \A n \in BoxNames : /\ st.boxes[n].id = store.boxes[n].id /\ st.boxes[n].next = store.boxes[n].next
                             /\ \A u \in DOMAIN st.boxes[n].msgs : u \in DOMAIN store.boxes[n].msgs
                                  /\ st.boxes[n].msgs[u].of = store.boxes[n].msgs[u].of
  PROVE  /\ StoreOk(st, count.ids)
         /\ \A u \in Operators : Compatible(u, op[u], store, st)
<1>0. store \in StoreRecord /\ op \in [Operators -> OpRecord] /\ StoreOk(store, count.ids)
  BY MailboxParts DEF MailboxIs
<1>1. StoreOk(st, count.ids)
  BY <1>0 DEF StoreOk
<1>2. \A n \in BoxNames : store.boxes[n].next \in Nat /\ store.boxes[n].next <= st.boxes[n].next
  BY <1>0 DEF StoreRecord, BoxRecord
<1>3. ASSUME NEW u \in Operators PROVE Compatible(u, op[u], store, st)
  <2>1. op[u].box \in BoxNames
    BY <1>0 DEF OpRecord
  <2> QED BY <1>2, <2>1 DEF Compatible
<1> QED BY <1>1, <1>3

LEMMA NewBoxIs ==
  ASSUME MailboxInv, NEW n \in BoxNames, ~Exists(n), store.gen # 0, NewBox(n)
  PROVE  /\ store' \in StoreRecord /\ count' \in CountRecord /\ count.ids <= count'.ids /\ StoreOk(store', count'.ids)
         /\ store'.gen = store.gen /\ store'.boxes[n].id # 0 /\ \A m \in BoxNames : store.boxes[m].id # 0 => store'.boxes[m].id # 0
         /\ \A u \in Operators : op[u].alone => Compatible(u, op[u], store, store')
<1>0. /\ store \in StoreRecord /\ op \in [Operators -> OpRecord] /\ count \in CountRecord /\ StoreOk(store, count.ids)
      /\ \A u \in Operators : OpOk(u, op[u], store, count.ids)
  BY MailboxParts DEF MailboxIs
<1>1. count.ids \in Nat /\ count'.ids = count.ids + 1 /\ count' \in CountRecord
  <2>1. count.ids + 1 \in Nat
    BY <1>0 DEF CountRecord
  <2> QED BY <1>0, <2>1 DEF NewBox, CountRecord
<1> DEFINE box == [NoBox EXCEPT !.id = count.ids + 1]
<1>2. box \in BoxRecord /\ box.id = count.ids + 1 /\ DOMAIN box.msgs = {}
  BY <1>1, EmptyIs DEF BoxRecord
<1> HIDE DEF box
<1>3. store' = [store EXCEPT !.boxes = [store.boxes EXCEPT ![n] = box]]
  BY <1>0 DEF NewBox, box, StoreRecord
<1>4. store.boxes \in [BoxNames -> BoxRecord] /\ [store.boxes EXCEPT ![n] = box] \in [BoxNames -> BoxRecord]
  BY <1>0, <1>2 DEF StoreRecord
<1>5. store' \in StoreRecord /\ store'.gen = store.gen /\ store'.boxes = [store.boxes EXCEPT ![n] = box]
  BY <1>0, <1>3, <1>4 DEF StoreRecord
<1>6. store'.boxes[n] = box /\ \A m \in BoxNames \ {n} : store'.boxes[m] = store.boxes[m]
  BY <1>4, <1>5
<1>7. \A m \in BoxNames : store.boxes[m].id \in Nat /\ store.boxes[m].id <= count.ids /\ store.boxes[m].next \in Nat
  BY <1>0 DEF StoreOk, StoreRecord, BoxRecord
<1>8. StoreOk(store', count'.ids)
  <2>1. store'.gen <= count'.ids /\ store'.gen # 0
    <3>1. store.gen \in Nat /\ store.gen <= count.ids
      BY <1>0 DEF StoreOk, StoreRecord
    <3> QED BY <1>1, <1>5, <3>1
  <2>2. \A m \in BoxNames : \A u \in DOMAIN store'.boxes[m].msgs : u < store'.boxes[m].next
    BY <1>0, <1>2, <1>6 DEF StoreOk
  <2>3. ASSUME NEW m \in BoxNames
        PROVE  /\ store'.boxes[m].id <= count'.ids
               /\ \A k \in BoxNames : store'.boxes[k].id = store'.boxes[m].id => k = m \/ store'.boxes[m].id = 0
    BY <1>0, <1>1, <1>2, <1>6, <1>7 DEF StoreOk
  <2> QED BY <2>1, <2>2, <2>3 DEF StoreOk
<1>9. ASSUME NEW u \in Operators, op[u].alone PROVE Compatible(u, op[u], store, store')
  <2>1. op[u].box \in BoxNames /\ op[u].id \in Nat /\ op[u].id <= count.ids /\ UIDOk(u, op[u], store)
    BY <1>0 DEF OpOk, OpRecord
  <2>2. op[u].at = "store" => op[u].box # n
    BY <1>9, <2>1 DEF UIDOk, Exists
  <2>3. \A m \in BoxNames : store'.boxes[m].id = op[u].id => m # n
    BY <1>1, <1>2, <1>6, <2>1
  <2>4. \A m \in BoxNames : store.boxes[m].id # 0 => store'.boxes[m].id # 0
    BY <1>6 DEF Exists
  <2>5. \A m \in BoxNames \ {n} : store.boxes[m].next <= store'.boxes[m].next
    BY <1>6, <1>7
  <2> QED BY <1>5, <1>6, <2>1, <2>2, <2>3, <2>4, <2>5 DEF Compatible
<1> QED BY <1>1, <1>2, <1>5, <1>6, <1>8, <1>9 DEF Exists

LEMMA StoredIs ==
  ASSUME MailboxInv, NEW n \in BoxNames, Exists(n), NEW of \in Operators \cup {"server"}, store' = Stored(n, of)
  PROVE  /\ store' \in StoreRecord /\ StoreOk(store', count.ids) /\ store'.gen = store.gen
         /\ store'.boxes[n].id = store.boxes[n].id /\ store'.boxes[n].next = store.boxes[n].next + 1
         /\ \A m \in BoxNames : store'.boxes[m].id = store.boxes[m].id
         /\ \A u \in Operators : u # of /\ (op[u].at = "done" \/ op[u].box # n) => Compatible(u, op[u], store, store')
<1>0. /\ store \in StoreRecord /\ op \in [Operators -> OpRecord] /\ count \in CountRecord /\ StoreOk(store, count.ids)
      /\ \A u \in Operators : OpOk(u, op[u], store, count.ids)
  BY MailboxParts DEF MailboxIs
<1> DEFINE e == [of |-> of, flag |-> FALSE]
           old == store.boxes[n]
           msgs == With(old.msgs, old.next, e)
           box == [id |-> old.id, next |-> old.next + 1, msgs |-> msgs]
<1>1. old \in BoxRecord /\ old.next \in Nat /\ old.id \in Nat /\ old.msgs \in Messages /\ e \in Message /\ e.of = of
  BY <1>0 DEF StoreRecord, BoxRecord, Message
<1>2. /\ msgs \in Messages /\ DOMAIN msgs = DOMAIN old.msgs \cup {old.next}
      /\ msgs[old.next] = e /\ \A v \in DOMAIN old.msgs : v # old.next => msgs[v] = old.msgs[v]
  <2> HIDE DEF e, old
  <2>1. ASSUME NEW m, NEW v, m = old.msgs, v = old.next
        PROVE  /\ With(m, v, e) \in Messages /\ DOMAIN With(m, v, e) = DOMAIN m \cup {v}
               /\ With(m, v, e)[v] = e /\ \A w \in DOMAIN m : w # v => With(m, v, e)[w] = m[w]
    <3>1. m \in Messages /\ v \in Nat /\ e \in Message
      BY <1>1, <2>1
    <3> QED BY <3>1, WithIs
  <2> QED BY <2>1
<1>3. box \in BoxRecord /\ box.id = old.id /\ box.next = old.next + 1 /\ box.msgs = msgs
  <2> HIDE DEF msgs, old
  <2>1. old.next + 1 \in Nat
    BY <1>1
  <2> QED BY <1>1, <1>2, <2>1 DEF BoxRecord
<1>w. store' = [store EXCEPT !.boxes[n] = box]
  BY DEF Stored
<1> HIDE DEF e, old, msgs, box
<1>4. store' = [store EXCEPT !.boxes = [store.boxes EXCEPT ![n] = box]]
  BY <1>0, <1>w DEF StoreRecord
<1>5. store.boxes \in [BoxNames -> BoxRecord] /\ [store.boxes EXCEPT ![n] = box] \in [BoxNames -> BoxRecord]
  BY <1>0, <1>3 DEF StoreRecord
<1>6. store' \in StoreRecord /\ store'.gen = store.gen /\ store'.boxes = [store.boxes EXCEPT ![n] = box]
  BY <1>0, <1>4, <1>5 DEF StoreRecord
<1>7. store'.boxes[n] = box /\ \A m \in BoxNames \ {n} : store'.boxes[m] = store.boxes[m]
  BY <1>5, <1>6
<1>8. /\ \A m \in BoxNames : store'.boxes[m].id = store.boxes[m].id /\ store.boxes[m].next \in Nat
      /\ \A m \in BoxNames : store.boxes[m].next <= store'.boxes[m].next
  BY <1>0, <1>1, <1>3, <1>7 DEF old, StoreRecord, BoxRecord
<1>9. StoreOk(store', count.ids)
  <2>1. \A m \in BoxNames : \A u \in DOMAIN store'.boxes[m].msgs : u < store'.boxes[m].next
    <3>1. ASSUME NEW u \in DOMAIN box.msgs PROVE u < box.next
      <4>1. \A v \in DOMAIN old.msgs : v \in Nat /\ v < old.next
        <5>1. \A v \in DOMAIN old.msgs : v < old.next
          BY <1>0 DEF StoreOk, old
        <5>2. DOMAIN old.msgs \subseteq Nat
          BY <1>1, MessagesAre
        <5> QED BY <5>1, <5>2
      <4> QED BY <1>1, <1>2, <1>3, <3>1, <4>1
    <3> QED BY <1>0, <1>7, <3>1 DEF StoreOk
  <2> QED BY <1>0, <1>6, <1>8, <2>1 DEF StoreOk
<1>10. ASSUME NEW u \in Operators, u # of, op[u].at = "done" \/ op[u].box # n PROVE Compatible(u, op[u], store, store')
  <2>1. op[u].box \in BoxNames
    BY <1>0 DEF OpRecord
  <2>2. op[u].at = "store" => store'.boxes[op[u].box] = store.boxes[op[u].box]
    BY <1>7, <1>10, <2>1
  <2>3. ASSUME NEW m \in BoxNames, NEW v \in DOMAIN store'.boxes[m].msgs, store'.boxes[m].msgs[v].of = u
        PROVE  v \in DOMAIN store.boxes[m].msgs /\ store.boxes[m].msgs[v].of = u
    <3>1. CASE m # n
      BY <1>7, <2>3, <3>1
    <3>2. CASE m = n
      <4>1. v \in DOMAIN msgs /\ msgs[v].of = u
        BY <1>3, <1>7, <2>3, <3>2
      <4>2. v # old.next
        BY <1>1, <1>2, <1>10, <4>1
      <4> QED BY <1>2, <3>2, <4>1, <4>2 DEF old
    <3> QED BY <3>1, <3>2
  <2> QED BY <1>6, <1>8, <2>2, <2>3 DEF Compatible
<1> QED BY <1>3, <1>6, <1>7, <1>8, <1>9, <1>10 DEF old

LEMMA CountTyped ==
  ASSUME NEW c \in CountRecord
  PROVE  /\ c.ids \in Nat /\ c.ids + 1 \in Nat
         /\ [c EXCEPT !.ops = c.ops + 1] \in CountRecord /\ [c EXCEPT !.ops = c.ops + 1].ids = c.ids
         /\ [c EXCEPT !.mail = c.mail + 1] \in CountRecord /\ [c EXCEPT !.mail = c.mail + 1].ids = c.ids
         /\ [c EXCEPT !.fails = c.fails + 1] \in CountRecord /\ [c EXCEPT !.fails = c.fails + 1].ids = c.ids
         /\ [c EXCEPT !.ids = c.ids + 1] \in CountRecord /\ [c EXCEPT !.ids = c.ids + 1].ids = c.ids + 1
<1>1. \A n \in Nat : n + 1 \in Nat
  OBVIOUS
<1>2. c.ops + 1 \in Nat /\ c.mail + 1 \in Nat /\ c.fails + 1 \in Nat /\ c.ids + 1 \in Nat
  BY <1>1 DEF CountRecord
<1>3. [c EXCEPT !.ops = c.ops + 1] \in CountRecord /\ [c EXCEPT !.ops = c.ops + 1].ids = c.ids
  BY <1>2 DEF CountRecord
<1>4. [c EXCEPT !.mail = c.mail + 1] \in CountRecord /\ [c EXCEPT !.mail = c.mail + 1].ids = c.ids
  BY <1>2 DEF CountRecord
<1>5. [c EXCEPT !.fails = c.fails + 1] \in CountRecord /\ [c EXCEPT !.fails = c.fails + 1].ids = c.ids
  BY <1>2 DEF CountRecord
<1>6. [c EXCEPT !.ids = c.ids + 1] \in CountRecord /\ [c EXCEPT !.ids = c.ids + 1].ids = c.ids + 1
  BY <1>2 DEF CountRecord
<1> QED BY <1>2, <1>3, <1>4, <1>5, <1>6 DEF CountRecord

\* A step of one command that leaves the others' records alone.
LEMMA MailboxStepOf ==
  ASSUME MailboxInv, NEW t \in Operators, store' \in StoreRecord, count' \in CountRecord, count.ids <= count'.ids,
         StoreOk(store', count'.ids), op' \in [Operators -> OpRecord], OpOk(t, op'[t], store', count'.ids),
         \A u \in Operators \ {t} : op'[u] = op[u] /\ (op[u].alone => Compatible(u, op[u], store, store'))
  PROVE  MailboxInv'
<1>1. op \in [Operators -> OpRecord]
  BY MailboxParts DEF MailboxIs
<1>2. ASSUME NEW u \in Operators \ {t}
      PROVE  \E b \in BOOLEAN : op'[u] = [op[u] EXCEPT !.alone = b] /\ (b => op[u].alone /\ Compatible(u, op[u], store, store'))
  BY <1>1, <1>2, SameAlone
<1> QED BY <1>2, MailboxGoesOn

LEMMA MailboxStep1 ==
  ASSUME MailboxInv, NEW t \in Operators,
         \/ imapAcctRemove(t) \/ imapAcctAppendlimit(t) \/ mboxesCreate(t) \/ Confirmation(t) \/ CallFails(t)
         \/ Refuse(t) \/ UpdateMessagesFlags(t)
  PROVE  MailboxInv'
<1>0. /\ store \in StoreRecord /\ op \in [Operators -> OpRecord] /\ count \in CountRecord /\ StoreOk(store, count.ids)
      /\ \A u \in Operators : OpOk(u, op[u], store, count.ids)
  BY MailboxParts DEF MailboxIs
<1>i. count.ids \in Nat /\ op[t] \in OpRecord /\ ShapeOk(op[t])
  BY <1>0 DEF CountRecord, OpOk
<1>s. StoreOk(store, count.ids) /\ \A u \in Operators : Compatible(u, op[u], store, store)
  BY <1>0, ShrinkOk
\* The end of a command that makes no claim.
<1>e. ASSUME NEW said \in Saids, op' = Ends(t, said), said = "ok" => op[t].name \notin {"add", "create"},
             store' \in StoreRecord, count' \in CountRecord, count.ids <= count'.ids, StoreOk(store', count'.ids),
             \A u \in Operators : op[u].alone => Compatible(u, op[u], store, store')
      PROVE  MailboxInv'
  <2>1. /\ op' \in [Operators -> OpRecord] /\ \A u \in Operators \ {t} : op'[u] = op[u]
        /\ Kept(op'[t], op[t]) /\ op'[t].at = "done" /\ op'[t].said = said
    BY <1>0, <1>e, EndsIs
  <2>2. count'.ids \in Nat
    BY <1>e DEF CountRecord
  <2>3. OpOk(t, op'[t], store', count'.ids)
    BY <1>0, <1>e, <1>i, <2>1, <2>2, EndedOk
  <2> QED BY <1>e, <2>1, <2>3, MailboxStepOf
<1>1. CASE Refuse(t)
  BY <1>0, <1>1, <1>e, <1>i, <1>s DEF Refuse, Saids
<1>2. CASE Confirmation(t)
  BY <1>0, <1>2, <1>e, <1>i, <1>s DEF Confirmation, Saids
<1>3. CASE imapAcctAppendlimit(t) /\ ~Refuse(t)
  <2>1. PICK v \in LimitValues : store' = [store EXCEPT !.limit = IF v = -1 THEN -1 ELSE v % LimitWidth]
    BY <1>3 DEF imapAcctAppendlimit
  <2>2. op' = Ends(t, "ok") /\ count' = count /\ op[t].name = "limit"
    BY <1>3, <1>i DEF imapAcctAppendlimit, Calls, ShapeOk, OpNames
  <2>3. PICK w \in -1 .. (LimitWidth - 1) : w = IF v = -1 THEN -1 ELSE v % LimitWidth
    BY MailboxesAssumption
  <2>4. store' \in StoreRecord /\ store'.gen = store.gen /\ store'.boxes = store.boxes
    BY <1>0, <2>1, <2>3 DEF StoreRecord
  <2>5. StoreOk(store', count.ids) /\ \A u \in Operators : Compatible(u, op[u], store, store')
    BY <2>4, ShrinkOk
  <2> QED BY <1>0, <1>e, <1>i, <2>2, <2>4, <2>5 DEF Saids
<1>4. CASE mboxesCreate(t) /\ ~Refuse(t)
  <2>1. op[t].box \in BoxNames /\ ~Exists(op[t].box) /\ NewBox(op[t].box) /\ op' = Ends(t, "ok") /\ op[t].name = "mkbox" /\ store.gen # 0
    BY <1>4, <1>i DEF mboxesCreate, Calls, Stale, ShapeOk, OpNames, OpRecord
  <2>2. /\ store' \in StoreRecord /\ count' \in CountRecord /\ count.ids <= count'.ids /\ StoreOk(store', count'.ids)
        /\ \A u \in Operators : op[u].alone => Compatible(u, op[u], store, store')
    BY <2>1, NewBoxIs
  <2> QED BY <1>e, <2>1, <2>2 DEF Saids
<1>5. CASE imapAcctRemove(t) /\ ~Refuse(t)
  <2>1. /\ store' = EmptyStore /\ count' = count /\ op[t].name = "remove"
        /\ op' = [u \in Operators |-> IF u = t THEN Ends(t, "ok")[t] ELSE [op[u] EXCEPT !.alone = FALSE]]
    BY <1>5, <1>i DEF imapAcctRemove, Refuse, Calls, ShapeOk, OpNames
  <2>2. /\ Ends(t, "ok")[t] \in OpRecord
        /\ Kept(Ends(t, "ok")[t], op[t]) /\ Ends(t, "ok")[t].at = "done" /\ Ends(t, "ok")[t].said = "ok"
    BY <1>0, EndsIs DEF Saids
  <2>3. \A u \in Operators : [op[u] EXCEPT !.alone = FALSE] \in OpRecord
    <3>1. \A c \in OpRecord : [c EXCEPT !.alone = FALSE] \in OpRecord
      BY DEF OpRecord
    <3> QED BY <1>0, <3>1
  <2>4. op' \in [Operators -> OpRecord] /\ op'[t] = Ends(t, "ok")[t] /\ \A u \in Operators \ {t} : op'[u] = [op[u] EXCEPT !.alone = FALSE]
    BY <2>1, <2>2, <2>3
  <2>5. OpOk(t, op'[t], store', count'.ids)
    BY <1>0, <1>i, <2>1, <2>2, <2>4, EndedOk
  <2>6. StoreOk(EmptyStore, count.ids)
    BY <1>i, EmptyIs DEF StoreOk
  <2>7. \A u \in Operators : \/ OpOk(u, op'[u], store', count'.ids)
                              \/ \E b \in BOOLEAN : op'[u] = [op[u] EXCEPT !.alone = b] /\ (b => op[u].alone /\ Compatible(u, op[u], store, store'))
    <3>1. ASSUME NEW u \in Operators \ {t}
          PROVE  \E b \in BOOLEAN : op'[u] = [op[u] EXCEPT !.alone = b] /\ (b => op[u].alone /\ Compatible(u, op[u], store, store'))
      <4>1. op'[u] = [op[u] EXCEPT !.alone = FALSE]
        BY <2>4
      <4> WITNESS FALSE \in BOOLEAN
      <4> QED BY <4>1
    <3> QED BY <2>5, <3>1
  <2>8. store' \in StoreRecord /\ StoreOk(store', count'.ids) /\ count' \in CountRecord /\ count.ids <= count'.ids
    BY <1>0, <1>i, <2>1, <2>6, EmptyIs
  <2> QED BY <2>4, <2>7, <2>8, MailboxGoesOn
<1>6. CASE CallFails(t)
  <2>1. store' = store /\ count' = [count EXCEPT !.fails = count.fails + 1]
        /\ op' = [op EXCEPT ![t].at = "done", ![t].said = "error", ![t].failed = TRUE]
    BY <1>6 DEF CallFails, Fails
  <2>2. count' \in CountRecord /\ count'.ids = count.ids
    BY <1>0, <2>1, CountTyped
  <2> DEFINE e == [op[t] EXCEPT !.at = "done", !.said = "error"]
             d == [e EXCEPT !.failed = TRUE]
  <2>3. e \in OpRecord /\ Kept(e, op[t]) /\ e.at = "done" /\ e.said = "error"
    BY <1>i, EndedRecord DEF Saids
  <2>4. op' = [op EXCEPT ![t] = d]
    BY <1>0, <2>1 DEF OpRecord
  <2> HIDE DEF e
  <2>5. d \in OpRecord
    BY <2>3 DEF OpRecord
  <2>6. Kept(d, op[t]) /\ d.at = "done" /\ d.said = "error"
    BY <2>3 DEF OpRecord, Kept
  <2> HIDE DEF d
  <2>7. op' \in [Operators -> OpRecord] /\ op'[t] = d /\ \A u \in Operators \ {t} : op'[u] = op[u]
    BY <1>0, <2>4, <2>5
  <2>8. OpOk(t, d, store', count'.ids)
    BY <1>0, <1>i, <2>2, <2>5, <2>6, EndedOk
  <2> QED BY <1>0, <1>i, <1>s, <2>1, <2>2, <2>7, <2>8, MailboxStepOf
<1>7. CASE UpdateMessagesFlags(t)
  <2>1. PICK f \in BOOLEAN : store' = [store EXCEPT !.boxes = [n \in BoxNames |->
          IF n \in Opened(t) THEN [store.boxes[n] EXCEPT !.msgs = Flagged(store.boxes[n].msgs, Resolve(op[t]), f)] ELSE store.boxes[n]]]
    BY <1>7 DEF UpdateMessagesFlags
  <2>2. op' = Ends(t, "ok") /\ count' = count /\ op[t].name = "flags"
    BY <1>7, <1>i DEF UpdateMessagesFlags, Calls, ShapeOk
  <2> DEFINE boxes == [n \in BoxNames |->
          IF n \in Opened(t) THEN [store.boxes[n] EXCEPT !.msgs = Flagged(store.boxes[n].msgs, Resolve(op[t]), f)] ELSE store.boxes[n]]
  <2>3. ASSUME NEW n \in BoxNames
        PROVE  /\ boxes[n] \in BoxRecord /\ boxes[n].id = store.boxes[n].id /\ boxes[n].next = store.boxes[n].next
               /\ \A u \in DOMAIN boxes[n].msgs : u \in DOMAIN store.boxes[n].msgs /\ boxes[n].msgs[u].of = store.boxes[n].msgs[u].of
    <3>0. store.boxes[n] \in BoxRecord /\ store.boxes[n].msgs \in Messages
      BY <1>0 DEF StoreRecord, BoxRecord
    <3>1. PICK ms \in Messages : /\ ms = Flagged(store.boxes[n].msgs, Resolve(op[t]), f) /\ DOMAIN ms = DOMAIN store.boxes[n].msgs
                                 /\ \A v \in DOMAIN ms : ms[v].of = store.boxes[n].msgs[v].of
      BY <3>0, FlaggedIs
    <3>2. boxes[n] = IF n \in Opened(t) THEN [store.boxes[n] EXCEPT !.msgs = ms] ELSE store.boxes[n]
      BY <3>1
    <3> HIDE DEF boxes
    <3> QED BY <3>0, <3>1, <3>2 DEF BoxRecord
  <2>4. boxes \in [BoxNames -> BoxRecord]
    BY <2>3
  <2> HIDE DEF boxes
  <2>5. store' \in StoreRecord /\ store'.gen = store.gen /\ store'.boxes = boxes
    <3>1. store' = [store EXCEPT !.boxes = boxes]
      BY <2>1 DEF boxes
    <3> QED BY <1>0, <2>4, <3>1 DEF StoreRecord
  <2>6. StoreOk(store', count.ids) /\ \A u \in Operators : Compatible(u, op[u], store, store')
    BY <2>3, <2>5, ShrinkOk
  <2> QED BY <1>0, <1>e, <1>i, <2>2, <2>5, <2>6 DEF Saids
<1> QED BY <1>1, <1>2, <1>3, <1>4, <1>5, <1>6, <1>7

\* The end of a solitude changes nothing else.
LEMMA AloneIs ==
  ASSUME NEW c \in OpRecord, NEW b \in BOOLEAN
  PROVE  LET d == [c EXCEPT !.alone = b]
         IN d \in OpRecord /\ Kept(d, c) /\ d.at = c.at /\ d.said = c.said /\ d.alone = b /\ d.failed = c.failed
<1> DEFINE d == [c EXCEPT !.alone = b]
<1>1. d \in OpRecord
  BY DEF OpRecord
<1>2. Kept(d, c) /\ d.at = c.at /\ d.said = c.said /\ d.alone = b /\ d.failed = c.failed
  BY DEF OpRecord, Kept
<1> QED BY <1>1, <1>2

LEMMA TouchedTyped ==
  ASSUME NEW e \in [Operators -> OpRecord], NEW n
  PROVE  Touches(n, e) \in [Operators -> OpRecord] /\ Restructures(n, e) \in [Operators -> OpRecord]
<1>1. \A u \in Operators : Touches(n, e)[u] \in OpRecord /\ Restructures(n, e)[u] \in OpRecord
  <2> TAKE u \in Operators
  <2>0. e[u] \in OpRecord
    OBVIOUS
  <2>1. PICK b \in BOOLEAN : Touches(n, e)[u] = [e[u] EXCEPT !.alone = b]
    BY TouchesIs
  <2>2. PICK a \in BOOLEAN : Restructures(n, e)[u] = [e[u] EXCEPT !.alone = a]
    BY TouchesIs, SMTT(30)
  <2>3. [e[u] EXCEPT !.alone = b] \in OpRecord
    BY <2>0, AloneIs
  <2>4. [e[u] EXCEPT !.alone = a] \in OpRecord
    BY <2>0, AloneIs
  <2> QED BY <2>1, <2>2, <2>3, <2>4
<1>2. Touches(n, e) = [u \in Operators |-> Touches(n, e)[u]]
  BY DEF Touches
<1>3. Restructures(n, e) = [u \in Operators |-> Restructures(n, e)[u]]
  BY DEF Restructures
<1> HIDE DEF Touches, Restructures
<1>4. Touches(n, e) \in [Operators -> OpRecord]
  BY <1>1, <1>2
<1>5. Restructures(n, e) \in [Operators -> OpRecord]
  BY <1>1, <1>3
<1> QED BY <1>4, <1>5

\* imap-mboxes remove and rename: the command ended and the folders are not what they were.
LEMMA RestructuredStep ==
  ASSUME MailboxInv, NEW t \in Operators, NEW n \in BoxNames, op[t].name \notin {"add", "create"},
         op' = Restructures(n, Ends(t, "ok")), count' = count, store' \in StoreRecord, StoreOk(store', count.ids),
         \A u \in Operators : op[u].alone /\ (op[u].at = "done" \/ op[u].box # n) /\ op[u].name # "create" => Compatible(u, op[u], store, store')
  PROVE  MailboxInv'
<1>0. /\ store \in StoreRecord /\ op \in [Operators -> OpRecord] /\ count \in CountRecord /\ StoreOk(store, count.ids)
      /\ \A u \in Operators : OpOk(u, op[u], store, count.ids)
  BY MailboxParts DEF MailboxIs
<1>i. count.ids \in Nat /\ op[t] \in OpRecord
  BY <1>0 DEF CountRecord
<1> DEFINE e == Ends(t, "ok")
<1>1. /\ e \in [Operators -> OpRecord] /\ \A u \in Operators \ {t} : e[u] = op[u]
      /\ Kept(e[t], op[t]) /\ e[t].at = "done" /\ e[t].said = "ok"
  BY <1>0, EndsIs DEF Saids
<1> HIDE DEF e
<1>2. op' = Restructures(n, e)
  BY DEF e
<1>3. op' \in [Operators -> OpRecord]
  BY <1>1, <1>2, TouchedTyped
<1>4. OpOk(t, op'[t], store', count'.ids)
  <2>0. /\ e \in [Operators -> OpRecord] /\ t \in Operators
    BY <1>1
  <2>1. PICK b \in BOOLEAN : /\ Restructures(n, e)[t] = [e[t] EXCEPT !.alone = b]
                             /\ b <=> e[t].alone /\ (e[t].at = "done" \/ e[t].box # n) /\ e[t].name # "create"
    BY ONLY <2>0, TouchesIs, SMTT(30)
  <2>2. op'[t] \in OpRecord /\ Kept(op'[t], e[t]) /\ op'[t].at = "done"
    <3>1. e[t] \in OpRecord
      BY <1>1
    <3>2. PICK d : d = [e[t] EXCEPT !.alone = b] /\ d \in OpRecord /\ Kept(d, e[t]) /\ d.at = e[t].at
      BY <3>1, AloneIs
    <3> QED BY <1>1, <1>2, <2>1, <3>2
  <2>3. Kept(op'[t], op[t])
    BY <1>1, <2>2 DEF Kept
  <2> QED BY <1>0, <1>i, <2>2, <2>3, EndedOk
<1>5. ASSUME NEW u \in Operators \ {t}
      PROVE  \E b \in BOOLEAN : op'[u] = [op[u] EXCEPT !.alone = b] /\ (b => op[u].alone /\ Compatible(u, op[u], store, store'))
  <2>1. PICK b \in BOOLEAN : /\ op'[u] = [e[u] EXCEPT !.alone = b]
                             /\ b <=> e[u].alone /\ (e[u].at = "done" \/ e[u].box # n) /\ e[u].name # "create"
    BY <1>1, <1>2, TouchesIs
  <2>2. e[u] = op[u]
    BY <1>1
  <2> QED BY <2>1, <2>2
<1>6. count' \in CountRecord /\ count.ids <= count'.ids /\ StoreOk(store', count'.ids)
  BY <1>0, <1>i
<1> QED BY <1>3, <1>4, <1>5, <1>6, MailboxGoesOn

\* The server changes a mailbox.
LEMMA TouchedStep ==
  ASSUME MailboxInv, NEW n \in BoxNames, op' = Touches(n, op), count' \in CountRecord, count'.ids = count.ids,
         store' \in StoreRecord, StoreOk(store', count.ids),
         \A u \in Operators : op[u].alone /\ (op[u].at = "done" \/ op[u].box # n) => Compatible(u, op[u], store, store')
  PROVE  MailboxInv'
<1>0. op \in [Operators -> OpRecord] /\ count.ids \in Nat
  BY MailboxParts DEF MailboxIs, CountRecord
<1>1. op' \in [Operators -> OpRecord]
  BY <1>0, TouchedTyped
<1>2. ASSUME NEW u \in Operators
      PROVE  \E b \in BOOLEAN : op'[u] = [op[u] EXCEPT !.alone = b] /\ (b => op[u].alone /\ Compatible(u, op[u], store, store'))
  <2>1. PICK b \in BOOLEAN : /\ op'[u] = [op[u] EXCEPT !.alone = b]
                             /\ b <=> op[u].alone /\ (op[u].at = "done" \/ op[u].box # n)
    BY <1>0, TouchesIs
  <2> QED BY <2>1
<1>3. count.ids <= count'.ids /\ StoreOk(store', count'.ids)
  BY <1>0
<1> QED BY <1>1, <1>2, <1>3, MailboxGoesOn

LEMMA MailboxStep2 ==
  ASSUME MailboxInv, NEW t \in Operators, (mboxesRemove(t) \/ mboxesRename(t)) /\ ~Refuse(t)
  PROVE  MailboxInv'
<1>0. /\ store \in StoreRecord /\ op \in [Operators -> OpRecord] /\ count \in CountRecord /\ StoreOk(store, count.ids)
      /\ \A u \in Operators : OpOk(u, op[u], store, count.ids)
  BY MailboxParts DEF MailboxIs
<1> DEFINE n == op[t].box
           to == op[t].to
           old == store.boxes[n]
<1>1. n \in BoxNames /\ to \in BoxNames /\ ShapeOk(op[t]) /\ store.boxes \in [BoxNames -> BoxRecord] /\ old \in BoxRecord
  BY <1>0 DEF OpRecord, OpOk, StoreRecord
<1>2. /\ NoBox \in BoxRecord /\ NoBox.id = 0 /\ DOMAIN NoBox.msgs = {}
      /\ store.gen \in Nat /\ store.gen <= count.ids /\ count.ids \in Nat
      /\ \A m \in BoxNames : store.boxes[m].next \in Nat
  BY <1>0, EmptyIs DEF StoreRecord, BoxRecord, StoreOk, CountRecord
<1>3. \A u \in Operators : op[u].box \in BoxNames /\ UIDOk(u, op[u], store)
  BY <1>0 DEF OpRecord, OpOk
<1>4. /\ Exists(n) /\ store.gen # 0 /\ op[t].name \notin {"add", "create"} /\ op' = Restructures(n, Ends(t, "ok")) /\ count' = count
      /\ \/ store' = [store EXCEPT !.boxes[n] = NoBox]
         \/ ~Exists(to) /\ store' = [store EXCEPT !.boxes = [store.boxes EXCEPT ![to] = old, ![n] = NoBox]]
  BY <1>1 DEF mboxesRemove, mboxesRename, Calls, Stale, ShapeOk, OpNames
<1> HIDE DEF n, old, to
<1>5. CASE store' = [store EXCEPT !.boxes[n] = NoBox]
  <2>1. store' = [store EXCEPT !.boxes = [store.boxes EXCEPT ![n] = NoBox]]
    BY <1>0, <1>5 DEF StoreRecord
  <2>2. [store.boxes EXCEPT ![n] = NoBox] \in [BoxNames -> BoxRecord]
    BY <1>1, <1>2
  <2>3. store' \in StoreRecord /\ store'.gen = store.gen /\ store'.boxes = [store.boxes EXCEPT ![n] = NoBox]
    BY <1>0, <2>1, <2>2 DEF StoreRecord
  <2>4. store'.boxes[n] = NoBox /\ \A m \in BoxNames \ {n} : store'.boxes[m] = store.boxes[m]
    BY <1>1, <2>3
  <2>5. StoreOk(store', count.ids)
    BY <1>0, <1>2, <2>3, <2>4, <1>4 DEF StoreOk
  <2>6. ASSUME NEW u \in Operators, op[u].alone, op[u].at = "done" \/ op[u].box # n, op[u].name # "create"
        PROVE  Compatible(u, op[u], store, store')
    BY <1>2, <1>3, <2>4, <2>6 DEF Compatible
  <2> QED BY <1>1, <1>4, <2>3, <2>5, <2>6, RestructuredStep
<1>6. CASE ~Exists(to) /\ store' = [store EXCEPT !.boxes = [store.boxes EXCEPT ![to] = old, ![n] = NoBox]]
  <2> DEFINE boxes == [store.boxes EXCEPT ![to] = old, ![n] = NoBox]
  <2>1. boxes \in [BoxNames -> BoxRecord] /\ to # n
    BY <1>1, <1>2, <1>4, <1>6
  <2>2. boxes[n] = NoBox /\ boxes[to] = old /\ \A m \in BoxNames \ {n, to} : boxes[m] = store.boxes[m]
    BY <1>1, <2>1
  <2> HIDE DEF boxes
  <2>3. store' \in StoreRecord /\ store'.gen = store.gen /\ store'.boxes = boxes
    <3>1. store' = [store EXCEPT !.boxes = boxes]
      BY <1>6 DEF boxes
    <3> QED BY <1>0, <2>1, <3>1 DEF StoreRecord
  <2>5. StoreOk(store', count.ids)
    <3>1. \A m \in BoxNames : \A u \in DOMAIN boxes[m].msgs : u < boxes[m].next
      BY <1>0, <1>1, <1>2, <2>2 DEF StoreOk, old
    <3>2. \A m \in BoxNames : boxes[m].id <= count.ids
      BY <1>0, <1>1, <1>2, <2>2 DEF StoreOk, old
    <3>3. \A m, k \in BoxNames : boxes[k].id = boxes[m].id => k = m \/ boxes[m].id = 0
      BY <1>0, <1>1, <1>2, <2>2 DEF StoreOk, old
    <3> QED BY <1>2, <1>4, <2>3, <3>1, <3>2, <3>3 DEF StoreOk
  <2>6. ASSUME NEW u \in Operators, op[u].alone, op[u].at = "done" \/ op[u].box # n, op[u].name # "create"
        PROVE  Compatible(u, op[u], store, store')
    <3>1. op[u].at = "store" => op[u].box \notin {n, to}
      BY <1>3, <1>6, <2>6 DEF UIDOk, Exists
    <3>2. op[u].at = "store" => boxes[op[u].box] = store.boxes[op[u].box]
      BY <1>3, <2>2, <3>1
    <3>3. ASSUME op[u].id # 0, NEW k \in BoxNames, boxes[k].id = op[u].id
          PROVE  \E m \in BoxNames : store.boxes[m] = boxes[k]
      BY <1>1, <1>2, <2>2, <3>3 DEF old
    <3>4. ASSUME op[u].id # 0, NEW k \in BoxNames, boxes[k].id = op[u].id
          PROVE  \E m \in BoxNames : /\ store.boxes[m].id = op[u].id /\ store.boxes[m].next <= boxes[k].next
                           /\ \A v \in DOMAIN boxes[k].msgs : boxes[k].msgs[v].of = u =>
                                v \in DOMAIN store.boxes[m].msgs /\ store.boxes[m].msgs[v].of = u
      <4>1. PICK m \in BoxNames : store.boxes[m] = boxes[k]
        BY <3>3, <3>4
      <4> WITNESS m \in BoxNames
      <4> QED BY <1>2, <3>4, <4>1
    <3> QED BY <2>3, <2>6, <3>2, <3>4 DEF Compatible
  <2> QED BY <1>1, <1>4, <2>3, <2>5, <2>6, RestructuredStep
<1> QED BY <1>4, <1>5, <1>6

\* A new account: an INBOX nobody knows yet.
LEMMA AccountIs ==
  ASSUME MailboxInv, store.gen = 0,
         store' = [EmptyStore EXCEPT !.gen = count.ids + 1, !.boxes[INBOX] = [NoBox EXCEPT !.id = count.ids + 1]],
         count' = [count EXCEPT !.ids = @ + 1]
  PROVE  /\ store' \in StoreRecord /\ count' \in CountRecord /\ count.ids \in Nat /\ count'.ids = count.ids + 1
         /\ StoreOk(store', count'.ids) /\ store'.gen = count.ids + 1
         /\ \A u \in Operators : op[u].alone => Compatible(u, op[u], store, store')
<1>0. /\ store \in StoreRecord /\ op \in [Operators -> OpRecord] /\ count \in CountRecord /\ StoreOk(store, count.ids)
      /\ \A u \in Operators : OpOk(u, op[u], store, count.ids)
  BY MailboxParts DEF MailboxIs
<1>1. PICK k \in Nat : k = count.ids + 1
  BY <1>0, CountTyped
<1>2. count.ids \in Nat /\ count' \in CountRecord /\ count'.ids = k
  BY <1>0, <1>1, CountTyped
<1> DEFINE box == [NoBox EXCEPT !.id = k]
           boxes == [EmptyStore.boxes EXCEPT ![INBOX] = box]
<1>3. box \in BoxRecord /\ box.id = k /\ DOMAIN box.msgs = {}
  BY EmptyIs DEF BoxRecord
<1> HIDE DEF box
<1>4. boxes \in [BoxNames -> BoxRecord] /\ boxes[INBOX] = box /\ \A m \in BoxNames \ {INBOX} : boxes[m] = NoBox
  BY <1>3, EmptyIs
<1>5. store' = [EmptyStore EXCEPT !.gen = k, !.boxes = boxes]
  BY <1>1, EmptyIs DEF StoreRecord, box
<1> HIDE DEF boxes
<1>6. store' \in StoreRecord /\ store'.gen = k /\ store'.boxes = boxes
  BY <1>4, <1>5, EmptyIs DEF StoreRecord
<1>7. StoreOk(store', k)
  BY <1>1, <1>2, <1>3, <1>4, <1>6, EmptyIs DEF StoreOk
<1>8. ASSUME NEW u \in Operators, op[u].alone PROVE Compatible(u, op[u], store, store')
  <2>1. op[u].box \in BoxNames /\ op[u].id \in Nat /\ op[u].gen \in Nat /\ op[u].id <= count.ids /\ op[u].gen <= count.ids /\ UIDOk(u, op[u], store)
    BY <1>0 DEF OpRecord, OpOk
  <2>2. op[u].at # "store"
    BY <1>0, <1>8, <2>1 DEF UIDOk, StoreOk
  <2>3. op[u].id # 0 => \A m \in BoxNames : store'.boxes[m].id # op[u].id
    BY <1>1, <1>2, <1>3, <1>4, <1>6, <2>1, EmptyIs
  <2>4. store'.gen # op[u].gen
    BY <1>1, <1>2, <1>6, <2>1
  <2> QED BY <2>2, <2>3, <2>4 DEF Compatible
<1> QED BY <1>1, <1>2, <1>6, <1>7, <1>8

\* imap-acct create goes on to its folders.
LEMMA FirstFolder ==
  ASSUME op \in [Operators -> OpRecord], NEW t \in Operators, NEW g \in Nat
  PROVE  LET e == [op EXCEPT ![t].at = "folder", ![t].i = 1, ![t].gen = g, ![t].alone = TRUE]
         IN /\ e \in [Operators -> OpRecord] /\ \A u \in Operators \ {t} : e[u] = op[u]
            /\ e[t].name = op[t].name /\ e[t].said = op[t].said /\ e[t].id = op[t].id /\ e[t].seen = op[t].seen
            /\ e[t].asked = op[t].asked /\ e[t].gone = op[t].gone /\ e[t].at = "folder" /\ e[t].i = 1 /\ e[t].gen = g
<1> DEFINE c == op[t]
           d == [c EXCEPT !.at = "folder", !.i = 1, !.gen = g, !.alone = TRUE]
           e == [op EXCEPT ![t].at = "folder", ![t].i = 1, ![t].gen = g, ![t].alone = TRUE]
<1>1. c \in OpRecord
  OBVIOUS
<1>2. e = [op EXCEPT ![t] = d]
  BY DEF OpRecord
<1> HIDE DEF c, e
<1>3. d.name = c.name /\ d.said = c.said /\ d.id = c.id /\ d.seen = c.seen
      /\ d.asked = c.asked /\ d.gone = c.gone /\ d.at = "folder" /\ d.i = 1 /\ d.gen = g
  BY <1>1 DEF OpRecord
<1>4. d \in OpRecord
  <2>1. \A k \in OpRecord : [k EXCEPT !.at = "folder"] \in OpRecord
    BY DEF OpRecord
  <2>2. \A k \in OpRecord : [k EXCEPT !.i = 1] \in OpRecord
    BY DEF OpRecord
  <2>3. \A k \in OpRecord : [k EXCEPT !.gen = g] \in OpRecord
    BY DEF OpRecord
  <2>4. \A k \in OpRecord : [k EXCEPT !.alone = TRUE] \in OpRecord
    BY DEF OpRecord
  <2>5. d = [[[[c EXCEPT !.at = "folder"] EXCEPT !.i = 1] EXCEPT !.gen = g] EXCEPT !.alone = TRUE]
    BY <1>1 DEF OpRecord
  <2> QED BY <1>1, <2>1, <2>2, <2>3, <2>4, <2>5
<1> HIDE DEF d
<1>5. /\ e \in [Operators -> OpRecord] /\ e[t] = d /\ \A u \in Operators \ {t} : e[u] = op[u]
  BY <1>2, <1>4
<1> QED BY <1>3, <1>5 DEF c, e

\* One folder after another.
LEMMA FolderIs ==
  ASSUME op \in [Operators -> OpRecord], NEW t \in Operators, NEW f \in BOOLEAN
  PROVE  LET e == Folder(t, f)
         IN /\ e \in [Operators -> OpRecord] /\ \A u \in Operators \ {t} : e[u] = op[u]
            /\ e[t].name = op[t].name /\ e[t].id = op[t].id /\ e[t].seen = op[t].seen /\ e[t].gen = op[t].gen
            /\ e[t].asked = op[t].asked /\ e[t].gone = op[t].gone /\ e[t].alone = op[t].alone
            /\ (e[t].failed <=> op[t].failed \/ f)
            /\ \/ op[t].i = Len(DefaultFolders) /\ e[t].at = "done" /\ e[t].said = "ok" /\ e[t].i = op[t].i
               \/ op[t].i # Len(DefaultFolders) /\ e[t].at = op[t].at /\ e[t].said = op[t].said /\ e[t].i = op[t].i + 1
<1> DEFINE c == op[t]
<1>1. c \in OpRecord
  OBVIOUS
<1>2. PICK g \in BOOLEAN : g <=> c.failed \/ f
  OBVIOUS
<1>g. (c.failed \/ f) = g
  <2>1. c.failed \in BOOLEAN
    BY <1>1 DEF OpRecord
  <2> QED BY <1>2, <2>1
<1>3. CASE c.i = Len(DefaultFolders)
  <2> DEFINE a == [c EXCEPT !.at = "done", !.said = "ok"]
             d == [a EXCEPT !.failed = g]
  <2>1. a \in OpRecord /\ Kept(a, c) /\ a.at = "done" /\ a.said = "ok" /\ a.alone = c.alone
    BY <1>1, EndedRecord DEF Saids
  <2>2. Folder(t, f) = [op EXCEPT ![t] = [c EXCEPT !.at = "done", !.said = "ok", !.failed = c.failed \/ f]]
    BY <1>3 DEF Folder, OpRecord
  <2>3. [c EXCEPT !.at = "done", !.said = "ok", !.failed = g] = d
    BY <1>1 DEF OpRecord
  <2>4. Folder(t, f) = [op EXCEPT ![t] = d]
    BY <1>g, <2>2, <2>3
  <2> HIDE DEF a
  <2>5. d \in OpRecord
    BY <2>1 DEF OpRecord
  <2>6. Kept(d, c) /\ d.at = "done" /\ d.said = "ok" /\ d.alone = c.alone /\ d.failed = g
    BY <2>1 DEF OpRecord, Kept
  <2> HIDE DEF d, c
  <2>7. /\ Folder(t, f) \in [Operators -> OpRecord] /\ Folder(t, f)[t] = d /\ \A u \in Operators \ {t} : Folder(t, f)[u] = op[u]
    BY <2>4, <2>5
  <2> QED BY <1>2, <1>3, <2>6, <2>7 DEF Kept, c
<1>4. CASE c.i # Len(DefaultFolders)
  <2>0. PICK j \in Nat : j = c.i + 1
    BY <1>1 DEF OpRecord
  <2> DEFINE d == [c EXCEPT !.i = j, !.failed = g]
  <2>2. Folder(t, f) = [op EXCEPT ![t] = [c EXCEPT !.i = c.i + 1, !.failed = c.failed \/ f]]
    BY <1>4 DEF Folder, OpRecord
  <2>4. Folder(t, f) = [op EXCEPT ![t] = d]
    BY <1>g, <2>0, <2>2
  <2>5. d \in OpRecord
    BY <1>1 DEF OpRecord
  <2>6. /\ d.name = c.name /\ d.id = c.id /\ d.seen = c.seen /\ d.gen = c.gen /\ d.asked = c.asked /\ d.gone = c.gone
        /\ d.alone = c.alone /\ d.at = c.at /\ d.said = c.said /\ d.i = j /\ d.failed = g
    BY <1>1 DEF OpRecord
  <2> HIDE DEF d, c
  <2>7. /\ Folder(t, f) \in [Operators -> OpRecord] /\ Folder(t, f)[t] = d /\ \A u \in Operators \ {t} : Folder(t, f)[u] = op[u]
    BY <2>4, <2>5
  <2> QED BY <1>2, <1>4, <2>0, <2>6, <2>7 DEF c
<1> QED BY <1>3, <1>4

LEMMA MailboxStep3 ==
  ASSUME MailboxInv, NEW t \in Operators, (imapAcctCreate(t) /\ ~Refuse(t)) \/ createMbox(t)
  PROVE  MailboxInv'
<1>0. /\ store \in StoreRecord /\ op \in [Operators -> OpRecord] /\ count \in CountRecord /\ StoreOk(store, count.ids)
      /\ \A u \in Operators : OpOk(u, op[u], store, count.ids)
  BY MailboxParts DEF MailboxIs
<1>i. /\ count.ids \in Nat /\ op[t] \in OpRecord /\ ShapeOk(op[t]) /\ op[t].gen \in Nat /\ op[t].id \in Nat /\ op[t].i \in Nat
      /\ op[t].gen <= count.ids /\ op[t].id <= count.ids /\ FoldersOk(op[t], store)
  BY <1>0 DEF CountRecord, OpOk, OpRecord
<1>f. Len(DefaultFolders) \in Nat /\ \A k \in 1 .. Len(DefaultFolders) : DefaultFolders[k] \in BoxNames
  BY MailboxesAssumption
<1>s. StoreOk(store, count.ids) /\ \A u \in Operators : Compatible(u, op[u], store, store)
  BY <1>0, ShrinkOk
<1>1. CASE imapAcctCreate(t) /\ ~Refuse(t)
  <2>1. /\ store' \in StoreRecord /\ count' \in CountRecord /\ count'.ids = count.ids + 1
        /\ StoreOk(store', count'.ids) /\ store'.gen = count.ids + 1
        /\ \A u \in Operators : op[u].alone => Compatible(u, op[u], store, store')
    BY <1>1, AccountIs DEF imapAcctCreate
  <2>2. op[t].at = "create" /\ op[t].name = "create" /\ op[t].said = "none"
    BY <1>1, <1>i DEF imapAcctCreate, Calls, ShapeOk, OpNames
  <2>3. count.ids <= count'.ids /\ count'.ids \in Nat
    BY <1>i, <2>1
  <2>4. CASE op' = Ends(t, "no-specialuse")
    <3>1. /\ op' \in [Operators -> OpRecord] /\ \A u \in Operators \ {t} : op'[u] = op[u]
          /\ Kept(op'[t], op[t]) /\ op'[t].at = "done" /\ op'[t].said = "no-specialuse"
      BY <1>0, <2>4, EndsIs DEF Saids
    <3>2. OpOk(t, op'[t], store', count'.ids)
      BY <1>0, <1>i, <2>3, <3>1, EndedOk
    <3> QED BY <2>1, <2>3, <3>1, <3>2, MailboxStepOf
  <2>5. CASE DefaultFolders # <<>> /\ op' = [op EXCEPT ![t].at = "folder", ![t].i = 1, ![t].gen = count.ids + 1, ![t].alone = TRUE]
    <3>0. PICK g \in Nat : g = count.ids + 1
      BY <1>i
    <3>1. /\ op' \in [Operators -> OpRecord] /\ \A u \in Operators \ {t} : op'[u] = op[u]
          /\ op'[t].name = "create" /\ op'[t].said = "none" /\ op'[t].id = op[t].id /\ op'[t].seen = op[t].seen
          /\ op'[t].asked = op[t].asked /\ op'[t].gone = op[t].gone /\ op'[t].at = "folder" /\ op'[t].i = 1 /\ op'[t].gen = g
      <4> DEFINE e == [op EXCEPT ![t].at = "folder", ![t].i = 1, ![t].gen = g, ![t].alone = TRUE]
      <4>1. /\ e \in [Operators -> OpRecord] /\ \A u \in Operators \ {t} : e[u] = op[u]
            /\ e[t].name = op[t].name /\ e[t].said = op[t].said /\ e[t].id = op[t].id /\ e[t].seen = op[t].seen
            /\ e[t].asked = op[t].asked /\ e[t].gone = op[t].gone /\ e[t].at = "folder" /\ e[t].i = 1 /\ e[t].gen = g
        BY <1>0, FirstFolder
      <4>2. op' = e
        BY <2>5, <3>0
      <4> HIDE DEF e
      <4> QED BY <2>2, <4>1, <4>2
    <3>2. Len(DefaultFolders) # 0
      BY <2>5, MailboxesAssumption
    <3>3. ShapeOk(op'[t])
      BY <1>f, <1>i, <2>2, <3>0, <3>1, <3>2 DEF ShapeOk, OpNames
    <3>4. UIDOk(t, op'[t], store') /\ FoldersOk(op'[t], store')
      BY <3>1 DEF UIDOk, FoldersOk
    <3>5. op'[t].gen <= count'.ids /\ op'[t].id <= count'.ids
      BY <1>i, <2>1, <3>0, <3>1
    <3>6. OpOk(t, op'[t], store', count'.ids)
      BY <3>3, <3>4, <3>5 DEF OpOk
    <3> QED BY <2>1, <2>3, <3>1, <3>6, MailboxStepOf
  <2> QED BY <1>1, <2>4, <2>5 DEF imapAcctCreate
<1>2. CASE createMbox(t)
  <2> DEFINE n == DefaultFolders[op[t].i]
  <2>1. op[t].at = "folder" /\ op[t].name = "create" /\ op[t].said = "none" /\ op[t].i \in 1 .. Len(DefaultFolders) /\ n \in BoxNames
        /\ op[t].gen # 0 /\ op[t].gone = {}
    BY <1>2, <1>f, <1>i DEF createMbox, Calls, ShapeOk
  <2>2. ASSUME NEW f \in BOOLEAN, op' = Folder(t, f), count' \in CountRecord, count.ids <= count'.ids, store' \in StoreRecord,
               StoreOk(store', count'.ids), \A u \in Operators : op[u].alone => Compatible(u, op[u], store, store'),
               ~f => store'.boxes[n].id # 0
        PROVE  MailboxInv'
    <3>1. /\ op' \in [Operators -> OpRecord] /\ \A u \in Operators \ {t} : op'[u] = op[u]
          /\ op'[t].name = op[t].name /\ op'[t].id = op[t].id /\ op'[t].seen = op[t].seen /\ op'[t].gen = op[t].gen
          /\ op'[t].asked = op[t].asked /\ op'[t].gone = op[t].gone /\ op'[t].alone = op[t].alone
          /\ (op'[t].failed <=> op[t].failed \/ f)
          /\ \/ op[t].i = Len(DefaultFolders) /\ op'[t].at = "done" /\ op'[t].said = "ok" /\ op'[t].i = op[t].i
             \/ op[t].i # Len(DefaultFolders) /\ op'[t].at = op[t].at /\ op'[t].said = op[t].said /\ op'[t].i = op[t].i + 1
      BY <1>0, <2>2, FolderIs
    <3>2. op'[t].gen <= count'.ids /\ op'[t].id <= count'.ids
      <4>1. count'.ids \in Nat
        BY <2>2 DEF CountRecord
      <4> QED BY <1>i, <2>2, <3>1, <4>1
    <3>3. ShapeOk(op'[t])
      BY <1>f, <1>i, <2>1, <3>1 DEF ShapeOk, OpNames
    <3>4. UIDOk(t, op'[t], store')
      BY <2>1, <3>1 DEF UIDOk
    <3>5. FoldersOk(op'[t], store')
      <4> SUFFICES ASSUME op'[t].alone, ~op'[t].failed, store'.gen = op'[t].gen
                   PROVE  \A k \in 1 .. op[t].i : store'.boxes[DefaultFolders[k]].id # 0
        BY <1>f, <1>i, <2>1, <3>1 DEF FoldersOk
      <4>1. op[t].alone /\ ~op[t].failed /\ ~f /\ store'.gen = op[t].gen
        BY <3>1
      <4>2. store.gen = op[t].gen /\ \A m \in BoxNames : store.boxes[m].id # 0 => store'.boxes[m].id # 0
        BY <2>1, <2>2, <4>1 DEF Compatible
      <4>3. \A k \in 1 .. (op[t].i - 1) : store.boxes[DefaultFolders[k]].id # 0
        BY <1>i, <2>1, <4>1, <4>2 DEF FoldersOk
      <4>4. \A k \in 1 .. (op[t].i - 1) : DefaultFolders[k] \in BoxNames
        BY <1>f, <2>1
      <4>5. \A k \in 1 .. op[t].i : k = op[t].i \/ k \in 1 .. (op[t].i - 1)
        BY <1>i
      <4> QED BY <2>2, <4>1, <4>2, <4>3, <4>4, <4>5
    <3>6. OpOk(t, op'[t], store', count'.ids)
      BY <3>2, <3>3, <3>4, <3>5 DEF OpOk
    <3> QED BY <2>2, <3>1, <3>6, MailboxStepOf
  <2>3. CASE op' = Folder(t, TRUE) /\ UNCHANGED <<store, count>>
    <3>1. /\ count' \in CountRecord /\ count.ids <= count'.ids /\ store' \in StoreRecord /\ StoreOk(store', count'.ids)
          /\ \A u \in Operators : Compatible(u, op[u], store, store')
      BY <1>0, <1>i, <1>s, <2>3
    <3> QED BY <2>2, <2>3, <3>1
  <2>4. CASE op' = Folder(t, TRUE) /\ store' = store /\ count' = [count EXCEPT !.fails = @ + 1]
    <3>1. count' \in CountRecord /\ count'.ids = count.ids
      BY <1>0, <2>4, CountTyped
    <3>2. /\ count.ids <= count'.ids /\ store' \in StoreRecord /\ StoreOk(store', count'.ids)
          /\ \A u \in Operators : Compatible(u, op[u], store, store')
      BY <1>0, <1>i, <1>s, <2>4, <3>1
    <3> QED BY <2>2, <2>4, <3>1, <3>2
  <2>5. CASE ~Exists(n) /\ ~Stale(t) /\ NewBox(n) /\ op' = Folder(t, FALSE)
    <3>1. store.gen # 0
      BY <2>1, <2>5 DEF Stale
    <3>2. /\ store' \in StoreRecord /\ count' \in CountRecord /\ count.ids <= count'.ids /\ StoreOk(store', count'.ids)
          /\ store'.boxes[n].id # 0
          /\ \A u \in Operators : op[u].alone => Compatible(u, op[u], store, store')
      <4> HIDE DEF n
      <4> QED BY <2>1, <2>5, <3>1, NewBoxIs
    <3> QED BY <2>2, <2>5, <3>2
  <2> QED BY <1>2, <2>3, <2>4, <2>5 DEF createMbox
<1> QED BY <1>1, <1>2

\* imap-msgs: what a command knows of the mailbox it opened.
LEMMA StatusRecord ==
  ASSUME NEW c \in OpRecord, NEW id \in Nat, NEW k \in Nat
  PROVE  LET d == [c EXCEPT !.at = "store", !.id = id, !.next = k, !.alone = TRUE]
         IN /\ d \in OpRecord /\ d.name = c.name /\ d.box = c.box /\ d.i = c.i /\ d.gen = c.gen /\ d.seen = c.seen /\ d.asked = c.asked
            /\ d.gone = c.gone /\ d.said = c.said /\ d.at = "store" /\ d.id = id /\ d.next = k
<1>1. \A r \in OpRecord : [r EXCEPT !.at = "store"] \in OpRecord
  BY DEF OpRecord
<1>2. \A r \in OpRecord : [r EXCEPT !.id = id] \in OpRecord
  BY DEF OpRecord
<1>3. \A r \in OpRecord : [r EXCEPT !.next = k] \in OpRecord
  BY DEF OpRecord
<1>4. \A r \in OpRecord : [r EXCEPT !.alone = TRUE] \in OpRecord
  BY DEF OpRecord
<1> DEFINE d == [c EXCEPT !.at = "store", !.id = id, !.next = k, !.alone = TRUE]
<1>7. d \in OpRecord
  <2>1. d = [[[[c EXCEPT !.at = "store"] EXCEPT !.id = id] EXCEPT !.next = k] EXCEPT !.alone = TRUE]
    BY DEF OpRecord
  <2> QED BY <1>1, <1>2, <1>3, <1>4, <2>1
<1>9. /\ d.name = c.name /\ d.box = c.box /\ d.i = c.i /\ d.gen = c.gen /\ d.seen = c.seen /\ d.asked = c.asked
      /\ d.gone = c.gone /\ d.said = c.said /\ d.at = "store" /\ d.id = id /\ d.next = k
  BY DEF OpRecord
<1> QED BY <1>7, <1>9

LEMMA OpenedRecord ==
  ASSUME NEW c \in OpRecord, NEW id \in Nat, NEW S \in SUBSET Nat
  PROVE  /\ [c EXCEPT !.at = "mark", !.id = id, !.seen = S, !.asked = S] \in OpRecord
         /\ [c EXCEPT !.at = "delete", !.id = id, !.seen = S, !.asked = S] \in OpRecord
<1>1. \A r \in OpRecord : [r EXCEPT !.at = "mark"] \in OpRecord /\ [r EXCEPT !.at = "delete"] \in OpRecord
  BY DEF OpRecord
<1>2. \A r \in OpRecord : [r EXCEPT !.id = id] \in OpRecord
  BY DEF OpRecord
<1>3. \A r \in OpRecord : [r EXCEPT !.seen = S] \in OpRecord
  BY DEF OpRecord
<1>4. \A r \in OpRecord : [r EXCEPT !.asked = S] \in OpRecord
  BY DEF OpRecord
<1>5. \A r \in OpRecord : [[[r EXCEPT !.id = id] EXCEPT !.seen = S] EXCEPT !.asked = S] \in OpRecord
  BY <1>2, <1>3, <1>4
<1>6. [c EXCEPT !.at = "mark", !.id = id, !.seen = S, !.asked = S] = [[[[c EXCEPT !.at = "mark"] EXCEPT !.id = id] EXCEPT !.seen = S] EXCEPT !.asked = S]
  BY DEF OpRecord
<1>7. [c EXCEPT !.at = "delete", !.id = id, !.seen = S, !.asked = S] = [[[[c EXCEPT !.at = "delete"] EXCEPT !.id = id] EXCEPT !.seen = S] EXCEPT !.asked = S]
  BY DEF OpRecord
<1> QED BY <1>1, <1>5, <1>6, <1>7

LEMMA MailboxStep4 ==
  ASSUME MailboxInv, NEW t \in Operators, (addStatus(t) \/ GetMailbox(t)) /\ ~Refuse(t)
  PROVE  MailboxInv'
<1>0. /\ store \in StoreRecord /\ op \in [Operators -> OpRecord] /\ count \in CountRecord /\ StoreOk(store, count.ids)
      /\ \A u \in Operators : OpOk(u, op[u], store, count.ids)
  BY MailboxParts DEF MailboxIs
<1> DEFINE c == op[t]
           box == store.boxes[c.box]
<1>1. /\ count.ids \in Nat /\ c \in OpRecord /\ c.box \in BoxNames /\ ShapeOk(c) /\ c.gen <= count.ids
  BY <1>0 DEF CountRecord, OpOk, OpRecord
<1>2. box \in BoxRecord /\ box.id \in Nat /\ box.next \in Nat /\ box.msgs \in Messages /\ box.id <= count.ids
  BY <1>0, <1>1 DEF StoreRecord, BoxRecord, StoreOk
<1>3. Uids(box) \in SUBSET Nat
  BY <1>2, MessagesAre DEF Uids
<1>4. Exists(c.box) /\ store' = store /\ count' = count
  BY DEF addStatus, GetMailbox
<1>5. StoreOk(store, count.ids) /\ \A u \in Operators : Compatible(u, op[u], store, store)
  BY <1>0, ShrinkOk
<1>6. ASSUME NEW d \in OpRecord, op' = [op EXCEPT ![t] = d], OpOk(t, d, store, count.ids) PROVE MailboxInv'
  <2>1. op' \in [Operators -> OpRecord] /\ op'[t] = d /\ \A u \in Operators \ {t} : op'[u] = op[u]
    BY <1>0, <1>6
  <2>2. OpOk(t, op'[t], store', count'.ids) /\ count' \in CountRecord /\ store' \in StoreRecord /\ StoreOk(store', count'.ids)
        /\ count.ids <= count'.ids /\ \A u \in Operators : Compatible(u, op[u], store, store')
    BY <1>0, <1>1, <1>4, <1>5, <1>6, <2>1
  <2> QED BY <2>1, <2>2, MailboxStepOf
<1>7. CASE addStatus(t) /\ ~Refuse(t)
  <2>x. PICK x \in Nat : x = box.id
    BY <1>2
  <2>y. PICK y \in Nat : y = box.next
    BY <1>2
  <2> DEFINE d == [c EXCEPT !.at = "store", !.id = x, !.next = y, !.alone = TRUE]
  <2>1. op' = [op EXCEPT ![t] = d]
    <3>1. op' = [op EXCEPT ![t].at = "store", ![t].id = x, ![t].next = y, ![t].alone = TRUE]
      BY <1>7, <2>x, <2>y DEF addStatus
    <3> HIDE DEF box
    <3> QED BY <1>0, <3>1 DEF OpRecord
  <2>2. c.at = "add" /\ c.name = "add" /\ c.gen # 0 /\ c.said = "none"
    BY <1>1, <1>7 DEF addStatus, Calls, ShapeOk, OpNames
  <2> HIDE DEF box, c
  <2>3. /\ d \in OpRecord /\ d.name = c.name /\ d.box = c.box /\ d.i = c.i /\ d.gen = c.gen /\ d.seen = c.seen /\ d.asked = c.asked
        /\ d.gone = c.gone /\ d.said = c.said /\ d.at = "store" /\ d.id = box.id /\ d.next = box.next
    <3>1. c \in OpRecord
      BY <1>1
    <3>2. /\ d \in OpRecord /\ d.name = c.name /\ d.box = c.box /\ d.i = c.i /\ d.gen = c.gen /\ d.seen = c.seen /\ d.asked = c.asked
          /\ d.gone = c.gone /\ d.said = c.said /\ d.at = "store" /\ d.id = x /\ d.next = y
      BY <3>1, StatusRecord
    <3> HIDE DEF d
    <3> QED BY <2>x, <2>y, <3>2
  <2> HIDE DEF d
  <2>4. ShapeOk(d)
    BY <1>1, <1>4, <2>2, <2>3 DEF ShapeOk, OpNames, Exists, box
  <2>5. UIDOk(t, d, store) /\ FoldersOk(d, store)
    BY <1>4, <2>2, <2>3 DEF UIDOk, FoldersOk, Exists, box
  <2>6. OpOk(t, d, store, count.ids)
    BY <1>1, <1>2, <2>3, <2>4, <2>5 DEF OpOk
  <2> QED BY <1>6, <2>1, <2>3, <2>6
<1>8. CASE GetMailbox(t) /\ ~Refuse(t)
  <2>0. PICK at \in {"mark", "delete"} : at = IF c.at = "flags" THEN "mark" ELSE "delete"
    OBVIOUS
  <2>x. PICK x \in Nat : x = box.id
    BY <1>2
  <2>s. PICK S \in SUBSET Nat : S = Uids(box)
    BY <1>3
  <2> DEFINE d == [c EXCEPT !.at = at, !.id = x, !.seen = S, !.asked = S]
  <2>1. op' = [op EXCEPT ![t] = d]
    <3>1. op' = [op EXCEPT ![t].at = IF c.at = "flags" THEN "mark" ELSE "delete", ![t].id = x, ![t].seen = S, ![t].asked = S]
      BY <1>8, <2>s, <2>x DEF GetMailbox
    <3>2. op' = [op EXCEPT ![t].at = at, ![t].id = x, ![t].seen = S, ![t].asked = S]
      BY <2>0, <3>1
    <3> HIDE DEF box
    <3> QED BY <1>0, <3>2 DEF OpRecord
  <2>2. c.at \in {"flags", "rmmsg"} /\ c.name = c.at /\ c.gen # 0 /\ c.said = "none" /\ c.gone = {}
    BY <1>1, <1>8 DEF GetMailbox, ShapeOk, OpNames
  <2> HIDE DEF box, c
  <2>3. /\ d \in OpRecord /\ d.name = c.name /\ d.box = c.box /\ d.i = c.i /\ d.gen = c.gen /\ d.seen = S /\ d.asked = S
        /\ d.gone = c.gone /\ d.said = c.said /\ d.at = at /\ d.id = box.id
    <3>1. c \in OpRecord /\ S \in SUBSET Nat /\ at \in {"mark", "delete"}
      BY <1>1, <1>3
    <3>2. /\ d.name = c.name /\ d.box = c.box /\ d.i = c.i /\ d.gen = c.gen /\ d.seen = S /\ d.asked = S
          /\ d.gone = c.gone /\ d.said = c.said /\ d.at = at /\ d.id = x
      BY <3>1 DEF OpRecord
    <3>3. at = "mark" => d \in OpRecord
      <4>1. [c EXCEPT !.at = "mark", !.id = x, !.seen = S, !.asked = S] \in OpRecord
        BY <3>1, OpenedRecord
      <4> QED BY <4>1
    <3>4. at = "delete" => d \in OpRecord
      <4>1. [c EXCEPT !.at = "delete", !.id = x, !.seen = S, !.asked = S] \in OpRecord
        BY <3>1, OpenedRecord
      <4> QED BY <4>1
    <3> HIDE DEF d
    <3> QED BY <2>x, <3>1, <3>2, <3>3, <3>4
  <2> HIDE DEF d
  <2>4. ShapeOk(d)
    BY <1>1, <2>0, <2>2, <2>3 DEF ShapeOk, OpNames
  <2>5. UIDOk(t, d, store) /\ FoldersOk(d, store)
    BY <2>0, <2>3 DEF UIDOk, FoldersOk
  <2>6. OpOk(t, d, store, count.ids)
    BY <1>1, <1>2, <2>3, <2>4, <2>5 DEF OpOk
  <2> QED BY <1>6, <2>1, <2>3, <2>6
<1> QED BY <1>7, <1>8

\* A message stored by imap-msgs add has the UID that was asked for, when nobody came between.
LEMMA MailboxStep5 ==
  ASSUME MailboxInv, NEW t \in Operators, addMessage(t), ~Refuse(t)
  PROVE  MailboxInv'
<1>0. /\ store \in StoreRecord /\ op \in [Operators -> OpRecord] /\ count \in CountRecord /\ StoreOk(store, count.ids)
      /\ \A u \in Operators : OpOk(u, op[u], store, count.ids)
  BY MailboxParts DEF MailboxIs
<1> DEFINE c == op[t]
           n == c.box
           e == Ends(t, "ok")
<1>1. /\ count.ids \in Nat /\ c \in OpRecord /\ n \in BoxNames /\ ShapeOk(c) /\ c.gen \in Nat /\ c.id \in Nat /\ c.next \in Nat
      /\ c.gen <= count.ids /\ c.id <= count.ids /\ UIDOk(t, c, store)
  BY <1>0 DEF CountRecord, OpOk, OpRecord
<1>2. /\ Exists(n) /\ count' = [count EXCEPT !.mail = count.mail + 1] /\ store' = Stored(n, t) /\ op' = Touches(n, e)
      /\ c.at = "store" /\ c.name = "add" /\ c.id # 0 /\ c.gen # 0
  BY <1>1 DEF addMessage, Calls, ShapeOk
<1>3. count' \in CountRecord /\ count'.ids = count.ids /\ count.ids <= count'.ids
  <2>1. count \in CountRecord /\ count' = [count EXCEPT !.mail = count.mail + 1]
    BY <1>0, <1>2
  <2>2. count' \in CountRecord /\ count'.ids = count.ids
    BY ONLY <2>1, CountTyped
  <2> QED BY <1>1, <2>2
<1>4. /\ store' \in StoreRecord /\ StoreOk(store', count.ids)
      /\ store'.boxes[n].next = store.boxes[n].next + 1
      /\ \A m \in BoxNames : store'.boxes[m].id = store.boxes[m].id
      /\ \A u \in Operators : u # t /\ (op[u].at = "done" \/ op[u].box # n) => Compatible(u, op[u], store, store')
  BY <1>1, <1>2, StoredIs
<1>5. /\ e \in [Operators -> OpRecord] /\ (\A u \in Operators \ {t} : e[u] = op[u])
      /\ Kept(e[t], c) /\ e[t].at = "done" /\ e[t].said = "ok" /\ e[t].alone = c.alone /\ e[t].failed = c.failed
  BY <1>0, EndsIs DEF Saids
<1> HIDE DEF e, n
<1>6. op' \in [Operators -> OpRecord]
  BY <1>2, <1>5, TouchedTyped
<1>7. Kept(op'[t], c) /\ op'[t].at = "done" /\ op'[t].said = "ok" /\ op'[t].alone = c.alone
  <2>0. e \in [Operators -> OpRecord] /\ t \in Operators /\ e[t] \in OpRecord
    BY <1>5
  <2>1. Touches(n, e)[t] = e[t]
    BY <1>5 DEF Touches
  <2> QED BY <1>2, <1>5, <2>1
<1>8. OpOk(t, op'[t], store', count'.ids)
  <2>1. op'[t].gen <= count'.ids /\ op'[t].id <= count'.ids
    BY <1>1, <1>3, <1>7 DEF Kept
  <2>2. ShapeOk(op'[t])
    BY <1>1, <1>2, <1>7 DEF ShapeOk, Kept, OpNames
  <2>3. FoldersOk(op'[t], store')
    BY <1>2, <1>7 DEF FoldersOk, Kept
  <2>4. UIDOk(t, op'[t], store')
    <3> SUFFICES ASSUME c.alone, NEW m \in BoxNames, store'.boxes[m].id = c.id
                 PROVE  c.next < store'.boxes[m].next /\ \A u \in DOMAIN store'.boxes[m].msgs : u <= c.next
      BY <1>7 DEF UIDOk, Kept
    <3>1. store.boxes[n].id = c.id /\ store.boxes[n].next = c.next
      BY <1>1, <1>2 DEF UIDOk, n
    <3>2. m = n
      BY <1>0, <1>1, <1>2, <1>4, <3>1 DEF StoreOk, Exists
    <3>3. store'.boxes[m].next = c.next + 1
      BY <1>4, <3>1, <3>2
    <3>4. \A u \in DOMAIN store'.boxes[m].msgs : u \in Nat /\ u < c.next + 1
      <4>1. \A u \in DOMAIN store'.boxes[m].msgs : u < c.next + 1
        BY <1>4, <3>3 DEF StoreOk
      <4>2. store'.boxes[m].msgs \in Messages
        BY <1>4 DEF StoreRecord, BoxRecord
      <4>3. DOMAIN store'.boxes[m].msgs \subseteq Nat
        BY <4>2, MessagesAre
      <4> QED BY <4>1, <4>3
    <3> QED BY <1>1, <3>3, <3>4
  <2> QED BY <2>1, <2>2, <2>3, <2>4 DEF OpOk
<1>9. ASSUME NEW u \in Operators \ {t}
      PROVE  \E b \in BOOLEAN : op'[u] = [op[u] EXCEPT !.alone = b] /\ (b => op[u].alone /\ Compatible(u, op[u], store, store'))
  <2>0. e \in [Operators -> OpRecord] /\ u \in Operators
    BY <1>5
  <2>1. PICK b \in BOOLEAN : /\ Touches(n, e)[u] = [e[u] EXCEPT !.alone = b]
                             /\ b <=> e[u].alone /\ (e[u].at = "done" \/ e[u].box # n)
    BY ONLY <2>0, TouchesIs
  <2>2. e[u] = op[u]
    BY <1>5
  <2> QED BY <1>2, <1>4, <2>1, <2>2
<1> QED BY <1>3, <1>4, <1>6, <1>8, <1>9, MailboxGoesOn

\* Messages of the mailboxes of a set are taken away.
LEMMA TakenAway ==
  ASSUME MailboxInv, NEW B, NEW S,
         store' = [store EXCEPT !.boxes = [n \in BoxNames |->
           IF n \in B THEN [store.boxes[n] EXCEPT !.msgs = Restrict(@, DOMAIN @ \ S)] ELSE store.boxes[n]]]
  PROVE  store' \in StoreRecord /\ StoreOk(store', count.ids) /\ \A u \in Operators : Compatible(u, op[u], store, store')
<1>0. store \in StoreRecord
  BY MailboxParts DEF MailboxIs
<1> DEFINE boxes == [n \in BoxNames |->
             IF n \in B THEN [store.boxes[n] EXCEPT !.msgs = Restrict(store.boxes[n].msgs, DOMAIN store.boxes[n].msgs \ S)] ELSE store.boxes[n]]
<1>1. ASSUME NEW n \in BoxNames
      PROVE  /\ boxes[n] \in BoxRecord /\ boxes[n].id = store.boxes[n].id /\ boxes[n].next = store.boxes[n].next
             /\ \A u \in DOMAIN boxes[n].msgs : u \in DOMAIN store.boxes[n].msgs /\ boxes[n].msgs[u].of = store.boxes[n].msgs[u].of
  <2>0. store.boxes[n] \in BoxRecord /\ store.boxes[n].msgs \in Messages
    BY <1>0 DEF StoreRecord, BoxRecord
  <2> DEFINE old == store.boxes[n].msgs
             ms == Restrict(old, DOMAIN old \ S)
  <2>2. boxes[n] = IF n \in B THEN [store.boxes[n] EXCEPT !.msgs = ms] ELSE store.boxes[n]
    OBVIOUS
  <2>3. old \in Messages
    BY <2>0
  <2> HIDE DEF boxes, old
  <2>1. ms \in Messages /\ DOMAIN ms = DOMAIN old \ S /\ \A v \in DOMAIN ms : ms[v] = old[v]
    BY <2>3, WithoutIs
  <2> HIDE DEF ms
  <2>4. old = store.boxes[n].msgs
    BY DEF old
  <2> QED BY <2>0, <2>1, <2>2, <2>4 DEF BoxRecord
<1>2. boxes \in [BoxNames -> BoxRecord]
  BY <1>1
<1> HIDE DEF boxes
<1>3. store' \in StoreRecord /\ store'.gen = store.gen /\ store'.boxes = boxes
  <2>1. store' = [store EXCEPT !.boxes = boxes]
    BY DEF boxes
  <2> QED BY <1>0, <1>2, <2>1 DEF StoreRecord
<1> QED BY <1>1, <1>3, ShrinkOk

LEMMA MailboxStep6 ==
  ASSUME MailboxInv, NEW t \in Operators, msgsRemove(t)
  PROVE  MailboxInv'
<1>0. /\ store \in StoreRecord /\ op \in [Operators -> OpRecord] /\ count \in CountRecord /\ StoreOk(store, count.ids)
      /\ \A u \in Operators : OpOk(u, op[u], store, count.ids)
  BY MailboxParts DEF MailboxIs
<1> DEFINE c == op[t]
           n == c.box
           e == Ends(t, "ok")
           gone == OpenedUids(t) \cap Resolve(c)
<1>1. /\ count.ids \in Nat /\ c \in OpRecord /\ ShapeOk(c) /\ c.gen \in Nat /\ c.id \in Nat /\ c.gen <= count.ids /\ c.id <= count.ids
  BY <1>0 DEF CountRecord, OpOk, OpRecord
<1>2. c.at = "delete" /\ c.name = "rmmsg" /\ c.seen = c.asked
  BY <1>1 DEF msgsRemove, Calls, ShapeOk
<1>3. count' = count /\ op' = [Touches(n, e) EXCEPT ![t].gone = gone]
  BY DEF msgsRemove, DelMessages
<1>4. store' \in StoreRecord /\ StoreOk(store', count.ids) /\ \A u \in Operators : Compatible(u, op[u], store, store')
  <2>1. store' = [store EXCEPT !.boxes = [m \in BoxNames |->
           IF m \in Opened(t) THEN [store.boxes[m] EXCEPT !.msgs = Restrict(@, DOMAIN @ \ Resolve(c))] ELSE store.boxes[m]]]
    BY DEF msgsRemove, DelMessages
  <2> QED BY <2>1, TakenAway
<1>5. gone \in SUBSET Nat /\ (~c.uid => gone \subseteq {u \in c.asked : Position(u, c.asked) \in c.arg})
  <2>1. \A m \in BoxNames : Uids(store.boxes[m]) \subseteq Nat
    <3> TAKE m \in BoxNames
    <3>1. store.boxes[m].msgs \in Messages
      BY <1>0 DEF StoreRecord, BoxRecord
    <3> QED BY <3>1, MessagesAre DEF Uids
  <2>2. Opened(t) \subseteq BoxNames
    BY DEF Opened
  <2>3. ~c.uid => Resolve(c) = {u \in c.asked : Position(u, c.asked) \in c.arg}
    BY <1>2 DEF Resolve
  <2>4. ASSUME NEW u \in OpenedUids(t) PROVE u \in Nat
    <3>1. PICK m \in Opened(t) : u \in Uids(store.boxes[m])
      BY <2>4 DEF OpenedUids
    <3>2. m \in BoxNames
      BY <2>2
    <3> QED BY <2>1, <3>1, <3>2
  <2> QED BY <2>3, <2>4
<1>6. /\ e \in [Operators -> OpRecord] /\ (\A u \in Operators \ {t} : e[u] = op[u])
      /\ Kept(e[t], c) /\ e[t].at = "done" /\ e[t].said = "ok"
  BY <1>0, EndsIs DEF Saids
<1> HIDE DEF e, n, gone
<1>7. Touches(n, e) \in [Operators -> OpRecord] /\ Touches(n, e)[t] = e[t]
  <2>1. Touches(n, e)[t] = e[t]
    BY <1>6 DEF Touches
  <2> QED BY <1>6, <2>1, TouchedTyped
<1> DEFINE d == [e[t] EXCEPT !.gone = gone]
<1>8. d \in OpRecord /\ d.gone = gone
  <2>1. e[t] \in OpRecord
    BY <1>6
  <2>2. \A r \in OpRecord : \A G \in SUBSET Nat : [r EXCEPT !.gone = G] \in OpRecord /\ [r EXCEPT !.gone = G].gone = G
    <3> TAKE r \in OpRecord
    <3> TAKE G \in SUBSET Nat
    <3>1. [r EXCEPT !.gone = G] \in OpRecord
      BY DEF OpRecord
    <3>2. [r EXCEPT !.gone = G].gone = G
      BY DEF OpRecord
    <3> QED BY <3>1, <3>2
  <2> QED BY <1>5, <2>1, <2>2
<1>9. /\ d.name = c.name /\ d.arg = c.arg /\ d.uid = c.uid /\ d.i = c.i /\ d.gen = c.gen /\ d.id = c.id
      /\ d.seen = c.seen /\ d.asked = c.asked /\ d.at = "done"
  <2>1. e[t] \in OpRecord
    BY <1>6
  <2> QED BY <1>6, <2>1 DEF OpRecord, Kept
<1>10. op' = [Touches(n, e) EXCEPT ![t] = d]
  BY <1>3, <1>7
<1> HIDE DEF d
<1>11. op' \in [Operators -> OpRecord] /\ op'[t] = d /\ \A u \in Operators \ {t} : op'[u] = Touches(n, e)[u]
  BY <1>7, <1>8, <1>10
<1>12. OpOk(t, d, store', count'.ids)
  <2>1. ShapeOk(d)
    BY <1>1, <1>2, <1>5, <1>8, <1>9 DEF ShapeOk, OpNames
  <2>2. UIDOk(t, d, store') /\ FoldersOk(d, store')
    BY <1>2, <1>9 DEF UIDOk, FoldersOk
  <2> QED BY <1>1, <1>3, <1>9, <2>1, <2>2 DEF OpOk
<1>13. ASSUME NEW u \in Operators \ {t}
       PROVE  \E b \in BOOLEAN : op'[u] = [op[u] EXCEPT !.alone = b] /\ (b => op[u].alone /\ Compatible(u, op[u], store, store'))
  <2>0. e \in [Operators -> OpRecord] /\ u \in Operators
    BY <1>6
  <2>1. PICK b \in BOOLEAN : /\ Touches(n, e)[u] = [e[u] EXCEPT !.alone = b]
                             /\ b <=> e[u].alone /\ (e[u].at = "done" \/ e[u].box # n)
    BY ONLY <2>0, TouchesIs
  <2>2. e[u] = op[u]
    BY <1>6
  <2> QED BY <1>4, <1>11, <2>1, <2>2
<1>14. count' \in CountRecord /\ count.ids <= count'.ids /\ StoreOk(store', count'.ids)
  BY <1>0, <1>1, <1>3, <1>4
<1> QED BY <1>4, <1>11, <1>12, <1>13, <1>14, MailboxGoesOn

\* The server at work.
LEMMA MailboxStep7 ==
  ASSUME MailboxInv, NEW n \in BoxNames, Deliver(n) \/ Expunge(n)
  PROVE  MailboxInv'
<1>0. store \in StoreRecord /\ op \in [Operators -> OpRecord] /\ count \in CountRecord
  BY MailboxParts DEF MailboxIs
<1>1. CASE Deliver(n)
  <2>1. Exists(n) /\ store' = Stored(n, "server") /\ op' = Touches(n, op) /\ count' = [count EXCEPT !.mail = count.mail + 1]
    BY <1>1 DEF Deliver
  <2>2. count' \in CountRecord /\ count'.ids = count.ids
    <3>1. count \in CountRecord /\ count' = [count EXCEPT !.mail = count.mail + 1]
      BY <1>0, <2>1
    <3> QED BY ONLY <3>1, CountTyped
  <2>3. /\ store' \in StoreRecord /\ StoreOk(store', count.ids)
        /\ \A u \in Operators : u # "server" /\ (op[u].at = "done" \/ op[u].box # n) => Compatible(u, op[u], store, store')
    BY <2>1, StoredIs
  <2> QED BY <2>1, <2>2, <2>3, EmptyIs, TouchedStep
<1>2. CASE Expunge(n)
  <2>1. PICK v \in Uids(store.boxes[n]) : store' = [store EXCEPT !.boxes[n].msgs = Restrict(store.boxes[n].msgs, DOMAIN store.boxes[n].msgs \ {v})]
    BY <1>2 DEF Expunge
  <2> DEFINE box == [store.boxes[n] EXCEPT !.msgs = Restrict(store.boxes[n].msgs, DOMAIN store.boxes[n].msgs \ {v})]
  <2>3. store' = [store EXCEPT !.boxes = [store.boxes EXCEPT ![n] = box]]
    <3> DEFINE ms == Restrict(store.boxes[n].msgs, DOMAIN store.boxes[n].msgs \ {v})
    <3>1. store' = [store EXCEPT !.boxes[n].msgs = ms] /\ box = [store.boxes[n] EXCEPT !.msgs = ms]
      BY <2>1
    <3> HIDE DEF ms, box
    <3> QED BY <1>0, <3>1 DEF StoreRecord, BoxRecord
  <2> HIDE DEF box
  <2>4. [store.boxes EXCEPT ![n] = box] = [m \in BoxNames |-> IF m \in {n} THEN box ELSE store.boxes[m]]
    BY <1>0 DEF StoreRecord
  <2>5. store' = [store EXCEPT !.boxes = [m \in BoxNames |-> IF m \in {n} THEN [store.boxes[m] EXCEPT !.msgs = Restrict(@, DOMAIN @ \ {v})] ELSE store.boxes[m]]]
    <3>1. [m \in BoxNames |-> IF m \in {n} THEN box ELSE store.boxes[m]]
          = [m \in BoxNames |-> IF m \in {n} THEN [store.boxes[m] EXCEPT !.msgs = Restrict(@, DOMAIN @ \ {v})] ELSE store.boxes[m]]
      BY DEF box
    <3> QED BY <2>3, <2>4, <3>1
  <2>6. store' \in StoreRecord /\ StoreOk(store', count.ids) /\ \A u \in Operators : Compatible(u, op[u], store, store')
    BY <2>5, TakenAway
  <2> QED BY <1>0, <1>2, <2>6, TouchedStep DEF Expunge
<1> QED BY <1>1, <1>2

\* A command begins.
LEMMA MailboxStep8 ==
  ASSUME MailboxInv, NEW t \in Operators, Begin(t)
  PROVE  MailboxInv'
<1>0. /\ store \in StoreRecord /\ op \in [Operators -> OpRecord] /\ count \in CountRecord /\ StoreOk(store, count.ids)
  BY MailboxParts DEF MailboxIs
<1>i. count.ids \in Nat /\ store.gen \in Nat /\ store.gen <= count.ids
  BY <1>0 DEF CountRecord, StoreRecord, StoreOk
<1>1. PICK n \in OpNames, b \in BoxNames, u \in BOOLEAN, to \in BoxNames :
        openStorage(t, [NoOp EXCEPT !.name = n, !.at = n, !.box = b, !.to = to, !.arg = {1}, !.uid = u])
  BY DEF Begin
<1> DEFINE c == [NoOp EXCEPT !.name = n, !.at = n, !.box = b, !.to = to, !.arg = {1}, !.uid = u]
<1>2. /\ c \in OpRecord /\ c.name = n /\ c.at = n /\ c.i = 0 /\ c.gen = 0 /\ c.id = 0 /\ c.seen = {} /\ c.asked = {} /\ c.gone = {} /\ c.said = "none"
  <2>0. NoOp \in OpRecord
    BY EmptyIs DEF NoOp, OpRecord
  <2>1. \A r \in OpRecord : [r EXCEPT !.name = n] \in OpRecord
    BY DEF OpRecord
  <2>2. \A r \in OpRecord : [r EXCEPT !.at = n] \in OpRecord
    BY DEF OpRecord
  <2>3. \A r \in OpRecord : [r EXCEPT !.box = b] \in OpRecord
    BY DEF OpRecord
  <2>4. \A r \in OpRecord : [r EXCEPT !.to = to] \in OpRecord
    BY DEF OpRecord
  <2>5. \A r \in OpRecord : [r EXCEPT !.arg = {1}] \in OpRecord
    BY DEF OpRecord
  <2>6. \A r \in OpRecord : [r EXCEPT !.uid = u] \in OpRecord
    BY DEF OpRecord
  <2>7. c = [[[[[[NoOp EXCEPT !.name = n] EXCEPT !.at = n] EXCEPT !.box = b] EXCEPT !.to = to] EXCEPT !.arg = {1}] EXCEPT !.uid = u]
    OBVIOUS
  <2>8. c \in OpRecord
    <3> HIDE DEF c
    <3> QED BY <2>0, <2>1, <2>2, <2>3, <2>4, <2>5, <2>6, <2>7
  <2>9. c.name = n /\ c.at = n
    BY <2>0 DEF OpRecord
  <2>10. c.i = 0 /\ c.gen = 0 /\ c.id = 0 /\ c.said = "none"
    BY <2>0 DEF NoOp, OpRecord
  <2>11. c.seen = {} /\ c.asked = {} /\ c.gone = {}
    BY <2>0 DEF NoOp, OpRecord
  <2> QED BY <2>8, <2>9, <2>10, <2>11
<1>3. /\ count' = [count EXCEPT !.ops = count.ops + 1] /\ store' = store
      /\ op' = [op EXCEPT ![t] = IF c.name \notin {"create", "remove"} /\ store.gen = 0 THEN [c EXCEPT !.at = "done", !.said = "refused"]
                                 ELSE [c EXCEPT !.gen = store.gen]]
  BY <1>1 DEF openStorage
<1> HIDE DEF c
<1>4. count' \in CountRecord /\ count'.ids = count.ids
  <2>1. count \in CountRecord /\ count' = [count EXCEPT !.ops = count.ops + 1]
    BY <1>0, <1>3
  <2> QED BY ONLY <2>1, CountTyped
<1>l. Len(DefaultFolders) \in Nat
  BY EmptyIs
<1>5. PICK d \in OpRecord : op' = [op EXCEPT ![t] = d] /\ OpOk(t, d, store, count.ids)
  <2>1. CASE c.name \notin {"create", "remove"} /\ store.gen = 0
    <3> DEFINE d == [c EXCEPT !.at = "done", !.said = "refused"]
    <3>1. d \in OpRecord /\ Kept(d, c) /\ d.at = "done" /\ d.said = "refused"
      BY <1>2, EndedRecord DEF Saids
    <3>2. op' = [op EXCEPT ![t] = d]
      BY <1>3, <2>1
    <3> HIDE DEF d
    <3>3. OpOk(t, d, store, count.ids)
      BY <1>2, <1>i, <1>l, <3>1 DEF OpOk, ShapeOk, UIDOk, FoldersOk, Kept, OpNames
    <3> QED BY <3>1, <3>2, <3>3
  <2>2. CASE ~(c.name \notin {"create", "remove"} /\ store.gen = 0)
    <3>g. PICK g \in Nat : g = store.gen
      BY <1>i
    <3> DEFINE d == [c EXCEPT !.gen = g]
    <3>1. d \in OpRecord
      BY <1>2 DEF OpRecord
    <3>2. /\ d.name = n /\ d.at = n /\ d.i = 0 /\ d.gen = g /\ d.id = 0 /\ d.seen = {} /\ d.asked = {} /\ d.gone = {} /\ d.said = "none"
      BY <1>2 DEF OpRecord
    <3>3. op' = [op EXCEPT ![t] = d]
      BY <1>3, <2>2, <3>g
    <3> HIDE DEF d
    <3>4. OpOk(t, d, store, count.ids)
      BY <1>2, <1>i, <1>l, <2>2, <3>2, <3>g DEF OpOk, ShapeOk, UIDOk, FoldersOk, OpNames
    <3> QED BY <3>1, <3>3, <3>4
  <2> QED BY <2>1, <2>2
<1>6. op' \in [Operators -> OpRecord] /\ op'[t] = d /\ \A v \in Operators \ {t} : op'[v] = op[v]
  BY <1>0, <1>5
<1>7. \A v \in Operators : Compatible(v, op[v], store, store)
  BY <1>0, ShrinkOk
<1>8. /\ store' \in StoreRecord /\ StoreOk(store', count'.ids) /\ count.ids <= count'.ids /\ OpOk(t, op'[t], store', count'.ids)
      /\ \A v \in Operators : Compatible(v, op[v], store, store')
  BY <1>0, <1>3, <1>4, <1>5, <1>6, <1>7, <1>i
<1> QED BY <1>4, <1>6, <1>8, MailboxStepOf

LEMMA MailboxStep == MailboxInv /\ [MailboxesNext]_mvars => MailboxInv'
<1> SUFFICES ASSUME MailboxInv, [MailboxesNext]_mvars PROVE MailboxInv'
  OBVIOUS
<1>1. CASE UNCHANGED mvars
  <2>1. store' = store /\ op' = op /\ count' = count
    BY <1>1 DEF mvars
  <2>2. MailboxIs
    BY MailboxParts
  <2>3. MailboxIs'
    BY <2>1, <2>2 DEF MailboxIs
  <2> QED BY <2>3, MailboxPartsNext
<1>2. ASSUME NEW t \in Operators, Runs(t) PROVE MailboxInv'
  <2>1. CASE Refuse(t)
    BY <2>1, MailboxStep1
  <2>2. CASE ~Refuse(t)
    BY <1>2, <2>2, MailboxStep1, MailboxStep2, MailboxStep3, MailboxStep4, MailboxStep5, MailboxStep6 DEF Runs
  <2> QED BY <2>1, <2>2
<1>3. ASSUME NEW t \in Operators, Begin(t) PROVE MailboxInv'
  BY <1>3, MailboxStep8
<1>4. ASSUME NEW n \in BoxNames, Deliver(n) \/ Expunge(n) PROVE MailboxInv'
  BY <1>4, MailboxStep7
<1> QED BY <1>1, <1>2, <1>3, <1>4 DEF MailboxesNext

-----------------------------------------------------------------------------
(* The commands and the server together *)

LEMMA ToolsStart == ToolsInit => SigningInit /\ CredentialsInit /\ MailboxesInit
BY DEF ToolsInit

LEMMA ToolsStep == [ToolsNext]_tvars => [SigningNext]_svars /\ [CredentialsNext]_cvars /\ [MailboxesNext]_mvars
<1> SUFFICES ASSUME [ToolsNext]_tvars PROVE [SigningNext]_svars /\ [CredentialsNext]_cvars /\ [MailboxesNext]_mvars
  OBVIOUS
<1>1. CASE UNCHANGED tvars
  BY <1>1 DEF tvars
<1>2. CASE CredentialsNext /\ UNCHANGED <<mvars, svars, focus>>
  BY <1>2
<1>3. CASE MailboxesNext /\ UNCHANGED <<cvars, svars, focus>>
  BY <1>3
<1>4. CASE SigningNext /\ UNCHANGED <<cvars, mvars, focus>>
  BY <1>4
<1> QED BY <1>1, <1>2, <1>3, <1>4 DEF ToolsNext

\* A server that runs signs with the key whose record is in the file beside it,
\* after whatever crashes and failed starts its key files went through.
THEOREM SignerPublishes == ToolsSpec => []SignerPublished
<1>1. ToolsInit => KeyInv
  BY ToolsStart, KeysInit
<1>2. KeyInv /\ [ToolsNext]_tvars => KeyInv'
  BY ToolsStep, KeyStep
<1>3. KeyInv => SignerPublished
  BY KeyPublished
<1> QED BY <1>1, <1>2, <1>3, PTL DEF ToolsSpec

\* A creds command that was alone with its user tells the truth, at whatever call of
\* the table it fails or is killed, and whoever works on other users meanwhile.
THEOREM CommandsSayTheTruth == ToolsSpec => []CommandsTruthful
<1>1. ToolsInit => CommandInv
  BY ToolsStart, CommandsInit
<1>2. CommandInv /\ [ToolsNext]_tvars => CommandInv'
  BY ToolsStep, CommandStep
<1>3. CommandInv => CommandsTruthful
  BY DEF CommandInv
<1> QED BY <1>1, <1>2, <1>3, PTL DEF ToolsSpec

\* A login succeeds only for the identity whose password was checked, whatever commands
\* write to the table and however sessions take turns on the one LDAP connection.
THEOREM LoginsAreChecked == ToolsSpec => []LoginsChecked
<1>1. ToolsInit => CommandInv /\ LoginInv
  BY ToolsStart, CommandsInit, LoginsInit
<1>2. CommandInv /\ LoginInv /\ [ToolsNext]_tvars => (CommandInv /\ LoginInv)'
  BY ToolsStep, CommandStep, LoginStep
<1>3. CommandInv /\ LoginInv => LoginsChecked
  BY LoginsSafe
<1> QED BY <1>1, <1>2, <1>3, PTL DEF ToolsSpec

\* The imap commands did what they say they did, however deliveries, expunges and
\* other commands come between the calls of one of them.
THEOREM MailboxToolsSayTheTruth == ToolsSpec => []MailboxToolsTruthful
<1>1. ToolsInit => MailboxInv
  BY ToolsStart, MailboxesStart
<1>2. MailboxInv /\ [ToolsNext]_tvars => MailboxInv'
  BY ToolsStep, MailboxStep
<1>3. MailboxInv => MailboxToolsTruthful
  BY MailboxTruthful
<1> QED BY <1>1, <1>2, <1>3, PTL DEF ToolsSpec
=============================================================================
