------------------------------ MODULE ConnPool ------------------------------
(***************************************************************************)
(* internal/smtpconn/pool/pool.go: the pool of idle SMTP connections.      *)
(*                                                                         *)
(* The pool maps a key (a domain) to a slot: a buffered channel of idle    *)
(* connections and a timestamp.  Get and Return are called by delivery     *)
(* goroutines, CleanUp by a ticker goroutine, Close by the shutdown of the *)
(* target.  keysLock protects the map, but Get receives from a channel and *)
(* drains a dropped one after it unlocked, while others may return to,     *)
(* receive from or close the same channel.                                 *)
(*                                                                         *)
(* Connections closed in a goroutine of their own (go conn.Close()) are    *)
(* closed here at once.  A user closes a connection it does not return.    *)
(***************************************************************************)
EXTENDS Integers, FiniteSets

CONSTANTS
  User,            \* goroutines that call Get and Return
  Key,             \* keys
  Conn,            \* connections that New may make
  Chan,            \* channels that Return may make
  None,            \* no connection, no channel
  MaxKeys, MaxConnsPerKey, MaxConnLifetime, StaleKeyLifetime,  \* Config
  MaxTime          \* bound: clock

ASSUME PoolAssumption ==
  /\ None \notin Conn \cup Chan
  /\ MaxKeys \in Nat /\ MaxConnsPerKey \in Nat
  /\ MaxConnLifetime \in Nat /\ StaleKeyLifetime \in Nat
  /\ MaxTime \in Nat

VARIABLES
  now,      \* the clock
  keys,     \* p.keys: partial function from Key to slots [c, lastUse]
  closed,   \* is p.keys nil
  buf,      \* buf[h]: connections buffered in channel h
  made,     \* channels made so far
  shut,     \* channels that were closed
  conn,     \* conn[c]: unborn, or where it is: idle (in a channel), used, closed
  usable,   \* conn.Usable()
  usedAt,   \* conn.LastUseAt()
  user,     \* user[u]: pc, key, the channel (h) and the connection (c) it holds
  lock,     \* holder of keysLock between steps: none, or closer
  ticker,   \* the cleanUpTick goroutine: wait, clean (CleanUp called), done
  closer    \* the caller of Close: idle, send, lock, done

vars == <<now, keys, closed, buf, made, shut, conn, usable, usedAt, user, lock, ticker, closer>>
connVars == <<usable, usedAt>>
goroutines == <<ticker, closer>>

Slot == [c: Chan, lastUse: Nat]
NoUser == [pc |-> "idle", key |-> None, h |-> None, c |-> None]

Init ==
  /\ now = 0
  /\ keys = [k \in {} |-> None]
  /\ closed = FALSE
  /\ buf = [h \in Chan |-> {}]
  /\ made = {} /\ shut = {}
  /\ conn = [c \in Conn |-> "unborn"]
  /\ usable = [c \in Conn |-> TRUE]
  /\ usedAt = [c \in Conn |-> 0]
  /\ user = [u \in User |-> NoUser]
  /\ lock = "none"
  /\ ticker = "wait"
  /\ closer = "idle"

-----------------------------------------------------------------------------
(* Pieces.                                                                  *)

Without(f, K) == [k \in DOMAIN f \ K |-> f[k]]

\* Slots CleanUp and Return consider stale.
StaleKeys == {k \in DOMAIN keys : keys[k].lastUse + StaleKeyLifetime <= now}
ChansOf(K) == {keys[k].c : k \in K}

\* Closing the channels in H and every connection buffered in them.
CloseAll(H) ==
  /\ shut' = shut \cup H
  /\ buf' = [h \in Chan |-> IF h \in H THEN {} ELSE buf[h]]
  /\ conn' = [c \in Conn |-> IF \E h \in H : c \in buf[h] THEN "closed" ELSE conn[c]]

\* cfg.New: a fresh connection, or an error.
NewConn(u, k) ==
  \/ \E c \in Conn :
       /\ conn[c] = "unborn"
       /\ conn' = [conn EXCEPT ![c] = "used"]
       /\ usedAt' = [usedAt EXCEPT ![c] = now]
       /\ user' = [user EXCEPT ![u] = [pc |-> "using", key |-> k, h |-> None, c |-> c]]
       /\ UNCHANGED usable
  \/ /\ user' = [user EXCEPT ![u] = NoUser]
     /\ UNCHANGED <<conn, usable, usedAt>>

-----------------------------------------------------------------------------
(* Get.                                                                     *)

\* No slot for the key: a new connection (also after Close).
GetMiss(u, k) ==
  /\ user[u].pc = "idle" /\ lock = "none"
  /\ k \notin DOMAIN keys
  /\ NewConn(u, k)
  /\ UNCHANGED <<now, keys, closed, buf, made, shut, lock, goroutines>>

\* Mutant: the dropped channel is not drained.
GetDropUndrained(u, k) ==
  /\ user[u].pc = "idle" /\ lock = "none"
  /\ k \in DOMAIN keys
  /\ now - keys[k].lastUse > MaxConnLifetime
  /\ keys' = Without(keys, {k})
  /\ shut' = shut \cup {keys[k].c}
  /\ NewConn(u, k)
  /\ UNCHANGED <<now, closed, buf, made, lock, goroutines>>

\* An old slot: dropped and its channel closed under the lock, drained after.
GetDrop(u, k) ==
  /\ user[u].pc = "idle" /\ lock = "none"
  /\ k \in DOMAIN keys
  /\ now - keys[k].lastUse > MaxConnLifetime
  /\ keys' = Without(keys, {k})
  /\ shut' = shut \cup {keys[k].c}
  /\ user' = [user EXCEPT ![u] = [pc |-> "drain", key |-> k, h |-> keys[k].c, c |-> None]]
  /\ UNCHANGED <<now, closed, buf, made, conn, connVars, lock, goroutines>>

\* Draining the closed channel, one connection at a time, then New.
Drain(u) ==
  LET h == user[u].h IN
  /\ user[u].pc = "drain"
  /\ \/ /\ buf[h] = {}
        /\ NewConn(u, user[u].key)
        /\ UNCHANGED buf
     \/ \E c \in buf[h] :
          /\ buf' = [buf EXCEPT ![h] = @ \ {c}]
          /\ conn' = [conn EXCEPT ![c] = "closed"]
          /\ UNCHANGED <<user, connVars>>
  /\ UNCHANGED <<now, keys, closed, made, shut, lock, goroutines>>

\* A slot young enough: its channel is read after the lock is released.
GetHit(u, k) ==
  /\ user[u].pc = "idle" /\ lock = "none"
  /\ k \in DOMAIN keys
  /\ now - keys[k].lastUse <= MaxConnLifetime
  /\ user' = [user EXCEPT ![u] = [pc |-> "receive", key |-> k, h |-> keys[k].c, c |-> None]]
  /\ UNCHANGED <<now, keys, closed, buf, made, shut, conn, connVars, lock, goroutines>>

\* Receiving from the channel, which others may have emptied or closed by
\* now: connections that broke or idled too long are closed and skipped.
Receive(u) ==
  LET h == user[u].h IN
  /\ user[u].pc = "receive"
  /\ \/ /\ buf[h] = {}
        /\ NewConn(u, user[u].key)
        /\ UNCHANGED buf
     \/ \E c \in buf[h] :
          /\ buf' = [buf EXCEPT ![h] = @ \ {c}]
          /\ IF usable[c] /\ usedAt[c] + MaxConnLifetime >= now
             THEN /\ conn' = [conn EXCEPT ![c] = "used"]
                  /\ user' = [user EXCEPT ![u].pc = "using", ![u].h = None, ![u].c = c]
             ELSE /\ conn' = [conn EXCEPT ![c] = "closed"]
                  /\ UNCHANGED user
          /\ UNCHANGED connVars
  /\ UNCHANGED <<now, keys, closed, made, shut, lock, goroutines>>

-----------------------------------------------------------------------------
(* Use and Return.                                                          *)

\* The user works with its connection (external: target/remote).
Use(u) ==
  /\ user[u].pc = "using"
  /\ usedAt' = [usedAt EXCEPT ![user[u].c] = now]
  /\ UNCHANGED <<now, keys, closed, buf, made, shut, conn, usable, user, lock, goroutines>>

\* The user closes its connection instead of returning it.
Discard(u) ==
  /\ user[u].pc = "using"
  /\ conn' = [conn EXCEPT ![user[u].c] = "closed"]
  /\ user' = [user EXCEPT ![u] = NoUser]
  /\ UNCHANGED <<now, keys, closed, buf, made, shut, connVars, lock, goroutines>>

\* An idle connection dies.
Break(c) ==
  /\ conn[c] = "idle" /\ usable[c]
  /\ usable' = [usable EXCEPT ![c] = FALSE]
  /\ UNCHANGED <<now, keys, closed, buf, made, shut, conn, usedAt, user, lock, goroutines>>

\* Return to a closed pool: nothing happens to the connection.
ReturnClosed(u) ==
  /\ user[u].pc = "using" /\ lock = "none"
  /\ closed
  /\ user' = [user EXCEPT ![u] = NoUser]
  /\ UNCHANGED <<now, keys, closed, buf, made, shut, conn, connVars, lock, goroutines>>

\* Return to an existing slot: buffered, or closed when the channel is full.
\* Only a copy of the slot gets the new timestamp.
ReturnHit(u) ==
  LET k == user[u].key
      c == user[u].c
  IN  /\ user[u].pc = "using" /\ lock = "none"
      /\ ~closed /\ k \in DOMAIN keys
      /\ IF Cardinality(buf[keys[k].c]) < MaxConnsPerKey
         THEN /\ buf' = [buf EXCEPT ![keys[k].c] = @ \cup {c}]
              /\ conn' = [conn EXCEPT ![c] = "idle"]
         ELSE /\ conn' = [conn EXCEPT ![c] = "closed"]
              /\ UNCHANGED buf
      /\ user' = [user EXCEPT ![u] = NoUser]
      /\ UNCHANGED <<now, keys, closed, made, shut, connVars, lock, goroutines>>

\* Return without a slot: at MaxKeys stale slots are dropped first; then a
\* slot is made, whether or not there is room.
ReturnMiss(u) ==
  LET k == user[u].key
      c == user[u].c
      old == IF Cardinality(DOMAIN keys) = MaxKeys THEN StaleKeys ELSE {}
      H == ChansOf(old)
  IN  /\ user[u].pc = "using" /\ lock = "none"
      /\ ~closed /\ k \notin DOMAIN keys
      /\ \E h \in Chan \ made :
           /\ made' = made \cup {h}
           /\ keys' = [x \in (DOMAIN keys \ old) \cup {k} |->
                         IF x = k THEN [c |-> h, lastUse |-> now] ELSE keys[x]]
           /\ shut' = shut \cup H
           /\ buf' = [x \in Chan |-> IF x \in H THEN {}
                                     ELSE IF x = h /\ MaxConnsPerKey > 0 THEN {c} ELSE buf[x]]
           /\ conn' = [x \in Conn |-> IF \E g \in H : x \in buf[g] THEN "closed"
                                      ELSE IF x # c THEN conn[x]
                                      ELSE IF MaxConnsPerKey > 0 THEN "idle" ELSE "closed"]
      /\ user' = [user EXCEPT ![u] = NoUser]
      /\ UNCHANGED <<now, closed, connVars, lock, goroutines>>

-----------------------------------------------------------------------------
(* CleanUp and Close.                                                       *)

\* The ticker fires and CleanUp is called.
CleanUpTick ==
  /\ ticker = "wait"
  /\ ticker' = "clean"
  /\ UNCHANGED <<now, keys, closed, buf, made, shut, conn, connVars, user, lock, closer>>

\* CleanUp gets the lock and drops the stale slots.
CleanUp ==
  /\ ticker = "clean" /\ lock = "none"
  /\ CloseAll(ChansOf(StaleKeys))
  /\ keys' = Without(keys, StaleKeys)
  /\ ticker' = "wait"
  /\ UNCHANGED <<now, closed, made, connVars, user, lock, closer>>

\* Mutant: Close locks before it stops the ticker goroutine.
CloseCalledLocked ==
  /\ closer = "idle" /\ lock = "none"
  /\ closer' = "send"
  /\ lock' = "closer"
  /\ UNCHANGED <<now, keys, closed, buf, made, shut, conn, connVars, user, ticker>>

\* Close is called and blocks on cleanupStop.
CloseCalled ==
  /\ closer = "idle"
  /\ closer' = "send"
  /\ UNCHANGED <<now, keys, closed, buf, made, shut, conn, connVars, user, lock, ticker>>

\* The ticker goroutine, back in its select, receives the stop message.
CloseStops ==
  /\ closer = "send" /\ ticker = "wait"
  /\ closer' = "lock"
  /\ ticker' = "done"
  /\ UNCHANGED <<now, keys, closed, buf, made, shut, conn, connVars, user, lock>>

\* Close gets the lock and drops everything.
CloseDrops ==
  /\ closer = "lock" /\ lock \in {"none", "closer"}
  /\ CloseAll(ChansOf(DOMAIN keys))
  /\ keys' = [k \in {} |-> None]
  /\ closed' = TRUE
  /\ closer' = "done"
  /\ lock' = "none"
  /\ UNCHANGED <<now, made, connVars, user, ticker>>

Tick ==
  /\ now < MaxTime
  /\ now' = now + 1
  /\ UNCHANGED <<keys, closed, buf, made, shut, conn, connVars, user, lock, goroutines>>

Next ==
  \/ \E u \in User, k \in Key : GetMiss(u, k) \/ GetDrop(u, k) \/ GetHit(u, k)
  \/ \E u \in User : Drain(u) \/ Receive(u) \/ Use(u) \/ Discard(u)
                       \/ ReturnClosed(u) \/ ReturnHit(u) \/ ReturnMiss(u)
  \/ \E c \in Conn : Break(c)
  \/ CleanUpTick \/ CleanUp \/ CloseCalled \/ CloseStops \/ CloseDrops
  \/ Tick

Spec == Init /\ [][Next]_vars

\* The ticker goroutine and the caller of Close keep running, and the select
\* of the ticker goroutine does not choose the tick for ever.
FairSpec == Spec /\ WF_vars(CleanUp) /\ SF_vars(CloseStops) /\ WF_vars(CloseDrops)

-----------------------------------------------------------------------------
(* Properties.                                                              *)

\* Every variable has its type, and counters stay within their limits.
TypeOK ==
  /\ now \in 0..MaxTime
  /\ DOMAIN keys \subseteq Key /\ \A k \in DOMAIN keys : keys[k] \in Slot
  /\ closed \in BOOLEAN
  /\ buf \in [Chan -> SUBSET Conn]
  /\ \A h \in Chan : IsFiniteSet(buf[h]) /\ Cardinality(buf[h]) <= MaxConnsPerKey
  /\ made \subseteq Chan /\ shut \subseteq made
  /\ conn \in [Conn -> {"unborn", "idle", "used", "closed"}]
  /\ usable \in [Conn -> BOOLEAN]
  /\ usedAt \in [Conn -> 0..MaxTime]
  /\ user \in [User -> [pc: {"idle", "drain", "receive", "using"}, key: Key \cup {None},
                        h: Chan \cup {None}, c: Conn \cup {None}]]
  /\ lock \in {"none", "closer"}
  /\ ticker \in {"wait", "clean", "done"}
  /\ closer \in {"idle", "send", "lock", "done"}

\* A goroutine inside Get holds a channel, one that uses a connection holds that.
UsersShaped ==
  \A u \in User : /\ user[u].pc # "idle" => user[u].key \in Key
                  /\ user[u].pc = "using" <=> user[u].c \in Conn
                  /\ user[u].pc \in {"drain", "receive"} <=> user[u].h \in Chan

\* A connection has one owner: one user, or one channel.  Two deliveries
\* never share a connection, and none uses one that the pool still offers or
\* has closed, however Get, Return, CleanUp and Close overlap.  A connection in
\* use has its user, unless that user returned it to a closed pool.
OneOwner ==
  \A c \in Conn :
    /\ \A u, v \in User : user[u].c = c /\ user[v].c = c => u = v
    /\ \A u \in User : user[u].c = c => conn[c] = "used"
    /\ conn[c] = "used" /\ ~closed => \E u \in User : user[u].c = c
    /\ conn[c] = "idle" <=> \E h \in Chan : c \in buf[h]
    /\ \A g, h \in Chan : c \in buf[g] /\ c \in buf[h] => g = h

\* The channels in the map are open and distinct: Return never sends on a
\* closed channel and no channel is closed twice (both would panic).  A channel
\* is empty before it is made, and a closed pool has no slots.
MapChannelsOpen ==
  /\ \A k \in DOMAIN keys : keys[k].c \in made \ shut
  /\ \A j, k \in DOMAIN keys : keys[j].c = keys[k].c => j = k
  /\ \A h \in Chan \ made : buf[h] = {}
  /\ closed => DOMAIN keys = {}

\* An idle connection can still be found: its channel is in the map, or some
\* goroutine drains it.  No channel is left with connections that stay open
\* for ever.
NoIdleLost ==
  \A h \in Chan : buf[h] # {} => \/ h \in ChansOf(DOMAIN keys)
                                 \/ \E u \in User : user[u].pc = "drain" /\ user[u].h = h

\* Get, Return, CleanUp and Close never share, leak or lose a connection and
\* never use a channel that one of them closed.
ConnectionsKept == TypeOK /\ UsersShaped /\ OneOwner /\ MapChannelsOpen /\ NoIdleLost

\* Close returns: the ticker goroutine, even inside CleanUp, does not keep it
\* waiting for ever.
CloseReturns == closer = "send" ~> closer = "done"

=============================================================================
