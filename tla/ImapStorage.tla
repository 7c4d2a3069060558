----------------------------- MODULE ImapStorage -----------------------------
(***************************************************************************)
(* internal/storage/imapsql, internal/updatepipe, internal/endpoint/imap:  *)
(* message storage and the pipe that tells other processes of changes.     *)
(*                                                                         *)
(* The server delivers messages in transactions of go-imap-sql and listens *)
(* on a Unix socket; a command line tool works on the same database and    *)
(* only pushes.  Each process has a pump goroutine between the update      *)
(* manager (go-imap-mess) and the pipe, over channels of fixed size.  An   *)
(* update is [by, n]: the n-th change of a process.                        *)
(***************************************************************************)
EXTENDS Integers, Sequences, FiniteSets

CONSTANTS
  Server, Tool,      \* the processes
  Rcpt, Account,
  AccountOf,         \* AccountOf[r]: deliveryNormalize; None: an error
  None,
  OutCap, InCap,     \* outbound and inbound channel sizes
  SockCap,           \* bound: lines a socket buffers before a write blocks
  MaxMsgs,           \* bound: deliveries
  MaxUpdates,        \* bound: changes the tool makes
  MaxCrash           \* bound: crashes

ASSUME StorageAssumption ==
  /\ Server # Tool
  /\ None \notin Account \cup {Server, Tool}
  /\ AccountOf \in [Rcpt -> Account \cup {None}]
  /\ OutCap \in Nat \ {0} /\ InCap \in Nat \ {0} /\ SockCap \in Nat \ {0}
  /\ MaxMsgs \in Nat /\ MaxUpdates \in Nat /\ MaxCrash \in Nat

Process == {Server, Tool}

VARIABLES
  accounts,   \* accounts that exist
  box,        \* box[a]: what is stored for a: sequence of [msg, folder]
  dlv,        \* the delivery: pc, msg, added (accounts), rcpts (accepted), junk, folder
  ended,      \* ended messages: [msg, how, rcpts, junk]
  store,      \* store[p]: off, open, closing, closed
  piped,      \* piped[p]: store.updPipe is set
  sock,       \* the socket: [file: does it exist, listen: is it served,
              \* conns: the processes with a connection to the one that serves it]
  out,        \* out[p]: outbound channel
  inb,        \* inbound channel of the server
  wire,       \* wire[p]: lines written to the socket, not read
  pump,       \* pump[p]: off, run, drain (after a panic), done
  made,       \* made[p]: changes made
  seen,       \* updates given to the update manager of the server: the last
              \* one, and (ghost) were all new and made by the tool
  faults      \* crashes so far, and whether a reader panicked

vars == <<accounts, box, dlv, ended, store, piped, sock, out, inb, wire, pump, made, seen, faults>>
mailVars == <<accounts, box, dlv, ended>>
pipeVars == <<store, piped, sock, out, inb, wire, pump, made, seen, faults>>

NoDelivery == [pc |-> "none", msg |-> 0, added |-> {}, rcpts |-> {}, junk |-> FALSE, folder |-> <<>>]
Torn == [by |-> None, n |-> 0]

Init ==
  /\ accounts = {} /\ box = [a \in Account |-> <<>>]
  /\ dlv = NoDelivery /\ ended = {}
  /\ store = [p \in Process |-> "off"] /\ piped = [p \in Process |-> FALSE]
  /\ sock = [file |-> FALSE, listen |-> FALSE, conns |-> {}]
  /\ out = [p \in Process |-> <<>>] /\ inb = <<>> /\ wire = [p \in Process |-> <<>>]
  /\ pump = [p \in Process |-> "off"]
  /\ made = [p \in Process |-> 0] /\ seen = [n |-> 0, ok |-> TRUE]
  /\ faults = [crashes |-> 0, panicked |-> FALSE]

-----------------------------------------------------------------------------
(* Updates.                                                                 *)

\* A change is given to the external sink, if there is one: it blocks while
\* the channel is full.
Notify(p) ==
  IF piped[p]
  THEN /\ Len(out[p]) < OutCap
       /\ out' = [out EXCEPT ![p] = Append(@, [by |-> p, n |-> made[p] + 1])]
       /\ made' = [made EXCEPT ![p] = @ + 1]
  ELSE UNCHANGED <<out, made>>

\* EnableUpdatePipe: the server listens (ModeReplicate), both connect.  A
\* socket file that is left over makes the server go without a pipe.  If it
\* listens and InitPush then fails, it has no pipe either, but the socket is
\* served: lines are read into a channel nobody empties.
EnableUpdatePipe(p) ==
  LET listens == p = Server /\ ~sock.file
      dials == listens \/ (p = Tool /\ sock.listen)
  IN
  /\ store[p] = "off"
  /\ store' = [store EXCEPT ![p] = "open"]
  /\ \E ok \in BOOLEAN :
       /\ ok => dials
       /\ ~ok /\ dials => faults.crashes < MaxCrash
       /\ faults' = IF ~ok /\ dials THEN [faults EXCEPT !.crashes = @ + 1] ELSE faults
       /\ sock' = [file |-> sock.file \/ listens, listen |-> sock.listen \/ listens,
                    conns |-> IF ok THEN sock.conns \cup {p} ELSE sock.conns]
       /\ piped' = [piped EXCEPT ![p] = ok]
       /\ pump' = [pump EXCEPT ![p] = IF ok THEN "run" ELSE "off"]
  /\ UNCHANGED <<mailVars, out, inb, wire, made, seen>>

\* A change made by the tool.  (In the server, Commit stands for the changes.)
Change ==
  /\ store[Tool] = "open" /\ made[Tool] < MaxUpdates
  /\ piped[Tool] /\ Notify(Tool)
  /\ UNCHANGED <<mailVars, store, piped, sock, inb, wire, pump, seen, faults>>

\* Push of the next outbound update.  Writing to a broken connection, which is
\* not made again, fails and the update is dropped.
PumpOut(p) ==
  /\ pump[p] \in {"run", "drain"} /\ out[p] # <<>>
  /\ p \in sock.conns => Len(wire[p]) < SockCap
  /\ out' = [out EXCEPT ![p] = Tail(@)]
  /\ wire' = IF p \in sock.conns THEN [wire EXCEPT ![p] = Append(@, Head(out[p]))] ELSE wire
  /\ UNCHANGED <<mailVars, store, piped, sock, inb, pump, made, seen, faults>>

\* The pump hands an inbound update to the update manager.
PumpIn ==
  /\ pump[Server] = "run" /\ inb # <<>>
  /\ seen' = [n |-> Head(inb).n, ok |-> seen.ok /\ Head(inb).by = Tool /\ Head(inb).n > seen.n]
  /\ inb' = Tail(inb)
  /\ UNCHANGED <<mailVars, store, piped, sock, out, wire, pump, made, faults>>

\* Mutant: the deferred function only recovers.
PumpPanicStops ==
  /\ pump[Server] = "run" /\ inb # <<>> /\ faults.crashes < MaxCrash
  /\ inb' = Tail(inb)
  /\ pump' = [pump EXCEPT ![Server] = "off"]
  /\ faults' = [faults EXCEPT !.crashes = @ + 1]
  /\ UNCHANGED <<mailVars, store, piped, sock, out, wire, made, seen>>

\* The update manager panics: the deferred function goes on with outbound.
PumpPanic ==
  /\ pump[Server] = "run" /\ inb # <<>> /\ faults.crashes < MaxCrash
  /\ inb' = Tail(inb)
  /\ pump' = [pump EXCEPT ![Server] = "drain"]
  /\ faults' = [faults EXCEPT !.crashes = @ + 1]
  /\ UNCHANGED <<mailVars, store, piped, sock, out, wire, made, seen>>

\* Mutant: the server does not know its own updates.
readUpdatesEchoes(p) ==
  LET line == Head(wire[p]) IN
  /\ sock.listen /\ wire[p] # <<>>
  /\ wire' = [wire EXCEPT ![p] = Tail(@)]
  /\ line # Torn /\ Len(inb) < InCap
  /\ inb' = Append(inb, line) /\ UNCHANGED faults
  /\ UNCHANGED <<mailVars, store, piped, sock, out, pump, made, seen>>

\* readUpdates: own updates are skipped, others wait for room in the inbound
\* channel, and a line that does not parse makes the reader panic.
readUpdates(p) ==
  LET line == Head(wire[p]) IN
  /\ sock.listen /\ wire[p] # <<>>
  /\ wire' = [wire EXCEPT ![p] = Tail(@)]
  /\ \/ /\ line.by = Server /\ UNCHANGED <<inb, faults>>
     \/ /\ line.by = Tool /\ Len(inb) < InCap
        /\ inb' = Append(inb, line) /\ UNCHANGED faults
     \/ /\ line = Torn
        /\ faults' = [faults EXCEPT !.panicked = TRUE] /\ UNCHANGED inb
  /\ UNCHANGED <<mailVars, store, piped, sock, out, pump, made, seen>>

-----------------------------------------------------------------------------
(* Close.                                                                   *)

\* Close: the back end is closed, then the outbound channel, and the pump is
\* waited for.  A delivery under way keeps its transaction.
Close(p) ==
  /\ store[p] = "open"
  /\ store' = [store EXCEPT ![p] = "closing"]
  /\ UNCHANGED <<mailVars, piped, sock, out, inb, wire, pump, made, seen, faults>>

\* Mutant: the pump stops as soon as the channel is closed.
PumpStopsEarly(p) ==
  /\ store[p] = "closing" /\ pump[p] \in {"run", "drain"}
  /\ pump' = [pump EXCEPT ![p] = "done"]
  /\ UNCHANGED <<mailVars, store, piped, sock, out, inb, wire, made, seen, faults>>

\* The pump meets the end of the closed channel and signals updPushStop.
PumpStops(p) ==
  /\ store[p] = "closing" /\ pump[p] \in {"run", "drain"} /\ out[p] = <<>>
  /\ pump' = [pump EXCEPT ![p] = "done"]
  /\ UNCHANGED <<mailVars, store, piped, sock, out, inb, wire, made, seen, faults>>

\* The socket when p has no connection any more, and is gone if p served it.
Hangup(p, file) ==
  IF p = Server THEN [file |-> file, listen |-> FALSE, conns |-> {}]
                ELSE [sock EXCEPT !.conns = @ \ {p}]

\* The pipe, if there is one, is closed; the server removes its socket.
CloseEnds(p) ==
  /\ store[p] = "closing" /\ (piped[p] => pump[p] = "done")
  /\ store' = [store EXCEPT ![p] = "closed"]
  /\ sock' = IF piped[p] THEN Hangup(p, FALSE) ELSE sock
  /\ wire' = IF p = Server /\ piped[p] THEN [q \in Process |-> <<>>] ELSE wire
  /\ UNCHANGED <<mailVars, piped, out, inb, pump, made, seen, faults>>

\* A process is killed.  What it had not pushed is lost, the socket file of a
\* server stays, and a write that was blocked half-way leaves a torn line.
Crash(p) ==
  LET blocked == p = Tool /\ p \in sock.conns /\ pump[p] \in {"run", "drain"} /\ out[p] # <<>> /\ Len(wire[p]) = SockCap
  IN
  /\ store[p] \in {"open", "closing"} /\ faults.crashes < MaxCrash
  /\ faults' = [faults EXCEPT !.crashes = @ + 1]
  /\ store' = [store EXCEPT ![p] = "crashed"]
  /\ pump' = [pump EXCEPT ![p] = "off"]
  /\ out' = [out EXCEPT ![p] = <<>>]
  /\ sock' = Hangup(p, sock.file)
  /\ inb' = IF p = Server THEN <<>> ELSE inb
  /\ \/ wire' = IF p = Server THEN [q \in Process |-> <<>>] ELSE wire
     \/ blocked /\ wire' = [wire EXCEPT ![p] = Append(@, Torn)]
  /\ dlv' = IF p = Server THEN NoDelivery ELSE dlv
  /\ UNCHANGED <<accounts, box, ended, piped, made, seen>>

\* A process of the same kind starts after the last one ended, and with it a
\* socket that Close left alone and a transaction that was still open.
Restart(p) ==
  /\ store[p] \in {"closed", "crashed"}
  /\ store' = [store EXCEPT ![p] = "off"]
  /\ piped' = [piped EXCEPT ![p] = FALSE]
  /\ pump' = [pump EXCEPT ![p] = "off"]
  /\ sock' = Hangup(p, sock.file)
  /\ inb' = IF p = Server THEN <<>> ELSE inb
  /\ wire' = IF p = Server THEN [q \in Process |-> <<>>] ELSE wire
  /\ dlv' = IF p = Server THEN NoDelivery ELSE dlv
  /\ UNCHANGED <<accounts, box, ended, out, made, seen, faults>>

-----------------------------------------------------------------------------
(* IMAP login and delivery.                                                 *)

\* Login and openAccount: the user is mapped to an account, which is made if
\* it does not exist (GetOrCreateIMAPAcct).
openAccount(r) ==
  /\ store[Server] = "open" /\ AccountOf[r] # None /\ AccountOf[r] \notin accounts
  /\ accounts' = accounts \cup {AccountOf[r]}
  /\ UNCHANGED <<box, dlv, ended, pipeVars>>

Start ==
  /\ store[Server] = "open" /\ dlv.pc = "none"
  /\ \E m \in 1 .. MaxMsgs, junk \in BOOLEAN :
       /\ \A e \in ended : e.msg # m
       /\ \A k \in 1 .. m - 1 : \E e \in ended : e.msg = k
       /\ dlv' = [NoDelivery EXCEPT !.pc = "rcpt", !.msg = m, !.junk = junk]
  /\ UNCHANGED <<accounts, box, ended, pipeVars>>

\* AddRcpt: an account is added once, for the first recipient that maps to
\* it.  Others fail: no such account, or a serialization error.
AddRcpt(r) ==
  LET a == AccountOf[r] IN
  /\ dlv.pc = "rcpt" /\ r \notin dlv.rcpts
  /\ a \in accounts
  /\ dlv' = [dlv EXCEPT !.added = IF \E x \in @ : x[1] = a THEN @ ELSE @ \cup {<<a, r>>},
                        !.rcpts = @ \cup {r}]
  /\ UNCHANGED <<accounts, box, ended, pipeVars>>

\* Body: the filters choose a folder for each account, unless the message is
\* quarantined; a filter that fails leaves the default.  A failing transaction
\* makes the caller abort.
Body ==
  /\ dlv.pc = "rcpt" /\ dlv.added # {}
  /\ \/ \E f \in [dlv.added -> {"INBOX", "filtered"}] :
          dlv' = [dlv EXCEPT !.pc = "body",
                    !.folder = [x \in dlv.added |-> IF dlv.junk THEN "Junk" ELSE f[x]]]
     \/ dlv' = [dlv EXCEPT !.pc = "failed"]
  /\ UNCHANGED <<accounts, box, ended, pipeVars>>

End(how) == [msg |-> dlv.msg, how |-> how, rcpts |-> dlv.rcpts, junk |-> dlv.junk]

\* Commit: the transaction (external) stores a copy for every added account
\* and the update manager is told, unless the back end is closed: it generates
\* no updates then.  A Commit that fails stores nothing: Abort.
Commit ==
  /\ dlv.pc = "body"
  /\ box' = [a \in Account |->
               LET copies == {x \in dlv.added : x[1] = a}
                   folder == CHOOSE f \in {dlv.folder[x] : x \in copies} : TRUE
               IN  box[a] \o [i \in 1 .. Cardinality(copies) |-> [msg |-> dlv.msg, folder |-> folder]]]
  /\ ended' = ended \cup {End("committed")}
  /\ dlv' = NoDelivery
  /\ IF store[Server] = "open" THEN Notify(Server) ELSE UNCHANGED <<out, made>>
  /\ UNCHANGED <<accounts, store, piped, sock, inb, wire, pump, seen, faults>>

Abort ==
  /\ dlv.pc \in {"rcpt", "body", "failed"}
  /\ ended' = ended \cup {End("aborted")}
  /\ dlv' = NoDelivery
  /\ UNCHANGED <<accounts, box, pipeVars>>

Next ==
  \/ \E p \in Process :
       \/ EnableUpdatePipe(p) \/ Close(p) \/ Crash(p) \/ Restart(p)
       \/ PumpOut(p) \/ readUpdates(p) \/ PumpStops(p) \/ CloseEnds(p)
  \/ Change \/ PumpIn \/ PumpPanic
  \/ \E r \in Rcpt : openAccount(r) \/ AddRcpt(r)
  \/ Start \/ Body \/ Commit \/ Abort

\* A panic of a reader ends the server process.
Spec == Init /\ [][~faults.panicked /\ Next]_vars

\* The goroutines of the pipe run; select does not prefer inbound for ever.
FairSpec ==
  /\ Spec
  /\ \A p \in Process : SF_vars(~faults.panicked /\ PumpOut(p)) /\ WF_vars(~faults.panicked /\ readUpdates(p))
                          /\ WF_vars(~faults.panicked /\ (PumpStops(p) \/ CloseEnds(p)))
  /\ SF_vars(~faults.panicked /\ PumpIn)

-----------------------------------------------------------------------------
(* Properties.                                                              *)

Line == [by: Process, n: 1 .. MaxUpdates + MaxMsgs]

\* Every variable has its type and the channels keep their sizes.
TypeOK ==
  /\ accounts \subseteq Account
  /\ store \in [Process -> {"off", "open", "closing", "closed", "crashed"}]
  /\ \A p \in Process : out[p] \in Seq(Line) /\ Len(out[p]) <= OutCap
  /\ inb \in Seq(Line) /\ Len(inb) <= InCap
  /\ \A p \in Process : Len(wire[p]) <= SockCap + 1
  /\ pump \in [Process -> {"off", "run", "drain", "done"}]
  /\ seen.n \in 0 .. MaxUpdates

\* module.DeliveryTarget: a committed message is stored exactly once for the
\* account of every accepted recipient, also when two of them share it, and
\* in Junk if it was quarantined; any other message is stored nowhere.
StoredOnce ==
  \A e \in ended :
    \A a \in Account :
      LET copies == {i \in DOMAIN box[a] : box[a][i].msg = e.msg}
          wanted == e.how = "committed" /\ \E r \in e.rcpts : AccountOf[r] = a
      IN  /\ Cardinality(copies) = IF wanted THEN 1 ELSE 0
          /\ \A i \in copies : e.junk <=> box[a][i].folder = "Junk"

\* updatepipe.P: updates pushed by a process are not given back to it, and
\* arrive once and in the order they were made, whatever is lost in crashes.
NoEchoNoReorder == seen.ok

\* Every transfer arrives once and in order: messages in their accounts, updates
\* at the other process.
TransfersSound == TypeOK /\ StoredOnce /\ NoEchoNoReorder

\* A process that closed its storage has pushed all its updates.
FlushedOnClose ==
  \A p \in Process : store[p] = "closed" => out[p] = <<>>

\* Only a fault leaves the socket behind: as long as nothing was killed and no
\* InitPush failed, every server that starts gets its update pipe.
CleanRestartListens ==
  faults.crashes = 0 /\ store[Server] = "open" => piped[Server]

\* A Close that returned has sent what was queued, and the next start finds the
\* socket free.
CleanStop == FlushedOnClose /\ CleanRestartListens

\* Close of the storage returns: nothing the pump waits for waits for it.  The
\* tool relies on the pump of the server, which reads no more after a panic and
\* does not exist if its InitPush failed.
CloseReturns ==
  \A p \in Process :
    store[p] = "closing" ~> \/ store[p] # "closing" \/ faults.panicked
                            \/ p = Tool /\ sock.listen /\ pump[Server] \in {"drain", "off"}

-----------------------------------------------------------------------------
(* The inductive strengthening of TransfersSound and CleanStop.             *)

Folders == {"INBOX", "filtered", "Junk"}
Copies  == Account \X Rcpt
MailTyped ==
  /\ accounts \subseteq Account
  /\ box \in [Account -> Seq([msg : 1 .. MaxMsgs, folder : Folders])]
  /\ dlv \in [pc : {"none", "rcpt", "body", "failed"}, msg : Nat, added : SUBSET Copies,
              rcpts : SUBSET Rcpt, junk : BOOLEAN,
              folder : {<<>>} \cup UNION {[S -> Folders] : S \in SUBSET Copies}]
  /\ ended \subseteq [msg : 1 .. MaxMsgs, how : {"committed", "aborted"}, rcpts : SUBSET Rcpt, junk : BOOLEAN]

PipeTyped ==
  /\ store \in [Process -> {"off", "open", "closing", "closed", "crashed"}]
  /\ pump \in [Process -> {"off", "run", "drain", "done"}]
  /\ piped \in [Process -> BOOLEAN] /\ sock \in [file : BOOLEAN, listen : BOOLEAN, conns : SUBSET Process]
  /\ out \in [Process -> Seq(Line)] /\ \A p \in Process : Len(out[p]) <= OutCap
  /\ inb \in Seq(Line) /\ Len(inb) <= InCap
  /\ wire \in [Process -> Seq(Line \cup {Torn})] /\ \A p \in Process : Len(wire[p]) <= SockCap + 1
  /\ made \in [Process -> Nat] /\ made[Tool] <= MaxUpdates
  /\ seen \in [n : 0 .. MaxUpdates, ok : BOOLEAN] /\ faults \in [crashes : Nat, panicked : BOOLEAN]

\* Only a server that was started delivers; only a pipe that is open has something
\* to send.
PipeShape ==
  /\ dlv.pc # "none" => store[Server] \in {"open", "closing", "closed"}
  /\ \A p \in Process :
       /\ (~piped[p] \/ pump[p] = "done" \/ store[p] \in {"off", "closed", "crashed"}) => out[p] = <<>>
       /\ pump[p] = "done" => store[p] \in {"closing", "closed"}
  /\ faults.crashes = 0 =>
       /\ store[Server] \in {"open", "closing"} => piped[Server]
       /\ sock.file => store[Server] \in {"open", "closing"}

\* The updates of the tool on their way, oldest last: the update manager, inbound,
\* wire, outbound.
Rising(s) == \A i, j \in DOMAIN s : i < j /\ s[j] # Torn => s[i].n < s[j].n
Before(s, t) == \A i \in DOMAIN s, j \in DOMAIN t : t[j] # Torn => s[i].n < t[j].n
From(p, s) == \A i \in DOMAIN s : s[i].by = p
New(s) == \A i \in DOMAIN s : s[i] # Torn => seen.n < s[i].n /\ s[i].n <= made[Tool]

OrderInv ==
  /\ seen.ok /\ seen.n <= made[Tool]
  /\ From(Tool, inb) /\ From(Tool, out[Tool]) /\ From(Server, out[Server]) /\ From(Server, wire[Server])
  /\ \A i \in DOMAIN wire[Tool] : wire[Tool][i] = Torn \/ wire[Tool][i].by = Tool
  /\ New(inb) /\ New(wire[Tool]) /\ New(out[Tool])
  /\ Rising(inb) /\ Rising(wire[Tool]) /\ Rising(out[Tool])
  /\ Before(inb, wire[Tool]) /\ Before(inb, out[Tool]) /\ Before(wire[Tool], out[Tool])

\* Messages are numbered in the order they end; the one under way has no number of
\* an ended one, and holds one place for each account of its recipients.
Ended(m) == \E e \in ended : e.msg = m
DeliveryShape ==
  /\ \A e \in ended : \A k \in 1 .. e.msg - 1 : Ended(k)
  /\ made[Server] = 0 \/ \E e \in ended : made[Server] <= e.msg
  /\ \A a \in Account : \A i \in DOMAIN box[a] : Ended(box[a][i].msg)
  /\ dlv.pc # "none" => /\ dlv.msg \in 1 .. MaxMsgs /\ ~Ended(dlv.msg)
                        /\ \A k \in 1 .. dlv.msg - 1 : Ended(k)
  /\ \A a \in Account : (\E x \in dlv.added : x[1] = a) <=> \E r \in dlv.rcpts : AccountOf[r] = a
  /\ \A x, y \in dlv.added : x[1] = y[1] => x = y
  /\ dlv.pc = "body" => /\ dlv.folder \in [dlv.added -> Folders]
                        /\ \A x \in dlv.added : dlv.junk <=> dlv.folder[x] = "Junk"

StorageInv == MailTyped /\ PipeTyped /\ PipeShape /\ OrderInv /\ DeliveryShape /\ StoredOnce

\* unix_pipe.go logs a malformed update: the server survives it.
SurvivesTornUpdate == ~faults.panicked
=============================================================================
