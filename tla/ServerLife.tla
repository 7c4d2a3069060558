----------------------------- MODULE ServerLife -----------------------------
(***************************************************************************)
(* The life of the server process: the global block and the configuration  *)
(* blocks become module instances, instances are initialised when first    *)
(* referenced, hooks close them in the reverse order, and signals rotate   *)
(* logs, reload files and stop the process.  With it run the two modules   *)
(* that reload files: table.file and tls.loader.file.                      *)
(*                                                                         *)
(* cfg is the configuration: globals, the references of the global block,  *)
(* and blocks, a sequence of [kind, inst, aliases, refs, ok]; ok tells     *)
(* whether config.Map accepts the block.  A reference is [inline, to]: an  *)
(* inline module of kind to, or the existing block named to.               *)
(***************************************************************************)
EXTENDS Integers, Sequences, FiniteSets, SequencesExt

CONSTANTS MaxEdits,       \* bound: changes of the table file
          MaxRotations,   \* bound: certificate rotations
          MaxSignals,     \* bound: signals sent to the process
          StatFails       \* whether os.Stat may fail with more than "not exist"

EndpointKinds == {"smtp", "imap"}
ModuleKinds   == {"queue", "remote", "static", "file", "tls"}
Closer(kind)  == kind # "static"

Signals == {"log", "reload", "term"}
SignalBuffer == 5                       \* make(chan os.Signal, 5)
Handler == {"main", "force"}            \* moduleMain, and the goroutine started by the first term

\* A module object: a block of the configuration (at = 0), or the inline module of
\* one of its references.  Block 0 is the global block.
Obj(block, at) == [block |-> block, at |-> at]
Globals == Obj(0, 0)

\* What the parser hands over: the global block's references, and the other blocks.
Reference == [inline : BOOLEAN, to : STRING]
Config == [globals : Seq(Reference),
           blocks  : Seq([kind : STRING, inst : STRING, aliases : Seq(STRING), refs : Seq(Reference), ok : BOOLEAN])]

Torn  == -1
Empty == -2
NoVersion == -3
CopyTime == 1        \* modification time of the first file, and of the copies of it

VARIABLES
  cfg, pc,
  next,          \* the block to register, then the endpoint to initialise
  initialized,   \* module.Initialized
  stack,         \* the calls of Init that have not returned: [obj, at]
  done,          \* objects whose Init returned
  hooks,         \* [shutdown, reload]: the hooks added, in order
  closed,        \* objects closed, in order
  closing,       \* the step of the Close in progress
  sig,           \* handler -> signals in its channel
  force,         \* the goroutine that waits for the second signal
  run,           \* handler -> reload hooks still to run
  seen,          \* who loads certificates -> the certificate file read so far
  status,        \* what systemd was told last
  tab,           \* table.file object -> [m, stamp, at, info, new]
  certs,         \* tls.loader.file object -> [served, at]
  file,          \* the file of the tables: [exists, mtime, content, quiet, writing, copied]
  pair,          \* the certificate and key files: [cert, key]
  spent          \* [edits, rotations, signals]

lifeVars == <<cfg, pc, next, initialized, stack, done, hooks, closed, closing, sig, force, run, seen,
          status, tab, certs, file, pair, spent>>
env     == <<file, pair, spent>>
loading == <<tab, certs, seen>>
serving == <<sig, force, run, status, closed, closing>>

Blocks == 1..Len(cfg.blocks)
RefsIn(i) == IF i = 0 THEN cfg.globals ELSE cfg.blocks[i].refs
RefsOf(o) == IF o.at = 0 THEN RefsIn(o.block) ELSE <<>>
KindOf(o) == IF o.at # 0 THEN RefsIn(o.block)[o.at].to
             ELSE IF o = Globals THEN "globals" ELSE cfg.blocks[o.block].kind

IsEndpoint(i) == cfg.blocks[i].kind \in EndpointKinds
Names(i) == {cfg.blocks[i].inst} \cup ToSet(cfg.blocks[i].aliases)
Registered == {i \in Blocks : ~IsEndpoint(i) /\ (pc # "register" \/ i < next)}
\* aliases[name], then instances: the block a name stands for, if any.
Resolve(n) == {i \in Registered : n \in Names(i)}
HasInstance(n) == Resolve(n) # {}

-----------------------------------------------------------------------------
(* Start: ReadGlobals, InitDirs, RegisterModules, initModules *)

InitWith(config, phase) ==
  /\ cfg = config
  /\ pc = phase /\ next = 1 /\ initialized = {} /\ stack = <<[obj |-> Globals, at |-> 1]>> /\ done = {}
  /\ hooks = [shutdown |-> <<>>, reload |-> <<>>] /\ closed = <<>> /\ closing = ""
  /\ sig = [h \in Handler |-> <<>>] /\ force = "none" /\ run = [h \in Handler |-> <<>>]
  /\ seen = [w \in Handler \cup {"tick"} |-> NoVersion] /\ status = "starting"
  /\ tab = <<>> /\ certs = <<>>
  /\ file = [exists |-> TRUE, mtime |-> CopyTime, content |-> 0, quiet |-> TRUE, writing |-> FALSE, copied |-> FALSE]
  /\ pair = [cert |-> 0, key |-> 0]
  /\ spent = [edits |-> 0, rotations |-> 0, signals |-> 0]

Starting == pc \in {"globals", "register", "init"}

\* An error anywhere in the start ends the process; no hook runs.
Fail == /\ pc' = "failed"
        /\ UNCHANGED <<cfg, next, initialized, stack, done, hooks, serving, loading, env>>

\* "config block named %s already exists"
AlreadyExists(i) ==
  \/ \E n \in Names(i) : HasInstance(n)
  \/ cfg.blocks[i].inst \in ToSet(cfg.blocks[i].aliases) \/ ~IsInjective(cfg.blocks[i].aliases)

RegisterModules ==
  /\ pc = "register" /\ next \in Blocks
  /\ IsEndpoint(next) \/ (cfg.blocks[next].kind \in ModuleKinds /\ ~AlreadyExists(next))
  /\ next' = next + 1
  /\ UNCHANGED <<cfg, pc, initialized, stack, done, hooks, serving, loading, env>>

RegisterFails ==
  /\ pc = "register" /\ next \in Blocks /\ ~IsEndpoint(next)
  /\ cfg.blocks[next].kind \notin ModuleKinds \/ AlreadyExists(next)
  /\ Fail

AllRegistered == pc = "register" /\ next > Len(cfg.blocks)

RegisterEnds ==
  /\ AllRegistered
  /\ IF \A i \in Blocks : ~IsEndpoint(i) THEN Fail
     ELSE /\ pc' = "init" /\ next' = 1
          /\ UNCHANGED <<cfg, initialized, stack, done, hooks, serving, loading, env>>

Push(o) == stack' = Append(stack, [obj |-> o, at |-> 1])
EndpointsLeft == {i \in Blocks : i >= next /\ IsEndpoint(i)}

InitEndpoint ==
  /\ pc = "init" /\ stack = <<>>
  /\ \E i \in EndpointsLeft : /\ \A j \in EndpointsLeft : i <= j
                             /\ Push(Obj(i, 0)) /\ next' = i + 1
  /\ UNCHANGED <<cfg, pc, initialized, done, hooks, serving, loading, env>>

Top == Last(stack)
Pending == stack # <<>> /\ Top.at <= Len(RefsOf(Top.obj))
Ref == RefsOf(Top.obj)[Top.at]
Advanced == [stack EXCEPT ![Len(stack)].at = @ + 1]

\* GetInstance: initialised once, whatever the name it is referenced by.  The
\* mark is set before Init is called, which ends a circular reference.
GetInstance ==
  /\ Starting /\ Pending /\ ~Ref.inline
  /\ IF pc = "globals" \/ ~HasInstance(Ref.to) THEN Fail
     ELSE \E i \in Resolve(Ref.to) :
             /\ IF cfg.blocks[i].inst \in initialized THEN stack' = Advanced /\ UNCHANGED initialized
                ELSE /\ initialized' = initialized \cup {cfg.blocks[i].inst}
                     /\ stack' = Append(Advanced, [obj |-> Obj(i, 0), at |-> 1])
             /\ UNCHANGED <<cfg, pc, next, done, hooks, serving, loading, env>>

\* ModuleFromNode for an inline definition.
InlineModule ==
  /\ Starting /\ Pending /\ Ref.inline
  /\ IF Ref.to \notin ModuleKinds THEN Fail
     ELSE /\ stack' = Append(Advanced, [obj |-> Obj(Top.obj.block, Top.at), at |-> 1])
          /\ UNCHANGED <<cfg, pc, next, initialized, done, hooks, serving, loading, env>>

Accepted(o) == o.at = 0 => cfg.blocks[o.block].ok

\* What Init leaves behind: the goroutine and the reload hook of the modules that
\* have them, and then, added by the caller, the hook that closes the module.
readFile == IF ~file.exists THEN Empty ELSE file.content
LoadX509KeyPair(cert, key) == cert = key        \* whether the two belong together

HooksAfter(o) ==
  [reload   |-> IF KindOf(o) \in {"file", "tls"} THEN Append(hooks.reload, o) ELSE hooks.reload,
   shutdown |-> IF Closer(KindOf(o)) THEN Append(hooks.shutdown, o) ELSE hooks.shutdown]

InitReturns ==
  /\ Starting /\ stack # <<>> /\ ~Pending /\ Top.obj # Globals
  /\ Accepted(Top.obj) /\ (KindOf(Top.obj) = "tls" => LoadX509KeyPair(pair.cert, pair.key))
  /\ LET o == Top.obj
     IN /\ done' = done \cup {o} /\ hooks' = HooksAfter(o)
        /\ tab' = IF KindOf(o) # "file" THEN tab
                  ELSE [x \in DOMAIN tab \cup {o} |->
                          IF x = o THEN [m |-> readFile, stamp |-> 0, at |-> "select", info |-> 0, new |-> Empty]
                          ELSE tab[x]]
        /\ certs' = IF KindOf(o) # "tls" THEN certs
                    ELSE [x \in DOMAIN certs \cup {o} |->
                            IF x = o THEN [served |-> pair.cert, at |-> "select"] ELSE certs[x]]
  /\ stack' = Front(stack)
  /\ UNCHANGED <<cfg, pc, next, initialized, serving, seen, env>>

\* Init of any module may fail: a rejected block, an address in use, a database away.
InitFails ==
  /\ Starting /\ stack # <<>> /\ ~Pending /\ Top.obj # Globals
  /\ Fail

\* ReadGlobals returns, InitDirs follows.
GlobalsRead ==
  /\ pc = "globals" /\ stack # <<>> /\ ~Pending /\ Top.obj = Globals
  /\ \/ pc' = "register" /\ stack' = <<>>
        /\ UNCHANGED <<cfg, next, initialized, done, hooks, serving, loading, env>>
     \/ Fail

Unused == {i \in Blocks : ~IsEndpoint(i) /\ cfg.blocks[i].inst \notin initialized}

Ready ==
  /\ pc = "init" /\ stack = <<>> /\ EndpointsLeft = {}
  /\ IF Unused # {} THEN Fail
     ELSE /\ pc' = "running" /\ status' = "ready"
          /\ UNCHANGED <<cfg, next, initialized, stack, done, hooks, sig, force, run, closed, closing, loading, env>>

-----------------------------------------------------------------------------
(* handleSignals *)

\* Listening: the handlers whose channel is registered with signal.Notify.
Listening == (IF pc \in {"running", "stopping"} THEN {"main"} ELSE {})
             \cup (IF force = "listening" THEN {"force"} ELSE {})

\* signal.Notify does not block: a signal that finds the channel full is lost.
Signal(s) ==
  /\ pc \in {"running", "stopping"} /\ spent.signals < MaxSignals
  /\ sig' = [h \in Handler |-> IF h \in Listening /\ Len(sig[h]) < SignalBuffer THEN Append(sig[h], s) ELSE sig[h]]
  /\ spent' = [spent EXCEPT !.signals = @ + 1]
  /\ UNCHANGED <<cfg, pc, next, initialized, stack, done, hooks, closed, closing, force, run, status, loading, file, pair>>

\* A handler takes signals one at a time, and none while a hook keeps it.
Waiting(h) == /\ run[h] = <<>> /\ sig[h] # <<>>
              /\ IF h = "main" THEN pc = "running" ELSE force = "listening" /\ pc = "stopping"

LogRotate(h) ==
  /\ Waiting(h) /\ Head(sig[h]) = "log"
  /\ sig' = [sig EXCEPT ![h] = Tail(@)] /\ status' = "ready"
  /\ UNCHANGED <<cfg, pc, next, initialized, stack, done, hooks, closed, closing, force, run, loading, env>>

Reload(h) ==
  /\ Waiting(h) /\ Head(sig[h]) = "reload"
  /\ sig' = [sig EXCEPT ![h] = Tail(@)]
  /\ run' = [run EXCEPT ![h] = Reverse(hooks.reload)]
  /\ status' = IF hooks.reload = <<>> THEN "ready" ELSE "reloading"
  /\ UNCHANGED <<cfg, pc, next, initialized, stack, done, hooks, closed, closing, force, loading, env>>

\* The first term: handleSignals returns, and a goroutine is to wait for another.
Terminate ==
  /\ Waiting("main") /\ Head(sig.main) = "term"
  /\ sig' = [sig EXCEPT !.main = Tail(@)] /\ pc' = "stopping" /\ force' = "spawned" /\ status' = "stopping"
  /\ UNCHANGED <<cfg, next, initialized, stack, done, hooks, closed, closing, run, loading, env>>

ForceListens ==
  /\ pc = "stopping" /\ force = "spawned" /\ force' = "listening"
  /\ UNCHANGED <<cfg, pc, next, initialized, stack, done, hooks, closed, closing, sig, run, status, loading, env>>

ForcedExit ==
  /\ Waiting("force") /\ Head(sig.force) = "term"
  /\ pc' = "killed"
  /\ UNCHANGED <<cfg, next, initialized, stack, done, hooks, serving, loading, env>>

HookReturns(h) ==
  /\ run' = [run EXCEPT ![h] = Tail(@)]
  /\ status' = IF Tail(run[h]) = <<>> THEN "ready" ELSE status

Alive == pc \in {"running", "stopping"} \/ Starting
Runs(h, kind) == /\ run[h] # <<>> /\ KindOf(Head(run[h])) = kind
                 /\ IF h = "main" THEN pc = "running" ELSE pc = "stopping"

-----------------------------------------------------------------------------
(* table.file *)

At(o, a) == Alive /\ o \in DOMAIN tab /\ tab[o].at = a
Moves(o, a) == tab' = [tab EXCEPT ![o].at = a]
TableStep == UNCHANGED <<cfg, pc, next, initialized, stack, done, hooks, serving, seen, certs, env>>

Tick(o) == At(o, "select") /\ Moves(o, "stat") /\ TableStep

\* The reload hook hands over to the goroutine, and waits until it is at its select.
ForceReload(h) ==
  /\ Runs(h, "file") /\ At(Head(run[h]), "select") /\ Moves(Head(run[h]), "stat")
  /\ HookReturns(h)
  /\ UNCHANGED <<cfg, pc, next, initialized, stack, done, hooks, sig, force, closed, closing, seen, certs, env>>

\* The file is left alone while it is being written: not older than half the interval.
reloadStat(o) ==
  /\ At(o, "stat")
  /\ tab' = IF ~file.exists THEN [tab EXCEPT ![o].at = "select", ![o].m = Empty]
            ELSE IF file.mtime < tab[o].stamp \/ ~file.quiet THEN [tab EXCEPT ![o].at = "select"]
            ELSE [tab EXCEPT ![o].at = "read", ![o].info = file.mtime]
  /\ TableStep

reloadRead(o) ==
  /\ At(o, "read")
  /\ tab' = IF ~file.exists THEN [tab EXCEPT ![o].at = "select"]
            ELSE [tab EXCEPT ![o].at = "check", ![o].new = file.content]
  /\ TableStep

\* Whether the file changed while it was read.
reloadCheck(o) ==
  /\ At(o, "check")
  /\ tab' = IF file.exists /\ file.mtime = tab[o].info
            THEN [tab EXCEPT ![o].at = "select", ![o].m = tab[o].new, ![o].stamp = tab[o].info]
            ELSE [tab EXCEPT ![o].at = "select"]
  /\ TableStep

\* An error of os.Stat other than "not exist" leaves info nil: the goroutine
\* panics, recovers and is gone.
reloadPanics(o) == At(o, "stat") /\ StatFails /\ Moves(o, "panicked") /\ TableStep

reloaderStopsSilently(o) ==
  /\ At(o, "answer") /\ Moves(o, "gone") /\ TableStep
\* The goroutine answers the stop it received.
reloaderStops(o) ==
  /\ At(o, "answer") /\ closing = "wait" /\ Moves(o, "gone") /\ closing' = "ended"
  /\ UNCHANGED <<cfg, pc, next, initialized, stack, done, hooks, sig, force, run, status, closed, seen, certs, env>>

-----------------------------------------------------------------------------
(* tls.loader.file *)

\* loadCerts reads the certificate, then the key; on a mismatch it keeps the old pair.
Loads(who) == IF who = "tick" THEN \E o \in DOMAIN certs : certs[o].at = "load" ELSE Runs(who, "tls")
Loader(who) == IF who = "tick" THEN CHOOSE o \in DOMAIN certs : certs[o].at = "load" ELSE Head(run[who])

CertTick(o) ==
  /\ Alive /\ o \in DOMAIN certs /\ certs[o].at = "select"
  /\ \A p \in DOMAIN certs : certs[p].at # "load"
  /\ certs' = [certs EXCEPT ![o].at = "load"]
  /\ UNCHANGED <<cfg, pc, next, initialized, stack, done, hooks, serving, tab, seen, env>>

loadCert(who) ==
  /\ Alive /\ Loads(who) /\ seen[who] = NoVersion
  /\ seen' = [seen EXCEPT ![who] = pair.cert]
  /\ UNCHANGED <<cfg, pc, next, initialized, stack, done, hooks, serving, tab, certs, env>>

loadKeyGivesUp(who) ==
  /\ Alive /\ Loads(who) /\ seen[who] # NoVersion
  /\ seen' = [seen EXCEPT ![who] = NoVersion]
  /\ LET o == Loader(who)
         good == LoadX509KeyPair(seen[who], pair.key)
     IN certs' = [certs EXCEPT ![o].served = IF good THEN seen[who] ELSE @,
                               ![o].at = IF who # "tick" THEN @ ELSE IF good THEN "select" ELSE "gone"]
  /\ IF who = "tick" THEN UNCHANGED <<run, status>> ELSE HookReturns(who)
  /\ UNCHANGED <<cfg, pc, next, initialized, stack, done, hooks, sig, force, closed, closing, tab, env>>
loadKey(who) ==
  /\ Alive /\ Loads(who) /\ seen[who] # NoVersion
  /\ seen' = [seen EXCEPT ![who] = NoVersion]
  /\ LET o == Loader(who)
     IN certs' = [certs EXCEPT ![o].served = IF LoadX509KeyPair(seen[who], pair.key) THEN seen[who] ELSE @,
                               ![o].at = IF who = "tick" THEN "select" ELSE @]
  /\ IF who = "tick" THEN UNCHANGED <<run, status>> ELSE HookReturns(who)
  /\ UNCHANGED <<cfg, pc, next, initialized, stack, done, hooks, sig, force, closed, closing, tab, env>>

-----------------------------------------------------------------------------
(* Shutdown: RunHooks, the hook added last runs first *)

InOrder == hooks.shutdown[Len(closed) + 1]
ToClose == hooks.shutdown[Len(hooks.shutdown) - Len(closed)]
Remaining == pc = "stopping" /\ Len(closed) < Len(hooks.shutdown)

Closes(o) == closed' = Append(closed, o) /\ closing' = ""

ClosePlain ==
  /\ Remaining /\ KindOf(ToClose) \notin {"file", "tls"}
  /\ Closes(ToClose)
  /\ UNCHANGED <<cfg, pc, next, initialized, stack, done, hooks, sig, force, run, status, loading, env>>

\* File.Close: f.stopReloader <- struct{}{}, then <-f.stopReloader.
CloseTableSends ==
  /\ Remaining /\ KindOf(ToClose) = "file" /\ closing = "" /\ At(ToClose, "select")
  /\ Moves(ToClose, "answer") /\ closing' = "wait"
  /\ UNCHANGED <<cfg, pc, next, initialized, stack, done, hooks, sig, force, run, status, closed, seen, certs, env>>

CloseTableEnds ==
  /\ Remaining /\ KindOf(ToClose) = "file" /\ closing = "ended"
  /\ Closes(ToClose)
  /\ UNCHANGED <<cfg, pc, next, initialized, stack, done, hooks, sig, force, run, status, loading, env>>

\* FileLoader.Close: the ticker goroutine takes the stop.
CloseLoader ==
  /\ Remaining /\ KindOf(ToClose) = "tls" /\ certs[ToClose].at = "select"
  /\ certs' = [certs EXCEPT ![ToClose].at = "gone"]
  /\ Closes(ToClose)
  /\ UNCHANGED <<cfg, pc, next, initialized, stack, done, hooks, sig, force, run, status, tab, seen, env>>

Exit ==
  /\ pc = "stopping" /\ ~Remaining
  /\ pc' = "exited"
  /\ UNCHANGED <<cfg, next, initialized, stack, done, hooks, serving, loading, env>>

-----------------------------------------------------------------------------
(* The operator: edits of the table file and rotations of the certificate *)

Touchable == pc \in {"init", "running"}      \* bound: while the server starts and runs
Edits(f) ==
  /\ Touchable /\ file' = f
  /\ UNCHANGED <<cfg, pc, next, initialized, stack, done, hooks, serving, loading, pair>>
Counted(what) == spent' = [spent EXCEPT ![what] = @ + 1]
HasKind(kind) == \/ \E i \in Blocks : cfg.blocks[i].kind = kind
                 \/ \E i \in Blocks \cup {0} : [inline |-> TRUE, to |-> kind] \in ToSet(RefsIn(i))
CanEdit == spent.edits < MaxEdits /\ HasKind("file")

\* Time moves on from write to write: odd when one ends, even when one begins.
WriteBegins == /\ CanEdit /\ ~file.writing /\ Counted("edits")
               /\ Edits([file EXCEPT !.exists = TRUE, !.mtime = 2 * (spent.edits + 1), !.content = Torn, !.quiet = FALSE, !.writing = TRUE])
WriteEnds   == /\ file.writing /\ UNCHANGED spent
               /\ Edits([file EXCEPT !.mtime = 2 * spent.edits + 1, !.content = spent.edits, !.quiet = FALSE, !.writing = FALSE])
\* Half the reload interval passes without a write.
Quiet       == /\ ~file.quiet /\ ~file.writing /\ UNCHANGED spent
               /\ Edits([file EXCEPT !.quiet = TRUE])
Unlink      == /\ CanEdit /\ file.exists /\ ~file.writing /\ Counted("edits")
               /\ Edits([file EXCEPT !.exists = FALSE])
\* An older copy is moved into its place, with its own modification time.
Restore     == /\ CanEdit /\ ~file.exists /\ Counted("edits")
               /\ Edits([exists |-> TRUE, mtime |-> CopyTime, content |-> 0, quiet |-> TRUE, writing |-> FALSE,
                         copied |-> TRUE])

Rotate(f) ==
  /\ Touchable /\ HasKind("tls") /\ pair' = f
  /\ UNCHANGED <<cfg, pc, next, initialized, stack, done, hooks, serving, loading, file>>
RotateCert == /\ spent.rotations < MaxRotations /\ pair.cert = pair.key /\ Counted("rotations")
              /\ Rotate([pair EXCEPT !.cert = @ + 1])
RotateKey  == pair.key # pair.cert /\ UNCHANGED spent /\ Rotate([pair EXCEPT !.key = pair.cert])

-----------------------------------------------------------------------------
Startup == \/ RegisterModules \/ RegisterFails \/ RegisterEnds \/ InitEndpoint \/ GetInstance \/ InlineModule
           \/ InitReturns \/ InitFails \/ GlobalsRead \/ Ready
Handles == \/ Terminate \/ ForceListens \/ ForcedExit
           \/ \E h \in Handler : LogRotate(h) \/ Reload(h) \/ ForceReload(h)
Reloading == \/ \E o \in DOMAIN tab : \/ Tick(o) \/ reloadStat(o) \/ reloadRead(o) \/ reloadCheck(o)
                                      \/ reloadPanics(o) \/ reloaderStops(o)
             \/ \E o \in DOMAIN certs : CertTick(o)
             \/ \E w \in Handler \cup {"tick"} : loadCert(w) \/ loadKey(w)
Shutdown == ClosePlain \/ CloseTableSends \/ CloseTableEnds \/ CloseLoader \/ Exit
Operator == \/ \E s \in Signals : Signal(s)
            \/ WriteBegins \/ WriteEnds \/ Quiet \/ Unlink \/ Restore \/ RotateCert \/ RotateKey

LifeNext == Startup \/ Handles \/ Reloading \/ Shutdown \/ Operator

\* The life of the process, whatever configuration it was given.
LifeSpec == (\E config \in Config : InitWith(config, "globals")) /\ [][LifeNext]_lifeVars

(* The goroutines run and the tickers tick.  A sender on a channel is served when
   the receiver comes back to its select, since the next tick is seconds away. *)
LifeFairness ==
  /\ WF_lifeVars(Startup) /\ WF_lifeVars(Handles)
  /\ WF_lifeVars(ClosePlain \/ CloseTableEnds \/ Exit)
  /\ SF_lifeVars(CloseTableSends) /\ SF_lifeVars(CloseLoader)
  /\ \A h \in Handler : SF_lifeVars(ForceReload(h))
  /\ WF_lifeVars(\E o \in DOMAIN tab : Tick(o)) /\ WF_lifeVars(\E o \in DOMAIN tab : reloadStat(o))
  /\ WF_lifeVars(\E o \in DOMAIN tab : reloadRead(o)) /\ WF_lifeVars(\E o \in DOMAIN tab : reloadCheck(o))
  /\ WF_lifeVars(\E o \in DOMAIN tab : reloaderStops(o))
  /\ WF_lifeVars(\E o \in DOMAIN certs : CertTick(o))
  /\ \A w \in Handler \cup {"tick"} : WF_lifeVars(loadCert(w)) /\ WF_lifeVars(loadKey(w))
  /\ WF_lifeVars(Quiet) /\ WF_lifeVars(WriteEnds) /\ WF_lifeVars(RotateKey)

-----------------------------------------------------------------------------
(* Properties *)

Versions == {NoVersion, Empty, Torn} \cup 0..(MaxEdits + MaxRotations)

\* Type invariant of the process, its hooks and its reloading goroutines.
LifeTypeOK ==
  /\ pc \in {"editing", "globals", "register", "init", "running", "stopping", "exited", "killed", "failed"}
  /\ next \in 1..(Len(cfg.blocks) + 1)
  /\ cfg \in Config /\ \A n \in initialized : HasInstance(n)
  /\ \A i \in 1..Len(stack) : stack[i].at \in 1..(Len(RefsOf(stack[i].obj)) + 1)
  /\ ToSet(hooks.shutdown) \cup ToSet(hooks.reload) \cup ToSet(closed) \subseteq done
  /\ closing \in {"", "wait", "ended"} /\ force \in {"none", "spawned", "listening"}
  /\ \A h \in Handler : Len(sig[h]) <= SignalBuffer /\ ToSet(run[h]) \subseteq done
  /\ \A o \in DOMAIN tab : tab[o].m \in Versions /\ tab[o].at \in {"select", "stat", "read", "check", "answer", "panicked", "gone"}
  /\ \A o \in DOMAIN certs : certs[o].served \in Versions /\ certs[o].at \in {"select", "load", "gone"}
  /\ status \in {"starting", "ready", "reloading", "stopping"}

\* However often and under whatever name (alias or instance name) a block is
\* referenced, it is initialised once, so that the shutdown closes every module
\* that was initialised, and closes it once (module.GetInstance, AddHook).
ClosedOnce ==
  /\ IsInjective(hooks.shutdown) /\ IsInjective(closed)
  /\ \A o \in done : Closer(KindOf(o)) => o \in ToSet(hooks.shutdown)
  /\ pc = "exited" => ToSet(closed) = ToSet(hooks.shutdown)

\* The objects a module holds after its Init: its inline modules, and the blocks it names.
InlineOf(i) == {k \in 1..Len(RefsIn(i)) : RefsIn(i)[k].inline}
Uses(i) == UNION {Resolve(RefsIn(i)[k].to) : k \in 1..Len(RefsIn(i)) \ InlineOf(i)}
Deps(o) == IF o.at # 0 THEN {} ELSE {Obj(o.block, k) : k \in InlineOf(o.block)} \cup {Obj(j, 0) : j \in Uses(o.block)}

\* Whether block j is in every set of blocks that holds what i uses and what its members use.
Reaches(i, j) == \A S \in SUBSET Blocks : Uses(i) \subseteq S /\ (\A k \in S : Uses(k) \subseteq S) => j \in S

\* A module is closed before the modules it uses: an endpoint before its queue, a
\* queue before its tables.  Blocks on a circle of references are the exception: the
\* last of them is given an instance that is not initialised yet.
CloseOrder ==
  \A o \in ToSet(hooks.shutdown) \ ToSet(closed) : \A d \in Deps(o) \cap ToSet(closed) :
    d.at = 0 /\ Reaches(d.block, o.block)

\* Once systemd is told that the server is ready every configuration block was
\* initialised, with every module it refers to (initModules).
ReadyIsComplete ==
  pc = "running" => /\ \A i \in Blocks : Obj(i, 0) \in done
                    /\ \A o \in done : Deps(o) \subseteq done

\* Start and stop keep the order of the references: the server is ready when everything
\* is initialised, everything is closed once, and nothing before its users.
ClosedInOrder == ClosedOnce /\ CloseOrder /\ ReadyIsComplete

\* A table never holds a file that was only partly written when it was read: a
\* reload waits until the file was left alone for a while, and reads it between
\* two looks at its modification time.  (Init reads it without either.)  The looks
\* miss only a copy that brings back, after the read, the time seen before it.
NoTornTable == \A o \in DOMAIN tab : tab[o].stamp > 0 /\ tab[o].m = Torn => file.copied /\ tab[o].stamp = CopyTime

(* The invariant behind ClosedInOrder.  Held: the objects whose Init was called. *)
Object == [block : Nat, at : Nat]
StackObjs == {stack[i].obj : i \in 1..Len(stack)}
Held == done \cup StackObjs
BeforeInit == pc \in {"globals", "register"}
Settled == pc \in {"init", "running", "stopping", "exited", "killed"}     \* every block is registered

LifeShape ==
  /\ cfg \in Config /\ next \in Nat /\ done \subseteq Object
  /\ stack \in Seq([obj : Object, at : Nat \ {0}])
  /\ hooks \in [shutdown : Seq(Object), reload : Seq(Object)] /\ closed \in Seq(Object)
  /\ pc \in {"globals", "register", "init", "running", "stopping", "exited", "killed", "failed"}
  /\ pc \in {"register", "running", "stopping", "exited", "killed"} => stack = <<>>
  /\ Globals \in StackObjs => pc \in {"globals", "failed"}
  /\ pc = "globals" => next = 1
  /\ BeforeInit => initialized = {} /\ (\A o \in Held : o.block = 0) /\ \A o \in done : o.at # 0

\* No object is held twice, and the hooks are those of the objects whose Init returned.
HeldOnce ==
  /\ \A i, j \in 1..Len(stack) : stack[i].obj = stack[j].obj => i = j
  /\ StackObjs \cap done = {}
  /\ IsInjective(hooks.shutdown) /\ ToSet(hooks.shutdown) = {o \in done : Closer(KindOf(o))}

\* What the stack, the marks and next say of an object that is held: of an inline module
\* through the block it belongs to, of a block through its name or its place.
Begun(o) == \/ Obj(o.block, 0) \in done
            \/ o.block = 0 /\ pc # "globals"
            \/ \E i \in 1..Len(stack) : stack[i].obj = Obj(o.block, 0) /\ o.at < stack[i].at
Marked(i) == IF IsEndpoint(i) THEN i < next ELSE cfg.blocks[i].inst \in initialized
HeldIsMarked == \A o \in Held : IF o.at # 0 THEN Begun(o) ELSE o = Globals \/ (o.block \in Blocks /\ Marked(o.block))
MarkedIsHeld == Settled => \A i \in Blocks : Marked(i) => Obj(i, 0) \in Held

NamesDistinct == pc \notin {"globals", "failed"} => \A i, j \in Registered : i # j => Names(i) \cap Names(j) = {}

\* A module holds what its Init asked for so far.
RefHeld(held, i, k) == IF RefsIn(i)[k].inline THEN Obj(i, k) \in held
                       ELSE \A j \in Resolve(RefsIn(i)[k].to) : Obj(j, 0) \in held
DepsHeld == Settled => /\ \A o \in done : Deps(o) \subseteq Held
                       /\ \A i \in 1..Len(stack) : \A k \in 1..Len(RefsOf(stack[i].obj)) :
                            k < stack[i].at => RefHeld(Held, stack[i].obj.block, k)

\* The Inits under way were called one by the other.
StackChains == Settled => \A i, j \in 1..Len(stack) :
  i < j => stack[i].obj.at = 0 /\ (stack[j].obj.at = 0 => Reaches(stack[i].obj.block, stack[j].obj.block))

\* The hook of a module comes after those of the modules it holds, circles apart.
HooksOrdered == Settled => \A p \in 1..Len(hooks.shutdown) : \A d \in Deps(hooks.shutdown[p]) :
  \/ d.at = 0 /\ Reaches(d.block, hooks.shutdown[p].block)
  \/ d \in done /\ \A q \in 1..Len(hooks.shutdown) : hooks.shutdown[q] = d => q < p

ClosedFromLast ==
  /\ Len(closed) <= Len(hooks.shutdown)
  /\ \A i \in 1..Len(closed) : closed[i] = hooks.shutdown[Len(hooks.shutdown) + 1 - i]
  /\ closed # <<>> => pc \in {"stopping", "exited", "killed"}
  /\ pc = "exited" => Len(closed) = Len(hooks.shutdown)

AllInitialised == pc = "running" => \A i \in Blocks : Obj(i, 0) \in done

LifeInv == /\ LifeShape /\ HeldOnce /\ HeldIsMarked /\ MarkedIsHeld /\ NamesDistinct /\ DepsHeld
           /\ StackChains /\ HooksOrdered /\ ClosedFromLast /\ AllInitialised

(* The invariant behind NoTornTable: every write has a time of its own, so the time
   seen before a read of a torn file is not that of the file any more. *)
TabRecord == [m : Int, stamp : Int, info : Int, new : Int,
              at : {"select", "stat", "read", "check", "answer", "panicked", "gone"}]
FileInv ==
  /\ file \in [exists : BOOLEAN, mtime : Nat, content : Int, quiet : BOOLEAN, writing : BOOLEAN, copied : BOOLEAN]
  /\ spent \in [edits : Nat, rotations : Nat, signals : Nat]
  /\ file.mtime <= 2 * spent.edits + 1 /\ (file.content = Torn => file.writing)
  /\ file.writing => ~file.quiet /\ file.mtime = 2 * spent.edits
Unchecked(t) ==
  /\ t.info <= 2 * spent.edits + 1 /\ (file.writing => t.info < 2 * spent.edits)
  /\ t.at = "check" /\ t.new = Torn =>
       t.info < 2 * spent.edits /\ (t.info = file.mtime => file.copied /\ t.info = CopyTime)
TableInv == /\ FileInv /\ tab \in [DOMAIN tab -> TabRecord] /\ NoTornTable
            /\ \A o \in DOMAIN tab : tab[o].at \in {"read", "check"} => Unchecked(tab[o])

\* A complete file that stays in place reaches the table, unless its modification
\* time lies before that of the file last read.
TableSettled == pc = "running" /\ file.exists /\ ~file.writing
                /\ \A o \in DOMAIN tab : file.mtime >= tab[o].stamp /\ tab[o].at # "panicked"
TableCatchesUp ==
  TableSettled ~> (~TableSettled \/ \A o \in DOMAIN tab : tab[o].m = file.content)

\* A rotated certificate is served in the end, although the certificate and the key
\* are replaced one after the other and a load in between fails.
PairSettled == pc = "running" /\ pair.cert = pair.key
CertsCatchUp == PairSettled ~> (~PairSettled \/ \A o \in DOMAIN certs : certs[o].served = pair.cert)

\* What the server reloads it reloads whole and in the end: table files and certificates.
ReloadsCatchUp == []NoTornTable /\ TableCatchesUp /\ CertsCatchUp

\* The shutdown ends: no Close waits forever for a goroutine, whatever the goroutine
\* was doing, except when os.Stat made the goroutine of a table panic.
Lost == \E o \in DOMAIN tab : tab[o].at = "panicked"
ShutdownEnds == (pc = "stopping") ~> (pc \in {"exited", "killed"} \/ Lost)

\* "OS-specific signals that correspond to the program termination (SIGTERM, SIGHUP,
\* SIGINT) will cause this function to return": handleSignals.
TermReturns == (pc = "running" /\ "term" \in ToSet(sig.main)) ~> pc # "running"
=============================================================================
