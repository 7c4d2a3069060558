------------------------------- MODULE Queue -------------------------------
(***************************************************************************)
(* internal/target/queue/queue.go: the on-disk message queue.              *)
(*                                                                         *)
(* A message source fills a queueDelivery (Start, AddRcpt, Body, then      *)
(* Commit or Abort).  Body writes three files, Commit puts a slot on the   *)
(* time wheel.  The wheel dispatches the slot to a goroutine, which tries  *)
(* the target once, reports the recipients it gives up on, and either      *)
(* removes the files or rewrites the meta-data and puts a new slot on the  *)
(* wheel.  The process may crash or be shut down between any two steps;    *)
(* the next start reloads the queue from the files.                        *)
(*                                                                         *)
(* A recipient list (QueueMetadata.To) is a bag: a function from Rcpt to   *)
(* the number of its entries.  The order of the entries is never used.     *)
(* Error values are the two classes exterrors.IsTemporaryOrUnspec knows.   *)
(***************************************************************************)
EXTENDS Naturals, FiniteSets

CONSTANTS
  Msg,             \* message IDs
  Rcpt,            \* effective recipient addresses
  Goroutine,       \* identities for the goroutines dispatch starts
  NullFrom,        \* the messages with MsgMeta.OriginalFrom = ""
  HasBounce,       \* is a bounce {} pipeline configured (q.dsnPipeline)
  MaxTries,        \* q.maxTries
  MaxParallelism,  \* capacity of q.deliverySemaphore
  MaxCopies,       \* bound: AddRcpt calls for one address
  MaxCrashes,      \* bound: crashes
  MaxFaults,       \* bound: failing storage calls, failing Commits, panics
  AllowClose       \* may the queue be closed (graceful shutdown)

ASSUME ConstantsAssumption ==
  /\ Msg # {}
  /\ NullFrom \subseteq Msg
  /\ HasBounce \in BOOLEAN
  /\ AllowClose \in BOOLEAN
  /\ MaxTries \in Nat \ {0}
  /\ MaxParallelism \in Nat \ {0}
  /\ MaxCopies \in Nat \ {0}
  /\ MaxCrashes \in Nat
  /\ MaxFaults \in Nat

VARIABLES
  files,      \* files[m]: which of ID.header, ID.body, ID.meta, ID.meta_broken exist
  meta,       \* meta[m]: content last written to ID.meta
  up,         \* is the process running
  wheel,      \* the time wheel: running, stopping, halted (tick returned), closed
  slot,       \* slot[m]: slot on the wheel: none, mem (Meta set) or disk (Meta nil)
  todo,       \* entries readDiskQueue has not looked at yet
  boot,       \* what readDiskQueue is doing: idle, clean (second file), send (in Add)
  qd,         \* qd[m]: state of the message's queueDelivery
  rcpts,      \* rcpts[m]: the recipients the source added (qd.meta.To)
  work,       \* work[g]: what goroutine g does next (pc), its message (id),
              \* its in-memory QueueMetadata (meta), its failedRcpts (fail)
  \* What the outside saw, for the properties only.
  delivered,  \* delivered[m][r]: times the target took m for r
  attempts,   \* attempts[m][r]: delivery attempts that included r
  givenUp,    \* givenUp[m]: recipients passed to emitDSN
  bounced,    \* bounced[m][r]: entries for r in the DSNs sent
  crashes, faults

diskVars    == <<files, meta>>
wheelVars   == <<up, wheel, slot>>
bootVars    == <<todo, boot>>
sourceVars  == <<qd, rcpts>>
outsideVars == <<delivered, attempts, givenUp, bounced>>
boundVars   == <<crashes, faults>>
vars == <<diskVars, wheelVars, bootVars, sourceVars, work, outsideVars, boundVars>>

-----------------------------------------------------------------------------
(* Types *)

FileKind == {"header", "body", "meta", "broken"}
Status   == {"ok", "temp", "perm"}
Failure  == {"temp", "perm"}
Bag      == [Rcpt -> Nat]
Meta     == [to : Bag, tries : Bag]

NoRcpts  == [r \in Rcpt |-> 0]
NoMeta   == [to |-> NoRcpts, tries |-> NoRcpts]
Members(bag) == {r \in Rcpt : bag[r] > 0}

\* The files removeFromDisk deletes, in its order.
RemovalStep == {"header", "body", "meta"}
NextRemovalSkipsBody == [header |-> "meta", body |-> "meta"]   \* mutant
NextRemoval == [header |-> "body", body |-> "meta"]

\* Abort runs the same removal from the source's side.
AbortStep == {"unheader", "unbody", "unmeta"}
AbortFile == [unheader |-> "header", unbody |-> "body", unmeta |-> "meta"]
NextAbort == [unheader |-> "unbody", unbody |-> "unmeta", unmeta |-> "aborted"]

\* A source that still holds its delivery object.
Writing == {"open", "header", "body", "meta"}
Live    == Writing \cup AbortStep \cup {"stored", "sending", "panicked"}
\* After a crash: orphaned (its meta-data is on disk), cut (Body had written files and
\* no meta-data yet) or dead (nothing of it is left to find).
SourceState == Live \cup {"new", "committed", "aborted", "failed", "orphaned", "cut", "dead"}

\* Busy: between taking the semaphore and wheel.Add.
Busy == {"deliver", "dsn", "update", "add"} \cup RemovalStep
\* Waiting for the semaphore with a slot of that kind.
Waiting == {"mem", "disk"}
WorkerState == Busy \cup Waiting \cup {"idle", "send", "unwound"}
Work   == [pc : WorkerState, id : Msg, meta : Meta, fail : Bag]
NoWork == [pc |-> "idle", id |-> CHOOSE m \in Msg : TRUE, meta |-> NoMeta, fail |-> NoRcpts]

NoBoot == [at |-> "idle"]
Boot   == {NoBoot} \cup [at : {"send"}, id : Msg]
                   \cup [at : {"clean"}, id : Msg, file : {"header", "body"}]

-----------------------------------------------------------------------------
(* Queue.Start, queueDelivery.AddRcpt and the initial QueueMetadata *)

InitMeta(m) == [to |-> rcpts[m], tries |-> NoRcpts]

Complete(m) == {"header", "body", "meta"} \subseteq files[m]

Fault == faults < MaxFaults /\ faults' = faults + 1 /\ UNCHANGED crashes

Serving == up /\ todo = {} /\ boot = NoBoot

Start(m) ==
  /\ Serving /\ qd[m] = "new"
  /\ qd' = [qd EXCEPT ![m] = "open"]
  /\ UNCHANGED <<diskVars, wheelVars, bootVars, rcpts, work, outsideVars, boundVars>>

AddRcpt(m, r) ==
  /\ qd[m] = "open" /\ rcpts[m][r] < MaxCopies
  /\ rcpts' = [rcpts EXCEPT ![m][r] = @ + 1]
  /\ UNCHANGED <<diskVars, wheelVars, bootVars, qd, work, outsideVars, boundVars>>

(* queueDelivery.Body = storeNewMessage: one action per file *)

StoreHeader(m) ==
  /\ qd[m] = "open" /\ Members(rcpts[m]) # {}
  /\ files' = [files EXCEPT ![m] = @ \cup {"header"}]
  /\ qd' = [qd EXCEPT ![m] = "header"]
  /\ UNCHANGED <<meta, wheelVars, bootVars, rcpts, work, outsideVars, boundVars>>

StoreBody(m) ==
  /\ qd[m] = "header"
  /\ files' = [files EXCEPT ![m] = @ \cup {"body"}]
  /\ qd' = [qd EXCEPT ![m] = "body"]
  /\ UNCHANGED <<meta, wheelVars, bootVars, rcpts, work, outsideVars, boundVars>>

\* updateMetadataOnDisk writes ID.meta.new and renames it: atomic.
StoreMeta(m) ==
  /\ qd[m] = "body"
  /\ files' = [files EXCEPT ![m] = @ \cup {"meta"}]
  /\ meta' = [meta EXCEPT ![m] = InitMeta(m)]
  /\ qd' = [qd EXCEPT ![m] = "meta"]
  /\ UNCHANGED <<wheelVars, bootVars, rcpts, work, outsideVars, boundVars>>

\* Both Sync calls succeed and Body returns nil.
StoreSync(m) ==
  /\ qd[m] = "meta"
  /\ qd' = [qd EXCEPT ![m] = "stored"]
  /\ UNCHANGED <<diskVars, wheelVars, bootVars, rcpts, work, outsideVars, boundVars>>

\* The files an error of storeNewMessage leaves behind.  Before the body exists
\* the header is removed, unless creating the body file is what failed; a failed
\* copy or meta-data write removes both; a failed Sync removes nothing.
Leftovers(m) ==
  CASE qd[m] = "open"   -> {{}}
    [] qd[m] = "header" -> {{}, {"header"}}
    [] qd[m] = "body"   -> {{}}
    [] qd[m] = "meta"   -> {files[m]}

StoreFails(m) ==
  /\ qd[m] \in Writing /\ (qd[m] = "open" => Members(rcpts[m]) # {})
  /\ \E left \in Leftovers(m) : files' = [files EXCEPT ![m] = left]
  /\ qd' = [qd EXCEPT ![m] = "failed"]
  /\ Fault
  /\ UNCHANGED <<meta, wheelVars, bootVars, rcpts, work, outsideVars>>

(* queueDelivery.Abort *)

\* qd.body is set only after Body succeeded; a Commit that panicked has not reset it.
Abort(m) ==
  /\ \/ qd[m] = "open" /\ qd' = [qd EXCEPT ![m] = "aborted"]
     \/ qd[m] \in {"stored", "panicked"} /\ qd' = [qd EXCEPT ![m] = "unheader"]
  /\ UNCHANGED <<diskVars, wheelVars, bootVars, rcpts, work, outsideVars, boundVars>>

\* os.Remove of one file; its error is only logged.
RemoveFile(m, f) ==
  \/ files' = [files EXCEPT ![m] = @ \ {f}] /\ UNCHANGED boundVars
  \/ f \in files[m] /\ Fault /\ UNCHANGED files

AbortRemove(m) ==
  /\ qd[m] \in AbortStep
  /\ RemoveFile(m, AbortFile[qd[m]])
  /\ qd' = [qd EXCEPT ![m] = NextAbort[qd[m]]]
  /\ UNCHANGED <<meta, wheelVars, bootVars, rcpts, work, outsideVars>>

(* queueDelivery.Commit = wheel.Add of a slot that carries the meta-data *)

\* TimeWheel.Add looks at tw.stopped first and ignores the call when it is set.
Commit(m) ==
  /\ qd[m] = "stored"
  /\ IF wheel = "running"
       THEN slot' = [slot EXCEPT ![m] = "mem"] /\ qd' = [qd EXCEPT ![m] = "sending"]
       ELSE qd' = [qd EXCEPT ![m] = "committed"] /\ UNCHANGED slot
  /\ UNCHANGED <<diskVars, up, wheel, bootVars, rcpts, work, outsideVars, boundVars>>

\* The send on tw.updateNotify: received while tick runs, a panic once it is closed.
CommitReturns(m) ==
  /\ qd[m] = "sending"
  /\ \/ wheel \in {"running", "stopping"} /\ qd' = [qd EXCEPT ![m] = "committed"]
     \/ wheel = "closed" /\ qd' = [qd EXCEPT ![m] = "panicked"]
  /\ UNCHANGED <<diskVars, wheelVars, bootVars, rcpts, work, outsideVars, boundVars>>

-----------------------------------------------------------------------------
(* Queue.dispatch *)

\* tick removes the slot and starts a goroutine for it.
DispatchKeepsSlot(g, m) ==   \* mutant: the list element is not removed
  /\ up /\ wheel \in {"running", "stopping"}
  /\ slot[m] # "none" /\ work[g].pc = "idle"
  /\ work' = [work EXCEPT ![g] = [NoWork EXCEPT !.pc = slot[m], !.id = m]]
  /\ UNCHANGED <<diskVars, wheelVars, bootVars, sourceVars, outsideVars, boundVars>>

Dispatch(g, m) ==
  /\ up /\ wheel \in {"running", "stopping"}
  /\ slot[m] # "none" /\ work[g].pc = "idle"
  /\ slot' = [slot EXCEPT ![m] = "none"]
  /\ work' = [work EXCEPT ![g] = [NoWork EXCEPT !.pc = slot[m], !.id = m]]
  /\ UNCHANGED <<diskVars, up, wheel, bootVars, sourceVars, outsideVars, boundVars>>

HoldsSemaphore(g) == work[g].pc \in Busy \cup {"send"}

\* What openMessage leaves on disk when a file it needs is missing.
AfterFailedOpen(fs) ==
  CASE "meta" \notin fs   -> fs
    [] "body" \notin fs   -> fs \ {"meta"}
    [] "header" \notin fs -> fs \ {"meta", "body"}

\* The semaphore is free: use the slot's meta-data or read it (openMessage).
\* A message that cannot be opened is dropped from the wheel.
Open(g) ==
  LET m == work[g].id
      Begin(md) == /\ work' = [work EXCEPT ![g].pc = "deliver", ![g].meta = md]
                   /\ UNCHANGED files
      GiveIn(fs) == /\ work' = [work EXCEPT ![g] = NoWork]
                    /\ files' = [files EXCEPT ![m] = fs]
  IN /\ work[g].pc \in Waiting
     /\ Cardinality({h \in Goroutine : HoldsSemaphore(h)}) < MaxParallelism
     /\ \/ work[g].pc = "mem" /\ Begin(InitMeta(m)) /\ UNCHANGED boundVars
        \/ work[g].pc = "disk" /\ Complete(m) /\ Begin(meta[m]) /\ UNCHANGED boundVars
        \/ work[g].pc = "disk" /\ Complete(m) /\ GiveIn(files[m]) /\ Fault
        \/ work[g].pc = "disk" /\ ~Complete(m) /\ GiveIn(AfterFailedOpen(files[m])) /\ UNCHANGED boundVars
     /\ UNCHANGED <<meta, wheelVars, bootVars, sourceVars, outsideVars>>

-----------------------------------------------------------------------------
(* Queue.deliver: one pass over the target, which is external.  A reply is the *)
(* error per recipient (Errs) and the recipients the target took.              *)

Replies(to, e) == {[errs |-> [r \in Rcpt |-> IF to[r] > 0 THEN e ELSE "ok"], taken |-> {}]}

StatusFor(S) == {f \in [Rcpt -> Status] : \A r \in Rcpt \ S : f[r] = "ok"}

\* Abort when every accepted recipient failed; otherwise Commit, whose error
\* is spread over all accepted recipients.
FinishDelivery(errs, acc, oks) ==
  IF \A r \in acc : errs[r] # "ok"
    THEN {[errs |-> errs, taken |-> {}]}
    ELSE {[errs |-> errs, taken |-> oks]} \cup
         {[errs |-> [r \in Rcpt |-> IF r \in acc THEN e ELSE errs[r]], taken |-> {}] : e \in Failure}

\* Body or BodyNonAtomic for the accepted recipients; without any, Abort.
SendBody(add, acc) ==
  IF acc = {} THEN {[errs |-> add, taken |-> {}]}
  ELSE UNION { FinishDelivery([r \in Rcpt |-> IF st[r] # "ok" THEN st[r] ELSE add[r]],
                              acc, {r \in acc : st[r] = "ok"}) : st \in StatusFor(acc) }

\* AddRcpt is called once per entry: an address listed twice can be accepted
\* by one call and refused by the other.
Accepting(to, add) ==
  {acc \in SUBSET Members(to) : \A r \in Members(to) :
      /\ add[r] = "ok" => r \in acc
      /\ (add[r] # "ok" /\ r \in acc) => to[r] > 1}

DeliverReplies(to) ==
  (UNION { Replies(to, e) : e \in Failure }) \cup
  (UNION { UNION { SendBody(add, acc) : acc \in Accepting(to, add) } : add \in StatusFor(Members(to)) })

(* Queue.tryDelivery: the loop over meta.To *)

\* Among n entries of an address with t earlier tries, each failing temporarily,
\* entry i is given up on when it completes a round of MaxTries (the counter is
\* deleted then and starts over).
GivenUpEntries(t, n) == Cardinality({i \in 1..n : (t + i) % MaxTries = 0})

FailedRcpts(md, errs) ==
  [r \in Rcpt |-> CASE errs[r] = "ok"   -> 0
                    [] errs[r] = "perm" -> md.to[r]
                    [] errs[r] = "temp" -> GivenUpEntries(md.tries[r], md.to[r])]

NewMetaCountsTwice(md, errs) ==   \* mutant: an entry that failed is subtracted twice
  [to    |-> [r \in Rcpt |-> IF errs[r] = "temp"
                               THEN md.to[r] - 2 * GivenUpEntries(md.tries[r], md.to[r]) ELSE 0],
   tries |-> [r \in Rcpt |-> (md.tries[r] + md.to[r]) % MaxTries]]

NewMeta(md, errs) ==
  [to    |-> [r \in Rcpt |-> CASE errs[r] = "ok"   -> 0
                               [] errs[r] = "perm" -> 0
                               [] errs[r] = "temp" -> md.to[r] - GivenUpEntries(md.tries[r], md.to[r])],
   tries |-> [r \in Rcpt |-> CASE errs[r] = "ok"   -> md.tries[r]
                               [] errs[r] = "perm" -> IF md.to[r] > 0 THEN 0 ELSE md.tries[r]
                               [] errs[r] = "temp" -> (md.tries[r] + md.to[r]) % MaxTries]]

AfterReportAnyDone(md) ==   \* mutant: stop when some recipient is done
  IF \E r \in Rcpt : md.to[r] = 0 THEN "header" ELSE "update"

\* Where tryDelivery goes once the DSN question is settled.
AfterReport(md) == IF Members(md.to) = {} THEN "header" ELSE "update"

Deliver(g) ==
  LET m == work[g].id
      old == work[g].meta
  IN /\ work[g].pc = "deliver"
     /\ \E reply \in DeliverReplies(old.to) :
          LET md == NewMeta(old, reply.errs)
              failed == FailedRcpts(old, reply.errs)
              next == IF Members(failed) # {} THEN "dsn" ELSE AfterReport(md)
          IN /\ work' = [work EXCEPT ![g] = [pc |-> next, id |-> m, meta |-> md, fail |-> failed]]
             /\ delivered' = [delivered EXCEPT ![m] =
                  [r \in Rcpt |-> IF r \in reply.taken THEN delivered[m][r] + 1 ELSE delivered[m][r]]]
     /\ attempts' = [attempts EXCEPT ![m] =
          [r \in Rcpt |-> IF old.to[r] > 0 THEN attempts[m][r] + 1 ELSE attempts[m][r]]]
     /\ UNCHANGED <<diskVars, wheelVars, bootVars, sourceVars, givenUp, bounced, boundVars>>

\* emitDSN: no DSN without a bounce pipeline or for a null return-path; an error
\* while sending it is only logged.
EmitDSN(g) ==
  LET m == work[g].id
      fail == work[g].fail
  IN /\ work[g].pc = "dsn"
     /\ work' = [work EXCEPT ![g].pc = AfterReport(work[g].meta)]
     /\ givenUp' = [givenUp EXCEPT ![m] = @ \cup Members(fail)]
     /\ \/ /\ HasBounce /\ m \notin NullFrom
           /\ bounced' = [bounced EXCEPT ![m] = [r \in Rcpt |-> bounced[m][r] + fail[r]]]
           /\ UNCHANGED boundVars
        \/ HasBounce /\ m \notin NullFrom /\ Fault /\ UNCHANGED bounced
        \/ (~HasBounce \/ m \in NullFrom) /\ UNCHANGED <<bounced, boundVars>>
     /\ UNCHANGED <<diskVars, wheelVars, bootVars, sourceVars, delivered, attempts>>

\* removeFromDisk: nobody is left to try.
Remove(g) ==
  /\ work[g].pc \in RemovalStep
  /\ RemoveFile(work[g].id, work[g].pc)
  /\ work' = [work EXCEPT ![g] = IF work[g].pc = "meta" THEN NoWork
                                 ELSE [work[g] EXCEPT !.pc = NextRemoval[work[g].pc]]]
  /\ UNCHANGED <<meta, wheelVars, bootVars, sourceVars, outsideVars>>

\* updateMetadataOnDisk: an error is only logged and leaves the old file.
UpdateMetaSkipped(g) ==   \* mutant: the new list stays in memory
  /\ work[g].pc = "update"
  /\ work' = [work EXCEPT ![g].pc = "add"]
  /\ UNCHANGED <<diskVars, wheelVars, bootVars, sourceVars, outsideVars, boundVars>>

UpdateMeta(g) ==
  LET m == work[g].id IN
  /\ work[g].pc = "update"
  /\ \/ /\ meta' = [meta EXCEPT ![m] = work[g].meta]
        /\ files' = [files EXCEPT ![m] = @ \cup {"meta"}]
        /\ UNCHANGED boundVars
     \/ Fault /\ UNCHANGED diskVars
  /\ work' = [work EXCEPT ![g].pc = "add"]
  /\ UNCHANGED <<wheelVars, bootVars, sourceVars, outsideVars>>

\* wheel.Add of a slot that says "read it from disk".
RequeueForgotten(g) ==   \* mutant: no slot is added for the next try
  /\ work[g].pc = "add"
  /\ work' = [work EXCEPT ![g] = NoWork]
  /\ UNCHANGED <<diskVars, wheelVars, bootVars, sourceVars, outsideVars, boundVars>>

Requeue(g) ==
  /\ work[g].pc = "add"
  /\ IF wheel = "running"
       THEN slot' = [slot EXCEPT ![work[g].id] = "disk"] /\ work' = [work EXCEPT ![g].pc = "send"]
       ELSE work' = [work EXCEPT ![g] = NoWork] /\ UNCHANGED slot
  /\ UNCHANGED <<diskVars, up, wheel, bootVars, sourceVars, outsideVars, boundVars>>

RequeueReturns(g) ==
  /\ work[g].pc = "send"
  /\ \/ wheel \in {"running", "stopping"} /\ work' = [work EXCEPT ![g] = NoWork]
     \/ wheel = "closed" /\ work' = [work EXCEPT ![g].pc = "unwound"]
  /\ UNCHANGED <<diskVars, wheelVars, bootVars, sourceVars, outsideVars, boundVars>>

\* A panic inside the target.
TargetPanics(g) ==
  /\ work[g].pc = "deliver"
  /\ work' = [work EXCEPT ![g].pc = "unwound"]
  /\ Fault
  /\ UNCHANGED <<diskVars, wheelVars, bootVars, sourceVars, outsideVars>>

\* The deferred function has released the semaphore and the WaitGroup before
\* discardBroken renames the meta-data.
DiscardBrokenRemoves(g) ==   \* mutant: the meta-data is deleted, not renamed
  /\ work[g].pc = "unwound"
  /\ files' = [files EXCEPT ![work[g].id] = @ \ {"meta"}]
  /\ work' = [work EXCEPT ![g] = NoWork]
  /\ UNCHANGED <<meta, wheelVars, bootVars, sourceVars, outsideVars, boundVars>>

DiscardBroken(g) ==
  LET m == work[g].id IN
  /\ work[g].pc = "unwound"
  /\ files' = [files EXCEPT ![m] = IF "meta" \in @ THEN (@ \ {"meta"}) \cup {"broken"} ELSE @]
  /\ work' = [work EXCEPT ![g] = NoWork]
  /\ UNCHANGED <<meta, wheelVars, bootVars, sourceVars, outsideVars, boundVars>>

-----------------------------------------------------------------------------
(* Queue.Close, crashes and Queue.start *)

CloseStart ==
  /\ AllowClose /\ Serving /\ wheel = "running"
  /\ wheel' = "stopping"
  /\ UNCHANGED <<diskVars, up, slot, bootVars, sourceVars, work, outsideVars, boundVars>>

CloseHandshake ==
  /\ up /\ wheel \in {"stopping", "halted"}
  /\ wheel' = IF wheel = "stopping" THEN "halted" ELSE "closed"
  /\ UNCHANGED <<diskVars, up, slot, bootVars, sourceVars, work, outsideVars, boundVars>>

\* Everything in memory is gone.
Down ==
  /\ up' = FALSE /\ wheel' = "closed" /\ slot' = [m \in Msg |-> "none"]
  /\ todo' = {} /\ boot' = NoBoot
  /\ qd' = [m \in Msg |-> IF qd[m] \notin Live THEN qd[m]
                          ELSE IF "meta" \in files[m] THEN "orphaned"
                          ELSE IF qd[m] \in {"header", "body"} THEN "cut" ELSE "dead"]
  /\ work' = [g \in Goroutine |-> NoWork]
  /\ UNCHANGED <<diskVars, rcpts, outsideVars>>

\* Close has waited for deliveryWg; then the process ends.
Exit ==
  /\ up /\ wheel = "closed"
  /\ \A g \in Goroutine : work[g].pc \in {"idle", "unwound"}
  /\ Down /\ UNCHANGED boundVars

Crash == up /\ crashes < MaxCrashes /\ crashes' = crashes + 1 /\ UNCHANGED faults /\ Down

\* start: a new wheel, then readDiskQueue lists the directory.
Restart ==
  /\ ~up
  /\ up' = TRUE /\ wheel' = "running"
  /\ todo' = {m \in Msg : "meta" \in files[m]}
  /\ UNCHANGED <<diskVars, slot, boot, sourceVars, work, outsideVars, boundVars>>

\* readDiskQueue, one entry: load it, or remove what is left of it (two files), or
\* skip it when the meta-data cannot be read.
ReadEntry(m) ==
  /\ up /\ boot = NoBoot /\ m \in todo
  /\ todo' = todo \ {m}
  /\ \/ /\ Complete(m)
        /\ slot' = [slot EXCEPT ![m] = "disk"] /\ boot' = [at |-> "send", id |-> m]
        /\ UNCHANGED <<files, boundVars>>
     \/ /\ ~Complete(m)
        /\ files' = [files EXCEPT ![m] = @ \ {"meta"}]
        /\ boot' = [at |-> "clean", id |-> m,
                    file |-> IF "header" \in files[m] THEN "header" ELSE "body"]
        /\ UNCHANGED <<slot, boundVars>>
     \/ Fault /\ UNCHANGED <<slot, boot, files>>
  /\ UNCHANGED <<meta, up, wheel, sourceVars, work, outsideVars>>

CleanSecondFile ==
  /\ boot.at = "clean"
  /\ files' = [files EXCEPT ![boot.id] = @ \ {boot.file}]
  /\ boot' = NoBoot
  /\ UNCHANGED <<meta, wheelVars, todo, sourceVars, work, outsideVars, boundVars>>

LoadReturns ==
  /\ boot.at = "send"
  /\ boot' = NoBoot
  /\ UNCHANGED <<diskVars, wheelVars, todo, sourceVars, work, outsideVars, boundVars>>

-----------------------------------------------------------------------------
Init ==
  /\ files = [m \in Msg |-> {}] /\ meta = [m \in Msg |-> NoMeta]
  /\ up = TRUE /\ wheel = "running" /\ slot = [m \in Msg |-> "none"]
  /\ todo = {} /\ boot = NoBoot
  /\ qd = [m \in Msg |-> "new"] /\ rcpts = [m \in Msg |-> NoRcpts]
  /\ work = [g \in Goroutine |-> NoWork]
  /\ delivered = [m \in Msg |-> NoRcpts] /\ attempts = [m \in Msg |-> NoRcpts]
  /\ givenUp = [m \in Msg |-> {}] /\ bounced = [m \in Msg |-> NoRcpts]
  /\ crashes = 0 /\ faults = 0

SourceStep(m) ==
  \/ Start(m) \/ (\E r \in Rcpt : AddRcpt(m, r))
  \/ StoreHeader(m) \/ StoreBody(m) \/ StoreMeta(m) \/ StoreSync(m) \/ StoreFails(m)
  \/ Abort(m) \/ AbortRemove(m) \/ Commit(m) \/ CommitReturns(m)

WorkerStep(g) ==
  \/ Open(g) \/ Deliver(g) \/ TargetPanics(g) \/ EmitDSN(g) \/ Remove(g)
  \/ UpdateMeta(g) \/ Requeue(g) \/ RequeueReturns(g) \/ DiscardBroken(g)

BootStep == Restart \/ (\E m \in Msg : ReadEntry(m)) \/ CleanSecondFile \/ LoadReturns

Next ==
  \/ \E m \in Msg : SourceStep(m)
  \/ \E g \in Goroutine : WorkerStep(g)
  \/ \E g \in Goroutine, m \in Msg : Dispatch(g, m)
  \/ BootStep
  \/ CloseStart \/ CloseHandshake \/ Exit \/ Crash

Spec == Init /\ [][Next]_vars

(* Fairness.  Goroutines, the time wheel and a restarted process keep running; *)
(* senders blocked on the semaphore channel are served in FIFO order, hence    *)
(* strong fairness for Open.  A source that called Commit gets its answer.     *)
(* Nothing is assumed of sources otherwise, nor of crashes and shutdowns.      *)
Fairness ==
  /\ \A g \in Goroutine : WF_vars(WorkerStep(g)) /\ SF_vars(Open(g))
  /\ \A m \in Msg : WF_vars(\E g \in Goroutine : Dispatch(g, m)) /\ WF_vars(CommitReturns(m))
  /\ WF_vars(BootStep)

FairSpec == Spec /\ Fairness

-----------------------------------------------------------------------------
(* Properties *)

\* Every variable has its type.
TypeOK ==
  /\ files \in [Msg -> SUBSET FileKind] /\ meta \in [Msg -> Meta]
  /\ up \in BOOLEAN /\ wheel \in {"running", "stopping", "halted", "closed"}
  /\ slot \in [Msg -> {"none", "mem", "disk"}]
  /\ todo \in SUBSET Msg /\ boot \in Boot
  /\ qd \in [Msg -> SourceState] /\ rcpts \in [Msg -> Bag]
  /\ work \in [Goroutine -> Work]
  /\ delivered \in [Msg -> Bag] /\ attempts \in [Msg -> Bag]
  /\ givenUp \in [Msg -> SUBSET Rcpt] /\ bounced \in [Msg -> Bag]
  /\ crashes \in Nat /\ faults \in Nat

Settled(m, r) == delivered[m][r] > 0 \/ r \in givenUp[m]

\* The files still hold the message for r, if only as a .meta_broken.
Kept(m, r) ==
  /\ {"header", "body"} \subseteq files[m]
  /\ files[m] \cap {"meta", "broken"} # {}
  /\ meta[m].to[r] > 0

\* Once Commit has returned to the source, each recipient is delivered, given
\* up on, or still held by the files, whatever crashes, shutdowns, storage
\* errors and panics happen in between.
NoSilentLoss ==
  \A m \in Msg, r \in Rcpt :
    (qd[m] = "committed" /\ rcpts[m][r] > 0) => (Settled(m, r) \/ Kept(m, r))

WorksOn(g, m) == work[g].pc \in Busy \cup Waiting /\ work[g].id = m

\* No two goroutines work on one message, and none does while a slot of the
\* message waits on the wheel or readDiskQueue has yet to load it; a goroutine
\* still blocked in wheel.Add is done with the message.
SingleFlight ==
  \A m \in Msg, g \in Goroutine : WorksOn(g, m) =>
    /\ \A h \in Goroutine : WorksOn(h, m) => h = g
    /\ slot[m] = "none" /\ m \notin todo

Undisturbed == crashes = 0 /\ faults = 0
NoCopies(m) == \A r \in Rcpt : rcpts[m][r] <= 1

\* Without crashes and errors, and with no address listed twice, delivery is
\* retried only for the recipients that failed temporarily: nobody gets the
\* message twice, nobody is tried after a bounce, and no recipient is tried
\* more than max_tries times, across graceful restarts too.
RetryOnlyFailed ==
  \A m \in Msg, r \in Rcpt : (Undisturbed /\ NoCopies(m)) =>
    /\ delivered[m][r] + bounced[m][r] <= 1
    /\ attempts[m][r] <= MaxTries

\* Neither the wheel, readDiskQueue nor a goroutine is concerned with the message.
Untouched(m) == /\ slot[m] = "none" /\ m \notin todo
                /\ boot # NoBoot => boot.id # m
                /\ \A g \in Goroutine : work[g].pc # "idle" => work[g].id # m

\* A crash or a shutdown interrupted the process at most once, and no storage call
\* failed.  (A second one may hit readDiskQueue between its two removals.)
InterruptedOnce == faults = 0 /\ (crashes = 0 \/ (~AllowClose /\ crashes <= 1))

\* Interrupted at most once, a running queue has removed every file of a message nobody
\* works on any more: one that was committed or aborted, and one whose source went away
\* with the process before or after Body.  Two kinds of files stay, and the property
\* names both: those of a message whose meta-data was renamed to .meta_broken, and the
\* header and body that a crash left before Body wrote the meta-data (qd = "cut"), which
\* readDiskQueue does not look at (queue.go:647, NothingDangles).
NoGarbage ==
  \A m \in Msg :
    ( /\ Serving /\ wheel = "running" /\ InterruptedOnce
      /\ qd[m] \in {"committed", "aborted", "orphaned", "cut", "dead"}
      /\ slot[m] = "none" /\ \A g \in Goroutine : work[g].pc # "idle" => work[g].id # m )
    => \/ files[m] = {}
       \/ "broken" \in files[m] /\ "meta" \notin files[m]
       \/ qd[m] = "cut" /\ files[m] \in {{"header"}, {"header", "body"}}

\* A message whose Body a crash cut off before the meta-data was written is never given
\* to the target: its files stay, but no restart makes a delivery of them.
CutNotDelivered ==
  \A m \in Msg : qd[m] = "cut" => Untouched(m) /\ \A r \in Rcpt : attempts[m][r] = 0

\* Once Abort has returned to the source, and no storage call failed in it, the
\* target never hears of the message, whatever readDiskQueue finds after a crash.
\* (A shutdown is excluded: a Commit that panics in wheel.Add may be aborted after
\* its slot was dispatched.)
AbortedNotDelivered ==
  \A m \in Msg, r \in Rcpt : (qd[m] = "aborted" /\ faults = 0 /\ ~AllowClose) => attempts[m][r] = 0

\* What restarts of readDiskQueue find is what the queue still owes: no message that is
\* finished, none whose source aborted it and none that was never stored completely.
NothingLeftBehind == NoGarbage /\ AbortedNotDelivered /\ CutNotDelivered

\* Every committed message is finished: each recipient is delivered or given up
\* on, and the files are gone.
EventuallyFinished ==
  \A m \in Msg : (qd[m] = "committed") ~>
    (files[m] = {} /\ \A r \in Members(rcpts[m]) : Settled(m, r))

AcceptedPairs == {p \in Msg \X Rcpt : qd[p[1]] = "committed" /\ rcpts[p[1]][p[2]] > 0}

Promise == INSTANCE DeliveryPromise WITH
  accepted <- AcceptedPairs,
  owed     <- {p \in AcceptedPairs : Kept(p[1], p[2])},
  settled  <- {p \in AcceptedPairs : Settled(p[1], p[2])}

\* The files implement the at-least-once promise: a pair leaves the disk only
\* after it was delivered or given up on, and never comes back.
KeepsPromise == Promise!Spec

-----------------------------------------------------------------------------
(* The inductive strengthening of NoSilentLoss *)

\* The source was told that the message is on disk and may not remove it again.
Held(m) == qd[m] \in {"stored", "sending", "committed"}
Owes(m, r) == Held(m) /\ rcpts[m][r] > 0 /\ ~Settled(m, r)

OwedIsKept == \A m \in Msg, r \in Rcpt : Owes(m, r) => Kept(m, r)

\* What a goroutine has in memory still names every recipient it owes.
WorkCovers ==
  \A g \in Goroutine, r \in Rcpt : Owes(work[g].id, r) =>
    /\ work[g].pc \in {"deliver", "update"} => work[g].meta.to[r] > 0
    /\ work[g].pc = "dsn" => (work[g].meta.to[r] > 0 \/ work[g].fail[r] > 0)
    /\ work[g].pc \notin RemovalStep

\* readDiskQueue removes files only of messages that owe nothing.
CleanOwesNothing ==
  boot.at = "clean" => \A r \in Rcpt : ~Owes(boot.id, r)

\* The files storeNewMessage has written so far.
StoredSoFar ==
  \A m \in Msg : /\ qd[m] = "new" => files[m] = {}
                 /\ qd[m] \in {"header", "body", "meta"} => "header" \in files[m]
                 /\ qd[m] \in {"body", "meta"} => "body" \in files[m]
                 /\ qd[m] = "meta" => "meta" \in files[m] /\ meta[m] = InitMeta(m)

\* Nobody else touches a message until its Commit.
PrivateUntilCommit ==
  \A m \in Msg : qd[m] \in {"new", "stored"} \cup Writing => Untouched(m)

\* While an entry waits for readDiskQueue its files stay as they are.
TodoIntact ==
  \A m \in todo : /\ "meta" \in files[m] /\ slot[m] = "none" /\ qd[m] \notin Live
                  /\ \A g \in Goroutine : work[g].pc # "idle" => work[g].id # m

DownIsEmpty ==
  ~up => /\ todo = {} /\ boot = NoBoot
         /\ \A m \in Msg : qd[m] \notin Live /\ slot[m] = "none"
         /\ \A g \in Goroutine : work[g].pc = "idle"

ShapeInv == TypeOK /\ StoredSoFar /\ PrivateUntilCommit /\ TodoIntact /\ DownIsEmpty

LossInv == OwedIsKept /\ WorkCovers /\ CleanOwesNothing

\* What KeepsPromise needs besides: a recipient list in memory never names more
\* recipients than the file it will overwrite, and that file is still there.
Listed(m) == files[m] \cap {"meta", "broken"} # {}
Taken(m) == qd[m] \in {"sending", "committed"}
FirstTry(m) == Listed(m) /\ meta[m].to = rcpts[m]
NoNewNames(g) == Listed(work[g].id) /\ Members(work[g].meta.to) \subseteq Members(meta[work[g].id].to)

MemoryMatches ==
  /\ \A m \in Msg : qd[m] = "stored" => Complete(m) /\ meta[m] = InitMeta(m)
  /\ \A m \in Msg : Taken(m) /\ slot[m] = "mem" => FirstTry(m)
  /\ \A g \in Goroutine : Taken(work[g].id) =>
       /\ work[g].pc = "mem" => FirstTry(work[g].id)
       /\ work[g].pc \in {"deliver", "dsn", "update"} => NoNewNames(g)

\* The inductive strengthening of RetryOnlyFailed: a list names a recipient at
\* most once, and only while nothing happened to it but the tries it counts.
Untried(m) == \A r \in Rcpt : delivered[m][r] = 0 /\ bounced[m][r] = 0 /\ attempts[m][r] = 0
Pending(md, m, r) ==
  /\ md.to[r] <= 1
  /\ md.to[r] = 1 => /\ delivered[m][r] = 0 /\ bounced[m][r] = 0
                     /\ attempts[m][r] = md.tries[r] /\ md.tries[r] < MaxTries

\* Nobody is between a try and the rewriting of the list.
ListCurrent(m) ==
  \A g \in Goroutine : work[g].id = m => work[g].pc \notin {"dsn", "update"} \cup RemovalStep

FirstAhead(m) ==
  \/ qd[m] \in Writing \cup {"new", "stored"} \/ slot[m] = "mem"
  \/ \E g \in Goroutine : work[g].id = m /\ work[g].pc = "mem"

RetryPart(m) ==
  /\ FirstAhead(m) => Untried(m)
  /\ "meta" \in files[m] /\ ListCurrent(m) => \A r \in Rcpt : Pending(meta[m], m, r)
  /\ \A g \in Goroutine, r \in Rcpt : work[g].id = m =>
       /\ work[g].pc \in {"deliver", "dsn", "update"} => Pending(work[g].meta, m, r)
       /\ work[g].pc = "dsn" /\ work[g].fail[r] # 0 =>
            work[g].fail[r] = 1 /\ work[g].meta.to[r] = 0 /\ delivered[m][r] = 0 /\ bounced[m][r] = 0
  /\ \A r \in Rcpt : delivered[m][r] + bounced[m][r] <= 1 /\ attempts[m][r] <= MaxTries

RetryInv == \A m \in Msg : Undisturbed /\ NoCopies(m) => RetryPart(m)

\* The inductive strengthening of NothingLeftBehind.  Both removals go header, body,
\* meta, so what is left of a stored message can still be told from its meta-data.
OnDisk(m) == qd[m] \in AbortStep \cup {"stored", "sending", "panicked", "committed", "aborted", "orphaned", "dead"}

CleansBody(m) == boot = [at |-> "clean", id |-> m, file |-> "body"]

RemovedInOrder(m) ==
  /\ "header" \in files[m] => "body" \in files[m] /\ ~CleansBody(m)
  /\ "body" \in files[m] => files[m] \cap {"meta", "broken"} # {} \/ CleansBody(m)
  /\ qd[m] \in {"unbody", "unmeta"} => "header" \notin files[m]
  /\ qd[m] = "unmeta" => "body" \notin files[m]
  /\ \A g \in Goroutine : work[g].id = m =>
       /\ work[g].pc \in {"body", "meta"} => "header" \notin files[m]
       /\ work[g].pc = "meta" => "body" \notin files[m]

\* Meta-data on disk has somebody who will come back to it.
Attended(m) ==
  ("meta" \in files[m] /\ qd[m] \in {"sending", "committed", "aborted", "orphaned"} /\ up /\ wheel = "running")
    => m \in todo \/ slot[m] # "none" \/ \E g \in Goroutine : WorksOn(g, m)

\* Abort keeps what the target has not heard of from it.
NotHeard(m) ==
  /\ qd[m] \in Writing \cup AbortStep \cup {"new", "stored", "aborted"} =>
       Untouched(m) /\ \A r \in Rcpt : attempts[m][r] = 0
  /\ qd[m] # "panicked" /\ (qd[m] = "aborted" => "meta" \notin files[m])

\* When the wheel may be stopped, and readDiskQueue may be running.
LifeShape ==
  /\ wheel # "running" => todo = {} /\ boot = NoBoot
  /\ ~AllowClose /\ up => wheel = "running"
  /\ ~AllowClose /\ crashes = 0 => up /\ todo = {} /\ boot = NoBoot

FreshEmpty ==
  \A m \in Msg : /\ qd[m] \in {"new", "open"} => files[m] = {}
                 /\ qd[m] \in {"header", "body"} => "meta" \notin files[m]
                 /\ qd[m] = "stored" => Complete(m)

\* Of a message cut off in Body there are the files written so far, and nobody finds them.
GoneShape(m) ==
  /\ qd[m] \in {"cut", "dead"} => Untouched(m) /\ "meta" \notin files[m]
  /\ qd[m] \in {"cut", "header", "body"} => files[m] \in {{"header"}, {"header", "body"}}
  /\ qd[m] \in {"cut", "new", "open", "header", "body"} => \A r \in Rcpt : attempts[m][r] = 0

LeftInv ==
  /\ LifeShape /\ FreshEmpty /\ \A m \in Msg : GoneShape(m)
  /\ InterruptedOnce => \A m \in Msg : OnDisk(m) => RemovedInOrder(m) /\ Attended(m)
  /\ faults = 0 /\ ~AllowClose => \A m \in Msg : NotHeard(m)

-----------------------------------------------------------------------------
(* Claims of the repository that the code does not keep *)

\* tryDelivery: "At this point, it is safe on disk and next try will reread it."
NextTryRereads ==
  \A m \in Msg, r \in Rcpt :
    (Undisturbed /\ qd[m] = "committed" /\ rcpts[m][r] > 0 /\ ~Settled(m, r)) => Complete(m)

\* queue_test.go:548, TestQueueDelivery_DeserializationCleanUp (its sub-test NoMeta is
\* skipped): "Nothing should be left."
NothingDangles ==
  \A m \in Msg : (Serving /\ faults = 0 /\ qd[m] = "cut") => files[m] = {}

=============================================================================
