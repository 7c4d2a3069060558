---------------------------- MODULE QueueProofs ----------------------------
(***************************************************************************)
(* Proofs about Queue for every number of messages, recipients, goroutines *)
(* and retries, and without a bound on crashes and storage errors.         *)
(***************************************************************************)
EXTENDS Queue, FiniteSetTheorems, TLAPS

-----------------------------------------------------------------------------
(* The arithmetic of tryDelivery's loop *)

\* Of the n entries of an address at most n are given up on.
LEMMA GivenUpEntriesType ==
  ASSUME NEW t \in Nat, NEW n \in Nat
  PROVE  GivenUpEntries(t, n) \in Nat /\ GivenUpEntries(t, n) <= n
<1> DEFINE S == {i \in 1..n : (t + i) % MaxTries = 0}
<1>1. IsFiniteSet(1..n) /\ Cardinality(1..n) = n
  BY FS_Interval
<1>2. S \subseteq 1..n
  OBVIOUS
<1>3. Cardinality(S) <= Cardinality(1..n) /\ IsFiniteSet(S)
  BY <1>1, <1>2, FS_Subset
<1>4. Cardinality(S) \in Nat
  BY <1>3, FS_CardinalityType
<1> QED
  BY <1>1, <1>3, <1>4 DEF GivenUpEntries

\* The loop of tryDelivery yields a meta-data record and a list of failures.
LEMMA NewMetaType ==
  ASSUME NEW md \in Meta, NEW errs \in [Rcpt -> Status]
  PROVE  NewMeta(md, errs) \in Meta /\ FailedRcpts(md, errs) \in Bag
<1> DEFINE k(r) == GivenUpEntries(md.tries[r], md.to[r])
<1>1. ASSUME NEW r \in Rcpt
      PROVE  /\ k(r) \in Nat /\ k(r) <= md.to[r]
             /\ md.to[r] \in Nat /\ md.tries[r] \in Nat
  BY GivenUpEntriesType DEF Meta, Bag
<1>2. ASSUME NEW r \in Rcpt PROVE (md.tries[r] + md.to[r]) % MaxTries \in Nat
  BY <1>1, ConstantsAssumption
<1>3. FailedRcpts(md, errs) \in Bag
  BY <1>1 DEF FailedRcpts, Bag, Status
<1>4. NewMeta(md, errs).to \in Bag
  <2> HIDE DEF k
  <2>1. ASSUME NEW r \in Rcpt PROVE md.to[r] - k(r) \in Nat
    BY <1>1
  <2> QED BY <2>1, <1>1 DEF NewMeta, Bag, Status, k
<1>5. NewMeta(md, errs).tries \in Bag
  BY <1>1, <1>2 DEF NewMeta, Bag, Status
<1> QED
  BY <1>3, <1>4, <1>5 DEF NewMeta, Meta

\* An entry with an error is requeued or reported.
LEMMA ErrorsSplit ==
  ASSUME NEW md \in Meta, NEW errs \in [Rcpt -> Status], NEW r \in Rcpt,
         md.to[r] > 0, errs[r] # "ok"
  PROVE  NewMeta(md, errs).to[r] > 0 \/ FailedRcpts(md, errs)[r] > 0
<1>1. md.to[r] \in Nat /\ md.tries[r] \in Nat
  BY DEF Meta, Bag
<1> DEFINE k == GivenUpEntries(md.tries[r], md.to[r])
<1>2. k \in Nat /\ k <= md.to[r]
  BY <1>1, GivenUpEntriesType
<1>3. CASE errs[r] = "perm"
  BY <1>3, <1>1 DEF FailedRcpts
<1>4. CASE errs[r] = "temp"
  <2>1. FailedRcpts(md, errs)[r] = k /\ NewMeta(md, errs).to[r] = md.to[r] - k
    BY <1>4 DEF FailedRcpts, NewMeta
  <2> HIDE DEF k
  <2> QED BY <2>1, <1>1, <1>2
<1> QED
  BY <1>3, <1>4 DEF Status

(* Queue.deliver *)

\* A recipient without an error was taken by the target.
LEMMA RepliesSound ==
  ASSUME NEW to \in Bag, NEW reply \in DeliverReplies(to)
  PROVE  /\ reply.errs \in [Rcpt -> Status]
         /\ reply.taken \subseteq Members(to)
         /\ \A r \in Members(to) : reply.errs[r] = "ok" => r \in reply.taken
<1>1. CASE \E e \in Failure : reply \in Replies(to, e)
  BY <1>1 DEF Replies, Failure, Status, Members
<1>2. ASSUME NEW add \in StatusFor(Members(to)), NEW acc \in Accepting(to, add),
             reply \in SendBody(add, acc)
      PROVE  /\ reply.errs \in [Rcpt -> Status]
             /\ reply.taken \subseteq Members(to)
             /\ \A r \in Members(to) : reply.errs[r] = "ok" => r \in reply.taken
  <2>1. add \in [Rcpt -> Status]
    BY DEF StatusFor
  <2>2. acc \subseteq Members(to) /\ \A r \in Members(to) : add[r] = "ok" => r \in acc
    BY DEF Accepting
  <2>3. CASE acc = {}
    BY <1>2, <2>1, <2>2, <2>3 DEF SendBody
  <2>4. CASE acc # {}
    <3>1. PICK st \in StatusFor(acc) :
            reply \in FinishDelivery([r \in Rcpt |-> IF st[r] # "ok" THEN st[r] ELSE add[r]],
                                     acc, {r \in acc : st[r] = "ok"})
      BY <1>2, <2>4 DEF SendBody
    <3> DEFINE errs == [r \in Rcpt |-> IF st[r] # "ok" THEN st[r] ELSE add[r]]
               oks == {r \in acc : st[r] = "ok"}
    <3>2. st \in [Rcpt -> Status]
      BY DEF StatusFor
    <3>3. errs \in [Rcpt -> Status]
      BY <3>2, <2>1
    <3>4. \A r \in Members(to) : errs[r] = "ok" => r \in oks
      BY <2>2 DEF Members
    <3>5. oks \subseteq Members(to)
      BY <2>2
    <3> HIDE DEF errs, oks
    <3>6. CASE reply = [errs |-> errs, taken |-> {}] /\ \A r \in acc : errs[r] # "ok"
      <4>1. \A r \in Members(to) : errs[r] # "ok"
        BY <3>6, <3>4 DEF oks
      <4> QED BY <4>1, <3>6, <3>3
    <3>7. CASE reply = [errs |-> errs, taken |-> oks]
      BY <3>7, <3>3, <3>4, <3>5
    <3>8. ASSUME NEW e \in Failure,
                 reply = [errs |-> [r \in Rcpt |-> IF r \in acc THEN e ELSE errs[r]], taken |-> {}]
          PROVE  /\ reply.errs \in [Rcpt -> Status]
                 /\ reply.taken \subseteq Members(to)
                 /\ \A r \in Members(to) : reply.errs[r] = "ok" => r \in reply.taken
      <4>1. \A r \in Members(to) : r \notin acc => errs[r] # "ok"
        BY <3>4 DEF oks
      <4> QED BY <4>1, <3>8, <3>3 DEF Failure, Status, Members
    <3> QED
      BY <3>1, <3>6, <3>7, <3>8 DEF FinishDelivery, errs, oks
  <2> QED BY <2>3, <2>4
<1> QED
  BY <1>1, <1>2 DEF DeliverReplies

-----------------------------------------------------------------------------
(* Type correctness *)

\* The values of a goroutine that does nothing, of unwritten meta-data and of an
\* empty recipient list have their types.
LEMMA NoWorkType == NoWork \in Work /\ NoMeta \in Meta /\ NoRcpts \in Bag
<1>1. NoRcpts \in Bag
  BY DEF NoRcpts, Bag
<1>2. NoMeta \in Meta
  BY <1>1 DEF NoMeta, Meta
<1>3. (CHOOSE m \in Msg : TRUE) \in Msg
  BY ConstantsAssumption
<1> QED
  BY <1>1, <1>2, <1>3 DEF NoWork, Work, WorkerState

\* A removal of one file keeps the types of files and of the fault counter.
LEMMA RemoveFileType ==
  ASSUME TypeOK, NEW m \in Msg, NEW f, RemoveFile(m, f)
  PROVE  files' \in [Msg -> SUBSET FileKind] /\ crashes' \in Nat /\ faults' \in Nat
BY DEF TypeOK, RemoveFile, boundVars, Fault

\* A queue that was just set up, with an empty directory, is well-typed.
LEMMA TypeInit == Init => TypeOK
<1> SUFFICES ASSUME Init PROVE TypeOK
  OBVIOUS
<1>1. NoWork \in Work /\ NoMeta \in Meta /\ NoRcpts \in Bag
  BY NoWorkType
<1>2. NoBoot \in Boot
  BY DEF Boot
<1> QED
  BY <1>1, <1>2 DEF Init, TypeOK, SourceState, Live

\* No operation of a source, a goroutine, readDiskQueue or Close, and no crash,
\* gives a variable a value outside its type.
LEMMA TypeStep == TypeOK /\ [Next]_vars => TypeOK'
<1> SUFFICES ASSUME TypeOK, [Next]_vars PROVE TypeOK'
  OBVIOUS
<1> USE DEF diskVars, wheelVars, bootVars, sourceVars, outsideVars, boundVars
<1>1. ASSUME NEW m \in Msg, SourceStep(m) PROVE TypeOK'
  <2>1. CASE Start(m)
    BY <2>1 DEF Start, TypeOK, SourceState, Live, Writing
  <2>2. ASSUME NEW r \in Rcpt, AddRcpt(m, r) PROVE TypeOK'
    BY <2>2 DEF AddRcpt, TypeOK, Bag
  <2>3. CASE StoreHeader(m)
    BY <2>3 DEF StoreHeader, TypeOK, SourceState, Live, Writing, FileKind
  <2>4. CASE StoreBody(m)
    BY <2>4 DEF StoreBody, TypeOK, SourceState, Live, Writing, FileKind
  <2>5. CASE StoreMeta(m)
    <3>1. InitMeta(m) \in Meta
      BY NoWorkType DEF InitMeta, Meta, TypeOK
    <3> QED BY <2>5, <3>1 DEF StoreMeta, TypeOK, SourceState, Live, Writing, FileKind
  <2>6. CASE StoreSync(m)
    BY <2>6 DEF StoreSync, TypeOK, SourceState, Live
  <2>7. CASE StoreFails(m)
    <3>1. \A left \in Leftovers(m) : left \in SUBSET FileKind
      BY <2>7 DEF StoreFails, Leftovers, Writing, FileKind, TypeOK
    <3> QED BY <2>7, <3>1 DEF StoreFails, TypeOK, SourceState, Fault
  <2>8. CASE Abort(m)
    BY <2>8 DEF Abort, TypeOK, SourceState, Live, AbortStep
  <2>9. CASE AbortRemove(m)
    <3>1. NextAbort[qd[m]] \in SourceState
      BY <2>9 DEF AbortRemove, AbortStep, NextAbort, SourceState, Live
    <3> QED BY <2>9, <3>1, RemoveFileType DEF AbortRemove, TypeOK
  <2>10. CASE Commit(m)
    BY <2>10 DEF Commit, TypeOK, SourceState, Live
  <2>11. CASE CommitReturns(m)
    BY <2>11 DEF CommitReturns, TypeOK, SourceState, Live
  <2> QED
    BY <1>1, <2>1, <2>2, <2>3, <2>4, <2>5, <2>6, <2>7, <2>8, <2>9, <2>10, <2>11 DEF SourceStep
<1>2. ASSUME NEW g \in Goroutine, WorkerStep(g) PROVE TypeOK'
  <2>0. /\ work[g] \in Work /\ work[g].id \in Msg /\ work[g].meta \in Meta
        /\ work[g].fail \in Bag /\ work \in [Goroutine -> Work]
    BY DEF TypeOK, Work
  <2>1. CASE Open(g)
    <3>1. InitMeta(work[g].id) \in Meta /\ meta[work[g].id] \in Meta
      BY <2>0, NoWorkType DEF InitMeta, Meta, TypeOK
    <3>2. AfterFailedOpen(files[work[g].id]) \in SUBSET FileKind
          \/ Complete(work[g].id)
      BY <2>0 DEF AfterFailedOpen, TypeOK, Complete
    <3>3. work' \in [Goroutine -> Work] 
      BY <2>0, <2>1, <3>1, NoWorkType DEF Open, Work, WorkerState, Busy
    <3> QED BY <2>0, <2>1, <3>2, <3>3 DEF Open, TypeOK, Fault
  <2>2. CASE Deliver(g)
    <3>1. PICK reply \in DeliverReplies(work[g].meta.to) :
           LET md == NewMeta(work[g].meta, reply.errs)
               failed == FailedRcpts(work[g].meta, reply.errs)
               next == IF Members(failed) # {} THEN "dsn" ELSE AfterReport(md)
           IN /\ work' = [work EXCEPT ![g] = [pc |-> next, id |-> work[g].id, meta |-> md, fail |-> failed]]
              /\ delivered' = [delivered EXCEPT ![work[g].id] =
                  [r \in Rcpt |-> IF r \in reply.taken THEN delivered[work[g].id][r] + 1
                                  ELSE delivered[work[g].id][r]]]
      BY <2>2 DEF Deliver
    <3>2. reply.errs \in [Rcpt -> Status]
      BY <2>0, RepliesSound DEF Meta
    <3>3. NewMeta(work[g].meta, reply.errs) \in Meta /\ FailedRcpts(work[g].meta, reply.errs) \in Bag
      BY <2>0, <3>2, NewMetaType
    <3>4. work' \in [Goroutine -> Work]
      BY <2>0, <3>1, <3>3 DEF Work, WorkerState, Busy, RemovalStep, AfterReport
    <3>5. delivered' \in [Msg -> Bag]
      BY <2>0, <3>1 DEF TypeOK, Bag
    <3>6. attempts' \in [Msg -> Bag]
      BY <2>0, <2>2 DEF Deliver, TypeOK, Bag
    <3> QED BY <2>2, <3>4, <3>5, <3>6 DEF Deliver, TypeOK
  <2>3. CASE TargetPanics(g)
    <3>1. work' \in [Goroutine -> Work]
      BY <2>0, <2>3 DEF TargetPanics, Work, WorkerState
    <3> QED BY <2>3, <3>1 DEF TargetPanics, TypeOK, Fault
  <2>4. CASE EmitDSN(g)
    <3>1. work' \in [Goroutine -> Work]
      BY <2>0, <2>4 DEF EmitDSN, Work, WorkerState, Busy, RemovalStep, AfterReport
    <3>2. givenUp' \in [Msg -> SUBSET Rcpt]
      BY <2>0, <2>4 DEF EmitDSN, TypeOK, Members
    <3>3. bounced' \in [Msg -> Bag]
      <4> DEFINE b == [r \in Rcpt |-> bounced[work[g].id][r] + work[g].fail[r]]
      <4>1. b \in Bag
        BY <2>0 DEF TypeOK, Bag
      <4>2. bounced' = [bounced EXCEPT ![work[g].id] = b] \/ bounced' = bounced
        BY <2>4 DEF EmitDSN
      <4> HIDE DEF b
      <4> QED BY <2>0, <4>1, <4>2 DEF TypeOK
    <3>4. crashes' \in Nat /\ faults' \in Nat
      BY <2>4 DEF EmitDSN, TypeOK, Fault
    <3> QED BY <2>4, <3>1, <3>2, <3>3, <3>4 DEF EmitDSN, TypeOK
  <2>5. CASE Remove(g)
    <3>1. work' \in [Goroutine -> Work]
      <4>1. CASE work[g].pc = "meta"
        BY <4>1, <2>0, <2>5, NoWorkType DEF Remove
      <4>2. CASE work[g].pc # "meta"
        <5>1. NextRemoval[work[g].pc] \in WorkerState
          BY <4>2, <2>5 DEF Remove, RemovalStep, NextRemoval, WorkerState, Busy
        <5> QED BY <4>2, <5>1, <2>0, <2>5 DEF Remove, Work
      <4> QED BY <4>1, <4>2
    <3> QED BY <2>0, <2>5, <3>1, RemoveFileType DEF Remove, TypeOK
  <2>6. CASE UpdateMeta(g)
    <3>1. work' \in [Goroutine -> Work]
      BY <2>0, <2>6 DEF UpdateMeta, Work, WorkerState, Busy
    <3> QED BY <2>0, <2>6, <3>1 DEF UpdateMeta, TypeOK, Fault, FileKind
  <2>7. CASE Requeue(g)
    <3>1. work' \in [Goroutine -> Work]
      BY <2>0, <2>7, NoWorkType DEF Requeue, Work, WorkerState
    <3> QED BY <2>0, <2>7, <3>1 DEF Requeue, TypeOK
  <2>8. CASE RequeueReturns(g)
    <3>1. work' \in [Goroutine -> Work]
      BY <2>0, <2>8, NoWorkType DEF RequeueReturns, Work, WorkerState
    <3> QED BY <2>8, <3>1 DEF RequeueReturns, TypeOK
  <2>9. CASE DiscardBroken(g)
    <3>1. work' \in [Goroutine -> Work]
      BY <2>0, <2>9, NoWorkType DEF DiscardBroken
    <3> QED BY <2>0, <2>9, <3>1 DEF DiscardBroken, TypeOK, FileKind
  <2> QED
    BY <1>2, <2>1, <2>2, <2>3, <2>4, <2>5, <2>6, <2>7, <2>8, <2>9 DEF WorkerStep
<1>3. ASSUME NEW g \in Goroutine, NEW m \in Msg, Dispatch(g, m) PROVE TypeOK'
  <2>1. slot[m] \in WorkerState
    BY <1>3 DEF Dispatch, TypeOK, WorkerState, Waiting
  <2>2. work' \in [Goroutine -> Work]
    BY <1>3, <2>1, NoWorkType DEF Dispatch, TypeOK, Work
  <2> QED BY <1>3, <2>2 DEF Dispatch, TypeOK
<1>4. CASE BootStep
  <2>1. CASE Restart
    BY <2>1 DEF Restart, TypeOK
  <2>2. ASSUME NEW m \in Msg, ReadEntry(m) PROVE TypeOK'
    BY <2>2 DEF ReadEntry, TypeOK, Boot, Fault
  <2>3. CASE CleanSecondFile
    BY <2>3 DEF CleanSecondFile, TypeOK, Boot
  <2>4. CASE LoadReturns
    BY <2>4 DEF LoadReturns, TypeOK, Boot
  <2> QED BY <1>4, <2>1, <2>2, <2>3, <2>4 DEF BootStep
<1>5. CASE CloseStart
  BY <1>5 DEF CloseStart, TypeOK
<1>6. CASE CloseHandshake
  BY <1>6 DEF CloseHandshake, TypeOK
<1>7. ASSUME Down, crashes' \in Nat, faults' \in Nat PROVE TypeOK'
  BY <1>7, NoWorkType DEF Down, TypeOK, SourceState, Boot
<1>8. CASE Exit
  BY <1>7, <1>8 DEF Exit, TypeOK
<1>9. CASE Crash
  BY <1>7, <1>9 DEF Crash, TypeOK
<1>10. CASE UNCHANGED vars
  BY <1>10 DEF vars, TypeOK
<1> QED
  BY <1>1, <1>2, <1>3, <1>4, <1>5, <1>6, <1>8, <1>9, <1>10 DEF Next

\* Every reachable state is well-typed.
THEOREM TypeCorrect == Spec => []TypeOK
BY TypeInit, TypeStep, PTL DEF Spec

-----------------------------------------------------------------------------
(* What the steps leave alone *)

\* A source touches only its own message, and only in a running process.
LEMMA SourceFrame ==
  ASSUME TypeOK, NEW m \in Msg, SourceStep(m)
  PROVE  /\ UNCHANGED <<up, todo, boot, work, delivered, givenUp>>
         /\ \A n \in Msg \ {m} : /\ files'[n] = files[n] /\ meta'[n] = meta[n]
                                 /\ slot'[n] = slot[n] /\ qd'[n] = qd[n] /\ rcpts'[n] = rcpts[n]
         /\ qd[m] \in Live \/ (qd[m] = "new" /\ Serving)
         /\ qd'[m] # "new"
         /\ qd'[m] \in Writing \cup {"stored"} => slot'[m] = slot[m]
<1> USE DEF diskVars, wheelVars, bootVars, sourceVars, outsideVars, boundVars, TypeOK, Live, Writing
<1>1. CASE Start(m)
  BY <1>1 DEF Start
<1>2. ASSUME NEW r \in Rcpt, AddRcpt(m, r)
      PROVE  qd' = qd /\ qd[m] = "open" /\ \A n \in Msg \ {m} : rcpts'[n] = rcpts[n]
  BY <1>2 DEF AddRcpt
<1>3. CASE StoreHeader(m) \/ StoreBody(m) \/ StoreMeta(m) \/ StoreSync(m)
  BY <1>3 DEF StoreHeader, StoreBody, StoreMeta, StoreSync
<1>4. CASE StoreFails(m)
  BY <1>4 DEF StoreFails
<1>5. CASE Abort(m)
  BY <1>5 DEF Abort, AbortStep
<1>6. CASE AbortRemove(m)
  <2>1. qd'[m] = NextAbort[qd[m]] /\ qd[m] \in AbortStep
    BY <1>6 DEF AbortRemove
  <2>2. qd'[m] \in AbortStep \cup {"aborted"}
    BY <2>1 DEF AbortStep, NextAbort
  <2> QED BY <1>6, <2>1, <2>2 DEF AbortRemove, RemoveFile, AbortStep, Fault
<1>7. CASE Commit(m)
  BY <1>7 DEF Commit
<1>8. CASE CommitReturns(m)
  BY <1>8 DEF CommitReturns
<1>9. ASSUME NEW r \in Rcpt, AddRcpt(m, r)
      PROVE  UNCHANGED <<up, todo, boot, work, delivered, givenUp, files, meta, slot>>
  BY <1>9 DEF AddRcpt
<1> QED
  BY <1>1, <1>2, <1>3, <1>4, <1>5, <1>6, <1>7, <1>8, <1>9 DEF SourceStep

\* A goroutine touches only its own message and leaves the sources alone.
LEMMA WorkerFrame ==
  ASSUME TypeOK, NEW g \in Goroutine, WorkerStep(g)
  PROVE  /\ UNCHANGED <<up, todo, boot, qd, rcpts>>
         /\ work[g].id \in Msg /\ work[g].pc # "idle"
         /\ \A h \in Goroutine \ {g} : work'[h] = work[h]
         /\ work'[g].pc = "idle" \/ work'[g].id = work[g].id
         /\ \A n \in Msg \ {work[g].id} : files'[n] = files[n] /\ meta'[n] = meta[n] /\ slot'[n] = slot[n]
<1> USE DEF diskVars, wheelVars, bootVars, sourceVars, outsideVars, boundVars
<1>1. work[g].id \in Msg /\ work \in [Goroutine -> Work]
  BY DEF TypeOK, Work
<1>2. NoWork.pc = "idle"
  BY DEF NoWork
<1>3. CASE Open(g)
  BY <1>1, <1>2, <1>3 DEF Open, Waiting, Work, TypeOK
<1>4. CASE Deliver(g)
  BY <1>1, <1>4 DEF Deliver, Work
<1>5. CASE TargetPanics(g) \/ EmitDSN(g)
  BY <1>1, <1>5 DEF TargetPanics, EmitDSN, Work
<1>6. CASE Remove(g)
  <2>1. /\ work' = [work EXCEPT ![g] = NoWork] \/ \E p : work' = [work EXCEPT ![g] = [work[g] EXCEPT !.pc = p]]
        /\ UNCHANGED <<meta, wheelVars, bootVars, sourceVars>>
        /\ work[g].pc \in RemovalStep
    BY <1>6 DEF Remove
  <2>2. \A n \in Msg \ {work[g].id} : files'[n] = files[n]
    BY <1>1, <1>6 DEF Remove, RemoveFile, TypeOK
  <2> QED BY <1>1, <1>2, <2>1, <2>2 DEF RemovalStep, Work
<1>7. CASE UpdateMeta(g)
  BY <1>1, <1>7 DEF UpdateMeta, TypeOK, Work
<1>8. CASE Requeue(g)
  BY <1>1, <1>2, <1>8 DEF Requeue, TypeOK, Work
<1>9. CASE RequeueReturns(g)
  BY <1>1, <1>2, <1>9 DEF RequeueReturns, Work
<1>10. CASE DiscardBroken(g)
  BY <1>1, <1>2, <1>10 DEF DiscardBroken, TypeOK, Work
<1> QED
  BY <1>3, <1>4, <1>5, <1>6, <1>7, <1>8, <1>9, <1>10 DEF WorkerStep

-----------------------------------------------------------------------------
(* ShapeInv: who may touch what *)

\* ShapeInv holds of the empty queue.
LEMMA ShapeInit == Init => ShapeInv
<1> SUFFICES ASSUME Init PROVE ShapeInv
  OBVIOUS
<1>1. TypeOK
  BY TypeInit
<1>2. \A g \in Goroutine : work[g].pc = "idle"
  BY DEF Init, NoWork
<1> QED
  BY <1>1, <1>2 DEF Init, ShapeInv, StoredSoFar, PrivateUntilCommit, Untouched, TodoIntact, DownIsEmpty

\* storeNewMessage finds the files it has written: nothing removes or rewrites
\* them while the source is still in Body.
LEMMA StoredSoFarStep == ShapeInv /\ [Next]_vars => StoredSoFar'
<1> SUFFICES ASSUME ShapeInv, [Next]_vars PROVE StoredSoFar'
  OBVIOUS
<1> USE DEF diskVars, wheelVars, bootVars, sourceVars, outsideVars, boundVars
<1>0. TypeOK /\ StoredSoFar /\ PrivateUntilCommit /\ TodoIntact /\ DownIsEmpty
  BY DEF ShapeInv
<1>1. ASSUME UNCHANGED <<files, meta, qd, rcpts>> PROVE StoredSoFar'
  BY <1>0, <1>1 DEF StoredSoFar, InitMeta
\* A message that is not being stored may change in any way.
<1>2. ASSUME UNCHANGED <<qd, rcpts>>, NEW n \in Msg, qd[n] \notin {"new"} \cup Writing,
             \A k \in Msg \ {n} : files'[k] = files[k] /\ meta'[k] = meta[k]
      PROVE  StoredSoFar'
  BY <1>0, <1>2 DEF StoredSoFar, InitMeta, Writing
<1>3. ASSUME NEW m \in Msg, SourceStep(m) PROVE StoredSoFar'
  <2>1. SUFFICES /\ qd'[m] \in {"header", "body", "meta"} => "header" \in files'[m]
                 /\ qd'[m] \in {"body", "meta"} => "body" \in files'[m]
                 /\ qd'[m] = "meta" => "meta" \in files'[m] /\ meta'[m] = InitMeta(m)'
    BY <1>0, <1>3, SourceFrame DEF StoredSoFar, InitMeta
  <2>2. CASE Start(m) \/ Abort(m) \/ Commit(m) \/ CommitReturns(m) \/ StoreSync(m) \/ StoreFails(m)
    BY <1>0, <2>2 DEF Start, Abort, Commit, CommitReturns, StoreSync, StoreFails, TypeOK
  <2>3. ASSUME NEW r \in Rcpt, AddRcpt(m, r) PROVE qd'[m] = "open"
    BY <2>3 DEF AddRcpt
  <2>4. CASE StoreHeader(m)
    BY <1>0, <2>4 DEF StoreHeader, TypeOK
  <2>5. CASE StoreBody(m)
    BY <1>0, <2>5 DEF StoreBody, StoredSoFar, TypeOK
  <2>6. CASE StoreMeta(m)
    BY <1>0, <2>6 DEF StoreMeta, StoredSoFar, InitMeta, TypeOK
  <2>7. CASE AbortRemove(m)
    BY <1>0, <2>7 DEF AbortRemove, AbortStep, NextAbort, TypeOK
  <2> QED BY <1>3, <2>2, <2>3, <2>4, <2>5, <2>6, <2>7 DEF SourceStep
<1>4. ASSUME NEW g \in Goroutine, WorkerStep(g) PROVE StoredSoFar'
  <2>1. qd[work[g].id] \notin {"new"} \cup Writing
    BY <1>0, <1>4, WorkerFrame DEF PrivateUntilCommit, Untouched
  <2> QED BY <1>0, <1>2, <1>4, <2>1, WorkerFrame
<1>5. ASSUME NEW g \in Goroutine, NEW m \in Msg, Dispatch(g, m) PROVE StoredSoFar'
  BY <1>1, <1>5 DEF Dispatch
<1>6. CASE BootStep
  <2>1. CASE Restart \/ LoadReturns
    BY <1>1, <2>1 DEF Restart, LoadReturns
  <2>2. ASSUME NEW m \in Msg, ReadEntry(m) PROVE StoredSoFar'
    <3>1. qd[m] \notin {"new"} \cup Writing
      BY <1>0, <2>2 DEF ReadEntry, PrivateUntilCommit, Untouched
    <3>2. UNCHANGED <<qd, rcpts>> /\ \A k \in Msg \ {m} : files'[k] = files[k] /\ meta'[k] = meta[k]
      BY <1>0, <2>2 DEF ReadEntry, TypeOK
    <3> QED BY <1>2, <3>1, <3>2
  <2>3. CASE CleanSecondFile
    <3>1. boot # NoBoot /\ boot.id \in Msg
      BY <1>0, <2>3 DEF CleanSecondFile, TypeOK, Boot, NoBoot
    <3>2. qd[boot.id] \notin {"new"} \cup Writing
      BY <1>0, <3>1 DEF PrivateUntilCommit, Untouched
    <3> QED BY <1>0, <1>2, <2>3, <3>1, <3>2 DEF CleanSecondFile, TypeOK
  <2> QED BY <1>6, <2>1, <2>2, <2>3 DEF BootStep
<1>7. CASE CloseStart \/ CloseHandshake
  BY <1>1, <1>7 DEF CloseStart, CloseHandshake
<1>8. CASE Down
  <2>1. \A m \in Msg : /\ qd'[m] \notin {"header", "body", "meta"}
                       /\ qd'[m] = "new" => qd[m] = "new"
    BY <1>0, <1>8 DEF Down, Live, Writing, TypeOK, SourceState
  <2> QED BY <1>0, <1>8, <2>1 DEF Down, StoredSoFar
<1>9. CASE UNCHANGED vars
  BY <1>1, <1>9 DEF vars
<1> QED
  BY <1>3, <1>4, <1>5, <1>6, <1>7, <1>8, <1>9 DEF Next, Exit, Crash

\* No step puts a slot, a goroutine or readDiskQueue on a message before Commit:
\* a message enters the wheel through Commit, Requeue (of a message a goroutine
\* already has) or a restart (after which no source holds its delivery).
LEMMA PrivateStep == ShapeInv /\ [Next]_vars => PrivateUntilCommit'
<1> SUFFICES ASSUME ShapeInv, [Next]_vars PROVE PrivateUntilCommit'
  OBVIOUS
<1> USE DEF diskVars, wheelVars, bootVars, sourceVars, outsideVars, boundVars
<1>0. TypeOK /\ StoredSoFar /\ PrivateUntilCommit /\ TodoIntact /\ DownIsEmpty
  BY DEF ShapeInv
<1>1. CASE UNCHANGED <<qd, slot, todo, boot, work>>
  BY <1>0, <1>1 DEF PrivateUntilCommit, Untouched
<1>2. ASSUME NEW m \in Msg, SourceStep(m) PROVE PrivateUntilCommit'
  <2>1. \A n \in Msg \ {m} : qd'[n] \in {"new", "stored"} \cup Writing => Untouched(n)'
    BY <1>0, <1>2, SourceFrame DEF PrivateUntilCommit, Untouched
  <2>2. qd'[m] \in {"stored"} \cup Writing => qd[m] \in {"new"} \cup Writing
    <3>1. CASE Start(m) \/ StoreHeader(m) \/ StoreBody(m) \/ StoreMeta(m) \/ StoreSync(m)
      BY <3>1 DEF Start, StoreHeader, StoreBody, StoreMeta, StoreSync, Writing
    <3>2. ASSUME NEW r \in Rcpt, AddRcpt(m, r) PROVE qd' = qd /\ qd[m] = "open"
      BY <3>2 DEF AddRcpt
    <3>3. CASE StoreFails(m) \/ Abort(m) \/ Commit(m) \/ CommitReturns(m)
      BY <1>0, <3>3 DEF StoreFails, Abort, Commit, CommitReturns, TypeOK, Writing
    <3>4. CASE AbortRemove(m)
      BY <1>0, <3>4 DEF AbortRemove, AbortStep, NextAbort, TypeOK, Writing
    <3> QED BY <1>2, <3>1, <3>2, <3>3, <3>4 DEF SourceStep, Writing
  <2>3. qd'[m] \in {"new", "stored"} \cup Writing => Untouched(m)'
    BY <1>0, <1>2, <2>2, SourceFrame DEF PrivateUntilCommit, Untouched
  <2> QED BY <2>1, <2>3 DEF PrivateUntilCommit
<1>3. ASSUME NEW g \in Goroutine, WorkerStep(g) PROVE PrivateUntilCommit'
  <2>1. qd[work[g].id] \notin {"new", "stored"} \cup Writing
    BY <1>0, <1>3, WorkerFrame DEF PrivateUntilCommit, Untouched
  <2> QED BY <1>0, <1>3, <2>1, WorkerFrame DEF PrivateUntilCommit, Untouched
<1>4. ASSUME NEW g \in Goroutine, NEW m \in Msg, Dispatch(g, m) PROVE PrivateUntilCommit'
  <2>1. qd[m] \notin {"new", "stored"} \cup Writing
    BY <1>0, <1>4 DEF PrivateUntilCommit, Untouched, Dispatch
  <2>2. work'[g].id = m /\ \A h \in Goroutine \ {g} : work'[h] = work[h]
    BY <1>0, <1>4 DEF Dispatch, TypeOK, Work, NoWork
  <2>3. UNCHANGED <<qd, todo, boot>> /\ \A n \in Msg \ {m} : slot'[n] = slot[n]
    BY <1>0, <1>4 DEF Dispatch, TypeOK
  <2> QED BY <1>0, <2>1, <2>2, <2>3 DEF PrivateUntilCommit, Untouched
<1>5. CASE BootStep
  <2>1. CASE Restart
    <3>1. \A m \in Msg : qd[m] \in {"new", "stored"} \cup Writing => qd[m] = "new" /\ files[m] = {}
      BY <1>0, <2>1 DEF Restart, DownIsEmpty, Live, StoredSoFar
    <3> QED BY <1>0, <2>1, <3>1 DEF Restart, PrivateUntilCommit, Untouched
  <2>2. ASSUME NEW m \in Msg, ReadEntry(m) PROVE PrivateUntilCommit'
    <3>1. qd[m] \notin {"new", "stored"} \cup Writing
      BY <1>0, <2>2 DEF ReadEntry, PrivateUntilCommit, Untouched
    <3>2. /\ UNCHANGED <<qd, work>> /\ \A n \in Msg \ {m} : slot'[n] = slot[n]
          /\ todo' \subseteq todo /\ (boot' = boot \/ boot'.id = m)
      BY <1>0, <2>2 DEF ReadEntry, TypeOK
    <3> QED BY <1>0, <3>1, <3>2 DEF PrivateUntilCommit, Untouched
  <2>3. CASE CleanSecondFile \/ LoadReturns
    BY <1>0, <2>3 DEF CleanSecondFile, LoadReturns, PrivateUntilCommit, Untouched
  <2> QED BY <1>5, <2>1, <2>2, <2>3 DEF BootStep
<1>6. CASE CloseStart \/ CloseHandshake
  BY <1>1, <1>6 DEF CloseStart, CloseHandshake
<1>7. CASE Down
  BY <1>7 DEF Down, PrivateUntilCommit, Untouched, NoWork
<1>8. CASE UNCHANGED vars
  BY <1>1, <1>8 DEF vars
<1> QED
  BY <1>2, <1>3, <1>4, <1>5, <1>6, <1>7, <1>8 DEF Next, Exit, Crash

\* Until readDiskQueue reaches an entry nobody else touches its files: the sources
\* of the crashed process are gone and goroutines only work on dispatched slots.
LEMMA TodoStep == ShapeInv /\ [Next]_vars => TodoIntact'
<1> SUFFICES ASSUME ShapeInv, [Next]_vars PROVE TodoIntact'
  OBVIOUS
<1> USE DEF diskVars, wheelVars, bootVars, sourceVars, outsideVars, boundVars
<1>0. TypeOK /\ TodoIntact /\ DownIsEmpty
  BY DEF ShapeInv
<1>1. CASE UNCHANGED <<todo, files, slot, qd, work>>
  BY <1>0, <1>1 DEF TodoIntact
<1>2. ASSUME NEW m \in Msg, SourceStep(m) PROVE TodoIntact'
  <2>1. m \notin todo
    BY <1>0, <1>2, SourceFrame DEF TodoIntact, Serving
  <2> QED BY <1>0, <1>2, <2>1, SourceFrame DEF TodoIntact, TypeOK
<1>3. ASSUME NEW g \in Goroutine, WorkerStep(g) PROVE TodoIntact'
  <2>1. work[g].id \notin todo
    BY <1>0, <1>3, WorkerFrame DEF TodoIntact
  <2> QED BY <1>0, <1>3, <2>1, WorkerFrame DEF TodoIntact, TypeOK
<1>4. ASSUME NEW g \in Goroutine, NEW m \in Msg, Dispatch(g, m) PROVE TodoIntact'
  <2>1. m \notin todo
    BY <1>0, <1>4 DEF Dispatch, TodoIntact
  <2>2. work'[g].id = m /\ \A h \in Goroutine \ {g} : work'[h] = work[h]
    BY <1>0, <1>4 DEF Dispatch, TypeOK, Work, NoWork
  <2>3. UNCHANGED <<files, qd, todo>> /\ \A n \in Msg \ {m} : slot'[n] = slot[n]
    BY <1>0, <1>4 DEF Dispatch, TypeOK
  <2> QED BY <1>0, <2>1, <2>2, <2>3 DEF TodoIntact, TypeOK
<1>5. CASE BootStep
  <2>1. CASE Restart
    BY <1>0, <2>1 DEF Restart, TodoIntact, DownIsEmpty
  <2>2. ASSUME NEW m \in Msg, ReadEntry(m) PROVE TodoIntact'
    <3>1. /\ UNCHANGED <<qd, work>> /\ todo' = todo \ {m}
          /\ \A n \in Msg \ {m} : slot'[n] = slot[n] /\ files'[n] = files[n]
      BY <1>0, <2>2 DEF ReadEntry, TypeOK
    <3> QED BY <1>0, <3>1 DEF TodoIntact, TypeOK
  <2>3. CASE CleanSecondFile
    <3>1. boot.id \in Msg /\ boot.file \in {"header", "body"}
      BY <1>0, <2>3 DEF CleanSecondFile, TypeOK, Boot, NoBoot
    <3>2. \A n \in Msg : "meta" \in files[n] => "meta" \in files'[n]
      BY <1>0, <2>3, <3>1 DEF CleanSecondFile, TypeOK
    <3>3. UNCHANGED <<todo, slot, qd, work>>
      BY <2>3 DEF CleanSecondFile
    <3> QED BY <1>0, <3>2, <3>3 DEF TodoIntact, TypeOK
  <2>4. CASE LoadReturns
    BY <1>1, <2>4 DEF LoadReturns
  <2> QED BY <1>5, <2>1, <2>2, <2>3, <2>4 DEF BootStep
<1>6. CASE CloseStart \/ CloseHandshake
  BY <1>1, <1>6 DEF CloseStart, CloseHandshake
<1>7. CASE Down
  BY <1>7 DEF Down, TodoIntact
<1>8. CASE UNCHANGED vars
  BY <1>1, <1>8 DEF vars
<1> QED
  BY <1>2, <1>3, <1>4, <1>5, <1>6, <1>7, <1>8 DEF Next, Exit, Crash

\* Exit and Crash leave no slot, goroutine or delivery object behind.
LEMMA DownStep == ShapeInv /\ [Next]_vars => DownIsEmpty'
<1> SUFFICES ASSUME ShapeInv, [Next]_vars PROVE DownIsEmpty'
  OBVIOUS
<1> USE DEF diskVars, wheelVars, bootVars, sourceVars, outsideVars, boundVars
<1>0. TypeOK /\ DownIsEmpty
  BY DEF ShapeInv
<1>1. CASE UNCHANGED <<up, todo, boot, qd, slot, work>>
  BY <1>0, <1>1 DEF DownIsEmpty
<1>2. CASE up'
  BY <1>2 DEF DownIsEmpty
<1>3. ASSUME NEW m \in Msg, SourceStep(m) PROVE up'
  BY <1>0, <1>3, SourceFrame DEF DownIsEmpty, Serving, TypeOK
<1>4. ASSUME NEW g \in Goroutine, WorkerStep(g) PROVE up'
  BY <1>0, <1>4, WorkerFrame DEF DownIsEmpty, TypeOK
<1>5. ASSUME NEW g \in Goroutine, NEW m \in Msg, Dispatch(g, m) PROVE up'
  BY <1>5 DEF Dispatch
<1>6. ASSUME BootStep PROVE up'
  <2>1. CASE Restart
    BY <2>1 DEF Restart
  <2>2. ASSUME NEW m \in Msg, ReadEntry(m) PROVE up'
    BY <2>2 DEF ReadEntry
  <2>3. CASE CleanSecondFile \/ LoadReturns
    BY <1>0, <2>3 DEF CleanSecondFile, LoadReturns, DownIsEmpty, NoBoot, TypeOK
  <2> QED BY <1>6, <2>1, <2>2, <2>3 DEF BootStep
<1>7. CASE CloseStart \/ CloseHandshake
  BY <1>0, <1>7 DEF CloseStart, CloseHandshake, Serving, DownIsEmpty
<1>8. CASE Down
  BY <1>0, <1>8 DEF Down, DownIsEmpty, NoWork, Live, Writing, AbortStep
<1>9. CASE UNCHANGED vars
  BY <1>1, <1>9 DEF vars
<1> QED
  BY <1>2, <1>3, <1>4, <1>5, <1>6, <1>7, <1>8, <1>9 DEF Next, Exit, Crash

\* Every step preserves ShapeInv: the four parts together.
LEMMA ShapeStep == ShapeInv /\ [Next]_vars => ShapeInv'
BY TypeStep, StoredSoFarStep, PrivateStep, TodoStep, DownStep DEF ShapeInv

-----------------------------------------------------------------------------
(* NoSilentLoss *)

\* Nothing but a successful Body makes a message owed; the rest only settles.
LEMMA OwesShrinks ==
  ASSUME ShapeInv, [Next]_vars, NEW n \in Msg, NEW r \in Rcpt, Owes(n, r)'
  PROVE  Owes(n, r) \/ (qd[n] = "meta" /\ StoreSync(n))
<1> USE DEF diskVars, wheelVars, bootVars, sourceVars, outsideVars, boundVars
<1>0. TypeOK /\ TypeOK'
  BY TypeStep DEF ShapeInv
<1>1. CASE UNCHANGED <<qd, rcpts, delivered, givenUp>>
  BY <1>1 DEF Owes, Held, Settled
<1>2. ASSUME NEW m \in Msg, SourceStep(m)
      PROVE  Owes(n, r) \/ (qd[n] = "meta" /\ StoreSync(n))
  <2>1. CASE n # m
    BY <1>0, <1>2, <2>1, SourceFrame DEF Owes, Held, Settled
  <2>2. CASE n = m
    <3>1. CASE StoreSync(m)
      BY <2>2, <3>1 DEF StoreSync
    <3>2. CASE Commit(m) \/ CommitReturns(m)
      BY <2>2, <3>2 DEF Commit, CommitReturns, Owes, Held, Settled
    <3>3. CASE \/ Start(m) \/ StoreHeader(m) \/ StoreBody(m) \/ StoreMeta(m)
               \/ StoreFails(m) \/ Abort(m)
      BY <1>0, <2>2, <3>3 DEF Start, StoreHeader, StoreBody, StoreMeta, StoreFails, Abort,
         Owes, Held, TypeOK
    <3>4. CASE AbortRemove(m)
      BY <1>0, <2>2, <3>4 DEF AbortRemove, AbortStep, NextAbort, Owes, Held, TypeOK
    <3>5. ASSUME NEW s \in Rcpt, AddRcpt(m, s) PROVE FALSE
      BY <2>2, <3>5 DEF AddRcpt, Owes, Held
    <3> QED BY <1>2, <3>1, <3>2, <3>3, <3>4, <3>5 DEF SourceStep
  <2> QED BY <2>1, <2>2
<1>3. ASSUME NEW g \in Goroutine, WorkerStep(g) PROVE Owes(n, r)
  <2>1. qd' = qd /\ rcpts' = rcpts
    BY <1>0, <1>3, WorkerFrame
  <2>2. Settled(n, r) => Settled(n, r)'
    <3>1. CASE UNCHANGED <<delivered, givenUp>>
      BY <3>1 DEF Settled
    <3>2. CASE Deliver(g)
      <4>1. delivered'[n][r] = delivered[n][r] \/ delivered'[n][r] = delivered[n][r] + 1
        BY <1>0, <3>2 DEF Deliver, TypeOK, Bag
      <4>2. delivered[n][r] \in Nat /\ givenUp' = givenUp
        BY <1>0, <3>2 DEF Deliver, TypeOK, Bag
      <4> QED BY <4>1, <4>2 DEF Settled
    <3>3. CASE EmitDSN(g)
      BY <1>0, <3>3 DEF EmitDSN, Settled, TypeOK
    <3> QED
      BY <1>3, <3>1, <3>2, <3>3 DEF WorkerStep, Open, TargetPanics, Remove, UpdateMeta, Requeue,
         RequeueReturns, DiscardBroken
  <2> QED BY <2>1, <2>2 DEF Owes, Held
<1>4. ASSUME NEW g \in Goroutine, NEW m \in Msg, Dispatch(g, m) PROVE Owes(n, r)
  BY <1>1, <1>4 DEF Dispatch, Owes, Held, Settled
<1>5. CASE BootStep
  BY <1>1, <1>5 DEF BootStep, Restart, ReadEntry, CleanSecondFile, LoadReturns
<1>6. CASE CloseStart \/ CloseHandshake
  BY <1>1, <1>6 DEF CloseStart, CloseHandshake
<1>7. CASE Down
  BY <1>0, <1>7 DEF Down, Owes, Held, Settled, Live
<1>8. CASE UNCHANGED vars
  BY <1>1, <1>8 DEF vars
<1> QED
  BY <1>2, <1>3, <1>4, <1>5, <1>6, <1>7, <1>8 DEF Next, Exit, Crash

\* LossInv holds of the empty queue, which owes nothing.
LEMMA LossInit == Init => LossInv
<1> SUFFICES ASSUME Init PROVE LossInv
  OBVIOUS
<1>1. \A m \in Msg, r \in Rcpt : ~Owes(m, r)
  BY DEF Init, Owes, Held
<1>2. \A g \in Goroutine : work[g].id \in Msg /\ work[g].pc = "idle"
  BY NoWorkType DEF Init, Work, NoWork
<1> QED
  BY <1>1, <1>2 DEF Init, NoBoot, LossInv, OwedIsKept, WorkCovers, CleanOwesNothing

\* No step removes a file, or an entry of the meta-data, that an unsettled
\* recipient still needs: removeFromDisk runs only when tryDelivery has settled
\* everybody, updateMetadataOnDisk writes a list that covers what is owed, and
\* readDiskQueue and openMessage clean up incomplete messages only.
LEMMA OwedIsKeptStep == ShapeInv /\ LossInv /\ [Next]_vars => OwedIsKept'
<1> SUFFICES ASSUME ShapeInv, LossInv, [Next]_vars,
                    NEW n \in Msg, NEW r \in Rcpt, Owes(n, r)'
             PROVE  Kept(n, r)'
  BY DEF OwedIsKept
<1> USE DEF diskVars, wheelVars, bootVars, sourceVars, outsideVars, boundVars
<1>0. /\ TypeOK /\ StoredSoFar /\ PrivateUntilCommit /\ TodoIntact /\ DownIsEmpty
      /\ OwedIsKept /\ WorkCovers /\ CleanOwesNothing
  BY DEF ShapeInv, LossInv
<1>1. CASE qd[n] = "meta" /\ StoreSync(n)
  <2>1. {"header", "body", "meta"} \subseteq files[n] /\ meta[n].to = rcpts[n]
    <3>1. /\ "header" \in files[n] /\ "body" \in files[n] /\ "meta" \in files[n]
          /\ meta[n] = InitMeta(n)
      BY <1>0, <1>1 DEF StoredSoFar
    <3>2. InitMeta(n).to = rcpts[n]
      BY DEF InitMeta
    <3> QED BY <3>1, <3>2
  <2>2. rcpts[n][r] > 0 /\ UNCHANGED <<files, meta, rcpts>>
    BY <1>1 DEF StoreSync, Owes
  <2> QED BY <2>1, <2>2 DEF Kept
<1>2. CASE Owes(n, r)
  <2>0. Kept(n, r)
    BY <1>0, <1>2 DEF OwedIsKept
  <2>1. CASE files'[n] = files[n] /\ meta'[n] = meta[n]
    BY <2>0, <2>1 DEF Kept
  <2>2. ASSUME NEW m \in Msg, SourceStep(m) PROVE Kept(n, r)'
    <3>1. CASE m # n
      BY <1>0, <2>1, <2>2, <3>1, SourceFrame
    <3>2. CASE m = n
      <4>1. qd[n] \in {"stored", "sending", "committed"} /\ qd'[n] \in {"stored", "sending", "committed"}
        BY <1>2 DEF Owes, Held
      <4>2. Commit(n) \/ CommitReturns(n)
        BY <1>0, <2>2, <3>2, <4>1 DEF SourceStep, Start, AddRcpt, StoreHeader, StoreBody, StoreMeta,
           StoreSync, StoreFails, Writing, Abort, AbortRemove, AbortStep, TypeOK
      <4> QED BY <2>1, <4>2 DEF Commit, CommitReturns
    <3> QED BY <3>1, <3>2
  <2>3. ASSUME NEW g \in Goroutine, WorkerStep(g) PROVE Kept(n, r)'
    <3>1. CASE work[g].id # n
      BY <1>0, <2>1, <2>3, <3>1, WorkerFrame
    <3>2. CASE work[g].id = n
      <4>1. CASE Open(g)
        <5>1. ~Complete(n) => AfterFailedOpen(files[n]) = files[n]
          BY <2>0 DEF Kept, Complete, AfterFailedOpen
        <5>2. files'[n] = files[n] /\ meta' = meta
          BY <1>0, <3>2, <4>1, <5>1 DEF Open, TypeOK
        <5> QED BY <2>1, <5>2
      <4>2. CASE \/ Deliver(g) \/ TargetPanics(g) \/ EmitDSN(g) \/ Requeue(g) \/ RequeueReturns(g)
        BY <2>1, <4>2 DEF Deliver, TargetPanics, EmitDSN, Requeue, RequeueReturns
      <4>3. CASE Remove(g)
        BY <1>0, <1>2, <3>2, <4>3 DEF Remove, WorkCovers
      <4>4. CASE UpdateMeta(g)
        <5>1. work[g].meta.to[r] > 0
          BY <1>0, <1>2, <3>2, <4>4 DEF UpdateMeta, WorkCovers
        <5> QED BY <1>0, <2>0, <3>2, <4>4, <5>1 DEF UpdateMeta, Kept, TypeOK
      <4>5. CASE DiscardBroken(g)
        BY <1>0, <2>0, <3>2, <4>5 DEF DiscardBroken, Kept, TypeOK
      <4> QED BY <2>3, <4>1, <4>2, <4>3, <4>4, <4>5 DEF WorkerStep
    <3> QED BY <3>1, <3>2
  <2>4. ASSUME NEW g \in Goroutine, NEW m \in Msg, Dispatch(g, m) PROVE Kept(n, r)'
    BY <2>1, <2>4 DEF Dispatch
  <2>5. CASE BootStep
    <3>1. CASE Restart \/ LoadReturns
      BY <2>1, <3>1 DEF Restart, LoadReturns
    <3>2. ASSUME NEW m \in Msg, ReadEntry(m) PROVE Kept(n, r)'
      <4>1. m = n => Complete(n)
        BY <1>0, <2>0, <3>2 DEF ReadEntry, TodoIntact, Kept, Complete
      <4>2. files'[n] = files[n] /\ meta' = meta
        BY <1>0, <3>2, <4>1 DEF ReadEntry, TypeOK
      <4> QED BY <2>1, <4>2
    <3>3. CASE CleanSecondFile
      <4>1. boot.id # n
        BY <1>0, <1>2, <3>3 DEF CleanSecondFile, CleanOwesNothing
      <4> QED BY <1>0, <2>1, <3>3, <4>1 DEF CleanSecondFile, TypeOK
    <3> QED BY <2>5, <3>1, <3>2, <3>3 DEF BootStep
  <2>6. CASE CloseStart \/ CloseHandshake \/ Down \/ UNCHANGED vars
    BY <2>1, <2>6 DEF CloseStart, CloseHandshake, Down, vars
  <2> QED
    BY <2>2, <2>3, <2>4, <2>5, <2>6 DEF Next, Exit, Crash
<1> QED BY <1>1, <1>2, OwesShrinks

\* readDiskQueue starts to clean up a message only if its files are incomplete,
\* and then no recipient of it is owed.
LEMMA CleanStep == ShapeInv /\ LossInv /\ [Next]_vars => CleanOwesNothing'
<1> SUFFICES ASSUME ShapeInv, LossInv, [Next]_vars, boot'.at = "clean",
                    NEW n, n = boot'.id, NEW r \in Rcpt, Owes(n, r)'
             PROVE  FALSE
  BY DEF CleanOwesNothing, Owes, Held, Settled
<1> USE DEF diskVars, wheelVars, bootVars, sourceVars, outsideVars, boundVars
<1>0. /\ TypeOK /\ PrivateUntilCommit /\ TodoIntact /\ OwedIsKept /\ CleanOwesNothing /\ TypeOK'
  BY TypeStep DEF ShapeInv, LossInv
<1>1. n \in Msg /\ boot' # NoBoot
  BY <1>0 DEF TypeOK, Boot, NoBoot
<1>3. Owes(n, r) \/ (qd[n] = "meta" /\ StoreSync(n))
  BY <1>1, OwesShrinks
<1>4. CASE boot' = boot
  BY <1>0, <1>1, <1>3, <1>4 DEF CleanOwesNothing, PrivateUntilCommit, Untouched, Writing
<1>5. CASE boot' # boot
  <2>1. \/ \E m \in Msg : ReadEntry(m)
        \/ CleanSecondFile \/ LoadReturns \/ Down
    <3>1. ASSUME NEW m \in Msg, SourceStep(m) PROVE FALSE
      BY <1>0, <1>5, <3>1, SourceFrame
    <3>2. ASSUME NEW g \in Goroutine, WorkerStep(g) PROVE FALSE
      BY <1>0, <1>5, <3>2, WorkerFrame
    <3>3. ASSUME NEW g \in Goroutine, NEW m \in Msg, Dispatch(g, m) PROVE FALSE
      BY <1>5, <3>3 DEF Dispatch
    <3> QED
      BY <1>5, <3>1, <3>2, <3>3 DEF Next, BootStep, Restart, CloseStart, CloseHandshake, Exit, Crash, vars
  <2>2. PICK m \in Msg : ReadEntry(m)
    BY <1>1, <2>1 DEF CleanSecondFile, LoadReturns, Down, NoBoot
  <2>3. n = m /\ ~Complete(m)
    BY <1>5, <2>2 DEF ReadEntry
  <2>4. ~StoreSync(n)
    BY <1>5 DEF StoreSync
  <2> QED
    BY <1>0, <1>3, <2>2, <2>3, <2>4 DEF ReadEntry, TodoIntact, OwedIsKept, Kept, Complete
<1> QED BY <1>4, <1>5

\* The recipient list a goroutine holds covers what is owed: it is read from
\* complete files, and the loop of tryDelivery drops a recipient only when it was
\* delivered or goes to failedRcpts.
LEMMA WorkCoversStep == ShapeInv /\ LossInv /\ [Next]_vars => WorkCovers'
<1> SUFFICES ASSUME ShapeInv, LossInv, [Next]_vars,
                    NEW g \in Goroutine, NEW r \in Rcpt, NEW n \in Msg, n = work'[g].id,
                    Owes(n, r)', work'[g].pc # "idle"
             PROVE  /\ work'[g].pc \in {"deliver", "update"} => work'[g].meta.to[r] > 0
                    /\ work'[g].pc = "dsn" => (work'[g].meta.to[r] > 0 \/ work'[g].fail[r] > 0)
                    /\ work'[g].pc \notin RemovalStep
  <2>1. ASSUME ShapeInv, [Next]_vars PROVE \A h \in Goroutine : work'[h].id \in Msg
    <3>1. TypeOK'
      BY <2>1, TypeStep DEF ShapeInv
    <3> QED BY <3>1 DEF TypeOK, Work
  <2> QED BY <2>1 DEF WorkCovers, Owes, Held, Settled, RemovalStep
<1> USE DEF diskVars, wheelVars, bootVars, sourceVars, outsideVars, boundVars
<1> DEFINE Goal == /\ work'[g].pc \in {"deliver", "update"} => work'[g].meta.to[r] > 0
                   /\ work'[g].pc = "dsn" => (work'[g].meta.to[r] > 0 \/ work'[g].fail[r] > 0)
                   /\ work'[g].pc \notin RemovalStep
<1>0. TypeOK /\ PrivateUntilCommit /\ OwedIsKept /\ WorkCovers
  BY DEF ShapeInv, LossInv
<1>1. work[g] \in Work /\ work \in [Goroutine -> Work]
  BY <1>0 DEF TypeOK
<1>2. CASE work'[g] = work[g]
  <2>1. ~(qd[n] = "meta" /\ StoreSync(n))
    BY <1>0, <1>2 DEF PrivateUntilCommit, Untouched, Writing
  <2>2. Owes(n, r)
    BY <2>1, OwesShrinks
  <2> QED BY <1>0, <1>2, <2>2 DEF WorkCovers
<1>3. ASSUME NEW m \in Msg, Dispatch(g, m) PROVE Goal
  BY <1>0, <1>1, <1>3 DEF Dispatch, NoWork, RemovalStep, TypeOK, Work
<1>4. CASE WorkerStep(g)
  <2>0. n = work[g].id
    BY <1>0, <1>4, WorkerFrame
  <2>1. Owes(n, r)
    <3>1. ~StoreSync(n)
      BY <1>0, <1>4, WorkerFrame DEF StoreSync, TypeOK
    <3> QED BY <3>1, OwesShrinks
  <2>2. /\ work[g].pc \in {"deliver", "update"} => work[g].meta.to[r] > 0
        /\ work[g].pc = "dsn" => (work[g].meta.to[r] > 0 \/ work[g].fail[r] > 0)
        /\ work[g].pc \notin RemovalStep
        /\ meta[n].to[r] > 0 /\ rcpts[n][r] > 0
    BY <1>0, <2>0, <2>1 DEF WorkCovers, OwedIsKept, Kept, Owes
  <2>3. CASE Open(g)
    <3>1. InitMeta(n).to[r] > 0
      BY <2>2 DEF InitMeta
    <3>2. \/ work'[g].pc = "deliver" /\ work'[g].meta \in {InitMeta(n), meta[n]}
          \/ work'[g].pc = "idle"
      BY <1>1, <2>0, <2>3 DEF Open, Work, NoWork
    <3> QED BY <2>2, <3>1, <3>2 DEF RemovalStep
  <2>4. CASE Deliver(g)
    <3> DEFINE md(reply) == NewMeta(work[g].meta, reply.errs)
               failed(reply) == FailedRcpts(work[g].meta, reply.errs)
    <3> DEFINE next(reply) == IF Members(failed(reply)) # {} THEN "dsn" ELSE AfterReport(md(reply))
               taking(reply) == [s \in Rcpt |-> IF s \in reply.taken THEN delivered[n][s] + 1
                                                ELSE delivered[n][s]]
    <3>0. PICK reply \in DeliverReplies(work[g].meta.to) :
            /\ work' = [work EXCEPT ![g] = [pc |-> next(reply), id |-> n,
                                            meta |-> md(reply), fail |-> failed(reply)]]
            /\ delivered' = [delivered EXCEPT ![n] = taking(reply)]
      BY <2>0, <2>4 DEF Deliver
    <3>1. /\ work'[g] = [pc |-> next(reply), id |-> n, meta |-> md(reply), fail |-> failed(reply)]
          /\ delivered'[n][r] = IF r \in reply.taken THEN delivered[n][r] + 1 ELSE delivered[n][r]
      <4> HIDE DEF md, failed, next
      <4>1. delivered'[n] = taking(reply)
        BY <1>0, <3>0 DEF TypeOK
      <4> QED BY <1>1, <3>0, <4>1
    <3>2. work[g].meta \in Meta /\ work[g].meta.to \in Bag /\ work[g].meta.to[r] > 0
      BY <1>1, <2>2, <2>4 DEF Deliver, Work, Meta
    <3>3. /\ reply.errs \in [Rcpt -> Status]
          /\ \A s \in Members(work[g].meta.to) : reply.errs[s] = "ok" => s \in reply.taken
      BY <3>2, RepliesSound
    <3>4. r \notin reply.taken
      BY <1>0, <3>1 DEF Owes, Settled, TypeOK, Bag
    <3>5. reply.errs[r] # "ok"
      BY <3>2, <3>3, <3>4 DEF Members
    <3>6. md(reply).to[r] > 0 \/ failed(reply)[r] > 0
      BY <3>2, <3>3, <3>5, ErrorsSplit
    <3>7. Members(failed(reply)) = {} => md(reply).to[r] > 0 /\ AfterReport(md(reply)) = "update"
      BY <3>6 DEF Members, AfterReport
    <3> HIDE DEF md, failed, taking
    <3> QED BY <3>1, <3>6, <3>7 DEF RemovalStep
  <2>5. CASE EmitDSN(g)
    <3>1. work'[g].meta = work[g].meta /\ work'[g].pc = AfterReport(work[g].meta)
      BY <1>1, <2>5 DEF EmitDSN, Work
    <3>2. r \notin Members(work[g].fail)
      BY <1>0, <2>0, <2>5 DEF EmitDSN, Owes, Settled, TypeOK
    <3>3. work[g].meta.to[r] > 0
      BY <2>2, <2>5, <3>2 DEF EmitDSN, Members
    <3>4. AfterReport(work[g].meta) = "update"
      BY <3>3 DEF AfterReport, Members
    <3> QED BY <3>1, <3>3, <3>4 DEF RemovalStep
  <2>6. CASE Remove(g)
    BY <2>2, <2>6 DEF Remove
  <2>7. CASE TargetPanics(g) \/ UpdateMeta(g)
    BY <1>1, <2>7 DEF TargetPanics, UpdateMeta, Work, RemovalStep
  <2>8. CASE Requeue(g) \/ RequeueReturns(g)
    BY <1>1, <2>8 DEF Requeue, RequeueReturns, Work, NoWork, RemovalStep
  <2>9. CASE DiscardBroken(g)
    BY <1>1, <2>9 DEF DiscardBroken, NoWork, Work
  <2> QED BY <1>4, <2>3, <2>4, <2>5, <2>6, <2>7, <2>8, <2>9 DEF WorkerStep
<1>5. ASSUME NEW h \in Goroutine \ {g}, WorkerStep(h) PROVE Goal
  BY <1>0, <1>2, <1>5, WorkerFrame
<1>6. ASSUME NEW h \in Goroutine \ {g}, NEW m \in Msg, Dispatch(h, m) PROVE Goal
  BY <1>1, <1>2, <1>6 DEF Dispatch
<1>7. ASSUME NEW m \in Msg, SourceStep(m) PROVE Goal
  BY <1>0, <1>2, <1>7, SourceFrame
<1>8. CASE BootStep \/ CloseStart \/ CloseHandshake \/ UNCHANGED vars
  BY <1>2, <1>8 DEF BootStep, Restart, ReadEntry, CleanSecondFile, LoadReturns, CloseStart,
     CloseHandshake, vars
<1>9. CASE Down
  BY <1>9 DEF Down, NoWork
<1> QED
  BY <1>3, <1>4, <1>5, <1>6, <1>7, <1>8, <1>9 DEF Next, Exit, Crash

\* Every step preserves LossInv.
LEMMA LossStep == ShapeInv /\ LossInv /\ [Next]_vars => LossInv'
BY OwedIsKeptStep, WorkCoversStep, CleanStep DEF LossInv

\* A recipient of a message whose Commit returned is delivered, given up on, or
\* still named by complete files on disk, in every reachable state.
THEOREM NothingLost == Spec => []NoSilentLoss
<1>1. ShapeInv /\ LossInv => NoSilentLoss
  BY DEF LossInv, OwedIsKept, NoSilentLoss, Owes, Held
<1> QED
  BY <1>1, ShapeInit, ShapeStep, LossInit, LossStep, PTL DEF Spec

-----------------------------------------------------------------------------
(* SingleFlight *)

\* A goroutine never takes up a message again once it let go of it.
LEMMA WorksOnFrame ==
  ASSUME TypeOK, NEW g \in Goroutine, WorkerStep(g), NEW m \in Msg, WorksOn(g, m)'
  PROVE  WorksOn(g, m) /\ slot' = slot
<1> USE DEF diskVars, wheelVars, bootVars, sourceVars, outsideVars, boundVars
<1>1. work[g] \in Work /\ work \in [Goroutine -> Work]
  BY DEF TypeOK
<1>2. work'[g].pc \in Busy \cup Waiting /\ work'[g].pc \notin {"idle", "send", "unwound"}
  BY DEF WorksOn, Busy, Waiting, RemovalStep
<1>3. work[g].id = m
  BY <1>2, WorkerFrame DEF WorksOn
<1>4. work[g].pc \in Busy \cup Waiting /\ slot' = slot
  <2>1. CASE Open(g) \/ Deliver(g) \/ EmitDSN(g) \/ Remove(g) \/ UpdateMeta(g)
    BY <2>1 DEF Open, Deliver, EmitDSN, Remove, UpdateMeta, Busy
  <2>2. CASE TargetPanics(g)
    BY <1>1, <1>2, <2>2 DEF TargetPanics, Work
  <2>3. CASE Requeue(g) \/ RequeueReturns(g) \/ DiscardBroken(g)
    BY <1>1, <1>2, <2>3 DEF Requeue, RequeueReturns, DiscardBroken, NoWork, Work
  <2> QED BY <2>1, <2>2, <2>3 DEF WorkerStep
<1> QED BY <1>3, <1>4 DEF WorksOn

\* No step makes two goroutines work on a message: dispatch takes the only slot
\* of it, and a new slot is added by the goroutine that lets go of the message.
LEMMA FlightStep == ShapeInv /\ SingleFlight /\ [Next]_vars => SingleFlight'
<1> SUFFICES ASSUME ShapeInv, SingleFlight, [Next]_vars PROVE SingleFlight'
  OBVIOUS
<1> USE DEF diskVars, wheelVars, bootVars, sourceVars, outsideVars, boundVars
<1>0. TypeOK /\ PrivateUntilCommit /\ TodoIntact /\ DownIsEmpty
  BY DEF ShapeInv
<1>1. \A g \in Goroutine, m \in Msg : WorksOn(g, m) => work[g].pc # "idle" /\ work[g].id = m
  BY DEF WorksOn, Busy, Waiting, RemovalStep
<1>2. CASE UNCHANGED work /\ slot' = slot /\ todo' \subseteq todo
  BY <1>2 DEF SingleFlight, WorksOn
<1>3. ASSUME NEW m \in Msg, SourceStep(m) PROVE SingleFlight'
  <2>1. slot'[m] = slot[m] \/ \A g \in Goroutine : ~WorksOn(g, m)
    <3>1. CASE qd[m] = "stored"
      BY <1>0, <1>1, <3>1 DEF PrivateUntilCommit, Untouched
    <3>2. CASE qd[m] # "stored"
      BY <1>3, <3>2 DEF SourceStep, Start, AddRcpt, StoreHeader, StoreBody, StoreMeta, StoreSync,
         StoreFails, Abort, AbortRemove, Commit, CommitReturns
    <3> QED BY <3>1, <3>2
  <2> QED BY <1>0, <1>3, <2>1, SourceFrame DEF SingleFlight, WorksOn
<1>4. ASSUME NEW g \in Goroutine, WorkerStep(g) PROVE SingleFlight'
  <2>1. \A h \in Goroutine, m \in Msg : WorksOn(h, m)' => WorksOn(h, m)
    BY <1>0, <1>4, WorksOnFrame, WorkerFrame DEF WorksOn
  <2>2. ASSUME NEW h \in Goroutine, NEW m \in Msg, WorksOn(h, m)' PROVE slot'[m] = "none"
    <3>1. slot[m] = "none"
      BY <2>1, <2>2 DEF SingleFlight
    <3>2. CASE h = g \/ slot' = slot
      BY <1>0, <1>4, <2>2, <3>1, <3>2, WorksOnFrame
    <3>3. CASE h # g /\ slot' # slot
      <4>1. Requeue(g)
        BY <1>4, <3>3 DEF WorkerStep, Open, Deliver, TargetPanics, EmitDSN, Remove, UpdateMeta,
           RequeueReturns, DiscardBroken
      <4>2. work[g].pc \in Busy
        BY <4>1 DEF Requeue, Busy
      <4>3. work[g].id # m
        BY <2>1, <2>2, <3>3, <4>2 DEF SingleFlight, WorksOn
      <4> QED BY <1>0, <1>4, <3>1, <4>3, WorkerFrame
    <3> QED BY <3>2, <3>3
  <2> QED BY <1>0, <1>4, <2>1, <2>2, WorkerFrame DEF SingleFlight
<1>5. ASSUME NEW g \in Goroutine, NEW m \in Msg, Dispatch(g, m) PROVE SingleFlight'
  <2>1. /\ work'[g].id = m /\ \A h \in Goroutine \ {g} : work'[h] = work[h]
        /\ slot'[m] = "none" /\ \A n \in Msg \ {m} : slot'[n] = slot[n]
        /\ todo' = todo
    BY <1>0, <1>5 DEF Dispatch, TypeOK, Work, NoWork
  <2>2. m \notin todo /\ \A h \in Goroutine : ~WorksOn(h, m)
    BY <1>0, <1>5 DEF Dispatch, TodoIntact, SingleFlight
  <2> QED BY <2>1, <2>2 DEF SingleFlight, WorksOn
<1>6. CASE BootStep
  <2>1. CASE Restart
    BY <1>0, <1>1, <2>1 DEF Restart, DownIsEmpty, SingleFlight, WorksOn
  <2>2. ASSUME NEW m \in Msg, ReadEntry(m) PROVE SingleFlight'
    <3>1. \A g \in Goroutine : ~WorksOn(g, m)
      BY <2>2 DEF ReadEntry, SingleFlight
    <3>2. work' = work /\ todo' \subseteq todo /\ \A n \in Msg \ {m} : slot'[n] = slot[n]
      BY <1>0, <2>2 DEF ReadEntry, TypeOK
    <3> QED BY <3>1, <3>2 DEF SingleFlight, WorksOn
  <2>3. CASE CleanSecondFile \/ LoadReturns
    BY <1>2, <2>3 DEF CleanSecondFile, LoadReturns
  <2> QED BY <1>6, <2>1, <2>2, <2>3 DEF BootStep
<1>7. CASE CloseStart \/ CloseHandshake \/ UNCHANGED vars
  BY <1>2, <1>7 DEF CloseStart, CloseHandshake, vars
<1>8. CASE Down
  BY <1>8 DEF Down, NoWork, SingleFlight, WorksOn, Busy, Waiting, RemovalStep
<1> QED
  BY <1>3, <1>4, <1>5, <1>6, <1>7, <1>8 DEF Next, Exit, Crash

\* At most one goroutine works on a message, and none while a slot or a directory
\* entry of the message is still to be taken up.
THEOREM OneGoroutinePerMessage == Spec => []SingleFlight
<1>1. Init => SingleFlight
  BY DEF Init, NoWork, SingleFlight, WorksOn, Busy, Waiting, RemovalStep
<1> QED
  BY <1>1, ShapeInit, ShapeStep, FlightStep, PTL DEF Spec

-----------------------------------------------------------------------------
(* KeepsPromise *)

\* tryDelivery never adds a recipient to the list it works on.
LEMMA DeliverShrinks ==
  ASSUME TypeOK, NEW g \in Goroutine, Deliver(g)
  PROVE  /\ work'[g].id = work[g].id /\ work'[g].pc \in {"dsn", "header", "update"}
         /\ Members(work'[g].meta.to) \subseteq Members(work[g].meta.to)
<1>1. work[g] \in Work /\ work \in [Goroutine -> Work] /\ work[g].meta \in Meta /\ work[g].meta.to \in Bag
  BY DEF TypeOK, Work, Meta
<1> DEFINE md(reply) == NewMeta(work[g].meta, reply.errs)
           failed(reply) == FailedRcpts(work[g].meta, reply.errs)
           next(reply) == IF Members(failed(reply)) # {} THEN "dsn" ELSE AfterReport(md(reply))
<1>2. PICK reply \in DeliverReplies(work[g].meta.to) :
        work' = [work EXCEPT ![g] = [pc |-> next(reply), id |-> work[g].id,
                                     meta |-> md(reply), fail |-> failed(reply)]]
  BY DEF Deliver
<1>3. next(reply) \in {"dsn", "header", "update"}
  BY DEF AfterReport
<1>4. reply.errs \in [Rcpt -> Status]
  BY <1>1, RepliesSound
<1>5. Members(md(reply).to) \subseteq Members(work[g].meta.to)
  <2> SUFFICES ASSUME NEW r \in Rcpt, md(reply).to[r] > 0 PROVE work[g].meta.to[r] > 0
    BY DEF Members
  <2>1. work[g].meta.to[r] \in Nat /\ work[g].meta.tries[r] \in Nat /\ reply.errs[r] \in Status
    BY <1>1, <1>4 DEF Meta, Bag
  <2>2. GivenUpEntries(work[g].meta.tries[r], work[g].meta.to[r]) \in 0..work[g].meta.to[r]
    BY <2>1, GivenUpEntriesType
  <2> QED BY <2>1, <2>2 DEF NewMeta, Status
<1> HIDE DEF md, failed, next
<1> QED BY <1>1, <1>2, <1>3, <1>5

\* A goroutine that has let go of a message does not write its list again, and
\* keeps the message listed.
LEMMA LetGo ==
  ASSUME TypeOK, NEW g \in Goroutine, WorkerStep(g), ~WorksOn(g, work[g].id)
  PROVE  /\ slot' = slot /\ meta' = meta
         /\ \A n \in Msg : Listed(n) => Listed(n)'
         /\ \A n \in Msg : n # work[g].id => files'[n] = files[n]
<1> USE DEF diskVars, wheelVars, bootVars, sourceVars, outsideVars, boundVars
<1>1. work[g].pc \notin Busy \cup Waiting
  BY DEF WorksOn
<1>2. RequeueReturns(g) \/ DiscardBroken(g)
  BY <1>1 DEF WorkerStep, Open, Deliver, TargetPanics, EmitDSN, Remove, UpdateMeta, Requeue,
     Busy, Waiting, RemovalStep
<1>3. CASE RequeueReturns(g)
  BY <1>3 DEF RequeueReturns, Listed
<1>4. CASE DiscardBroken(g)
  <2>1. work[g].id \in Msg /\ files \in [Msg -> SUBSET FileKind]
    BY DEF TypeOK, Work
  <2> QED BY <1>4, <2>1 DEF DiscardBroken, Listed
<1> QED BY <1>2, <1>3, <1>4

\* What a step leaves of MemoryMatches when nothing it speaks of changed for
\* message n, or changed only from sending to committed.
LEMMA MemorySame ==
  ASSUME MemoryMatches, NEW n \in Msg,
         meta'[n] = meta[n], rcpts'[n] = rcpts[n], Listed(n) => Listed(n)',
         Taken(n)' => Taken(n)
  PROVE  /\ slot'[n] = slot[n] => (Taken(n) /\ slot[n] = "mem" => FirstTry(n))'
         /\ \A g \in Goroutine : work'[g] = work[g] /\ work[g].id = n =>
              (Taken(n) => /\ work[g].pc = "mem" => FirstTry(n)
                           /\ work[g].pc \in {"deliver", "dsn", "update"} => NoNewNames(g))'
BY DEF MemoryMatches, FirstTry, NoNewNames, Members

\* openMessage and Commit start from what is on disk, tryDelivery only shortens
\* the list, and nobody else touches the message meanwhile.
LEMMA MemoryStep == ShapeInv /\ SingleFlight /\ MemoryMatches /\ [Next]_vars => MemoryMatches'
<1> SUFFICES ASSUME ShapeInv, SingleFlight, MemoryMatches, [Next]_vars PROVE MemoryMatches'
  OBVIOUS
<1> USE DEF diskVars, wheelVars, bootVars, sourceVars, outsideVars, boundVars
<1>0. TypeOK /\ TypeOK' /\ StoredSoFar /\ PrivateUntilCommit /\ TodoIntact /\ DownIsEmpty
  BY TypeStep DEF ShapeInv
<1> DEFINE StoredPart(n) == qd[n] = "stored" => Complete(n) /\ meta[n] = InitMeta(n)
           SlotPart(n) == Taken(n) /\ slot[n] = "mem" => FirstTry(n)
           WorkPart(g) == Taken(work[g].id) =>
                            /\ work[g].pc = "mem" => FirstTry(work[g].id)
                            /\ work[g].pc \in {"deliver", "dsn", "update"} => NoNewNames(g)
<1>1. SUFFICES (\A n \in Msg : StoredPart(n) /\ SlotPart(n))' /\ (\A g \in Goroutine : WorkPart(g))'
  BY DEF MemoryMatches
<1>2. \A g \in Goroutine : work[g].id \in Msg /\ work'[g].id \in Msg
  BY <1>0 DEF TypeOK, Work
<1>3. \A g \in Goroutine : work[g].pc \in {"mem", "deliver", "dsn", "update"} =>
         work[g].pc # "idle" /\ WorksOn(g, work[g].id)
  BY DEF WorksOn, Busy, Waiting
<1>4. ASSUME UNCHANGED <<meta, rcpts, work, slot, qd>>,
             \A n \in Msg : (Listed(n) => Listed(n)') /\ (qd[n] = "stored" => files'[n] = files[n])
      PROVE  (\A n \in Msg : StoredPart(n) /\ SlotPart(n))' /\ (\A g \in Goroutine : WorkPart(g))'
  <2>1. \A n \in Msg : StoredPart(n)'
    BY <1>4 DEF MemoryMatches, Complete, InitMeta
  <2>2. \A n \in Msg : Taken(n)' => Taken(n)
    BY <1>4 DEF Taken
  <2> QED BY <1>2, <1>4, <2>1, <2>2, MemorySame
<1>5. ASSUME NEW m \in Msg, SourceStep(m)
      PROVE  (\A n \in Msg : StoredPart(n) /\ SlotPart(n))' /\ (\A g \in Goroutine : WorkPart(g))'
  <2>1. /\ work' = work
        /\ \A n \in Msg \ {m} : /\ files'[n] = files[n] /\ meta'[n] = meta[n]
                                /\ slot'[n] = slot[n] /\ qd'[n] = qd[n] /\ rcpts'[n] = rcpts[n]
    BY <1>0, <1>5, SourceFrame
  <2>2. ASSUME NEW n \in Msg \ {m}
        PROVE  StoredPart(n)' /\ SlotPart(n)' /\ \A g \in Goroutine : work[g].id = n => WorkPart(g)'
    <3>1. StoredPart(n)'
      BY <2>1 DEF MemoryMatches, Complete, InitMeta
    <3>2. (Listed(n) => Listed(n)') /\ (Taken(n)' => Taken(n))
      BY <2>1 DEF Listed, Taken
    <3> QED BY <2>1, <3>1, <3>2, MemorySame
  <2>3. StoredPart(m)' /\ SlotPart(m)' /\ \A g \in Goroutine : work[g].id = m => WorkPart(g)'
    <3>1. CASE StoreSync(m)
      <4>1. /\ Complete(m) /\ meta[m] = InitMeta(m)
        BY <1>0, <3>1 DEF StoreSync, StoredSoFar, Complete
      <4>2. qd'[m] = "stored" /\ UNCHANGED <<files, meta, rcpts>>
        BY <1>0, <3>1 DEF StoreSync, TypeOK
      <4> QED BY <2>1, <4>1, <4>2 DEF Complete, InitMeta, Taken
    <3>2. CASE Commit(m)
      <4>1. Complete(m) /\ meta[m] = InitMeta(m) /\ UNCHANGED <<files, meta, rcpts>>
        BY <3>2 DEF Commit, MemoryMatches
      <4>2. FirstTry(m)'
        BY <4>1 DEF FirstTry, Listed, Complete, InitMeta
      <4>3. qd'[m] \in {"sending", "committed"}
        BY <1>0, <3>2 DEF Commit, TypeOK
      <4>4. \A g \in Goroutine : work[g].id = m => work[g].pc = "idle"
        BY <1>0, <3>2 DEF Commit, PrivateUntilCommit, Untouched
      <4> QED BY <2>1, <4>2, <4>3, <4>4
    <3>3. CASE CommitReturns(m)
      <4>1. Taken(m) /\ qd'[m] # "stored" /\ UNCHANGED <<files, meta, rcpts, slot>>
        BY <1>0, <3>3 DEF CommitReturns, Taken, TypeOK
      <4> QED BY <2>1, <4>1, MemorySame DEF Listed
    <3>4. CASE ~StoreSync(m) /\ ~Commit(m) /\ ~CommitReturns(m)
      <4>1. qd'[m] \notin {"stored", "sending", "committed"}
        <5>1. CASE \/ Start(m) \/ StoreHeader(m) \/ StoreBody(m) \/ StoreMeta(m)
                   \/ StoreFails(m) \/ Abort(m)
          BY <1>0, <5>1 DEF Start, StoreHeader, StoreBody, StoreMeta, StoreFails, Abort, TypeOK
        <5>2. CASE AbortRemove(m)
          BY <1>0, <5>2 DEF AbortRemove, AbortStep, NextAbort, TypeOK
        <5>3. ASSUME NEW s \in Rcpt, AddRcpt(m, s) PROVE qd'[m] = "open"
          BY <5>3 DEF AddRcpt
        <5> QED BY <1>5, <3>4, <5>1, <5>2, <5>3 DEF SourceStep
      <4> QED BY <2>1, <4>1 DEF Taken
    <3> QED BY <3>1, <3>2, <3>3, <3>4
  <2> QED BY <1>2, <2>1, <2>2, <2>3
<1>6. ASSUME NEW g \in Goroutine, WorkerStep(g)
      PROVE  (\A n \in Msg : StoredPart(n) /\ SlotPart(n))' /\ (\A h \in Goroutine : WorkPart(h))'
  <2>1. PICK m \in Msg : m = work[g].id
    BY <1>2
  <2>2. /\ UNCHANGED <<qd, rcpts>> /\ work[g].pc # "idle"
        /\ \A h \in Goroutine \ {g} : work'[h] = work[h]
        /\ work'[g].pc = "idle" \/ work'[g].id = m
        /\ \A n \in Msg \ {m} : files'[n] = files[n] /\ meta'[n] = meta[n] /\ slot'[n] = slot[n]
    BY <1>0, <1>6, <2>1, WorkerFrame
  <2>3. \A n \in Msg : Taken(n)' => Taken(n)
    BY <2>2 DEF Taken
  <2>4. \A n \in Msg : StoredPart(n)'
    <3>1. qd[m] # "stored"
      BY <1>0, <2>1, <2>2 DEF PrivateUntilCommit, Untouched
    <3> QED BY <2>2, <3>1 DEF MemoryMatches, Complete, InitMeta
  <2>5. ASSUME NEW n \in Msg \ {m}
        PROVE  SlotPart(n)' /\ \A h \in Goroutine : h # g /\ work[h].id = n => WorkPart(h)'
    <3>1. Listed(n) => Listed(n)'
      BY <2>2 DEF Listed
    <3> QED BY <2>2, <2>3, <2>5, <3>1, MemorySame
  <2>6. CASE ~WorksOn(g, m)
    <3>1. slot' = slot /\ meta' = meta /\ (Listed(m) => Listed(m)')
      BY <1>0, <1>6, <2>1, <2>6, LetGo
    <3>2. SlotPart(m)' /\ \A h \in Goroutine : h # g /\ work[h].id = m => WorkPart(h)'
      BY <2>2, <2>3, <3>1, MemorySame
    <3>3. work'[g].pc \notin {"mem", "deliver", "dsn", "update"}
      <4>1. ~WorksOn(g, m)'
        BY <1>0, <1>6, <2>6, WorksOnFrame
      <4> QED BY <2>2, <4>1 DEF WorksOn, Busy, Waiting
    <3> QED BY <1>2, <2>2, <2>4, <2>5, <3>2, <3>3
  <2>7. CASE WorksOn(g, m)
    <3>1. /\ slot[m] = "none"
          /\ \A h \in Goroutine : h # g /\ work[h].id = m =>
               work[h].pc \notin {"mem", "deliver", "dsn", "update"}
      BY <1>3, <2>7 DEF SingleFlight
    <3>2. slot'[m] # "mem"
      BY <1>0, <1>6, <2>1, <3>1 DEF WorkerStep, Open, Deliver, TargetPanics, EmitDSN, Remove,
         UpdateMeta, Requeue, RequeueReturns, DiscardBroken, TypeOK
    <3>3. \A h \in Goroutine : h # g => WorkPart(h)'
      BY <1>2, <2>2, <2>5, <3>1
    <3>4. WorkPart(g)'
      <4> SUFFICES ASSUME Taken(m)', work'[g].id = m,
                          work'[g].pc \in {"mem", "deliver", "dsn", "update"}
                   PROVE  /\ work'[g].pc = "mem" => FirstTry(m)'
                          /\ work'[g].pc \in {"deliver", "dsn", "update"} =>
                               /\ Listed(m)'
                               /\ Members(work'[g].meta.to) \subseteq Members(meta'[m].to)
        BY <2>2 DEF NoNewNames
      <4>0. Taken(m) /\ WorkPart(g) /\ work[g] \in Work /\ work \in [Goroutine -> Work]
        BY <1>0, <2>3 DEF MemoryMatches, TypeOK
      <4>1. CASE Open(g)
        <5>1. \/ work[g].pc = "mem" /\ work'[g].meta = InitMeta(m)
              \/ work[g].pc = "disk" /\ Complete(m) /\ work'[g].meta = meta[m]
          BY <2>1, <4>0, <4>1 DEF Open, NoWork, Waiting, Work
        <5>2. work'[g].pc = "deliver" /\ UNCHANGED <<files, meta>>
          BY <2>1, <4>0, <4>1 DEF Open, NoWork, Waiting, Work
        <5>3. CASE work[g].pc = "mem" /\ work'[g].meta = InitMeta(m)
          BY <2>1, <4>0, <5>2, <5>3 DEF FirstTry, Listed, InitMeta, Members
        <5>4. CASE Complete(m) /\ work'[g].meta = meta[m]
          BY <5>2, <5>4 DEF Complete, Listed, Members
        <5> QED BY <5>1, <5>3, <5>4
      <4>2. CASE Deliver(g)
        <5>1. /\ work[g].pc = "deliver" /\ UNCHANGED <<files, meta>>
          BY <4>2 DEF Deliver
        <5>2. work'[g].pc # "mem" /\ Members(work'[g].meta.to) \subseteq Members(work[g].meta.to)
          BY <1>0, <4>2, DeliverShrinks
        <5>3. Listed(m) /\ Members(work[g].meta.to) \subseteq Members(meta[m].to)
          BY <2>1, <4>0, <5>1 DEF NoNewNames
        <5> QED BY <5>1, <5>2, <5>3 DEF Listed
      <4>3. CASE EmitDSN(g)
        <5>1. /\ work[g].pc = "dsn" /\ UNCHANGED <<files, meta>>
              /\ work'[g].meta = work[g].meta /\ work'[g].pc # "mem"
          BY <4>0, <4>3 DEF EmitDSN, AfterReport, Work
        <5>2. Listed(m) /\ Members(work[g].meta.to) \subseteq Members(meta[m].to)
          BY <2>1, <4>0, <5>1 DEF NoNewNames
        <5> QED BY <5>1, <5>2 DEF Listed
      <4>4. CASE TargetPanics(g) \/ UpdateMeta(g) \/ Requeue(g)
        BY <4>0, <4>4 DEF TargetPanics, UpdateMeta, Requeue, NoWork, Work
      <4>5. CASE Remove(g)
        BY <4>0, <4>5 DEF Remove, RemovalStep, NextRemoval, NoWork, Work
      <4>6. CASE RequeueReturns(g) \/ DiscardBroken(g)
        BY <4>0, <4>6 DEF RequeueReturns, DiscardBroken, NoWork, Work
      <4> QED BY <1>6, <4>1, <4>2, <4>3, <4>4, <4>5, <4>6 DEF WorkerStep
    <3> QED BY <2>4, <2>5, <3>2, <3>3, <3>4
  <2> QED BY <2>6, <2>7
<1>7. ASSUME NEW g \in Goroutine, NEW m \in Msg, Dispatch(g, m)
      PROVE  (\A n \in Msg : StoredPart(n) /\ SlotPart(n))' /\ (\A h \in Goroutine : WorkPart(h))'
  <2>1. /\ UNCHANGED <<files, meta, qd, rcpts>>
        /\ slot'[m] = "none" /\ \A n \in Msg \ {m} : slot'[n] = slot[n]
        /\ \A h \in Goroutine \ {g} : work'[h] = work[h]
        /\ work'[g].id = m /\ work'[g].pc = slot[m]
    BY <1>0, <1>7 DEF Dispatch, TypeOK, NoWork
  <2>2. \A n \in Msg : (Listed(n) => Listed(n)') /\ (Taken(n)' <=> Taken(n)) /\ (FirstTry(n) => FirstTry(n)')
    BY <2>1 DEF Listed, Taken, FirstTry
  <2>3. \A n \in Msg : StoredPart(n)'
    BY <2>1 DEF MemoryMatches, Complete, InitMeta
  <2>4. WorkPart(g)'
    <3>1. Taken(m) /\ slot[m] = "mem" => FirstTry(m)
      BY DEF MemoryMatches
    <3>2. slot[m] \in {"none", "mem", "disk"}
      BY <1>0 DEF TypeOK
    <3> QED BY <2>1, <2>2, <3>1, <3>2
  <2> QED BY <1>2, <2>1, <2>2, <2>3, <2>4, MemorySame
<1>8. CASE BootStep
  <2>1. CASE Restart \/ LoadReturns
    BY <1>4, <2>1 DEF Restart, LoadReturns, Listed
  <2>2. CASE CleanSecondFile
    <3>1. boot.id \in Msg /\ boot.file \in {"header", "body"} /\ boot # NoBoot
      BY <1>0, <2>2 DEF CleanSecondFile, TypeOK, Boot, NoBoot
    <3>2. qd[boot.id] # "stored"
      BY <1>0, <3>1 DEF PrivateUntilCommit, Untouched
    <3>3. /\ UNCHANGED <<meta, rcpts, work, slot, qd>>
          /\ files' = [files EXCEPT ![boot.id] = @ \ {boot.file}]
      BY <2>2 DEF CleanSecondFile
    <3>4. \A n \in Msg : (Listed(n) => Listed(n)') /\ (qd[n] = "stored" => files'[n] = files[n])
      BY <1>0, <3>1, <3>2, <3>3 DEF Listed, TypeOK
    <3> QED BY <1>4, <3>3, <3>4
  <2>3. ASSUME NEW m \in Msg, ReadEntry(m)
        PROVE  (\A n \in Msg : StoredPart(n) /\ SlotPart(n))' /\ (\A g \in Goroutine : WorkPart(g))'
    <3>1. /\ UNCHANGED <<meta, rcpts, work, qd>>
          /\ \A n \in Msg \ {m} : files'[n] = files[n] /\ slot'[n] = slot[n]
          /\ slot'[m] # "mem" \/ slot'[m] = slot[m]
      BY <1>0, <2>3 DEF ReadEntry, TypeOK
    <3>2. /\ slot[m] = "none" /\ qd[m] # "stored"
          /\ \A g \in Goroutine : work[g].id = m => work[g].pc = "idle"
      BY <1>0, <2>3 DEF ReadEntry, TodoIntact, Live
    <3>3. \A n \in Msg \ {m} : (Listed(n) => Listed(n)') /\ (Taken(n)' => Taken(n)) /\ StoredPart(n)'
      BY <3>1 DEF Listed, Taken, MemoryMatches, Complete, InitMeta
    <3>4. StoredPart(m)' /\ SlotPart(m)' /\ \A g \in Goroutine : work[g].id = m => WorkPart(g)'
      BY <3>1, <3>2
    <3> QED BY <1>2, <3>1, <3>3, <3>4, MemorySame
  <2> QED BY <1>8, <2>1, <2>2, <2>3 DEF BootStep
<1>9. CASE CloseStart \/ CloseHandshake \/ UNCHANGED vars
  BY <1>4, <1>9 DEF CloseStart, CloseHandshake, vars, Listed
<1>10. CASE Down
  <2>1. /\ \A n \in Msg : slot'[n] = "none" /\ qd'[n] # "stored"
        /\ \A g \in Goroutine : work'[g].pc = "idle"
    BY <1>10 DEF Down, NoWork, Live
  <2> QED BY <2>1
<1> QED
  BY <1>5, <1>6, <1>7, <1>8, <1>9, <1>10 DEF Next, Exit, Crash

\* The pairs the promise is about, as sets.
Owed == {p \in AcceptedPairs : Kept(p[1], p[2])}
Done == {p \in AcceptedPairs : Settled(p[1], p[2])}

\* A step that accepts, settles or forgets pairs, one of the three, and never
\* takes a pair back, is a step of DeliveryPromise.
LEMMA PromiseFrom ==
  ASSUME NoSilentLoss, NoSilentLoss', AcceptedPairs \subseteq AcceptedPairs',
         \A p \in AcceptedPairs : /\ Settled(p[1], p[2]) => Settled(p[1], p[2])'
                                  /\ Kept(p[1], p[2])' => Kept(p[1], p[2]),
         \/ \A p \in AcceptedPairs : /\ Settled(p[1], p[2])' => Settled(p[1], p[2])
                                     /\ Kept(p[1], p[2]) => Kept(p[1], p[2])'
         \/ /\ AcceptedPairs' = AcceptedPairs
            /\ \/ \A p \in AcceptedPairs : Kept(p[1], p[2]) => Kept(p[1], p[2])'
               \/ \A p \in AcceptedPairs : Settled(p[1], p[2])' => Settled(p[1], p[2])
  PROVE  [Promise!Next]_(Promise!vars)
<1>0. /\ \A p : p \in Owed <=> p \in AcceptedPairs /\ Kept(p[1], p[2])
      /\ \A p : p \in Done <=> p \in AcceptedPairs /\ Settled(p[1], p[2])
      /\ \A p : p \in Owed' <=> p \in AcceptedPairs' /\ Kept(p[1], p[2])'
      /\ \A p : p \in Done' <=> p \in AcceptedPairs' /\ Settled(p[1], p[2])'
  BY DEF Owed, Done
<1>1. /\ AcceptedPairs \subseteq Promise!Pair /\ AcceptedPairs' \subseteq Promise!Pair
      /\ AcceptedPairs = Owed \cup Done /\ AcceptedPairs' = Owed' \cup Done'
  BY DEF AcceptedPairs, Promise!Pair, NoSilentLoss, Owed, Done
<1>2. SUFFICES \/ \E P \in SUBSET Promise!Pair :
                   \/ /\ P # {} /\ P \cap AcceptedPairs = {}
                      /\ AcceptedPairs' = AcceptedPairs \cup P
                      /\ \E Q, S \in SUBSET P : /\ Q \cup S = P
                                                /\ Owed' = Owed \cup Q
                                                /\ Done' = Done \cup S
                   \/ /\ P \subseteq Owed /\ Done' = Done \cup P
                      /\ AcceptedPairs' = AcceptedPairs /\ Owed' = Owed
                   \/ /\ P \subseteq Owed \cap Done /\ Owed' = Owed \ P
                      /\ AcceptedPairs' = AcceptedPairs /\ Done' = Done
               \/ AcceptedPairs' = AcceptedPairs /\ Owed' = Owed /\ Done' = Done
  BY DEF Promise!Next, Promise!Accept, Promise!Settle, Promise!Forget, Promise!vars, Owed, Done
<1>3. CASE \A p \in AcceptedPairs : /\ Settled(p[1], p[2])' => Settled(p[1], p[2])
                                    /\ Kept(p[1], p[2]) => Kept(p[1], p[2])'
  <2> DEFINE P == AcceptedPairs' \ AcceptedPairs
             Q == {p \in P : Kept(p[1], p[2])'}
             S == {p \in P : Settled(p[1], p[2])'}
  <2>1. Owed' = Owed \cup Q /\ Done' = Done \cup S
    BY <1>0, <1>3
  <2>2. Q \cup S = P
    BY <1>0, <1>1
  <2>3. P \in SUBSET Promise!Pair /\ Q \in SUBSET P /\ S \in SUBSET P
    BY <1>1
  <2>4. P \cap AcceptedPairs = {} /\ AcceptedPairs' = AcceptedPairs \cup P
    OBVIOUS
  <2>5. P = {} => Q = {} /\ S = {}
    OBVIOUS
  <2> HIDE DEF P, Q, S
  <2> QED BY <2>1, <2>2, <2>3, <2>4, <2>5
<1>4. CASE /\ AcceptedPairs' = AcceptedPairs
           /\ \A p \in AcceptedPairs : Kept(p[1], p[2]) => Kept(p[1], p[2])'
  <2>1. Owed' = Owed
    BY <1>0, <1>4
  <2>2. Done \subseteq Done' /\ Done' \ Done \subseteq Owed /\ Owed \subseteq Promise!Pair
    BY <1>0, <1>1, <1>4
  <2>3. Done' = Done \cup (Done' \ Done) /\ Done' \ Done \in SUBSET Promise!Pair
    BY <2>2
  <2> QED BY <1>4, <2>1, <2>2, <2>3
<1>5. CASE /\ AcceptedPairs' = AcceptedPairs
           /\ \A p \in AcceptedPairs : Settled(p[1], p[2])' => Settled(p[1], p[2])
  <2>1. Done' = Done
    BY <1>0, <1>5
  <2>2. Owed' \subseteq Owed
    BY <1>0, <1>5
  <2>3. Owed \ Owed' \subseteq Owed \cap Done /\ Owed \ Owed' \in SUBSET Promise!Pair
    BY <1>1, <1>5, <2>1
  <2>4. Owed' = Owed \ (Owed \ Owed')
    BY <2>2
  <2> QED BY <1>5, <2>1, <2>3, <2>4
<1> QED BY <1>3, <1>4, <1>5

\* Commit has told the source that recipient r of message m is taken.
Accepted(m, r) == qd[m] = "committed" /\ rcpts[m][r] > 0

\* PromiseFrom, said of messages and recipients.
LEMMA PromiseByPairs ==
  ASSUME NoSilentLoss, NoSilentLoss',
         \A m \in Msg, r \in Rcpt : Accepted(m, r) =>
           Accepted(m, r)' /\ (Settled(m, r) => Settled(m, r)') /\ (Kept(m, r)' => Kept(m, r)),
         \/ \A m \in Msg, r \in Rcpt : Accepted(m, r) =>
              (Settled(m, r)' => Settled(m, r)) /\ (Kept(m, r) => Kept(m, r)')
         \/ /\ \A m \in Msg, r \in Rcpt : Accepted(m, r)' => Accepted(m, r)
            /\ \/ \A m \in Msg, r \in Rcpt : Accepted(m, r) => (Kept(m, r) => Kept(m, r)')
               \/ \A m \in Msg, r \in Rcpt : Accepted(m, r) => (Settled(m, r)' => Settled(m, r))
  PROVE  [Promise!Next]_(Promise!vars)
<1>1. /\ \A p : p \in AcceptedPairs <=> p \in Msg \X Rcpt /\ Accepted(p[1], p[2])
      /\ \A p : p \in AcceptedPairs' <=> p \in Msg \X Rcpt /\ Accepted(p[1], p[2])'
  BY DEF AcceptedPairs, Accepted
<1>2. \A p \in Msg \X Rcpt : p[1] \in Msg /\ p[2] \in Rcpt
  OBVIOUS
<1>3. AcceptedPairs \subseteq AcceptedPairs'
  BY <1>1, <1>2
<1>4. \A p \in AcceptedPairs : /\ Settled(p[1], p[2]) => Settled(p[1], p[2])'
                               /\ Kept(p[1], p[2])' => Kept(p[1], p[2])
  BY <1>1, <1>2
<1>5. CASE \A m \in Msg, r \in Rcpt : Accepted(m, r) =>
             (Settled(m, r)' => Settled(m, r)) /\ (Kept(m, r) => Kept(m, r)')
  <2>1. \A p \in AcceptedPairs : /\ Settled(p[1], p[2])' => Settled(p[1], p[2])
                                 /\ Kept(p[1], p[2]) => Kept(p[1], p[2])'
    BY <1>1, <1>2, <1>5
  <2> QED BY <1>3, <1>4, <2>1, PromiseFrom
<1>6. CASE \A m \in Msg, r \in Rcpt : Accepted(m, r)' => Accepted(m, r)
  <2>1. AcceptedPairs' = AcceptedPairs
    BY <1>1, <1>2, <1>6
  <2>2. CASE \A m \in Msg, r \in Rcpt : Accepted(m, r) => (Kept(m, r) => Kept(m, r)')
    <3>1. \A p \in AcceptedPairs : Kept(p[1], p[2]) => Kept(p[1], p[2])'
      BY <1>1, <1>2, <2>2
    <3> QED BY <1>3, <1>4, <2>1, <3>1, PromiseFrom
  <2>3. CASE \A m \in Msg, r \in Rcpt : Accepted(m, r) => (Settled(m, r)' => Settled(m, r))
    <3>1. \A p \in AcceptedPairs : Settled(p[1], p[2])' => Settled(p[1], p[2])
      BY <1>1, <1>2, <2>3
    <3> QED BY <1>3, <1>4, <2>1, <3>1, PromiseFrom
  <2> QED BY <1>5, <2>2, <2>3
<1> QED BY <1>5, <1>6

\* Every step of the queue is one of the promise, or changes nothing it is about.
LEMMA PromiseStep ==
  ShapeInv /\ LossInv /\ SingleFlight /\ MemoryMatches /\ [Next]_vars => [Promise!Next]_(Promise!vars)
<1> SUFFICES ASSUME ShapeInv, LossInv, SingleFlight, MemoryMatches, [Next]_vars
             PROVE  [Promise!Next]_(Promise!vars)
  OBVIOUS
<1> USE DEF diskVars, wheelVars, bootVars, sourceVars, outsideVars, boundVars
<1>0. TypeOK /\ TypeOK' /\ PrivateUntilCommit /\ TodoIntact /\ CleanOwesNothing
  BY TypeStep DEF ShapeInv, LossInv
<1>1. NoSilentLoss /\ NoSilentLoss'
  <2>1. LossInv'
    BY LossStep
  <2> QED BY <2>1 DEF LossInv, OwedIsKept, NoSilentLoss, Owes, Held
<1>2. CASE UNCHANGED <<files, meta, delivered, givenUp, qd, rcpts>>
  BY <1>1, <1>2, PromiseByPairs DEF Accepted, Settled, Kept
<1>3. ASSUME UNCHANGED <<delivered, givenUp, qd, rcpts>>,
             \A m \in Msg, r \in Rcpt : Accepted(m, r) /\ Kept(m, r)' => Kept(m, r)
      PROVE  [Promise!Next]_(Promise!vars)
  <2>1. \A m \in Msg, r \in Rcpt : /\ Accepted(m, r)' <=> Accepted(m, r)
                                   /\ Settled(m, r)' <=> Settled(m, r)
    BY <1>3 DEF Accepted, Settled
  <2> QED BY <1>1, <1>3, <2>1, PromiseByPairs
<1>4. ASSUME NEW m \in Msg, SourceStep(m)
      PROVE  [Promise!Next]_(Promise!vars)
  <2>1. /\ UNCHANGED <<delivered, givenUp>>
        /\ \A n \in Msg \ {m} : /\ files'[n] = files[n] /\ meta'[n] = meta[n]
                                /\ qd'[n] = qd[n] /\ rcpts'[n] = rcpts[n]
        /\ qd[m] # "committed"
    BY <1>0, <1>4, SourceFrame DEF Live, Writing, AbortStep
  <2>2. \A n \in Msg, r \in Rcpt : Accepted(n, r) =>
           /\ Accepted(n, r)' /\ (Settled(n, r)' <=> Settled(n, r))
           /\ Kept(n, r)' <=> Kept(n, r)
    BY <2>1 DEF Accepted, Settled, Kept
  <2> QED BY <1>1, <2>2, PromiseByPairs
<1>5. ASSUME NEW g \in Goroutine, WorkerStep(g)
      PROVE  [Promise!Next]_(Promise!vars)
  <2>1. PICK n \in Msg : n = work[g].id
    BY <1>0 DEF TypeOK, Work
  <2>2. /\ qd' = qd /\ rcpts' = rcpts
        /\ \A x \in Msg \ {n} : files'[x] = files[x] /\ meta'[x] = meta[x]
    BY <1>0, <1>5, <2>1, WorkerFrame
  <2>3. CASE Deliver(g) \/ EmitDSN(g)
    <3>1. UNCHANGED <<files, meta>>
      BY <2>3 DEF Deliver, EmitDSN
    <3>2. \A m \in Msg, r \in Rcpt : Settled(m, r) => Settled(m, r)'
      <4> SUFFICES ASSUME NEW m \in Msg, NEW r \in Rcpt, Settled(m, r) PROVE Settled(m, r)'
        OBVIOUS
      <4>1. CASE Deliver(g)
        <5>1. /\ delivered'[m][r] = delivered[m][r] \/ delivered'[m][r] = delivered[m][r] + 1
              /\ delivered[m][r] \in Nat /\ givenUp' = givenUp
          BY <1>0, <4>1 DEF Deliver, TypeOK, Bag
        <5> QED BY <5>1 DEF Settled
      <4>2. CASE EmitDSN(g)
        BY <1>0, <4>2 DEF EmitDSN, Settled, TypeOK
      <4> QED BY <2>3, <4>1, <4>2
    <3>3. \A m \in Msg, r \in Rcpt : /\ Accepted(m, r)' <=> Accepted(m, r)
                                     /\ Kept(m, r)' <=> Kept(m, r)
      BY <2>2, <3>1 DEF Accepted, Kept
    <3> QED BY <1>1, <3>2, <3>3, PromiseByPairs
  <2>4. CASE ~Deliver(g) /\ ~EmitDSN(g)
    <3>1. UNCHANGED <<delivered, givenUp>>
      BY <1>5, <2>4 DEF WorkerStep, Open, TargetPanics, Remove, UpdateMeta, Requeue,
         RequeueReturns, DiscardBroken
    <3>2. ASSUME NEW m \in Msg, NEW r \in Rcpt, Accepted(m, r), Kept(m, r)'
          PROVE  Kept(m, r)
      <4>1. CASE m # n
        BY <2>2, <3>2, <4>1 DEF Kept
      <4>2. CASE m = n
        <5>1. CASE Open(g)
          <6>1. files'[n] \subseteq files[n] /\ meta' = meta
            <7>1. ~Complete(n) => AfterFailedOpen(files[n]) \subseteq files[n]
              BY DEF Complete, AfterFailedOpen
            <7> QED BY <1>0, <2>1, <5>1, <7>1 DEF Open, TypeOK
          <6> QED BY <3>2, <4>2, <6>1 DEF Kept
        <5>2. CASE Remove(g)
          <6>1. files'[n] \subseteq files[n] /\ meta' = meta
            BY <1>0, <2>1, <5>2 DEF Remove, RemoveFile, TypeOK
          <6> QED BY <3>2, <4>2, <6>1 DEF Kept
        <5>3. CASE TargetPanics(g) \/ Requeue(g) \/ RequeueReturns(g)
          BY <3>2, <5>3 DEF TargetPanics, Requeue, RequeueReturns, Kept
        <5>4. CASE DiscardBroken(g)
          BY <1>0, <2>1, <3>2, <4>2, <5>4 DEF DiscardBroken, Kept, TypeOK
        <5>5. CASE UpdateMeta(g)
          <6>1. Listed(n) /\ Members(work[g].meta.to) \subseteq Members(meta[n].to)
            BY <2>1, <3>2, <4>2, <5>5 DEF UpdateMeta, MemoryMatches, NoNewNames, Taken, Accepted
          <6>2. CASE UNCHANGED <<files, meta>>
            BY <3>2, <6>2 DEF Kept
          <6>3. CASE /\ meta' = [meta EXCEPT ![n] = work[g].meta]
                     /\ files' = [files EXCEPT ![n] = @ \cup {"meta"}]
            <7>1. meta'[n] = work[g].meta /\ files'[n] = files[n] \cup {"meta"}
              BY <1>0, <6>3 DEF TypeOK
            <7>2. r \in Members(work[g].meta.to)
              BY <3>2, <4>2, <7>1 DEF Kept, Members
            <7>3. meta[n].to[r] > 0
              BY <6>1, <7>2 DEF Members
            <7> QED BY <3>2, <4>2, <6>1, <7>1, <7>3 DEF Kept, Listed
          <6> QED BY <2>1, <5>5, <6>2, <6>3 DEF UpdateMeta
        <5> QED BY <1>5, <2>4, <5>1, <5>2, <5>3, <5>4, <5>5 DEF WorkerStep
      <4> QED BY <4>1, <4>2
    <3> QED BY <1>3, <2>2, <3>1, <3>2
  <2> QED BY <2>3, <2>4
<1>6. ASSUME NEW g \in Goroutine, NEW m \in Msg, Dispatch(g, m)
      PROVE  [Promise!Next]_(Promise!vars)
  BY <1>2, <1>6 DEF Dispatch
<1>7. CASE BootStep
  <2>1. CASE Restart \/ LoadReturns
    BY <1>2, <2>1 DEF Restart, LoadReturns
  <2>2. CASE CleanSecondFile \/ \E m \in Msg : ReadEntry(m)
    <3>1. UNCHANGED <<delivered, givenUp, qd, rcpts, meta>>
      BY <2>2 DEF CleanSecondFile, ReadEntry
    <3>2. \A n \in Msg : files'[n] \subseteq files[n]
      BY <1>0, <2>2 DEF CleanSecondFile, ReadEntry, TypeOK
    <3>3. \A m \in Msg, r \in Rcpt : Kept(m, r)' => Kept(m, r)
      BY <3>1, <3>2 DEF Kept
    <3> QED BY <1>3, <3>1, <3>3
  <2> QED BY <1>7, <2>1, <2>2 DEF BootStep
<1>8. CASE CloseStart \/ CloseHandshake \/ UNCHANGED vars
  BY <1>2, <1>8 DEF CloseStart, CloseHandshake, vars
<1>9. CASE Down
  <2>1. \A m \in Msg : qd'[m] = "committed" <=> qd[m] = "committed"
    BY <1>9 DEF Down, Live, Writing, AbortStep
  <2>2. UNCHANGED <<files, meta, delivered, givenUp, rcpts>>
    BY <1>9 DEF Down
  <2>3. \A m \in Msg, r \in Rcpt : /\ Accepted(m, r)' <=> Accepted(m, r)
                                   /\ Settled(m, r)' <=> Settled(m, r)
                                   /\ Kept(m, r)' <=> Kept(m, r)
    BY <2>1, <2>2 DEF Accepted, Settled, Kept
  <2> QED BY <1>1, <2>3, PromiseByPairs
<1> QED
  BY <1>4, <1>5, <1>6, <1>7, <1>8, <1>9 DEF Next, Exit, Crash

\* The queue implements the at-least-once promise of DeliveryPromise: through
\* storeNewMessage, tryDelivery, updateMetadataOnDisk, removeFromDisk, discardBroken
\* and readDiskQueue, and whatever crashes and storage errors come in between, an
\* accepted recipient leaves the disk only once it was delivered or given up on,
\* and no rewrite of the meta-data brings one back.
THEOREM QueueKeepsPromise == Spec => KeepsPromise
<1>1. Init => MemoryMatches
  BY DEF Init, MemoryMatches, NoWork, Taken
<1>2. Init => SingleFlight
  BY DEF Init, NoWork, SingleFlight, WorksOn, Busy, Waiting, RemovalStep
<1>3. Init => Promise!Init
  BY DEF Init, Promise!Init, AcceptedPairs
<1> QED
  BY <1>1, <1>2, <1>3, ShapeInit, ShapeStep, LossInit, LossStep, FlightStep, MemoryStep,
     PromiseStep, PTL DEF Spec, KeepsPromise, Promise!Spec

-----------------------------------------------------------------------------
(* RetryOnlyFailed *)

\* One entry of an address: it is given up on exactly at the last try.
LEMMA OneEntry ==
  ASSUME NEW t \in Nat, t < MaxTries
  PROVE  /\ GivenUpEntries(t, 1) = IF t + 1 = MaxTries THEN 1 ELSE 0
         /\ t + 1 < MaxTries => (t + 1) % MaxTries = t + 1
         /\ GivenUpEntries(t, 0) = 0
<1>1. MaxTries \in Nat /\ MaxTries > 0
  BY ConstantsAssumption
<1>2. t + 1 < MaxTries => (t + 1) % MaxTries = t + 1
  BY <1>1
<1>3. t + 1 = MaxTries => (t + 1) % MaxTries = 0
  BY <1>1
<1>4. {i \in 1..1 : (t + i) % MaxTries = 0} = IF t + 1 = MaxTries THEN {1} ELSE {}
  <2>1. CASE t + 1 = MaxTries
    BY <1>1, <1>3, <2>1
  <2>2. CASE t + 1 < MaxTries
    BY <1>1, <1>2, <2>2
  <2> QED BY <1>1, <2>1, <2>2
<1>5. {i \in 1..0 : (t + i) % MaxTries = 0} = {}
  OBVIOUS
<1> QED BY <1>1, <1>2, <1>4, <1>5, FS_EmptySet, FS_Singleton DEF GivenUpEntries

\* A recipient listed once that the target took has no error.
LEMMA TakenHasNoError ==
  ASSUME NEW to \in Bag, NEW reply \in DeliverReplies(to), NEW r \in reply.taken
  PROVE  to[r] > 0 /\ (to[r] <= 1 => reply.errs[r] = "ok")
<1>0. r \in Rcpt /\ to[r] > 0 /\ to[r] \in Nat
  BY RepliesSound DEF Members, Bag
<1>1. CASE \E e \in Failure : reply \in Replies(to, e)
  BY <1>1 DEF Replies
<1>2. ASSUME NEW add \in StatusFor(Members(to)), NEW acc \in Accepting(to, add),
             reply \in SendBody(add, acc), to[r] <= 1
      PROVE  reply.errs[r] = "ok"
  <2>1. CASE acc = {}
    BY <1>2, <2>1 DEF SendBody
  <2>2. CASE acc # {}
    <3>1. PICK st \in StatusFor(acc) :
            reply \in FinishDelivery([x \in Rcpt |-> IF st[x] # "ok" THEN st[x] ELSE add[x]],
                                     acc, {x \in acc : st[x] = "ok"})
      BY <1>2, <2>2 DEF SendBody
    <3> DEFINE errs == [x \in Rcpt |-> IF st[x] # "ok" THEN st[x] ELSE add[x]]
               oks == {x \in acc : st[x] = "ok"}
    <3>2. reply = [errs |-> errs, taken |-> oks]
      BY <3>1 DEF FinishDelivery
    <3>3. r \in acc /\ st[r] = "ok"
      BY <3>2
    <3>4. add[r] = "ok"
      BY <1>0, <1>2, <3>3 DEF Accepting, Members
    <3> QED BY <1>0, <3>2, <3>3, <3>4
  <2> QED BY <2>1, <2>2
<1> QED
  BY <1>0, <1>1, <1>2 DEF DeliverReplies

\* What one pass of tryDelivery does to a recipient listed at most once.
LEMMA OnePass ==
  ASSUME NEW md \in Meta, NEW reply \in DeliverReplies(md.to), NEW r \in Rcpt,
         md.to[r] <= 1, md.to[r] = 1 => md.tries[r] < MaxTries
  PROVE  /\ NewMeta(md, reply.errs).to[r] \in {0, 1} /\ FailedRcpts(md, reply.errs)[r] \in {0, 1}
         /\ md.to[r] = 0 => /\ r \notin reply.taken
                            /\ NewMeta(md, reply.errs).to[r] = 0 /\ FailedRcpts(md, reply.errs)[r] = 0
         /\ r \in reply.taken => NewMeta(md, reply.errs).to[r] = 0 /\ FailedRcpts(md, reply.errs)[r] = 0
         /\ NewMeta(md, reply.errs).to[r] = 1 =>
              /\ FailedRcpts(md, reply.errs)[r] = 0
              /\ NewMeta(md, reply.errs).tries[r] = md.tries[r] + 1
              /\ md.tries[r] + 1 < MaxTries
<1>1. /\ md.to \in Bag /\ md.to[r] \in {0, 1} /\ md.tries[r] \in Nat
  BY DEF Meta, Bag
<1>2. /\ reply.errs \in [Rcpt -> Status] /\ reply.errs[r] \in Status
      /\ r \in reply.taken => md.to[r] = 1 /\ reply.errs[r] = "ok"
  BY <1>1, RepliesSound, TakenHasNoError
<1>3. /\ NewMeta(md, reply.errs).to[r] =
           CASE reply.errs[r] = "ok" -> 0 [] reply.errs[r] = "perm" -> 0
             [] reply.errs[r] = "temp" -> md.to[r] - GivenUpEntries(md.tries[r], md.to[r])
      /\ reply.errs[r] = "temp" =>
           NewMeta(md, reply.errs).tries[r] = (md.tries[r] + md.to[r]) % MaxTries
      /\ FailedRcpts(md, reply.errs)[r] =
           CASE reply.errs[r] = "ok" -> 0 [] reply.errs[r] = "perm" -> md.to[r]
             [] reply.errs[r] = "temp" -> GivenUpEntries(md.tries[r], md.to[r])
  BY <1>2 DEF NewMeta, FailedRcpts
<1>4. CASE md.to[r] = 0
  <2>1. GivenUpEntries(md.tries[r], md.to[r]) = 0
    BY <1>1, <1>4, GivenUpEntriesType
  <2> QED BY <1>2, <1>3, <1>4, <2>1 DEF Status
<1>5. CASE md.to[r] = 1
  <2>1. /\ GivenUpEntries(md.tries[r], 1) = IF md.tries[r] + 1 = MaxTries THEN 1 ELSE 0
        /\ md.tries[r] + 1 < MaxTries => (md.tries[r] + 1) % MaxTries = md.tries[r] + 1
        /\ md.tries[r] + 1 # MaxTries => md.tries[r] + 1 < MaxTries
    BY <1>1, <1>5, OneEntry, ConstantsAssumption
  <2>2. CASE reply.errs[r] = "ok"
    BY <1>2, <1>3, <1>5, <2>2
  <2>3. CASE reply.errs[r] = "perm"
    BY <1>2, <1>3, <1>5, <2>3
  <2>4. CASE reply.errs[r] = "temp"
    <3>1. r \notin reply.taken
      BY <1>2, <2>4
    <3>2. /\ NewMeta(md, reply.errs).to[r] = 1 - GivenUpEntries(md.tries[r], 1)
          /\ FailedRcpts(md, reply.errs)[r] = GivenUpEntries(md.tries[r], 1)
          /\ NewMeta(md, reply.errs).tries[r] = (md.tries[r] + 1) % MaxTries
      BY <1>3, <1>5, <2>4
    <3> QED BY <1>5, <2>1, <3>1, <3>2
  <2> QED BY <1>2, <2>2, <2>3, <2>4 DEF Status
<1> QED BY <1>1, <1>4, <1>5

\* Only a crash or a failing call moves the two counters.
LEMMA BoundsMove ==
  ASSUME TypeOK, [Next]_vars, ~Crash, ~Fault
  PROVE  UNCHANGED boundVars
<1> USE DEF diskVars, wheelVars, bootVars, sourceVars, outsideVars, boundVars
<1>1. ASSUME NEW m \in Msg, SourceStep(m) PROVE UNCHANGED boundVars
  BY <1>1 DEF SourceStep, Start, AddRcpt, StoreHeader, StoreBody, StoreMeta, StoreSync,
     StoreFails, Abort, AbortRemove, RemoveFile, Commit, CommitReturns
<1>2. ASSUME NEW g \in Goroutine, WorkerStep(g) PROVE UNCHANGED boundVars
  <2>1. CASE Open(g)
    <3>1. UNCHANGED boundVars \/ Fault
      BY <2>1, Zenon DEF Open
    <3> QED BY <3>1
  <2>2. CASE Remove(g)
    BY <2>2 DEF Remove, RemoveFile
  <2>3. CASE \/ Deliver(g) \/ TargetPanics(g) \/ EmitDSN(g) \/ UpdateMeta(g) \/ Requeue(g)
             \/ RequeueReturns(g) \/ DiscardBroken(g)
    BY <2>3 DEF Deliver, TargetPanics, EmitDSN, UpdateMeta, Requeue, RequeueReturns, DiscardBroken
  <2> QED BY <1>2, <2>1, <2>2, <2>3 DEF WorkerStep
<1>3. CASE BootStep
  BY <1>3 DEF BootStep, Restart, ReadEntry, CleanSecondFile, LoadReturns
<1>4. CASE CloseStart \/ CloseHandshake \/ Exit \/ UNCHANGED vars
  BY <1>4 DEF CloseStart, CloseHandshake, Exit, vars
<1>5. ASSUME NEW g \in Goroutine, NEW m \in Msg, Dispatch(g, m) PROVE UNCHANGED boundVars
  BY <1>5 DEF Dispatch
<1> QED BY <1>1, <1>2, <1>3, <1>4, <1>5 DEF Next

\* A step after which nothing went wrong is neither a crash nor a fault, and what
\* was undisturbed after it was so before.
LEMMA Calm ==
  ASSUME TypeOK, [Next]_vars, Undisturbed'
  PROVE  Undisturbed /\ ~Crash /\ ~Fault
<1>1. crashes \in Nat /\ faults \in Nat /\ crashes' = 0 /\ faults' = 0
  BY DEF TypeOK, Undisturbed
<1>2. ~Crash /\ ~Fault
  BY <1>1 DEF Crash, Fault
<1> QED BY <1>1, <1>2, BoundsMove DEF Undisturbed, boundVars

\* The same for one interruption: the first crash finds a process that was never
\* restarted.
LEMMA FirstInterruption ==
  ASSUME TypeOK, LifeShape, [Next]_vars, faults' = 0
  PROVE  /\ faults = 0 /\ ~Fault
         /\ InterruptedOnce' => /\ InterruptedOnce
                                /\ Crash => todo = {} /\ boot = NoBoot
<1>1. crashes \in Nat /\ faults \in Nat
  BY DEF TypeOK
<1>2. ~Fault
  BY <1>1 DEF Fault
<1>3. CASE Crash
  BY <1>1, <1>2, <1>3 DEF Crash, InterruptedOnce, LifeShape
<1>4. CASE ~Crash
  BY <1>1, <1>2, <1>4, BoundsMove DEF InterruptedOnce, boundVars
<1> QED BY <1>2, <1>3, <1>4

\* A step that tells the outside nothing about message m, and changes the lists
\* that speak of it only by losing some, keeps RetryPart.
LEMMA RetryFrame ==
  ASSUME NEW m \in Msg, RetryPart(m), delivered'[m] = delivered[m], bounced'[m] = bounced[m],
         attempts'[m] = attempts[m], FirstAhead(m)' => FirstAhead(m),
         "meta" \in files'[m] /\ ListCurrent(m)' =>
           \/ "meta" \in files[m] /\ ListCurrent(m) /\ meta'[m] = meta[m]
           \/ \A r \in Rcpt : Pending(meta'[m], m, r),
         \A h \in Goroutine : work'[h].id = m /\ work'[h].pc \in {"deliver", "dsn", "update"} =>
           \/ work'[h] = work[h]
           \/ work'[h].pc # "dsn" /\ \A r \in Rcpt : Pending(work'[h].meta, m, r)
  PROVE  RetryPart(m)'
<1>2. FirstAhead(m)' => Untried(m)'
  BY DEF RetryPart, Untried
<1>3. "meta" \in files'[m] /\ ListCurrent(m)' => \A r \in Rcpt : Pending(meta'[m], m, r)
  BY DEF RetryPart
<1>4. ASSUME NEW h \in Goroutine, NEW r \in Rcpt, work'[h].id = m
      PROVE  /\ work'[h].pc \in {"deliver", "dsn", "update"} => Pending(work'[h].meta, m, r)
             /\ work'[h].pc = "dsn" /\ work'[h].fail[r] # 0 =>
                  /\ work'[h].fail[r] = 1 /\ work'[h].meta.to[r] = 0
                  /\ delivered'[m][r] = 0 /\ bounced'[m][r] = 0
  <2>1. CASE work'[h] = work[h]
    BY <1>4, <2>1 DEF RetryPart
  <2>2. CASE work'[h] # work[h]
    BY <1>4, <2>2
  <2> QED BY <2>1, <2>2
<1>5. \A r \in Rcpt : delivered'[m][r] + bounced'[m][r] <= 1 /\ attempts'[m][r] <= MaxTries
  BY DEF RetryPart
<1>7. \A r \in Rcpt : /\ Pending(meta'[m], m, r) => Pending(meta[m], m, r)'
                      /\ \A h \in Goroutine : Pending(work'[h].meta, m, r) => Pending(work[h].meta, m, r)'
  BY DEF Pending
<1> QED BY <1>2, <1>3, <1>4, <1>5, <1>7 DEF RetryPart

\* A source tells the outside nothing.
LEMMA SourceSilent ==
  ASSUME NEW m \in Msg, SourceStep(m)
  PROVE  UNCHANGED <<delivered, attempts, bounced>>
BY DEF SourceStep, Start, AddRcpt, StoreHeader, StoreBody, StoreMeta, StoreSync, StoreFails, Abort,
   AbortRemove, Commit, CommitReturns, outsideVars

\* The first list a message gets is that of its source.
LEMMA UntriedPending ==
  ASSUME NEW m \in Msg, rcpts[m] \in Bag, NoCopies(m), Untried(m)
  PROVE  \A r \in Rcpt : Pending(InitMeta(m), m, r)
BY ConstantsAssumption DEF InitMeta, Pending, NoCopies, Untried, NoRcpts, Bag

\* A goroutine that works on a message is the only one, and it is no first try
\* any more once it got past the semaphore.
LEMMA AloneOn ==
  ASSUME ShapeInv, SingleFlight, NEW g \in Goroutine, NEW m \in Msg, WorksOn(g, m)
  PROVE  /\ \A h \in Goroutine : h # g /\ work[h].id = m =>
              work[h].pc \in {"idle", "send", "unwound"}
         /\ work[g].pc # "mem" => ~FirstAhead(m)
<1>1. \A h \in Goroutine : work[h].pc \in Busy \cup Waiting \cup {"idle", "send", "unwound"}
  BY DEF ShapeInv, TypeOK, Work, WorkerState
<1>2. \A h \in Goroutine : h # g /\ work[h].id = m => work[h].pc \in {"idle", "send", "unwound"}
  BY <1>1 DEF SingleFlight, WorksOn
<1>3. work[g].id = m /\ work[g].pc # "idle" /\ slot[m] = "none"
  BY DEF SingleFlight, WorksOn, Busy, Waiting, RemovalStep
<1>4. qd[m] \notin Writing \cup {"new", "stored"}
  BY <1>3 DEF ShapeInv, PrivateUntilCommit, Untouched
<1> QED BY <1>2, <1>3, <1>4 DEF FirstAhead

\* The steps of the goroutine that has the message.
LEMMA RetryWorker ==
  ASSUME ShapeInv, SingleFlight, NEW g \in Goroutine, WorkerStep(g), ~Fault,
         NEW m \in Msg, work[g].id = m, NoCopies(m), RetryPart(m)
  PROVE  RetryPart(m)'
<1> USE DEF diskVars, wheelVars, bootVars, sourceVars, outsideVars, boundVars
<1>0. /\ TypeOK /\ work \in [Goroutine -> Work] /\ work[g] \in Work
      /\ work[g].meta \in Meta /\ rcpts[m] \in Bag /\ work[g].pc # "idle"
  BY WorkerFrame DEF ShapeInv, TypeOK, Work
<1>1. /\ UNCHANGED <<qd, rcpts>> /\ \A h \in Goroutine \ {g} : work'[h] = work[h]
      /\ work'[g].pc = "idle" \/ work'[g].id = m
  BY <1>0, WorkerFrame
<1>2. CASE Open(g)
  <2>1. WorksOn(g, m) /\ work[g].pc \in Waiting
    BY <1>2 DEF Open, WorksOn
  <2>2. ListCurrent(m)
    BY <2>1, AloneOn DEF ListCurrent, Waiting, RemovalStep
  <2>3. /\ UNCHANGED <<delivered, bounced, attempts, meta, slot>>
        /\ \/ /\ files' = files /\ work'[g].pc = "deliver"
              /\ \/ work[g].pc = "mem" /\ work'[g].meta = InitMeta(m)
                 \/ work[g].pc = "disk" /\ Complete(m) /\ work'[g].meta = meta[m]
           \/ work'[g].pc = "idle" /\ ~Complete(m) /\ files'[m] = AfterFailedOpen(files[m])
    BY <1>0, <1>2 DEF Open, Waiting, NoWork, Work, TypeOK
  <2>4. FirstAhead(m)' => FirstAhead(m)
    BY <1>1, <2>3 DEF FirstAhead
  <2>5. "meta" \in files'[m] => "meta" \in files[m]
    <3>1. ~Complete(m) => AfterFailedOpen(files[m]) \subseteq files[m]
      BY DEF Complete, AfterFailedOpen
    <3> QED BY <2>3, <3>1
  <2>6. work'[g].pc = "deliver" => \A r \in Rcpt : Pending(work'[g].meta, m, r)
    <3>1. CASE work[g].pc = "mem" /\ work'[g].meta = InitMeta(m)
      <4>1. Untried(m)
        BY <3>1 DEF RetryPart, FirstAhead
      <4> QED BY <1>0, <3>1, <4>1, UntriedPending
    <3>2. CASE Complete(m) /\ work'[g].meta = meta[m]
      BY <2>2, <3>2 DEF RetryPart, Complete
    <3> QED BY <2>3, <3>1, <3>2
  <2> QED BY <1>1, <2>2, <2>3, <2>4, <2>5, <2>6, RetryFrame
<1>3. CASE Deliver(g)
  <2>1. WorksOn(g, m) /\ work[g].pc = "deliver"
    BY <1>3 DEF Deliver, WorksOn, Busy
  <2> DEFINE md(reply) == NewMeta(work[g].meta, reply.errs)
             failed(reply) == FailedRcpts(work[g].meta, reply.errs)
             next(reply) == IF Members(failed(reply)) # {} THEN "dsn" ELSE AfterReport(md(reply))
  <2>2. PICK reply \in DeliverReplies(work[g].meta.to) :
          /\ work' = [work EXCEPT ![g] = [pc |-> next(reply), id |-> m,
                                          meta |-> md(reply), fail |-> failed(reply)]]
          /\ delivered' = [delivered EXCEPT ![m] =
               [r \in Rcpt |-> IF r \in reply.taken THEN delivered[m][r] + 1 ELSE delivered[m][r]]]
    BY <1>3 DEF Deliver
  <2>3. next(reply) \in {"dsn", "header", "update"}
    BY DEF AfterReport
  <2>4. ASSUME NEW r \in Rcpt
        PROVE  /\ md(reply).to[r] \in {0, 1} /\ failed(reply)[r] \in {0, 1}
               /\ work[g].meta.to[r] = 0 => /\ r \notin reply.taken
                                            /\ md(reply).to[r] = 0 /\ failed(reply)[r] = 0
               /\ r \in reply.taken => md(reply).to[r] = 0 /\ failed(reply)[r] = 0
               /\ md(reply).to[r] = 1 => /\ failed(reply)[r] = 0
                                         /\ md(reply).tries[r] = work[g].meta.tries[r] + 1
                                         /\ work[g].meta.tries[r] + 1 < MaxTries
    BY <1>0, <2>1, OnePass DEF RetryPart, Pending
  <2> HIDE DEF md, failed, next
  <2>5. /\ work'[g] = [pc |-> next(reply), id |-> m, meta |-> md(reply), fail |-> failed(reply)]
        /\ \A r \in Rcpt :
             /\ delivered'[m][r] = IF r \in reply.taken THEN delivered[m][r] + 1 ELSE delivered[m][r]
             /\ attempts'[m][r] = IF work[g].meta.to[r] > 0 THEN attempts[m][r] + 1 ELSE attempts[m][r]
             /\ bounced'[m][r] = bounced[m][r]
        /\ slot' = slot
    BY <1>0, <1>3, <2>2 DEF Deliver, TypeOK
  <2>6. ASSUME NEW r \in Rcpt
        PROVE  /\ md(reply).to[r] <= 1
               /\ md(reply).to[r] = 1 =>
                    /\ delivered'[m][r] = 0 /\ bounced'[m][r] = 0
                    /\ attempts'[m][r] = md(reply).tries[r] /\ md(reply).tries[r] < MaxTries
               /\ failed(reply)[r] # 0 => /\ failed(reply)[r] = 1 /\ md(reply).to[r] = 0
                                          /\ delivered'[m][r] = 0 /\ bounced'[m][r] = 0
               /\ delivered'[m][r] + bounced'[m][r] <= 1 /\ attempts'[m][r] <= MaxTries
    <3>1. /\ delivered[m][r] \in Nat /\ bounced[m][r] \in Nat /\ attempts[m][r] \in Nat
          /\ work[g].meta.to[r] \in Nat /\ work[g].meta.tries[r] \in Nat /\ MaxTries \in Nat
      BY <1>0, ConstantsAssumption DEF TypeOK, Bag, Meta
    <3>2. /\ Pending(work[g].meta, m, r)
          /\ delivered[m][r] + bounced[m][r] <= 1 /\ attempts[m][r] <= MaxTries
      BY <2>1 DEF RetryPart
    <3>3. CASE work[g].meta.to[r] = 0
      <4>1. md(reply).to[r] = 0 /\ failed(reply)[r] = 0 /\ r \notin reply.taken
        BY <2>4, <3>3
      <4>2. delivered'[m][r] = delivered[m][r] /\ attempts'[m][r] = attempts[m][r]
            /\ bounced'[m][r] = bounced[m][r]
        BY <2>5, <3>1, <3>3, <4>1
      <4> QED BY <3>2, <4>1, <4>2
    <3>4. CASE work[g].meta.to[r] = 1
      <4>1. /\ delivered[m][r] = 0 /\ bounced[m][r] = 0
            /\ attempts[m][r] = work[g].meta.tries[r] /\ work[g].meta.tries[r] < MaxTries
        BY <3>2, <3>4 DEF Pending
      <4>2. attempts'[m][r] = work[g].meta.tries[r] + 1 /\ bounced'[m][r] = 0
        BY <2>5, <3>4, <4>1
      <4>3. delivered'[m][r] = IF r \in reply.taken THEN 1 ELSE 0
        BY <2>5, <4>1
      <4> QED BY <2>4, <3>1, <4>1, <4>2, <4>3 DEF Pending
    <3>5. work[g].meta.to[r] \in {0, 1}
      BY <3>1, <3>2 DEF Pending
    <3> QED BY <3>3, <3>4, <3>5
  <2>7. ~FirstAhead(m)'
    <3>1. ~FirstAhead(m)
      BY <2>1, AloneOn
    <3> QED BY <1>1, <2>3, <2>5, <3>1 DEF FirstAhead
  <2>8. ~ListCurrent(m)'
    BY <2>3, <2>5 DEF ListCurrent, RemovalStep
  <2>9. \A h \in Goroutine : h # g /\ work'[h].id = m => work'[h].pc \notin {"deliver", "dsn", "update"}
    BY <1>1, <2>1, AloneOn
  <2>10. work'[g].pc = next(reply) /\ work'[g].meta = md(reply) /\ work'[g].fail = failed(reply)
    BY <2>5
  <2>11. \A r \in Rcpt : Pending(work[g].meta, m, r)'
    BY <2>6, <2>10 DEF Pending
  <2> QED BY <2>6, <2>7, <2>8, <2>9, <2>10, <2>11 DEF RetryPart
<1>4. CASE EmitDSN(g)
  <2>1. WorksOn(g, m) /\ work[g].pc = "dsn"
    BY <1>4 DEF EmitDSN, WorksOn, Busy
  <2>2. /\ work'[g].pc \in {"header", "update"} /\ work'[g].meta = work[g].meta
        /\ UNCHANGED <<delivered, attempts, slot>>
    BY <1>0, <1>4 DEF EmitDSN, AfterReport, Work
  <2>3. \A r \in Rcpt : bounced'[m][r] \in {bounced[m][r], bounced[m][r] + work[g].fail[r]}
    BY <1>0, <1>4 DEF EmitDSN, TypeOK
  <2>4. ASSUME NEW r \in Rcpt
        PROVE  /\ Pending(work[g].meta, m, r)'
               /\ delivered'[m][r] + bounced'[m][r] <= 1 /\ attempts'[m][r] <= MaxTries
    <3>1. /\ delivered[m][r] \in Nat /\ bounced[m][r] \in Nat /\ work[g].fail[r] \in Nat
      BY <1>0 DEF TypeOK, Bag, Work
    <3>2. /\ Pending(work[g].meta, m, r)
          /\ delivered[m][r] + bounced[m][r] <= 1 /\ attempts[m][r] <= MaxTries
          /\ work[g].fail[r] # 0 => /\ work[g].fail[r] = 1 /\ work[g].meta.to[r] = 0
                                    /\ delivered[m][r] = 0 /\ bounced[m][r] = 0
      BY <2>1 DEF RetryPart
    <3>3. CASE work[g].fail[r] = 0
      <4>1. bounced'[m][r] = bounced[m][r]
        BY <2>3, <3>1, <3>3
      <4> QED BY <2>2, <3>2, <4>1 DEF Pending
    <3>4. CASE work[g].fail[r] # 0
      <4>1. bounced'[m][r] \in {0, 1} /\ delivered'[m][r] = 0 /\ work'[g].meta.to[r] = 0
        BY <2>2, <2>3, <3>2, <3>4
      <4> QED BY <2>2, <3>2, <4>1 DEF Pending
    <3> QED BY <3>3, <3>4
  <2>5. ~FirstAhead(m)'
    <3>1. ~FirstAhead(m)
      BY <2>1, AloneOn
    <3> QED BY <1>1, <2>2, <3>1 DEF FirstAhead
  <2>6. ~ListCurrent(m)'
    BY <1>1, <2>2 DEF ListCurrent, RemovalStep
  <2>7. \A h \in Goroutine : h # g /\ work'[h].id = m => work'[h].pc \notin {"deliver", "dsn", "update"}
    BY <1>1, <2>1, AloneOn
  <2> QED BY <2>2, <2>4, <2>5, <2>6, <2>7 DEF RetryPart
<1>5. CASE UpdateMeta(g)
  <2>1. WorksOn(g, m) /\ work[g].pc = "update"
    BY <1>5 DEF UpdateMeta, WorksOn, Busy
  <2>2. /\ meta'[m] = work[g].meta /\ work'[g].pc = "add"
        /\ UNCHANGED <<delivered, attempts, bounced, slot>>
    BY <1>0, <1>5 DEF UpdateMeta, TypeOK, Work
  <2>3. \A r \in Rcpt : Pending(meta'[m], m, r)
    BY <2>1, <2>2 DEF RetryPart
  <2>4. FirstAhead(m)' => FirstAhead(m)
    BY <1>1, <2>2 DEF FirstAhead
  <2> QED BY <1>1, <2>2, <2>3, <2>4, RetryFrame
<1>6. CASE Remove(g)
  <2>1. /\ UNCHANGED <<delivered, attempts, bounced, slot, meta>>
        /\ \/ work'[g].pc = "idle" /\ "meta" \notin files'[m]
           \/ work'[g].pc \in RemovalStep /\ work'[g].id = m
    <3>1. files' = [files EXCEPT ![m] = @ \ {work[g].pc}]
      BY <1>6 DEF Remove, RemoveFile
    <3>2. /\ UNCHANGED <<delivered, attempts, bounced, slot, meta>>
          /\ \/ work'[g].pc = "idle" /\ work[g].pc = "meta"
             \/ work'[g].pc \in RemovalStep /\ work'[g].id = m
      BY <1>0, <1>6 DEF Remove, RemovalStep, NextRemoval, NoWork, Work
    <3> QED BY <1>0, <3>1, <3>2 DEF TypeOK
  <2>2. FirstAhead(m)' => FirstAhead(m)
    BY <1>1, <2>1 DEF FirstAhead, RemovalStep
  <2>3. ~("meta" \in files'[m] /\ ListCurrent(m)')
    BY <2>1 DEF ListCurrent
  <2>4. work'[g].pc \notin {"deliver", "dsn", "update"}
    BY <2>1 DEF RemovalStep
  <2> QED BY <1>1, <2>1, <2>2, <2>3, <2>4, RetryFrame
<1>7. CASE Requeue(g) \/ RequeueReturns(g)
  <2>1. /\ UNCHANGED <<delivered, attempts, bounced, meta, files>>
        /\ slot'[m] = "disk" \/ slot'[m] = slot[m]
        /\ work[g].pc \in {"add", "send"} /\ work'[g].pc \in {"idle", "send", "unwound"}
    BY <1>0, <1>7 DEF Requeue, RequeueReturns, TypeOK, Work, NoWork
  <2>2. FirstAhead(m)' => FirstAhead(m)
    BY <1>1, <2>1 DEF FirstAhead
  <2>3. ListCurrent(m)' => ListCurrent(m)
    BY <1>1, <2>1 DEF ListCurrent, RemovalStep
  <2> QED BY <1>1, <2>1, <2>2, <2>3, RetryFrame
<1>8. CASE DiscardBroken(g)
  <2>1. /\ UNCHANGED <<delivered, attempts, bounced, slot>>
        /\ "meta" \notin files'[m] /\ work'[g].pc = "idle"
    BY <1>0, <1>8 DEF DiscardBroken, TypeOK, Work, NoWork
  <2>2. FirstAhead(m)' => FirstAhead(m)
    BY <1>1, <2>1 DEF FirstAhead
  <2> QED BY <1>1, <2>1, <2>2, RetryFrame
<1> QED
  BY <1>2, <1>3, <1>4, <1>5, <1>6, <1>7, <1>8 DEF WorkerStep, TargetPanics

\* RetryInv is preserved by every step.
LEMMA RetryStep == ShapeInv /\ SingleFlight /\ RetryInv /\ [Next]_vars => RetryInv'
<1> SUFFICES ASSUME ShapeInv, SingleFlight, RetryInv, [Next]_vars,
                    NEW m \in Msg, Undisturbed', NoCopies(m)'
             PROVE  RetryPart(m)'
  BY DEF RetryInv
<1> USE DEF diskVars, wheelVars, bootVars, sourceVars, outsideVars, boundVars
<1>0. TypeOK /\ Undisturbed /\ ~Crash /\ ~Fault
  BY Calm DEF ShapeInv
<1>1. NoCopies(m)
  <2>1. rcpts' = rcpts \/ \E n \in Msg, r \in Rcpt : AddRcpt(n, r)
    <3>1. ASSUME NEW n \in Msg, SourceStep(n)
          PROVE  rcpts' = rcpts \/ \E r \in Rcpt : AddRcpt(n, r)
      BY <3>1 DEF SourceStep, Start, StoreHeader, StoreBody, StoreMeta, StoreSync, StoreFails, Abort,
         AbortRemove, Commit, CommitReturns
    <3>2. CASE BootStep \/ CloseStart \/ CloseHandshake \/ Exit \/ UNCHANGED vars
      BY <3>2 DEF BootStep, Restart, ReadEntry, CleanSecondFile, LoadReturns, CloseStart,
         CloseHandshake, Exit, Down, vars
    <3>3. ASSUME NEW g \in Goroutine, NEW n \in Msg, Dispatch(g, n) PROVE rcpts' = rcpts
      BY <3>3 DEF Dispatch
    <3> QED BY <1>0, <3>1, <3>2, <3>3, WorkerFrame DEF Next
  <2>2. ASSUME NEW n \in Msg, NEW q \in Rcpt, AddRcpt(n, q), NEW r \in Rcpt
        PROVE  rcpts[m][r] <= rcpts'[m][r] /\ rcpts[m][r] \in Nat /\ rcpts'[m][r] \in Nat
    <3>1. rcpts \in [Msg -> Bag] /\ rcpts[n][q] \in Nat /\ rcpts[m][r] \in Nat
      BY <1>0 DEF TypeOK, Bag
    <3>2. rcpts' = [rcpts EXCEPT ![n][q] = @ + 1]
      BY <2>2 DEF AddRcpt
    <3>3. rcpts'[m][r] = IF n = m /\ r = q THEN rcpts[m][r] + 1 ELSE rcpts[m][r]
      BY <3>1, <3>2 DEF Bag
    <3> QED BY <3>1, <3>3
  <2>3. ASSUME NEW n \in Msg, NEW q \in Rcpt, AddRcpt(n, q), NEW r \in Rcpt
        PROVE  rcpts[m][r] <= 1
    BY <2>2, <2>3 DEF NoCopies
  <2> QED BY <2>1, <2>3 DEF NoCopies
<1>2. RetryPart(m)
  BY <1>0, <1>1 DEF RetryInv
<1>3. ASSUME NEW n \in Msg, SourceStep(n) PROVE RetryPart(m)'
  <2>1. UNCHANGED <<delivered, attempts, bounced, work>>
    BY <1>0, <1>3, SourceFrame, SourceSilent
  <2>2. CASE n # m
    <3>1. files'[m] = files[m] /\ meta'[m] = meta[m] /\ slot'[m] = slot[m] /\ qd'[m] = qd[m]
      BY <1>0, <1>3, <2>2, SourceFrame
    <3>2. (FirstAhead(m)' => FirstAhead(m)) /\ (ListCurrent(m)' => ListCurrent(m))
      BY <2>1, <3>1 DEF FirstAhead, ListCurrent
    <3> QED BY <1>2, <2>1, <3>1, <3>2, RetryFrame
  <2>3. CASE n = m
    <3>1. FirstAhead(m)' => FirstAhead(m)
      <4>1. qd'[m] \in Writing \cup {"new", "stored"} => qd[m] \in Writing \cup {"new", "stored"}
        <5>1. CASE AbortRemove(m)
          <6>1. qd[m] \in AbortStep /\ qd'[m] = NextAbort[qd[m]]
            BY <1>0, <5>1 DEF AbortRemove, TypeOK
          <6> QED BY <6>1 DEF AbortStep, NextAbort, Writing
        <5>2. CASE CommitReturns(m) \/ Abort(m)
          BY <1>0, <5>2 DEF CommitReturns, Abort, TypeOK, Writing
        <5>3. CASE ~AbortRemove(m) /\ ~CommitReturns(m) /\ ~Abort(m)
          BY <1>3, <2>3, <5>3 DEF SourceStep, Start, AddRcpt, StoreHeader, StoreBody, StoreMeta,
             StoreSync, StoreFails, Commit, Writing
        <5> QED BY <5>1, <5>2, <5>3
      <4>2. slot'[m] = slot[m] \/ qd[m] = "stored"
        BY <1>3, <2>3 DEF SourceStep, Start, AddRcpt, StoreHeader, StoreBody, StoreMeta, StoreSync,
           StoreFails, Abort, AbortRemove, Commit, CommitReturns
      <4> QED BY <2>1, <4>1, <4>2 DEF FirstAhead
    <3>2. ListCurrent(m)' => ListCurrent(m)
      BY <2>1 DEF ListCurrent
    <3>3. CASE StoreMeta(m)
      <4>1. meta'[m] = InitMeta(m) /\ FirstAhead(m)
        BY <1>0, <3>3 DEF StoreMeta, TypeOK, FirstAhead, Writing
      <4>2. \A r \in Rcpt : Pending(meta'[m], m, r)
        BY <1>0, <1>1, <1>2, <4>1, UntriedPending DEF RetryPart, TypeOK
      <4> QED BY <1>2, <2>1, <3>1, <4>2, RetryFrame
    <3>4. CASE ~StoreMeta(m)
      <4>1. meta' = meta
        BY <1>3, <2>3, <3>4 DEF SourceStep, Start, AddRcpt, StoreHeader, StoreBody, StoreSync,
           StoreFails, Abort, AbortRemove, Commit, CommitReturns
      <4>2. "meta" \in files'[m] => "meta" \in files[m]
        <5>1. CASE AbortRemove(m)
          BY <1>0, <5>1 DEF AbortRemove, RemoveFile, TypeOK
        <5>2. CASE ~AbortRemove(m)
          BY <1>0, <1>3, <2>3, <3>4, <5>2 DEF SourceStep, Start, AddRcpt, StoreHeader, StoreBody,
             StoreSync, StoreFails, Abort, Commit, CommitReturns, TypeOK
        <5> QED BY <5>1, <5>2
      <4> QED BY <1>2, <2>1, <3>1, <3>2, <4>1, <4>2, RetryFrame
    <3> QED BY <3>3, <3>4
  <2> QED BY <2>2, <2>3
<1>4. ASSUME NEW g \in Goroutine, WorkerStep(g) PROVE RetryPart(m)'
  <2>1. CASE work[g].id = m
    BY <1>0, <1>1, <1>2, <1>4, <2>1, RetryWorker
  <2>2. CASE work[g].id # m
    <3>1. /\ UNCHANGED qd /\ files'[m] = files[m] /\ meta'[m] = meta[m] /\ slot'[m] = slot[m]
          /\ \A h \in Goroutine \ {g} : work'[h] = work[h]
          /\ work'[g].pc = "idle" \/ work'[g].id # m
      BY <1>0, <1>4, <2>2, WorkerFrame
    <3>2. delivered'[m] = delivered[m] /\ bounced'[m] = bounced[m] /\ attempts'[m] = attempts[m]
      BY <1>0, <1>4, <2>2 DEF WorkerStep, Open, Deliver, TargetPanics, EmitDSN, Remove, UpdateMeta,
         Requeue, RequeueReturns, DiscardBroken, TypeOK, Work
    <3>3. (FirstAhead(m)' => FirstAhead(m)) /\ (ListCurrent(m)' => ListCurrent(m))
      BY <2>2, <3>1 DEF FirstAhead, ListCurrent
    <3> QED BY <1>2, <3>1, <3>2, <3>3, RetryFrame
  <2> QED BY <2>1, <2>2
<1>5. ASSUME NEW g \in Goroutine, NEW n \in Msg, Dispatch(g, n) PROVE RetryPart(m)'
  <2>1. /\ UNCHANGED <<files, meta, qd, delivered, attempts, bounced>>
        /\ work'[g].pc = slot[n] /\ work'[g].id = n /\ slot[n] \in {"mem", "disk"}
        /\ work[g].pc = "idle" /\ \A h \in Goroutine \ {g} : work'[h] = work[h]
        /\ slot'[m] = slot[m] \/ slot'[m] = "none"
    BY <1>0, <1>5 DEF Dispatch, TypeOK, NoWork
  <2>2. (FirstAhead(m)' => FirstAhead(m)) /\ (ListCurrent(m)' => ListCurrent(m))
    BY <2>1 DEF FirstAhead, ListCurrent, RemovalStep
  <2> QED BY <1>2, <2>1, <2>2, RetryFrame
<1>6. CASE BootStep
  <2>1. /\ UNCHANGED <<meta, work, qd, delivered, attempts, bounced>>
        /\ slot'[m] = slot[m] \/ slot'[m] = "disk"
        /\ "meta" \in files'[m] => "meta" \in files[m]
    <3>1. CASE Restart \/ LoadReturns
      BY <3>1 DEF Restart, LoadReturns
    <3>2. ASSUME NEW n \in Msg, ReadEntry(n)
          PROVE  /\ UNCHANGED <<meta, work, qd, delivered, attempts, bounced>>
                 /\ slot'[m] = slot[m] \/ slot'[m] = "disk"
                 /\ "meta" \in files'[m] => "meta" \in files[m]
      BY <1>0, <3>2 DEF ReadEntry, TypeOK
    <3>3. CASE CleanSecondFile
      BY <1>0, <3>3 DEF CleanSecondFile, TypeOK
    <3> QED BY <1>6, <3>1, <3>2, <3>3 DEF BootStep
  <2>2. (FirstAhead(m)' => FirstAhead(m)) /\ (ListCurrent(m)' => ListCurrent(m))
    BY <2>1 DEF FirstAhead, ListCurrent
  <2> QED BY <1>2, <2>1, <2>2, RetryFrame
<1>7. CASE CloseStart \/ CloseHandshake \/ UNCHANGED vars
  <2>1. UNCHANGED <<files, meta, work, qd, slot, delivered, attempts, bounced>>
    BY <1>7 DEF CloseStart, CloseHandshake, vars
  <2>2. (FirstAhead(m)' => FirstAhead(m)) /\ (ListCurrent(m)' => ListCurrent(m))
    BY <2>1 DEF FirstAhead, ListCurrent
  <2> QED BY <1>2, <2>1, <2>2, RetryFrame
<1>8. CASE Exit
  <2>1. /\ UNCHANGED <<files, meta, delivered, attempts, bounced>>
        /\ slot'[m] = "none" /\ \A h \in Goroutine : work'[h].pc = "idle"
        /\ qd'[m] \in Writing \cup {"new", "stored"} => qd'[m] = qd[m]
        /\ \A h \in Goroutine : work[h].pc \in {"idle", "unwound"}
    BY <1>8 DEF Exit, Down, NoWork, Writing
  <2>2. (FirstAhead(m)' => FirstAhead(m)) /\ ListCurrent(m)
    BY <2>1 DEF FirstAhead, ListCurrent, RemovalStep
  <2> QED BY <1>2, <2>1, <2>2, RetryFrame
<1> QED BY <1>0, <1>3, <1>4, <1>5, <1>6, <1>7, <1>8 DEF Next

\* While nothing crashes and no storage call fails, tryDelivery's rewriting of the
\* recipient list, across any number of dispatches and graceful restarts, retries
\* only what failed temporarily: no recipient listed once gets the message twice,
\* or both the message and a bounce, and none is tried more than max_tries times.
THEOREM RetriesBounded == Spec => []RetryOnlyFailed
<1>1. Init => RetryInv
  BY ConstantsAssumption DEF Init, RetryInv, RetryPart, Untried, NoRcpts, NoWork
<1>2. Init => SingleFlight
  BY DEF Init, NoWork, SingleFlight, WorksOn, Busy, Waiting, RemovalStep
<1>3. RetryInv => RetryOnlyFailed
  BY DEF RetryInv, RetryOnlyFailed, RetryPart
<1> QED
  BY <1>1, <1>2, <1>3, ShapeInit, ShapeStep, FlightStep, RetryStep, PTL DEF Spec

-----------------------------------------------------------------------------
(* NothingLeftBehind *)

\* The wheel stops only under Close, and readDiskQueue runs only after a restart.
LEMMA LifeStep == ShapeInv /\ LifeShape /\ [Next]_vars => LifeShape'
<1> SUFFICES ASSUME ShapeInv, LifeShape, [Next]_vars PROVE LifeShape'
  OBVIOUS
<1> USE DEF diskVars, wheelVars, bootVars, sourceVars, outsideVars, boundVars
<1>0. TypeOK /\ crashes \in Nat
  BY DEF ShapeInv, TypeOK
<1>1. ASSUME UNCHANGED <<up, wheel, todo, boot>>, ~Crash PROVE LifeShape'
  <2>1. crashes' = crashes \/ Fault
    BY <1>0, <1>1, BoundsMove
  <2> QED BY <1>1, <2>1 DEF LifeShape, Fault
<1>2. ASSUME NEW n \in Msg, SourceStep(n), ~Crash PROVE LifeShape'
  <2>1. UNCHANGED <<up, wheel, todo, boot>>
    BY <1>2 DEF SourceStep, Start, AddRcpt, StoreHeader, StoreBody, StoreMeta, StoreSync,
       StoreFails, Abort, AbortRemove, Commit, CommitReturns
  <2> QED BY <1>1, <1>2, <2>1
<1>3. ASSUME NEW g \in Goroutine, WorkerStep(g), ~Crash PROVE LifeShape'
  <2>1. UNCHANGED <<up, wheel, todo, boot>>
    BY <1>3 DEF WorkerStep, Open, Deliver, TargetPanics, EmitDSN, Remove, UpdateMeta, Requeue,
       RequeueReturns, DiscardBroken
  <2> QED BY <1>1, <1>3, <2>1
<1>4. ASSUME NEW g \in Goroutine, NEW n \in Msg, Dispatch(g, n), ~Crash PROVE LifeShape'
  <2>1. UNCHANGED <<up, wheel, todo, boot>>
    BY <1>4 DEF Dispatch
  <2> QED BY <1>1, <1>4, <2>1
<1>5. CASE Restart
  BY <1>5 DEF Restart, LifeShape
<1>6. ASSUME NEW n \in Msg, ReadEntry(n) PROVE LifeShape'
  BY <1>0, <1>6 DEF ReadEntry, LifeShape, Fault
<1>7. CASE CleanSecondFile \/ LoadReturns
  <2>1. boot # NoBoot
    BY <1>7 DEF CleanSecondFile, LoadReturns, NoBoot
  <2> QED BY <1>7, <2>1 DEF CleanSecondFile, LoadReturns, LifeShape
<1>8. CASE CloseStart \/ CloseHandshake
  BY <1>8 DEF CloseStart, CloseHandshake, Serving, LifeShape
<1>9. CASE Exit \/ Crash
  BY <1>0, <1>9 DEF Exit, Crash, Down, LifeShape
<1>10. CASE UNCHANGED vars
  BY <1>10 DEF vars, LifeShape
<1> QED
  BY <1>2, <1>3, <1>4, <1>5, <1>6, <1>7, <1>8, <1>9, <1>10 DEF Next, BootStep

\* Until its Commit only the source itself, or the end of the process, changes
\* what is known of a message.
LEMMA PrivateFiles ==
  ASSUME ShapeInv, [Next]_vars, NEW m \in Msg, ~SourceStep(m),
         qd[m] \in Writing \cup {"new", "stored"}
  PROVE  files'[m] = files[m] /\ (qd'[m] = qd[m] \/ Down)
<1> USE DEF diskVars, wheelVars, bootVars, sourceVars, outsideVars, boundVars
<1>0. TypeOK /\ Untouched(m)
  BY DEF ShapeInv, PrivateUntilCommit
<1>1. ASSUME NEW n \in Msg, SourceStep(n) PROVE files'[m] = files[m] /\ qd'[m] = qd[m]
  BY <1>0, <1>1, SourceFrame
<1>2. ASSUME NEW g \in Goroutine, WorkerStep(g) PROVE files'[m] = files[m] /\ qd'[m] = qd[m]
  BY <1>0, <1>2, WorkerFrame DEF Untouched
<1>3. ASSUME NEW g \in Goroutine, NEW n \in Msg, Dispatch(g, n) PROVE files'[m] = files[m] /\ qd'[m] = qd[m]
  BY <1>3 DEF Dispatch
<1>4. CASE Restart \/ LoadReturns \/ CloseStart \/ CloseHandshake \/ UNCHANGED vars
  BY <1>4 DEF Restart, LoadReturns, CloseStart, CloseHandshake, vars
<1>5. ASSUME NEW n \in Msg, ReadEntry(n) PROVE files'[m] = files[m] /\ qd'[m] = qd[m]
  BY <1>0, <1>5 DEF ReadEntry, Untouched, TypeOK
<1>6. CASE CleanSecondFile
  <2>1. boot # NoBoot
    BY <1>6 DEF CleanSecondFile, NoBoot
  <2> QED BY <1>0, <1>6, <2>1 DEF CleanSecondFile, Untouched, TypeOK
<1>7. CASE Exit \/ Crash
  BY <1>7 DEF Exit, Crash, Down
<1> QED
  BY <1>1, <1>2, <1>3, <1>4, <1>5, <1>6, <1>7 DEF Next, BootStep

\* What storeNewMessage has and has not written, once more.
LEMMA FreshStep == ShapeInv /\ FreshEmpty /\ [Next]_vars => FreshEmpty'
<1> SUFFICES ASSUME ShapeInv, FreshEmpty, [Next]_vars, NEW m \in Msg
             PROVE  /\ qd'[m] \in {"new", "open"} => files'[m] = {}
                    /\ qd'[m] \in {"header", "body"} => "meta" \notin files'[m]
                    /\ qd'[m] = "stored" => Complete(m)'
  BY DEF FreshEmpty
<1> USE DEF diskVars, wheelVars, bootVars, sourceVars, outsideVars, boundVars
<1>0. TypeOK
  BY DEF ShapeInv
<1>1. CASE SourceStep(m)
  <2>1. CASE Start(m) \/ StoreHeader(m) \/ StoreBody(m) \/ StoreMeta(m) \/ StoreFails(m)
             \/ Commit(m) \/ CommitReturns(m) \/ Abort(m)
    BY <1>0, <2>1 DEF Start, StoreHeader, StoreBody, StoreMeta, StoreFails, Commit,
       CommitReturns, Abort, FreshEmpty, TypeOK
  <2>2. ASSUME NEW r \in Rcpt, AddRcpt(m, r) PROVE qd' = qd /\ files' = files
    BY <2>2 DEF AddRcpt
  <2>3. CASE StoreSync(m)
    BY <1>0, <2>3 DEF StoreSync, TypeOK, ShapeInv, StoredSoFar, Complete
  <2>4. CASE AbortRemove(m)
    <3>1. qd'[m] = NextAbort[qd[m]] /\ qd[m] \in AbortStep
      BY <1>0, <2>4 DEF AbortRemove, TypeOK
    <3> QED BY <3>1 DEF AbortStep, NextAbort
  <2> QED BY <1>1, <2>1, <2>2, <2>3, <2>4 DEF SourceStep, FreshEmpty, Complete
<1>2. CASE ~SourceStep(m)
  <2>1. ASSUME qd'[m] \in Writing \cup {"new", "stored"} PROVE qd'[m] = qd[m]
    <3>1. ASSUME NEW n \in Msg, SourceStep(n) PROVE qd'[m] = qd[m]
      BY <1>0, <1>2, <3>1, SourceFrame
    <3>2. CASE BootStep \/ CloseStart \/ CloseHandshake \/ UNCHANGED vars
      BY <3>2 DEF BootStep, Restart, ReadEntry, CleanSecondFile, LoadReturns, CloseStart,
         CloseHandshake, vars
    <3>3. ASSUME NEW g \in Goroutine, NEW n \in Msg, Dispatch(g, n) PROVE qd'[m] = qd[m]
      BY <3>3 DEF Dispatch
    <3>4. CASE Exit \/ Crash
      BY <2>1, <3>4 DEF Exit, Crash, Down, Writing
    <3> QED BY <1>0, <3>1, <3>2, <3>3, <3>4, WorkerFrame DEF Next
  <2>2. qd'[m] \in {"new", "open", "header", "body", "stored"} => files'[m] = files[m] /\ qd'[m] = qd[m]
    BY <1>2, <2>1, PrivateFiles DEF Writing
  <2> QED BY <2>2 DEF FreshEmpty, Complete
<1> QED BY <1>1, <1>2

\* A message comes under OnDisk with all of its files or with none, and with
\* nobody else at work on it.
LEMMA Entering ==
  ASSUME ShapeInv, FreshEmpty, [Next]_vars, NEW m \in Msg, ~OnDisk(m), OnDisk(m)'
  PROVE  RemovedInOrder(m)' /\ Attended(m)'
<1> USE DEF diskVars, wheelVars, bootVars, sourceVars, outsideVars, boundVars
<1>0. TypeOK /\ qd[m] \in SourceState
  BY DEF ShapeInv, TypeOK
<1>1. ASSUME Complete(m)' \/ files'[m] = {}, qd'[m] \in {"stored", "aborted", "orphaned", "dead"},
             qd'[m] = "aborted" => files'[m] = {}, qd'[m] = "orphaned" => ~up',
             \A g \in Goroutine : work'[g].pc # "idle" => work'[g].id # m, ~CleansBody(m)'
      PROVE  RemovedInOrder(m)' /\ Attended(m)'
  BY <1>1 DEF RemovedInOrder, Attended, Complete
<1>2. CASE SourceStep(m)
  <2>1. StoreSync(m) \/ (Abort(m) /\ qd[m] = "open")
    <3>1. CASE AbortRemove(m)
      BY <3>1 DEF AbortRemove, OnDisk
    <3>2. CASE Commit(m) \/ CommitReturns(m) \/ Abort(m)
      BY <3>2 DEF Commit, CommitReturns, Abort, OnDisk
    <3>3. CASE Start(m) \/ StoreHeader(m) \/ StoreBody(m) \/ StoreMeta(m) \/ StoreFails(m)
      BY <1>0, <3>3 DEF Start, StoreHeader, StoreBody, StoreMeta, StoreFails, OnDisk, AbortStep, TypeOK
    <3>4. ASSUME NEW r \in Rcpt, AddRcpt(m, r) PROVE FALSE
      BY <3>4 DEF AddRcpt, OnDisk
    <3> QED BY <1>2, <3>1, <3>2, <3>3, <3>4 DEF SourceStep
  <2>2. Untouched(m)
    BY <2>1 DEF StoreSync, ShapeInv, PrivateUntilCommit, Writing
  <2>3. CASE StoreSync(m)
    BY <1>0, <1>1, <2>2, <2>3 DEF StoreSync, TypeOK, ShapeInv, StoredSoFar, Complete, Untouched,
       CleansBody, NoBoot
  <2>4. CASE Abort(m) /\ qd[m] = "open"
    BY <1>0, <1>1, <2>2, <2>4 DEF Abort, TypeOK, FreshEmpty, Untouched, CleansBody, NoBoot
  <2> QED BY <2>1, <2>3, <2>4
<1>3. CASE Exit \/ Crash
  <2>1. /\ UNCHANGED files /\ ~up' /\ \A g \in Goroutine : work'[g].pc = "idle"
        /\ qd'[m] = IF qd[m] \notin Live THEN qd[m]
                    ELSE IF "meta" \in files[m] THEN "orphaned"
                    ELSE IF qd[m] \in {"header", "body"} THEN "cut" ELSE "dead"
    BY <1>3 DEF Exit, Crash, Down, NoWork
  <2>2. qd[m] \in Writing /\ qd'[m] \in {"orphaned", "dead"}
    BY <1>0, <2>1 DEF OnDisk, Live, Writing, AbortStep
  <2>3. qd[m] \in {"open", "meta"}
    BY <2>1, <2>2 DEF Writing, Live, FreshEmpty
  <2>4. Complete(m)' \/ files'[m] = {}
    BY <2>1, <2>3 DEF ShapeInv, StoredSoFar, Complete, FreshEmpty
  <2>5. ~CleansBody(m)'
    BY <1>3 DEF Exit, Crash, Down, CleansBody, NoBoot
  <2> QED BY <1>1, <2>1, <2>2, <2>4, <2>5
<1>4. ASSUME ~SourceStep(m), ~Exit, ~Crash PROVE FALSE
  <2>1. ASSUME NEW n \in Msg, SourceStep(n) PROVE qd'[m] = qd[m]
    BY <1>0, <1>4, <2>1, SourceFrame
  <2>2. CASE BootStep \/ CloseStart \/ CloseHandshake \/ UNCHANGED vars
    BY <2>2 DEF BootStep, Restart, ReadEntry, CleanSecondFile, LoadReturns, CloseStart,
       CloseHandshake, vars, OnDisk
  <2>3. ASSUME NEW g \in Goroutine, NEW n \in Msg, Dispatch(g, n) PROVE qd'[m] = qd[m]
    BY <2>3 DEF Dispatch
  <2> QED BY <1>0, <1>4, <2>1, <2>2, <2>3, WorkerFrame DEF Next, OnDisk
<1> QED BY <1>2, <1>3, <1>4

\* A step that leaves the files and the place in the removal alone.
LEMMA RemovedFrame ==
  ASSUME NEW m \in Msg, RemovedInOrder(m), files'[m] \ {"meta"} = files[m] \ {"meta"},
         "meta" \in files[m] => "meta" \in files'[m],
         boot' = boot \/ (boot.at # "clean" /\ ~CleansBody(m)'),
         qd'[m] = qd[m] \/ qd'[m] \notin {"unbody", "unmeta"},
         \A g \in Goroutine : work'[g] = work[g] \/ work'[g].pc \notin {"body", "meta"}
  PROVE  RemovedInOrder(m)'
<1>1. /\ "header" \in files'[m] <=> "header" \in files[m]
      /\ "body" \in files'[m] <=> "body" \in files[m]
      /\ "broken" \in files'[m] <=> "broken" \in files[m]
  OBVIOUS
<1>2. /\ "body" \in files'[m] => "meta" \in files'[m] \/ "broken" \in files'[m] \/ CleansBody(m)'
      /\ "header" \in files'[m] => "body" \in files'[m] /\ ~CleansBody(m)'
  BY <1>1 DEF RemovedInOrder, CleansBody
<1>3. \A g \in Goroutine : work'[g].id = m =>
        /\ work'[g].pc \in {"body", "meta"} => "header" \notin files'[m]
        /\ work'[g].pc = "meta" => "body" \notin files'[m]
  BY <1>1 DEF RemovedInOrder
<1> QED BY <1>1, <1>2, <1>3 DEF RemovedInOrder

\* Both removals, and readDiskQueue, take the files in the same order.
LEMMA RemovedStep ==
  ASSUME ShapeInv, LifeShape, FreshEmpty, [Next]_vars, InterruptedOnce',
         NEW m \in Msg, OnDisk(m), OnDisk(m)', RemovedInOrder(m)
  PROVE  RemovedInOrder(m)'
<1> USE DEF diskVars, wheelVars, bootVars, sourceVars, outsideVars, boundVars
<1>0. TypeOK /\ ~Fault /\ (Crash => boot = NoBoot)
  BY FirstInterruption DEF ShapeInv, InterruptedOnce
<1>1. ASSUME NEW n \in Msg, SourceStep(n) PROVE RemovedInOrder(m)'
  <2>1. UNCHANGED <<boot, work>>
    BY <1>0, <1>1, SourceFrame
  <2>2. CASE n # m
    <3>1. files'[m] = files[m] /\ qd'[m] = qd[m]
      BY <1>0, <1>1, <2>2, SourceFrame
    <3> QED BY <2>1, <3>1, RemovedFrame
  <2>3. CASE n = m /\ AbortRemove(m)
    <3>1. /\ qd[m] \in AbortStep /\ qd'[m] = NextAbort[qd[m]]
          /\ files'[m] = files[m] \ {AbortFile[qd[m]]}
      BY <1>0, <2>3 DEF AbortRemove, RemoveFile, TypeOK
    <3>2. CASE qd[m] = "unheader"
      <4>1. qd'[m] = "unbody" /\ files'[m] = files[m] \ {"header"}
        BY <3>1, <3>2 DEF NextAbort, AbortFile
      <4> QED BY <2>1, <4>1 DEF RemovedInOrder, CleansBody
    <3>3. CASE qd[m] = "unbody"
      <4>1. qd'[m] = "unmeta" /\ files'[m] = files[m] \ {"body"}
        BY <3>1, <3>3 DEF NextAbort, AbortFile
      <4> QED BY <2>1, <3>3, <4>1 DEF RemovedInOrder, CleansBody
    <3>4. CASE qd[m] = "unmeta"
      <4>1. qd'[m] = "aborted" /\ files'[m] = files[m] \ {"meta"}
        BY <3>1, <3>4 DEF NextAbort, AbortFile
      <4> QED BY <2>1, <3>4, <4>1 DEF RemovedInOrder, CleansBody
    <3> QED BY <3>1, <3>2, <3>3, <3>4 DEF AbortStep
  <2>4. CASE n = m /\ ~AbortRemove(m)
    <3>1. Abort(m) \/ Commit(m) \/ CommitReturns(m)
      BY <1>1, <2>4 DEF SourceStep, Start, AddRcpt, StoreHeader, StoreBody, StoreMeta, StoreSync,
         StoreFails, OnDisk, Writing, AbortStep
    <3>2. files'[m] = files[m] /\ qd'[m] \notin {"unbody", "unmeta"}
      BY <1>0, <3>1 DEF Abort, Commit, CommitReturns, TypeOK
    <3> QED BY <2>1, <3>2, RemovedFrame
  <2> QED BY <2>2, <2>3, <2>4
<1>2. ASSUME NEW g \in Goroutine, WorkerStep(g) PROVE RemovedInOrder(m)'
  <2>1. /\ UNCHANGED <<boot, qd>> /\ \A h \in Goroutine \ {g} : work'[h] = work[h]
        /\ work'[g].pc = "idle" \/ work'[g].id = work[g].id
    BY <1>0, <1>2, WorkerFrame
  <2>2. CASE work[g].id # m
    <3>1. files'[m] = files[m] /\ (work'[g].pc = "idle" \/ work'[g].id # m)
      BY <1>0, <1>2, <2>1, <2>2, WorkerFrame
    <3> QED BY <2>1, <2>2, <3>1 DEF RemovedInOrder, CleansBody
  <2>3. CASE work[g].id = m /\ Remove(g)
    <3>1. /\ work[g].pc \in RemovalStep /\ files'[m] = files[m] \ {work[g].pc}
          /\ work'[g] = IF work[g].pc = "meta" THEN NoWork
                        ELSE [work[g] EXCEPT !.pc = NextRemoval[work[g].pc]]
      BY <1>0, <2>3 DEF Remove, RemoveFile, TypeOK
    <3>2. CASE work[g].pc = "header"
      <4>1. work'[g].pc = "body" /\ files'[m] = files[m] \ {"header"}
        BY <1>0, <3>1, <3>2 DEF NextRemoval, TypeOK, Work
      <4> QED BY <2>1, <4>1 DEF RemovedInOrder, CleansBody
    <3>3. CASE work[g].pc = "body"
      <4>1. work'[g].pc = "meta" /\ files'[m] = files[m] \ {"body"} /\ "header" \notin files[m]
        BY <1>0, <2>3, <3>1, <3>3 DEF NextRemoval, TypeOK, Work, RemovedInOrder
      <4> QED BY <2>1, <4>1 DEF RemovedInOrder, CleansBody
    <3>4. CASE work[g].pc = "meta"
      <4>1. /\ work'[g].pc = "idle" /\ files'[m] = files[m] \ {"meta"}
            /\ "header" \notin files[m] /\ "body" \notin files[m]
        BY <2>3, <3>1, <3>4 DEF NoWork, RemovedInOrder
      <4> QED BY <2>1, <4>1 DEF RemovedInOrder, CleansBody
    <3> QED BY <3>1, <3>2, <3>3, <3>4 DEF RemovalStep
  <2>4. CASE work[g].id = m /\ Open(g)
    <3>1. \/ files' = files /\ work'[g].pc = "deliver"
          \/ work'[g].pc = "idle" /\ ~Complete(m) /\ files'[m] = AfterFailedOpen(files[m])
      BY <1>0, <2>4 DEF Open, NoWork, TypeOK, Work
    <3>2. CASE files' = files /\ work'[g].pc = "deliver"
      BY <2>1, <3>2, RemovedFrame
    <3>3. CASE work'[g].pc = "idle" /\ ~Complete(m) /\ files'[m] = AfterFailedOpen(files[m])
      <4>1. \/ "meta" \notin files[m] /\ files'[m] = files[m]
            \/ "body" \notin files[m] /\ files'[m] = files[m] \ {"meta"}
            \/ files'[m] = files[m] \ {"meta", "body"} /\ "header" \notin files[m]
        BY <3>3 DEF AfterFailedOpen, Complete
      <4> QED BY <2>1, <3>3, <4>1 DEF RemovedInOrder, CleansBody
    <3> QED BY <3>1, <3>2, <3>3
  <2>5. CASE work[g].id = m /\ DiscardBroken(g)
    <3>1. /\ work'[g].pc = "idle"
          /\ files'[m] = IF "meta" \in files[m] THEN (files[m] \ {"meta"}) \cup {"broken"} ELSE files[m]
      BY <1>0, <2>5 DEF DiscardBroken, NoWork, TypeOK
    <3> QED BY <2>1, <3>1 DEF RemovedInOrder, CleansBody
  <2>6. CASE work[g].id = m /\ (Deliver(g) \/ EmitDSN(g) \/ UpdateMeta(g) \/ Requeue(g) \/ RequeueReturns(g))
    <3>1. work'[g].pc \notin {"body", "meta"}
      BY <1>0, <2>6 DEF Deliver, EmitDSN, UpdateMeta, Requeue, RequeueReturns, AfterReport, NoWork,
         TypeOK, Work
    <3>2. files'[m] = files[m] \/ files'[m] = files[m] \cup {"meta"}
      BY <1>0, <2>6 DEF Deliver, EmitDSN, UpdateMeta, Requeue, RequeueReturns, TypeOK
    <3> QED BY <2>1, <3>1, <3>2, RemovedFrame
  <2> QED BY <1>0, <1>2, <2>2, <2>3, <2>4, <2>5, <2>6 DEF WorkerStep, TargetPanics
<1>3. ASSUME NEW g \in Goroutine, NEW n \in Msg, Dispatch(g, n) PROVE RemovedInOrder(m)'
  <2>1. /\ UNCHANGED <<files, boot, qd>> /\ \A h \in Goroutine \ {g} : work'[h] = work[h]
        /\ work'[g].pc \in {"mem", "disk"}
    BY <1>0, <1>3 DEF Dispatch, TypeOK, NoWork
  <2> QED BY <2>1, RemovedFrame
<1>4. ASSUME NEW n \in Msg, ReadEntry(n) PROVE RemovedInOrder(m)'
  <2>1. UNCHANGED <<qd, work>> /\ boot = NoBoot /\ n \in todo /\ boot.at # "clean"
    BY <1>4 DEF ReadEntry, NoBoot
  <2>2. CASE n = m /\ ~Complete(m)
    <3>1. /\ files'[m] = files[m] \ {"meta"}
          /\ boot' = [at |-> "clean", id |-> m, file |-> IF "header" \in files[m] THEN "header" ELSE "body"]
      BY <1>0, <1>4, <2>2 DEF ReadEntry, TypeOK
    <3>2. "meta" \in files[m]
      BY <2>1, <2>2 DEF ShapeInv, TodoIntact
    <3>3. "header" \notin files[m]
      BY <2>2, <3>2 DEF Complete, RemovedInOrder
    <3> QED BY <2>1, <3>1, <3>3 DEF RemovedInOrder, CleansBody
  <2>3. CASE n # m \/ Complete(m)
    <3>1. files'[m] = files[m] /\ ~CleansBody(m)'
      BY <1>0, <1>4, <2>1, <2>3 DEF ReadEntry, TypeOK, CleansBody
    <3> QED BY <2>1, <3>1, RemovedFrame
  <2> QED BY <2>2, <2>3
<1>5. CASE CleanSecondFile
  <2>1. /\ UNCHANGED <<qd, work>> /\ boot.at = "clean" /\ boot' = NoBoot
        /\ files'[m] = IF boot.id = m THEN files[m] \ {boot.file} ELSE files[m]
    BY <1>0, <1>5 DEF CleanSecondFile, TypeOK
  <2>2. boot.id \in Msg /\ boot.file \in {"header", "body"}
    BY <1>0, <2>1 DEF TypeOK, Boot, NoBoot
  <2>3. ~CleansBody(m)'
    BY <2>1 DEF CleansBody, NoBoot
  <2>4. CASE boot.id # m
    <3>1. ~CleansBody(m)
      BY <2>4 DEF CleansBody
    <3> QED BY <2>1, <2>3, <2>4, <3>1 DEF RemovedInOrder
  <2>5. CASE boot.id = m /\ boot.file = "header"
    <3>1. ~CleansBody(m)
      BY <2>5 DEF CleansBody
    <3> QED BY <2>1, <2>3, <2>5, <3>1 DEF RemovedInOrder
  <2>6. CASE boot.id = m /\ boot.file = "body"
    <3>1. CleansBody(m)
      BY <1>0, <2>1, <2>6 DEF CleansBody, TypeOK, Boot, NoBoot
    <3> QED BY <2>1, <2>3, <2>6, <3>1 DEF RemovedInOrder
  <2> QED BY <2>2, <2>4, <2>5, <2>6
<1>6. CASE Restart \/ LoadReturns \/ CloseStart \/ CloseHandshake \/ UNCHANGED vars
  <2>1. UNCHANGED <<files, qd, work>> /\ (boot' = boot \/ (boot.at # "clean" /\ ~CleansBody(m)'))
    BY <1>6 DEF Restart, LoadReturns, CloseStart, CloseHandshake, vars, CleansBody, NoBoot
  <2> QED BY <2>1, RemovedFrame
<1>7. CASE Exit \/ Crash
  <2>1. boot = NoBoot /\ boot.at # "clean"
    BY <1>0, <1>7 DEF Exit, LifeShape, NoBoot
  <2>2. /\ UNCHANGED files /\ \A g \in Goroutine : work'[g].pc = "idle"
        /\ qd'[m] = IF qd[m] \notin Live THEN qd[m]
                    ELSE IF "meta" \in files[m] THEN "orphaned"
                    ELSE IF qd[m] \in {"header", "body"} THEN "cut" ELSE "dead"
    BY <1>7 DEF Exit, Crash, Down, NoWork
  <2>3. qd'[m] \notin {"unbody", "unmeta"} /\ ~CleansBody(m)'
    BY <1>7, <2>2 DEF Live, AbortStep, Exit, Crash, Down, CleansBody, NoBoot
  <2> QED BY <2>1, <2>2, <2>3, RemovedFrame
<1> QED
  BY <1>1, <1>2, <1>3, <1>4, <1>5, <1>6, <1>7 DEF Next, BootStep

\* Whoever leaves a message leaves a slot for it, or no meta-data.
LEMMA AttendedStep ==
  ASSUME ShapeInv, LifeShape, [Next]_vars, ~Fault,
         NEW m \in Msg, OnDisk(m), OnDisk(m)', Attended(m)
  PROVE  Attended(m)'
<1> USE DEF diskVars, wheelVars, bootVars, sourceVars, outsideVars, boundVars
<1>0. TypeOK /\ work \in [Goroutine -> Work]
  BY DEF ShapeInv, TypeOK
<1>1. SUFFICES ASSUME "meta" \in files'[m], qd'[m] \in {"sending", "committed", "aborted", "orphaned"},
                      up', wheel' = "running"
               PROVE  m \in todo' \/ slot'[m] # "none" \/ \E g \in Goroutine : WorksOn(g, m)'
  BY DEF Attended
<1>2. ASSUME NEW n \in Msg, SourceStep(n)
      PROVE  m \in todo' \/ slot'[m] # "none" \/ \E g \in Goroutine : WorksOn(g, m)'
  <2>1. UNCHANGED <<up, todo, work>>
    BY <1>0, <1>2, SourceFrame
  <2>2. CASE n # m
    <3>1. files'[m] = files[m] /\ qd'[m] = qd[m] /\ slot'[m] = slot[m]
      BY <1>0, <1>2, <2>2, SourceFrame
    <3>2. wheel' = wheel
      BY <1>2 DEF SourceStep, Start, AddRcpt, StoreHeader, StoreBody, StoreMeta, StoreSync,
         StoreFails, Abort, AbortRemove, Commit, CommitReturns
    <3> QED BY <1>1, <2>1, <3>1, <3>2 DEF Attended, WorksOn
  <2>3. CASE n = m
    <3>1. Abort(m) \/ AbortRemove(m) \/ Commit(m) \/ CommitReturns(m)
      BY <1>2, <2>3 DEF SourceStep, Start, AddRcpt, StoreHeader, StoreBody, StoreMeta, StoreSync,
         StoreFails, OnDisk, Writing, AbortStep
    <3>2. CASE Abort(m)
      BY <1>0, <1>1, <3>2 DEF Abort, TypeOK, OnDisk, AbortStep
    <3>3. CASE AbortRemove(m)
      <4>1. /\ qd[m] \in AbortStep /\ qd'[m] = NextAbort[qd[m]]
            /\ files'[m] = files[m] \ {AbortFile[qd[m]]}
        BY <1>0, <3>3 DEF AbortRemove, RemoveFile, TypeOK
      <4> QED BY <1>1, <4>1 DEF AbortStep, NextAbort, AbortFile
    <3>4. CASE Commit(m)
      BY <1>0, <1>1, <3>4 DEF Commit, TypeOK
    <3>5. CASE CommitReturns(m)
      BY <1>0, <1>1, <2>1, <3>5 DEF CommitReturns, TypeOK, Attended, WorksOn
    <3> QED BY <3>1, <3>2, <3>3, <3>4, <3>5
  <2> QED BY <2>2, <2>3
<1>3. ASSUME NEW g \in Goroutine, WorkerStep(g)
      PROVE  m \in todo' \/ slot'[m] # "none" \/ \E h \in Goroutine : WorksOn(h, m)'
  <2>1. /\ UNCHANGED <<up, todo, qd>> /\ \A h \in Goroutine \ {g} : work'[h] = work[h]
        /\ work'[g].pc = "idle" \/ work'[g].id = work[g].id
    BY <1>0, <1>3, WorkerFrame
  <2>2. wheel' = wheel
    BY <1>3 DEF WorkerStep, Open, Deliver, TargetPanics, EmitDSN, Remove, UpdateMeta, Requeue,
       RequeueReturns, DiscardBroken
  <2>3. ASSUME "meta" \in files[m], slot'[m] = slot[m] \/ slot'[m] # "none", ~WorksOn(g, m)
        PROVE  m \in todo' \/ slot'[m] # "none" \/ \E h \in Goroutine : WorksOn(h, m)'
    BY <1>1, <2>1, <2>2, <2>3 DEF Attended, WorksOn
  <2>4. CASE work[g].id # m
    <3>1. files'[m] = files[m] /\ slot'[m] = slot[m]
      BY <1>0, <1>3, <2>4, WorkerFrame
    <3> QED BY <1>1, <2>3, <2>4, <3>1 DEF WorksOn
  <2>5. CASE work[g].id = m /\ Open(g)
    <3>1. \/ work'[g].pc = "deliver" /\ work'[g].id = m
          \/ ~Complete(m) /\ files'[m] = AfterFailedOpen(files[m])
      BY <1>0, <2>5 DEF Open, NoWork, TypeOK, Work
    <3>2. ~Complete(m) => "meta" \notin AfterFailedOpen(files[m])
      BY DEF Complete, AfterFailedOpen
    <3> QED BY <1>1, <3>1, <3>2 DEF WorksOn, Busy
  <2>6. CASE work[g].id = m /\ (Deliver(g) \/ EmitDSN(g) \/ UpdateMeta(g))
    <3>1. work'[g].id = m /\ work'[g].pc \in Busy
      BY <1>0, <2>6 DEF Deliver, EmitDSN, UpdateMeta, AfterReport, Busy, RemovalStep, Work
    <3> QED BY <3>1 DEF WorksOn
  <2>7. CASE work[g].id = m /\ Requeue(g)
    BY <1>0, <1>1, <2>2, <2>7 DEF Requeue, TypeOK
  <2>8. CASE work[g].id = m /\ RequeueReturns(g)
    <3>1. work[g].pc = "send" /\ UNCHANGED <<files, slot>>
      BY <2>8 DEF RequeueReturns
    <3>2. ~WorksOn(g, m)
      BY <3>1 DEF WorksOn, Busy, Waiting, RemovalStep
    <3> QED BY <1>1, <2>3, <3>1, <3>2
  <2>9. CASE work[g].id = m /\ Remove(g)
    <3>1. /\ work[g].pc \in RemovalStep /\ files'[m] = files[m] \ {work[g].pc}
          /\ work'[g] = IF work[g].pc = "meta" THEN NoWork
                        ELSE [work[g] EXCEPT !.pc = NextRemoval[work[g].pc]]
      BY <1>0, <2>9 DEF Remove, RemoveFile, TypeOK
    <3>2. work[g].pc \in {"header", "body"}
      BY <1>1, <3>1 DEF RemovalStep
    <3>3. work'[g].id = m /\ work'[g].pc \in Busy
      BY <1>0, <2>9, <3>1, <3>2 DEF NextRemoval, Busy, RemovalStep, Work
    <3> QED BY <3>3 DEF WorksOn
  <2>10. CASE work[g].id = m /\ DiscardBroken(g)
    BY <1>0, <1>1, <2>10 DEF DiscardBroken, TypeOK
  <2> QED
    BY <1>3, <2>4, <2>5, <2>6, <2>7, <2>8, <2>9, <2>10 DEF WorkerStep, TargetPanics
<1>4. ASSUME NEW g \in Goroutine, NEW n \in Msg, Dispatch(g, n)
      PROVE  m \in todo' \/ slot'[m] # "none" \/ \E h \in Goroutine : WorksOn(h, m)'
  <2>1. /\ UNCHANGED <<files, up, wheel, todo, qd>> /\ \A h \in Goroutine \ {g} : work'[h] = work[h]
        /\ work[g].pc = "idle" /\ work'[g].pc \in {"mem", "disk"} /\ work'[g].id = n
        /\ slot'[m] = IF n = m THEN "none" ELSE slot[m]
    BY <1>0, <1>4 DEF Dispatch, TypeOK, NoWork
  <2>2. CASE n = m
    BY <2>1, <2>2 DEF WorksOn, Waiting
  <2>3. CASE n # m
    <3>1. ~WorksOn(g, m)
      BY <2>1 DEF WorksOn, Busy, Waiting, RemovalStep
    <3> QED BY <1>1, <2>1, <2>3, <3>1 DEF Attended, WorksOn
  <2> QED BY <2>2, <2>3
<1>5. CASE Restart
  BY <1>1, <1>5 DEF Restart
<1>6. ASSUME NEW n \in Msg, ReadEntry(n)
      PROVE  m \in todo' \/ slot'[m] # "none" \/ \E h \in Goroutine : WorksOn(h, m)'
  <2>1. /\ UNCHANGED <<up, wheel, work, qd>> /\ todo' = todo \ {n}
        /\ files'[m] \subseteq files[m]
        /\ slot'[m] = slot[m] \/ slot'[m] = "disk"
        /\ n = m => slot'[m] = "disk" \/ "meta" \notin files'[m]
    BY <1>0, <1>6 DEF ReadEntry, TypeOK
  <2> QED BY <1>1, <2>1 DEF Attended, WorksOn
<1>7. CASE CleanSecondFile \/ LoadReturns \/ UNCHANGED vars
  <2>1. UNCHANGED <<up, wheel, work, qd, slot, todo>> /\ files'[m] \subseteq files[m]
    BY <1>0, <1>7 DEF CleanSecondFile, LoadReturns, vars, TypeOK
  <2> QED BY <1>1, <2>1 DEF Attended, WorksOn
<1>8. CASE CloseStart \/ CloseHandshake \/ Exit \/ Crash
  BY <1>1, <1>8 DEF CloseStart, CloseHandshake, Exit, Crash, Down
<1> QED
  BY <1>2, <1>3, <1>4, <1>5, <1>6, <1>7, <1>8 DEF Next, BootStep

\* Without shutdowns, Abort is called only for messages nobody else knows of, and
\* readDiskQueue finds no meta-data of them.
LEMMA NotHeardStep ==
  ASSUME ShapeInv, LifeShape, FreshEmpty, [Next]_vars, ~Fault, ~AllowClose,
         NEW m \in Msg, NotHeard(m)
  PROVE  NotHeard(m)'
<1> USE DEF diskVars, wheelVars, bootVars, sourceVars, outsideVars, boundVars
<1> DEFINE Own == Writing \cup AbortStep \cup {"new", "stored", "aborted"}
<1>0. TypeOK /\ work \in [Goroutine -> Work] /\ (up => wheel = "running")
  BY DEF ShapeInv, TypeOK, LifeShape
<1>1. ASSUME NEW n \in Msg, SourceStep(n) PROVE NotHeard(m)'
  <2>1. UNCHANGED <<up, todo, boot, work, attempts>>
    BY <1>0, <1>1, SourceFrame, SourceSilent
  <2>2. CASE n # m
    <3>1. files'[m] = files[m] /\ qd'[m] = qd[m] /\ slot'[m] = slot[m]
      BY <1>0, <1>1, <2>2, SourceFrame
    <3> QED BY <2>1, <3>1 DEF NotHeard, Untouched
  <2>3. CASE n = m /\ (Commit(m) \/ CommitReturns(m))
    <3>1. qd[m] \in Live
      BY <2>3 DEF Commit, CommitReturns, Live
    <3>2. wheel = "running"
      BY <1>0, <3>1 DEF ShapeInv, DownIsEmpty
    <3>3. qd'[m] \in {"sending", "committed"}
      BY <1>0, <2>3, <3>2 DEF Commit, CommitReturns, TypeOK
    <3> QED BY <3>3 DEF NotHeard, Writing, AbortStep
  <2>4. CASE n = m /\ ~Commit(m) /\ ~CommitReturns(m)
    <3>1. slot' = slot
      BY <1>1, <2>4 DEF SourceStep, Start, AddRcpt, StoreHeader, StoreBody, StoreMeta, StoreSync,
         StoreFails, Abort, AbortRemove
    <3>2. qd[m] \in Own /\ qd'[m] # "panicked"
      <4>1. CASE AbortRemove(m)
        <5>1. qd[m] \in AbortStep /\ qd'[m] = NextAbort[qd[m]]
          BY <1>0, <4>1 DEF AbortRemove, TypeOK
        <5> QED BY <5>1 DEF AbortStep, NextAbort
      <4>2. CASE Abort(m)
        BY <1>0, <4>2 DEF Abort, NotHeard, Writing, TypeOK
      <4>3. CASE ~AbortRemove(m) /\ ~Abort(m)
        <5>1. qd[m] \in Writing \cup {"new"} /\ (qd'[m] = qd[m] \/ qd'[m] \in Writing \cup {"stored", "failed"})
          BY <1>0, <1>1, <2>4, <4>3 DEF SourceStep, Start, AddRcpt, StoreHeader, StoreBody, StoreMeta,
             StoreSync, StoreFails, Writing, TypeOK
        <5> QED BY <5>1 DEF Writing
      <4> QED BY <4>1, <4>2, <4>3
    <3>3. qd'[m] = "aborted" => "meta" \notin files'[m]
      <4>1. CASE AbortRemove(m)
        <5>1. /\ qd[m] \in AbortStep /\ qd'[m] = NextAbort[qd[m]]
              /\ files'[m] = files[m] \ {AbortFile[qd[m]]}
          BY <1>0, <4>1 DEF AbortRemove, RemoveFile, TypeOK
        <5> QED BY <5>1 DEF AbortStep, NextAbort, AbortFile
      <4>2. CASE Abort(m)
        BY <1>0, <4>2 DEF Abort, FreshEmpty, TypeOK
      <4>3. CASE ~AbortRemove(m) /\ ~Abort(m)
        BY <1>0, <1>1, <2>4, <4>3 DEF SourceStep, Start, AddRcpt, StoreHeader, StoreBody, StoreMeta,
           StoreSync, StoreFails, Writing, TypeOK
      <4> QED BY <4>1, <4>2, <4>3
    <3> QED BY <2>1, <3>1, <3>2, <3>3 DEF NotHeard, Untouched
  <2> QED BY <1>1, <2>2, <2>3, <2>4
<1>2. ASSUME NEW g \in Goroutine, WorkerStep(g) PROVE NotHeard(m)'
  <2>1. /\ UNCHANGED <<up, todo, boot, qd>> /\ work[g].pc # "idle"
        /\ \A h \in Goroutine \ {g} : work'[h] = work[h]
        /\ work'[g].pc = "idle" \/ work'[g].id = work[g].id
    BY <1>0, <1>2, WorkerFrame
  <2>2. CASE qd[m] \notin Own
    BY <2>1, <2>2 DEF NotHeard
  <2>3. CASE qd[m] \in Own
    <3>1. work[g].id # m
      BY <2>1, <2>3 DEF NotHeard, Untouched
    <3>2. files'[m] = files[m] /\ slot'[m] = slot[m]
      BY <1>0, <1>2, <3>1, WorkerFrame
    <3>3. attempts'[m] = attempts[m]
      BY <1>0, <1>2, <3>1 DEF WorkerStep, Open, Deliver, TargetPanics, EmitDSN, Remove, UpdateMeta,
         Requeue, RequeueReturns, DiscardBroken, TypeOK
    <3> QED BY <2>1, <3>1, <3>2, <3>3 DEF NotHeard, Untouched
  <2> QED BY <2>2, <2>3
<1>3. ASSUME NEW g \in Goroutine, NEW n \in Msg, Dispatch(g, n) PROVE NotHeard(m)'
  <2>1. /\ UNCHANGED <<files, todo, boot, qd, attempts>> /\ slot[n] # "none" /\ work'[g].id = n
        /\ \A h \in Goroutine \ {g} : work'[h] = work[h]
        /\ slot'[m] = IF n = m THEN "none" ELSE slot[m]
    BY <1>0, <1>3 DEF Dispatch, TypeOK, NoWork
  <2>2. qd[m] \in Own => n # m
    BY <2>1 DEF NotHeard, Untouched
  <2> QED BY <2>1, <2>2 DEF NotHeard, Untouched
<1>4. CASE Restart
  <2>1. /\ UNCHANGED <<files, slot, boot, qd, work, attempts>> /\ ~up
        /\ todo' = {n \in Msg : "meta" \in files[n]}
    BY <1>4 DEF Restart
  <2>2. qd[m] \notin Live
    BY <2>1 DEF ShapeInv, DownIsEmpty
  <2>3. qd[m] \in Own => qd[m] \in {"new", "aborted"}
    BY <2>2 DEF Live
  <2>4. qd[m] \in Own => m \notin todo'
    BY <2>1, <2>3 DEF NotHeard, FreshEmpty
  <2> QED BY <2>1, <2>4 DEF NotHeard, Untouched
<1>5. ASSUME NEW n \in Msg, ReadEntry(n) PROVE NotHeard(m)'
  <2>1. /\ UNCHANGED <<qd, work, attempts>> /\ n \in todo /\ todo' = todo \ {n}
        /\ files'[m] \subseteq files[m]
        /\ boot' # NoBoot => boot'.id = n
        /\ n # m => slot'[m] = slot[m]
    BY <1>0, <1>5 DEF ReadEntry, TypeOK
  <2>2. qd[m] \in Own => n # m
    BY <2>1 DEF NotHeard, Untouched
  <2> QED BY <2>1, <2>2 DEF NotHeard, Untouched
<1>6. CASE CleanSecondFile \/ LoadReturns \/ UNCHANGED vars
  <2>1. /\ UNCHANGED <<qd, work, attempts, slot, todo>> /\ files'[m] \subseteq files[m]
        /\ boot' = boot \/ boot' = NoBoot
    BY <1>0, <1>6 DEF CleanSecondFile, LoadReturns, vars, TypeOK
  <2> QED BY <2>1 DEF NotHeard, Untouched
<1>7. CASE CloseStart \/ CloseHandshake \/ Exit
  BY <1>0, <1>7 DEF CloseStart, CloseHandshake, Exit
<1>8. CASE Crash
  <2>1. /\ UNCHANGED <<files, attempts>> /\ slot'[m] = "none" /\ todo' = {} /\ boot' = NoBoot
        /\ \A g \in Goroutine : work'[g].pc = "idle"
        /\ qd'[m] = IF qd[m] \notin Live THEN qd[m]
                    ELSE IF "meta" \in files[m] THEN "orphaned"
                    ELSE IF qd[m] \in {"header", "body"} THEN "cut" ELSE "dead"
    BY <1>8 DEF Crash, Down, NoWork
  <2>2. qd'[m] = qd[m] \/ qd'[m] \in {"orphaned", "cut", "dead"}
    BY <2>1
  <2> QED BY <2>1, <2>2 DEF NotHeard, Untouched, Writing, AbortStep
<1> QED
  BY <1>1, <1>2, <1>3, <1>4, <1>5, <1>6, <1>7, <1>8 DEF Next, BootStep

\* What a crash in Body leaves behind stays as it is: readDiskQueue lists meta-data only.
LEMMA GoneStep ==
  ASSUME ShapeInv, FreshEmpty, [Next]_vars, NEW m \in Msg, GoneShape(m)
  PROVE  GoneShape(m)'
<1> USE DEF diskVars, wheelVars, bootVars, sourceVars, outsideVars, boundVars
<1> DEFINE Gone == {"cut", "dead"}
           Early == {"new", "open", "header", "body"}
<1>0. /\ TypeOK /\ work \in [Goroutine -> Work] /\ qd[m] \in SourceState
      /\ qd[m] \in Gone \cup Early => Untouched(m)
  BY DEF ShapeInv, TypeOK, PrivateUntilCommit, Writing, GoneShape
<1>1. ASSUME NEW n \in Msg, SourceStep(n) PROVE GoneShape(m)'
  <2>1. UNCHANGED <<up, todo, boot, work, attempts>>
    BY <1>0, <1>1, SourceFrame, SourceSilent
  <2>2. CASE n # m
    <3>1. files'[m] = files[m] /\ qd'[m] = qd[m] /\ slot'[m] = slot[m]
      BY <1>0, <1>1, <2>2, SourceFrame
    <3> QED BY <2>1, <3>1 DEF GoneShape, Untouched
  <2>3. CASE n = m /\ AbortRemove(m)
    <3>1. qd'[m] \in {"unbody", "unmeta", "aborted"}
      BY <1>0, <2>3 DEF AbortRemove, AbortStep, NextAbort, TypeOK
    <3> QED BY <3>1 DEF GoneShape
  <2>4. CASE n = m /\ (StoreSync(m) \/ StoreFails(m) \/ StoreMeta(m) \/ Abort(m) \/ Commit(m) \/ CommitReturns(m))
    <3>1. qd'[m] \notin Gone \cup Early
      BY <1>0, <2>4 DEF StoreSync, StoreFails, StoreMeta, Abort, Commit, CommitReturns, TypeOK
    <3> QED BY <3>1 DEF GoneShape
  <2>5. CASE n = m /\ Start(m)
    BY <1>0, <2>1, <2>5 DEF Start, GoneShape, TypeOK
  <2>6. CASE n = m /\ StoreHeader(m)
    <3>1. qd[m] = "open" /\ qd'[m] = "header" /\ files'[m] = files[m] \cup {"header"}
      BY <1>0, <2>6 DEF StoreHeader, TypeOK
    <3>2. files'[m] = {"header"}
      BY <3>1 DEF FreshEmpty
    <3> QED BY <2>1, <3>1, <3>2 DEF GoneShape
  <2>7. CASE n = m /\ StoreBody(m)
    <3>1. qd[m] = "header" /\ qd'[m] = "body" /\ files'[m] = files[m] \cup {"body"}
      BY <1>0, <2>7 DEF StoreBody, TypeOK
    <3>2. files[m] \in {{"header"}, {"header", "body"}}
      BY <3>1 DEF GoneShape
    <3>3. files'[m] = {"header", "body"}
      BY <3>1, <3>2
    <3> QED BY <2>1, <3>1, <3>3 DEF GoneShape
  <2>8. ASSUME NEW r \in Rcpt, n = m, AddRcpt(m, r) PROVE GoneShape(m)'
    BY <2>1, <2>8 DEF AddRcpt, GoneShape, Untouched
  <2> QED BY <1>1, <2>2, <2>3, <2>4, <2>5, <2>6, <2>7, <2>8 DEF SourceStep
<1>2. ASSUME NEW g \in Goroutine, WorkerStep(g) PROVE GoneShape(m)'
  <2>1. /\ UNCHANGED <<up, todo, boot, qd>> /\ work[g].pc # "idle"
        /\ \A h \in Goroutine \ {g} : work'[h] = work[h]
        /\ work'[g].pc = "idle" \/ work'[g].id = work[g].id
    BY <1>0, <1>2, WorkerFrame
  <2>2. CASE qd[m] \notin Gone \cup Early
    BY <2>1, <2>2 DEF GoneShape
  <2>3. CASE qd[m] \in Gone \cup Early
    <3>1. work[g].id # m
      BY <1>0, <2>1, <2>3 DEF Untouched
    <3>2. files'[m] = files[m] /\ slot'[m] = slot[m]
      BY <1>0, <1>2, <3>1, WorkerFrame
    <3>3. attempts'[m] = attempts[m]
      BY <1>0, <1>2, <3>1 DEF WorkerStep, Open, Deliver, TargetPanics, EmitDSN, Remove, UpdateMeta,
         Requeue, RequeueReturns, DiscardBroken, TypeOK
    <3> QED BY <2>1, <3>1, <3>2, <3>3 DEF GoneShape, Untouched
  <2> QED BY <2>2, <2>3
<1>3. ASSUME NEW g \in Goroutine, NEW n \in Msg, Dispatch(g, n) PROVE GoneShape(m)'
  <2>1. /\ UNCHANGED <<files, todo, boot, qd, attempts>> /\ slot[n] # "none" /\ work'[g].id = n
        /\ \A h \in Goroutine \ {g} : work'[h] = work[h]
        /\ slot'[m] = IF n = m THEN "none" ELSE slot[m]
    BY <1>0, <1>3 DEF Dispatch, TypeOK, NoWork
  <2>2. qd[m] \in Gone => n # m
    BY <1>0, <2>1 DEF Untouched
  <2> QED BY <2>1, <2>2 DEF GoneShape, Untouched
<1>4. CASE Restart
  <2>1. /\ UNCHANGED <<files, slot, boot, qd, work, attempts>>
        /\ todo' = {n \in Msg : "meta" \in files[n]}
    BY <1>4 DEF Restart
  <2> QED BY <2>1 DEF GoneShape, Untouched
<1>5. ASSUME NEW n \in Msg, ReadEntry(n) PROVE GoneShape(m)'
  <2>1. /\ UNCHANGED <<qd, work, attempts>> /\ n \in todo /\ todo' = todo \ {n}
        /\ boot' # NoBoot => boot'.id = n
        /\ n # m => slot'[m] = slot[m] /\ files'[m] = files[m]
    BY <1>0, <1>5 DEF ReadEntry, TypeOK
  <2>2. qd[m] \in Gone \cup Early => n # m
    BY <1>0, <2>1 DEF Untouched
  <2> QED BY <2>1, <2>2 DEF GoneShape, Untouched
<1>6. CASE CleanSecondFile
  <2>1. /\ UNCHANGED <<qd, work, attempts, slot, todo>> /\ boot' = NoBoot /\ boot # NoBoot
        /\ boot.id # m => files'[m] = files[m]
    BY <1>0, <1>6 DEF CleanSecondFile, TypeOK, NoBoot
  <2>2. qd[m] \in Gone \cup Early => boot.id # m
    BY <1>0, <2>1 DEF Untouched
  <2> QED BY <2>1, <2>2 DEF GoneShape, Untouched
<1>7. CASE LoadReturns \/ CloseStart \/ CloseHandshake \/ UNCHANGED vars
  <2>1. /\ UNCHANGED <<files, qd, work, attempts, slot, todo>>
        /\ boot' = boot \/ boot' = NoBoot
    BY <1>7 DEF LoadReturns, CloseStart, CloseHandshake, vars
  <2> QED BY <2>1 DEF GoneShape, Untouched
<1>8. CASE Exit \/ Crash
  <2>1. /\ UNCHANGED <<files, attempts>> /\ slot'[m] = "none" /\ todo' = {} /\ boot' = NoBoot
        /\ \A g \in Goroutine : work'[g].pc = "idle"
        /\ qd'[m] = IF qd[m] \notin Live THEN qd[m]
                    ELSE IF "meta" \in files[m] THEN "orphaned"
                    ELSE IF qd[m] \in {"header", "body"} THEN "cut" ELSE "dead"
    BY <1>8 DEF Exit, Crash, Down, NoWork
  <2>2. Untouched(m)'
    BY <2>1 DEF Untouched
  <2> QED BY <2>1, <2>2 DEF GoneShape, Live, Writing
<1> QED
  BY <1>1, <1>2, <1>3, <1>4, <1>5, <1>6, <1>7, <1>8 DEF Next, BootStep

\* LeftInv is preserved by every step.
LEMMA LeftStep == ShapeInv /\ LeftInv /\ [Next]_vars => LeftInv'
<1> SUFFICES ASSUME ShapeInv, LeftInv, [Next]_vars PROVE LeftInv'
  OBVIOUS
<1>1. TypeOK /\ LifeShape /\ FreshEmpty
  BY DEF ShapeInv, LeftInv
<1>2. LifeShape' /\ FreshEmpty'
  BY <1>1, LifeStep, FreshStep
<1>3. ASSUME InterruptedOnce', NEW m \in Msg, OnDisk(m)' PROVE RemovedInOrder(m)' /\ Attended(m)'
  <2>1. InterruptedOnce /\ ~Fault
    BY <1>1, <1>3, FirstInterruption DEF InterruptedOnce
  <2>2. CASE OnDisk(m)
    <3>1. RemovedInOrder(m) /\ Attended(m)
      BY <2>1, <2>2 DEF LeftInv
    <3> QED BY <1>1, <1>3, <2>1, <2>2, <3>1, RemovedStep, AttendedStep
  <2>3. CASE ~OnDisk(m)
    BY <1>1, <1>3, <2>3, Entering
  <2> QED BY <2>2, <2>3
<1>4. ASSUME faults' = 0, ~AllowClose, NEW m \in Msg PROVE NotHeard(m)'
  <2>1. faults = 0 /\ ~Fault
    BY <1>1, <1>4, FirstInterruption
  <2> QED BY <1>1, <1>4, <2>1, NotHeardStep DEF LeftInv
<1>5. ASSUME NEW m \in Msg PROVE GoneShape(m)'
  BY <1>1, GoneStep DEF LeftInv
<1> QED BY <1>2, <1>3, <1>4, <1>5 DEF LeftInv

\* removeFromDisk, Abort and readDiskQueue clean up after every message whose meta-data
\* was written: with one interruption at most, a running queue keeps no file of it once
\* nobody will come back to it.  What storeNewMessage had written when a crash came
\* before the meta-data stays on disk and is never delivered, and the target never sees
\* a message whose Abort returned.
THEOREM QueueCleansUp == Spec => []NothingLeftBehind
<1>1. Init => LeftInv
  BY DEF Init, LeftInv, LifeShape, FreshEmpty, GoneShape, OnDisk, AbortStep, NotHeard, Untouched, NoWork, NoRcpts
<1>2. ShapeInv /\ LeftInv => NothingLeftBehind
  <2> SUFFICES ASSUME ShapeInv, LeftInv PROVE NoGarbage /\ AbortedNotDelivered /\ CutNotDelivered
    BY DEF NothingLeftBehind
  <2>1. AbortedNotDelivered /\ CutNotDelivered
    BY DEF AbortedNotDelivered, CutNotDelivered, LeftInv, NotHeard, GoneShape
  <2>2. ASSUME NEW m \in Msg, Serving, wheel = "running", InterruptedOnce,
               qd[m] \in {"committed", "aborted", "orphaned", "cut", "dead"}, slot[m] = "none",
               \A g \in Goroutine : work[g].pc # "idle" => work[g].id # m
        PROVE  \/ files[m] = {}
               \/ "broken" \in files[m] /\ "meta" \notin files[m]
               \/ qd[m] = "cut" /\ files[m] \in {{"header"}, {"header", "body"}}
    <3>0. CASE qd[m] = "cut"
      BY <3>0 DEF LeftInv, GoneShape
    <3>a. CASE qd[m] # "cut"
      <4>1. RemovedInOrder(m) /\ Attended(m) /\ GoneShape(m) /\ files[m] \subseteq FileKind
        BY <2>2, <3>a DEF LeftInv, OnDisk, ShapeInv, TypeOK
      <4>2. "meta" \notin files[m]
        BY <2>2, <3>a, <4>1 DEF Attended, GoneShape, Serving, WorksOn, Busy, Waiting, RemovalStep
      <4>3. ~CleansBody(m)
        BY <2>2 DEF Serving, CleansBody, NoBoot
      <4> QED BY <4>1, <4>2, <4>3 DEF RemovedInOrder, FileKind
    <3> QED BY <3>0, <3>a
  <2> QED BY <2>1, <2>2 DEF NoGarbage
<1> QED
  BY <1>1, <1>2, ShapeInit, ShapeStep, LeftStep, PTL DEF Spec

=============================================================================
