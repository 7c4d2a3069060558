----------------------------- MODULE TimeWheel -----------------------------
(***************************************************************************)
(* internal/target/queue/timewheel.go: the goroutine tick keeps a list of  *)
(* slots and dispatches the earliest one when its time comes.  Callers of  *)
(* Add append to the list under slotsLock and then meet tick on the        *)
(* unbuffered channel updateNotify; Close meets it on stopNotify and then  *)
(* closes updateNotify.                                                    *)
(*                                                                         *)
(* One action per atomic step: an atomic load or store, a critical section *)
(* of slotsLock, one arm of a select, one channel operation.  A rendezvous *)
(* is one step of both sides.  Each caller adds one slot, and is its value.*)
(***************************************************************************)
EXTENDS Naturals, Sequences, SequencesExt

CONSTANTS
  Adder,     \* the callers of Add
  MaxTime,   \* bound: the last instant of the clock, and the last target time
  MaxCloses  \* bound: calls of Close, one after another

ASSUME WheelAssumption == MaxTime \in Nat /\ MaxCloses \in Nat

VARIABLES
  now,          \* the clock
  stopped,      \* tw.stopped
  slots,        \* tw.slots
  updateClosed, \* is tw.updateNotify closed
  stopNil,      \* is tw.stopNotify nil
  apc, target,  \* apc[a], target[a]: where caller a is, and its target time
  tpc, closest, \* where tick is, and closestSlot
  cpc, closes,  \* where Close is, and how often it was called
  dispatched    \* the values dispatched so far, in order

addVars   == <<apc, target>>
tickVars  == <<tpc, closest>>
closeVars == <<stopped, stopNil, updateClosed, cpc, closes>>
vars == <<now, slots, addVars, tickVars, closeVars, dispatched>>

Time == 0..MaxTime
Slot == [time : Time, value : Adder]
NoSlot == [time |-> 0, value |-> "nil"]

-----------------------------------------------------------------------------
(* TimeWheel.Add *)

AddCheckMissing(a, t) ==   \* mutant: stopped is not looked at
  /\ apc[a] = "idle"
  /\ apc' = [apc EXCEPT ![a] = "passed"]
  /\ target' = [target EXCEPT ![a] = t]
  /\ UNCHANGED <<now, slots, tickVars, closeVars, dispatched>>

AddCheck(a, t) ==
  /\ apc[a] = "idle"
  /\ apc' = [apc EXCEPT ![a] = IF stopped THEN "ignored" ELSE "passed"]
  /\ target' = [target EXCEPT ![a] = t]
  /\ UNCHANGED <<now, slots, tickVars, closeVars, dispatched>>

AddPush(a) ==
  /\ apc[a] = "passed"
  /\ slots' = Append(slots, [time |-> target[a], value |-> a])
  /\ apc' = [apc EXCEPT ![a] = "sending"]
  /\ UNCHANGED <<now, target, tickVars, closeVars, dispatched>>

\* The send of a caller that is still blocked when the channel is closed.
AddPanics(a) ==
  /\ apc[a] = "sending" /\ updateClosed
  /\ apc' = [apc EXCEPT ![a] = "panicked"]
  /\ UNCHANGED <<now, slots, target, tickVars, closeVars, dispatched>>

-----------------------------------------------------------------------------
(* TimeWheel.tick *)

\* The list element the loop ends with: the first of those with the least time.
IsClosest(i) == /\ \A j \in 1..(i-1) : slots[j].time > slots[i].time
                /\ \A j \in i..Len(slots) : slots[j].time >= slots[i].time

Scan ==
  /\ tpc = "scan"
  /\ IF slots = <<>> THEN tpc' = "empty" /\ closest' = NoSlot
     ELSE /\ tpc' = "timer"
          /\ \E i \in DOMAIN slots : IsClosest(i) /\ closest' = slots[i]
  /\ UNCHANGED <<now, slots, addVars, closeVars, dispatched>>

FireRemovesFront ==   \* mutant: the element is taken from the front of the list
  /\ tpc = "timer" /\ now >= closest.time
  /\ slots' = Tail(slots)
  /\ dispatched' = Append(dispatched, closest.value)
  /\ tpc' = "scan" /\ closest' = NoSlot
  /\ UNCHANGED <<now, addVars, closeVars>>

\* case <-timer.C: remove closestEl and dispatch closestSlot.
Fire ==
  /\ tpc = "timer" /\ now >= closest.time
  /\ \E i \in DOMAIN slots : slots[i] = closest /\ slots' = RemoveAt(slots, i)
  /\ dispatched' = Append(dispatched, closest.value)
  /\ tpc' = "scan" /\ closest' = NoSlot
  /\ UNCHANGED <<now, addVars, closeVars>>

UpdateLost(a) ==   \* mutant: an update does not wake an empty wheel
  /\ tpc \in {"empty", "timer"} /\ apc[a] = "sending" /\ ~updateClosed
  /\ apc' = [apc EXCEPT ![a] = "returned"]
  /\ UNCHANGED <<now, slots, target, tickVars, closeVars, dispatched>>

\* case <-tw.updateNotify, with an empty list or while the timer runs: a target
\* that is not earlier does not restart the timer.
Update(a) ==
  /\ tpc \in {"empty", "timer"} /\ apc[a] = "sending" /\ ~updateClosed
  /\ apc' = [apc EXCEPT ![a] = "returned"]
  /\ tpc' = IF tpc = "timer" /\ closest.time <= target[a] THEN "timer" ELSE "scan"
  /\ closest' = IF tpc' = "timer" THEN closest ELSE NoSlot
  /\ UNCHANGED <<now, slots, target, closeVars, dispatched>>

-----------------------------------------------------------------------------
(* TimeWheel.Close *)

CloseStore ==
  /\ cpc = "idle" /\ closes < MaxCloses
  /\ closes' = closes + 1
  /\ stopped' = TRUE /\ cpc' = "check"
  /\ UNCHANGED <<now, slots, addVars, tickVars, stopNil, updateClosed, dispatched>>

CloseCheckMissing ==   \* mutant: Close is not idempotent
  /\ cpc = "check"
  /\ cpc' = "send"
  /\ UNCHANGED <<now, slots, addVars, tickVars, stopped, stopNil, updateClosed, closes, dispatched>>

CloseCheck ==
  /\ cpc = "check"
  /\ cpc' = IF stopNil THEN "idle" ELSE "send"
  /\ UNCHANGED <<now, slots, addVars, tickVars, stopped, stopNil, updateClosed, closes, dispatched>>

\* case <-tw.stopNotify: tick takes the request; a nil channel blocks for ever.
CloseRequest ==
  /\ cpc = "send" /\ ~stopNil /\ tpc \in {"empty", "timer"}
  /\ cpc' = "receive" /\ tpc' = "reply" /\ closest' = NoSlot
  /\ UNCHANGED <<now, slots, addVars, stopped, stopNil, updateClosed, closes, dispatched>>

\* tick answers and returns.
CloseReply ==
  /\ cpc = "receive" /\ tpc = "reply"
  /\ cpc' = "finish" /\ tpc' = "done"
  /\ UNCHANGED <<now, slots, addVars, closest, stopped, stopNil, updateClosed, closes, dispatched>>

CloseFinish ==
  /\ cpc = "finish"
  /\ \/ ~stopNil /\ stopNil' = TRUE /\ UNCHANGED <<cpc, updateClosed>>
     \/ stopNil /\ updateClosed' = TRUE /\ cpc' = "idle" /\ UNCHANGED stopNil
  /\ UNCHANGED <<now, slots, addVars, tickVars, stopped, closes, dispatched>>

Tick == now < MaxTime /\ now' = now + 1
        /\ UNCHANGED <<slots, addVars, tickVars, closeVars, dispatched>>

-----------------------------------------------------------------------------
Init ==
  /\ now = 0 /\ slots = <<>> /\ dispatched = <<>>
  /\ apc = [a \in Adder |-> "idle"] /\ target = [a \in Adder |-> 0]
  /\ tpc = "scan" /\ closest = NoSlot
  /\ stopped = FALSE /\ stopNil = FALSE /\ updateClosed = FALSE
  /\ cpc = "idle" /\ closes = 0

AddStep(a) == (\E t \in Time : AddCheck(a, t)) \/ AddPush(a) \/ AddPanics(a)
TickStep   == Scan \/ Fire \/ \E a \in Adder : Update(a)
CloseStep  == CloseStore \/ CloseCheck \/ CloseRequest \/ CloseReply \/ CloseFinish

Next == (\E a \in Adder : AddStep(a)) \/ TickStep \/ CloseStep \/ Tick

Spec == Init /\ [][Next]_vars

(* Fairness: runnable goroutines run and time passes.  Nobody has to call Add *)
(* or Close.                                                                  *)
Fairness ==
  /\ \A a \in Adder : WF_vars(AddPush(a)) /\ WF_vars(AddPanics(a)) /\ WF_vars(Update(a))
  /\ WF_vars(Scan) /\ WF_vars(Fire) /\ WF_vars(Tick)
  /\ WF_vars(CloseCheck) /\ WF_vars(CloseRequest) /\ WF_vars(CloseReply) /\ WF_vars(CloseFinish)

FairSpec == Spec /\ Fairness

-----------------------------------------------------------------------------
(* Properties *)

\* Every variable has its type.
TypeOK ==
  /\ now \in Time /\ slots \in Seq(Slot) /\ dispatched \in Seq(Adder)
  /\ apc \in [Adder -> {"idle", "passed", "sending", "returned", "ignored", "panicked"}]
  /\ target \in [Adder -> Time]
  /\ tpc \in {"scan", "empty", "timer", "reply", "done"}
  /\ closest \in Slot \cup {NoSlot}
  /\ stopped \in BOOLEAN /\ stopNil \in BOOLEAN /\ updateClosed \in BOOLEAN
  /\ cpc \in {"idle", "check", "send", "receive", "finish"}
  /\ closes \in 0..MaxCloses

Queued(a) == \E i \in DOMAIN slots : slots[i].value = a
Dispatched(a) == \E i \in DOMAIN dispatched : dispatched[i] = a

\* A slot that was pushed is in the list or dispatched, never both, never twice
\* and never dropped, even by a wheel that has stopped.
EachSlotOnce ==
  /\ \A a \in Adder : apc[a] \in {"sending", "returned", "panicked"} <=> (Queued(a) \/ Dispatched(a))
  /\ IsInjective(dispatched) /\ IsInjective(slots)
  /\ \A a \in Adder : ~(Queued(a) /\ Dispatched(a))

\* While the timer runs, it runs for a slot of the list.  No slot whose Add has
\* returned is due earlier, and no slot that was pushed before is as early.
ArmedForEarliest ==
  tpc = "timer" => \E i \in DOMAIN slots :
    /\ slots[i] = closest
    /\ \A j \in DOMAIN slots : apc[slots[j].value] = "returned" => slots[j].time >= closest.time
    /\ \A j \in 1..(i-1) : slots[j].time > closest.time

\* A slot carries the time its caller asked for.
SlotTimes == \A i \in DOMAIN slots : slots[i].time = target[slots[i].value]

\* Close and tick agree on how far they are: tick has returned exactly when a
\* Close got its answer, and stopNotify is nil only between that and the close
\* of updateNotify, or after it.
CloseHandshake ==
  /\ tpc = "reply" <=> cpc = "receive"
  /\ tpc = "done" <=> (cpc = "finish" \/ updateClosed)
  /\ stopNil => tpc = "done"
  /\ (stopNil /\ cpc # "finish") <=> updateClosed
  /\ (cpc # "idle" \/ stopNil) => stopped

\* What Add, tick and Close keep of the list of slots: each value is dispatched
\* once and never lost, the timer never runs for a slot later than one added
\* before, and Close ends the wheel once.
SlotsOnTime == TypeOK /\ EachSlotOnce /\ ArmedForEarliest /\ SlotTimes /\ CloseHandshake

\* A slot whose Add has returned is dispatched, unless the wheel is closed.
EventuallyDispatched ==
  \A a \in Adder : (apc[a] = "returned") ~> (Dispatched(a) \/ stopped)

\* Nobody stays blocked: an Add that pushed its slot returns or panics, and a
\* Close that was called returns.
NobodyBlocks ==
  /\ \A a \in Adder : (apc[a] = "sending") ~> (apc[a] # "sending")
  /\ (cpc # "idle") ~> (cpc = "idle")

(* The state of the contract: how far Close is, where each caller is, and what *)
(* became of its slot.                                                        *)
PhaseBar == IF ~stopped THEN "running" ELSE IF tpc # "done" THEN "stopping"
            ELSE IF ~updateClosed THEN "halted" ELSE "closed"
AddBar  == [a \in Adder |-> IF apc[a] = "sending" THEN "passed" ELSE apc[a]]
SlotBar == [a \in Adder |-> IF Queued(a) THEN "pending"
                            ELSE IF Dispatched(a) THEN "dispatched" ELSE "none"]

Contract == INSTANCE WheelContract WITH
  Value <- Adder, phase <- PhaseBar, add <- AddBar, slot <- SlotBar

\* The wheel behaves as Queue assumes, also while Add and Close overlap.
KeepsContract == Contract!Spec
=============================================================================
