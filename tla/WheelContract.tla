--------------------------- MODULE WheelContract ---------------------------
(***************************************************************************)
(* What Queue relies on of the time wheel, without times, locks and        *)
(* channels.  An Add that starts before Close takes effect: its value is   *)
(* dispatched at most once, and by a wheel that has not halted.  The call  *)
(* returns as long as the wheel runs and panics once Close has finished.   *)
(* An Add that starts after Close has begun is ignored.                    *)
(***************************************************************************)
CONSTANT Value

VARIABLES phase,  \* running, stopping (Close has begun), halted, closed
          add,    \* add[v]: idle, passed (inside Add), returned, ignored, panicked
          slot    \* slot[v]: none, pending, dispatched

vars == <<phase, add, slot>>

Init == /\ phase = "running"
        /\ add = [v \in Value |-> "idle"] /\ slot = [v \in Value |-> "none"]

Begin(v) ==
  /\ add[v] = "idle"
  /\ add' = [add EXCEPT ![v] = IF phase = "running" THEN "passed" ELSE "ignored"]
  /\ UNCHANGED <<phase, slot>>

Push(v) ==
  /\ add[v] = "passed" /\ slot[v] = "none"
  /\ slot' = [slot EXCEPT ![v] = "pending"]
  /\ UNCHANGED <<phase, add>>

Return(v) ==
  /\ add[v] = "passed" /\ slot[v] # "none" /\ phase \in {"running", "stopping"}
  /\ add' = [add EXCEPT ![v] = "returned"]
  /\ UNCHANGED <<phase, slot>>

Panic(v) ==
  /\ add[v] = "passed" /\ slot[v] # "none" /\ phase = "closed"
  /\ add' = [add EXCEPT ![v] = "panicked"]
  /\ UNCHANGED <<phase, slot>>

Dispatch(v) ==
  /\ slot[v] = "pending" /\ phase \in {"running", "stopping"}
  /\ slot' = [slot EXCEPT ![v] = "dispatched"]
  /\ UNCHANGED <<phase, add>>

Close ==
  /\ \/ phase = "running"  /\ phase' = "stopping"
     \/ phase = "stopping" /\ phase' = "halted"
     \/ phase = "halted"   /\ phase' = "closed"
  /\ UNCHANGED <<add, slot>>

Next == \/ \E v \in Value : Begin(v) \/ Push(v) \/ Return(v) \/ Panic(v) \/ Dispatch(v)
        \/ Close

Spec == Init /\ [][Next]_vars
=============================================================================
