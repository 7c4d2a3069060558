-------------------------- MODULE TimeWheelProofs --------------------------
(***************************************************************************)
(* Proofs about TimeWheel for every number of callers of Add, every target *)
(* time and every number of calls of Close.                                *)
(***************************************************************************)
EXTENDS TimeWheel, SequenceTheorems, TLAPS

-----------------------------------------------------------------------------
(* Lists *)

\* list.Remove: the elements before the i-th stay where they are, those after it
\* move up by one.
LEMMA RemoveAtProperties ==
  ASSUME NEW S, NEW s \in Seq(S), NEW i \in 1..Len(s)
  PROVE  /\ RemoveAt(s, i) \in Seq(S)
         /\ Len(RemoveAt(s, i)) = Len(s) - 1
         /\ \A j \in 1..(Len(s) - 1) : RemoveAt(s, i)[j] = IF j < i THEN s[j] ELSE s[j+1]
<1> DEFINE front == SubSeq(s, 1, i-1)
           back  == SubSeq(s, i+1, Len(s))
<1>1. /\ front \in Seq(S) /\ Len(front) = i - 1
      /\ \A j \in 1..(i-1) : front[j] = s[j]
  <2>1. \A j \in 1..(i-1) : s[j] \in S
    BY ElementOfSeq
  <2> QED BY <2>1, SubSeqProperties
<1>2. /\ back \in Seq(S) /\ Len(back) = Len(s) - i
      /\ \A j \in 1..(Len(s)-i) : back[j] = s[i+j]
  <2>1. \A j \in (i+1)..Len(s) : s[j] \in S
    BY ElementOfSeq
  <2> QED BY <2>1, SubSeqProperties
<1> HIDE DEF front, back
<1>3. /\ front \o back \in Seq(S) /\ Len(front \o back) = Len(s) - 1
      /\ \A j \in 1..(Len(s)-1) :
           (front \o back)[j] = IF j <= i - 1 THEN front[j] ELSE back[j - (i - 1)]
  BY <1>1, <1>2, ConcatProperties
<1>4. ASSUME NEW j \in 1..(Len(s)-1)
      PROVE  (front \o back)[j] = IF j < i THEN s[j] ELSE s[j+1]
  <2>1. CASE j < i
    BY <2>1, <1>1, <1>3
  <2>2. CASE ~(j < i)
    <3>1. j - (i-1) \in 1..(Len(s)-i) /\ i + (j - (i-1)) = j + 1
      BY <2>2
    <3> QED BY <2>2, <3>1, <1>2, <1>3
  <2> QED BY <2>1, <2>2
<1> QED BY <1>3, <1>4 DEF RemoveAt, front, back

-----------------------------------------------------------------------------
(* The list of slots under Add and tick *)

\* Every element of the list is a slot of some caller.
LEMMA ListedSlots ==
  ASSUME slots \in Seq(Slot)
  PROVE  /\ Len(slots) \in Nat /\ DOMAIN slots = 1..Len(slots)
         /\ \A j \in DOMAIN slots : /\ slots[j] \in Slot
                                    /\ slots[j].value \in Adder /\ slots[j].time \in Nat
<1>1. Len(slots) \in Nat /\ DOMAIN slots = 1..Len(slots)
  BY LenProperties
<1>2. \A j \in DOMAIN slots : slots[j] \in Slot
  BY <1>1, ElementOfSeq
<1>3. \A x \in Slot : x.value \in Adder /\ x.time \in Nat
  BY WheelAssumption DEF Slot, Time
<1> QED BY <1>1, <1>2, <1>3

\* A caller has at most one slot in the list.
LEMMA ValuesOnce ==
  ASSUME SlotsOnTime
  PROVE  \A i, j \in DOMAIN slots : slots[i].value = slots[j].value => i = j
<1> SUFFICES ASSUME NEW i \in DOMAIN slots, NEW j \in DOMAIN slots,
                    slots[i].value = slots[j].value
             PROVE  i = j
  OBVIOUS
<1>1. slots[i] \in Slot /\ slots[j] \in Slot
  BY ElementOfSeq, LenProperties DEF SlotsOnTime, TypeOK
<1>2. slots[i].time = slots[j].time
  BY DEF SlotsOnTime, SlotTimes
<1>3. slots[i] = slots[j]
  BY <1>1, <1>2 DEF Slot
<1> QED BY <1>3 DEF SlotsOnTime, EachSlotOnce, IsInjective

\* Add appends the slot of its caller, which the list did not hold.
LEMMA PushedSlots ==
  ASSUME SlotsOnTime, NEW a \in Adder, AddPush(a)
  PROVE  /\ slots' \in Seq(Slot)
         /\ DOMAIN slots = 1..Len(slots) /\ DOMAIN slots' = 1..(Len(slots) + 1)
         /\ \A j \in DOMAIN slots : slots'[j] = slots[j]
         /\ slots'[Len(slots) + 1].time = target[a] /\ slots'[Len(slots) + 1].value = a
         /\ ~Queued(a) /\ ~Dispatched(a)
         /\ Len(slots) \in Nat
<1>1. slots \in Seq(Slot) /\ [time |-> target[a], value |-> a] \in Slot
  BY DEF SlotsOnTime, TypeOK, Slot
<1>2. apc[a] = "passed"
  BY DEF AddPush
<1>3. slots'[Len(slots) + 1] = [time |-> target[a], value |-> a]
  BY <1>1, AppendProperties DEF AddPush
<1>4. ~Queued(a) /\ ~Dispatched(a)
  BY <1>2 DEF SlotsOnTime, EachSlotOnce
<1> QED BY <1>1, <1>3, <1>4, AppendProperties, LenProperties DEF AddPush

\* After Add's push the list holds the same callers and the new one.
LEMMA PushedQueued ==
  ASSUME SlotsOnTime, NEW a \in Adder, AddPush(a)
  PROVE  \A b \in Adder : Queued(b)' <=> (Queued(b) \/ b = a)
<1> DEFINE n == Len(slots)
<1>0. /\ n \in Nat /\ DOMAIN slots = 1..n /\ DOMAIN slots' = 1..(n + 1)
      /\ \A j \in DOMAIN slots : slots'[j] = slots[j]
      /\ slots'[n + 1].value = a
  BY PushedSlots
<1> HIDE DEF n
<1>1. ASSUME NEW b \in Adder, Queued(b)' PROVE Queued(b) \/ b = a
  <2>1. PICK j \in DOMAIN slots' : slots'[j].value = b
    BY <1>1 DEF Queued
  <2>2. CASE j = n + 1
    BY <2>1, <2>2, <1>0
  <2>3. CASE j \in DOMAIN slots
    BY <2>1, <2>3, <1>0 DEF Queued
  <2> QED BY <2>2, <2>3, <1>0
<1>2. ASSUME NEW b \in Adder, Queued(b) PROVE Queued(b)'
  <2>1. PICK j \in DOMAIN slots : slots[j].value = b
    BY <1>2 DEF Queued
  <2>2. j \in DOMAIN slots' /\ slots'[j].value = b
    BY <2>1, <1>0
  <2> QED BY <2>2 DEF Queued
<1>3. n + 1 \in DOMAIN slots'
  BY <1>0
<1>4. Queued(a)'
  BY <1>3, <1>0 DEF Queued
<1> QED BY <1>1, <1>2, <1>4

\* tick removes the slot it dispatches and no other.
LEMMA FiredSlots ==
  ASSUME SlotsOnTime, Fire
  PROVE  \E i \in 1..Len(slots) :
           /\ Len(slots) \in Nat
           /\ DOMAIN slots = 1..Len(slots) /\ DOMAIN slots' = 1..(Len(slots) - 1)
           /\ slots[i] = closest /\ closest \in Slot
           /\ slots' \in Seq(Slot)
           /\ \A j \in DOMAIN slots' : slots'[j] = IF j < i THEN slots[j] ELSE slots[j+1]
<1>1. slots \in Seq(Slot)
  BY DEF SlotsOnTime, TypeOK
<1>2. PICK i \in DOMAIN slots : slots[i] = closest /\ slots' = RemoveAt(slots, i)
  BY DEF Fire
<1>3. i \in 1..Len(slots) /\ closest \in Slot /\ DOMAIN slots = 1..Len(slots)
  BY <1>1, <1>2, LenProperties, ElementOfSeq
<1>4. /\ slots' \in Seq(Slot) /\ Len(slots') = Len(slots) - 1
      /\ \A j \in 1..(Len(slots) - 1) : slots'[j] = IF j < i THEN slots[j] ELSE slots[j+1]
  BY <1>1, <1>2, <1>3, RemoveAtProperties
<1>5. DOMAIN slots' = 1..(Len(slots) - 1) /\ Len(slots) \in Nat
  BY <1>1, <1>4, LenProperties
<1> QED BY <1>2, <1>3, <1>4, <1>5

\* After Fire the list holds the same callers but the one that was dispatched.
LEMMA FiredQueued ==
  ASSUME SlotsOnTime, Fire
  PROVE  /\ closest.value \in Adder /\ Queued(closest.value)
         /\ \A b \in Adder : Queued(b)' <=> (Queued(b) /\ b # closest.value)
<1>1. PICK i \in 1..Len(slots) :
           /\ Len(slots) \in Nat
           /\ DOMAIN slots = 1..Len(slots) /\ DOMAIN slots' = 1..(Len(slots) - 1)
           /\ slots[i] = closest /\ closest \in Slot
           /\ slots' \in Seq(Slot)
           /\ \A j \in DOMAIN slots' : slots'[j] = IF j < i THEN slots[j] ELSE slots[j+1]
  BY FiredSlots
<1>2. closest.value \in Adder /\ Queued(closest.value)
  BY <1>1 DEF Slot, Queued
<1>3. ASSUME NEW b \in Adder, Queued(b)' PROVE Queued(b) /\ b # closest.value
  <2>1. PICK j \in DOMAIN slots' : slots'[j].value = b
    BY <1>3 DEF Queued
  <2>2. CASE j < i
    <3>1. j \in DOMAIN slots /\ slots[j].value = b /\ j # i
      BY <1>1, <2>1, <2>2
    <3> QED BY <3>1, <1>1, ValuesOnce DEF Queued
  <2>3. CASE ~(j < i)
    <3>1. j + 1 \in DOMAIN slots /\ slots[j+1].value = b /\ j + 1 # i
      BY <1>1, <2>1, <2>3
    <3> QED BY <3>1, <1>1, ValuesOnce DEF Queued
  <2> QED BY <2>2, <2>3
<1>4. ASSUME NEW b \in Adder, Queued(b), b # closest.value PROVE Queued(b)'
  <2>1. PICK j \in DOMAIN slots : slots[j].value = b
    BY <1>4 DEF Queued
  <2>2. j # i
    BY <1>1, <1>4, <2>1
  <2>3. CASE j < i
    <3>1. j \in DOMAIN slots' /\ slots'[j].value = b
      BY <1>1, <2>1, <2>3
    <3> QED BY <3>1 DEF Queued
  <2>4. CASE j > i
    <3>1. j - 1 \in DOMAIN slots' /\ ~(j - 1 < i) /\ (j - 1) + 1 = j
      BY <1>1, <2>4
    <3>2. slots'[j-1].value = b
      BY <3>1, <1>1, <2>1
    <3> QED BY <3>1, <3>2 DEF Queued
  <2> QED BY <1>1, <2>2, <2>3, <2>4
<1> QED BY <1>2, <1>3, <1>4

\* tick appends the value it dispatches to those dispatched before.
LEMMA FiredDispatched ==
  ASSUME SlotsOnTime, Fire
  PROVE  /\ dispatched' \in Seq(Adder)
         /\ Len(dispatched) \in Nat /\ DOMAIN dispatched = 1..Len(dispatched)
         /\ DOMAIN dispatched' = 1..(Len(dispatched) + 1)
         /\ \A j \in DOMAIN dispatched : dispatched'[j] = dispatched[j]
         /\ dispatched'[Len(dispatched) + 1] = closest.value
         /\ \A b \in Adder : Dispatched(b)' <=> (Dispatched(b) \/ b = closest.value)
<1>1. dispatched \in Seq(Adder) /\ closest.value \in Adder
  BY FiredQueued DEF SlotsOnTime, TypeOK
<1>2. /\ dispatched' \in Seq(Adder)
      /\ Len(dispatched) \in Nat /\ DOMAIN dispatched = 1..Len(dispatched)
      /\ DOMAIN dispatched' = 1..(Len(dispatched) + 1)
      /\ \A j \in DOMAIN dispatched : dispatched'[j] = dispatched[j]
      /\ dispatched'[Len(dispatched) + 1] = closest.value
  BY <1>1, AppendProperties, LenProperties DEF Fire
<1>3. ASSUME NEW b \in Adder
      PROVE  Dispatched(b)' <=> (Dispatched(b) \/ b = closest.value)
  BY <1>2 DEF Dispatched
<1> QED BY <1>2, <1>3

-----------------------------------------------------------------------------
(* SlotsOnTime is inductive *)

\* The slots a caller sees when nobody touches the list.
LEMMA SameLists ==
  ASSUME UNCHANGED <<slots, dispatched>>
  PROVE  \A b \in Adder : (Queued(b)' <=> Queued(b)) /\ (Dispatched(b)' <=> Dispatched(b))
BY DEF Queued, Dispatched

LEMMA TypeStep ==
  ASSUME SlotsOnTime, [Next]_vars
  PROVE  TypeOK'
<1> USE DEF SlotsOnTime, TypeOK
<1>1. CASE UNCHANGED vars
  BY <1>1 DEF vars, addVars, tickVars, closeVars
<1>2. ASSUME NEW a \in Adder, NEW t \in Time, AddCheck(a, t) PROVE TypeOK'
  BY <1>2 DEF AddCheck, tickVars, closeVars
<1>3. ASSUME NEW a \in Adder, AddPush(a) PROVE TypeOK'
  BY <1>3, PushedSlots DEF AddPush, tickVars, closeVars
<1>4. ASSUME NEW a \in Adder, AddPanics(a) PROVE TypeOK'
  BY <1>4 DEF AddPanics, tickVars, closeVars
<1>5. CASE Scan
  <2>1. \A i \in DOMAIN slots : slots[i] \in Slot
    BY ElementOfSeq, LenProperties
  <2> QED BY <1>5, <2>1 DEF Scan, addVars, closeVars
<1>6. CASE Fire
  BY <1>6, FiredSlots, FiredDispatched DEF Fire, addVars, closeVars
<1>7. ASSUME NEW a \in Adder, Update(a) PROVE TypeOK'
  BY <1>7 DEF Update, closeVars
<1>8. CASE CloseStep
  <2>1. CASE CloseStore
    BY <2>1, WheelAssumption DEF CloseStore, addVars, tickVars
  <2>2. CASE CloseCheck
    BY <2>2 DEF CloseCheck, addVars, tickVars
  <2>3. CASE CloseRequest
    BY <2>3 DEF CloseRequest, addVars
  <2>4. CASE CloseReply
    BY <2>4 DEF CloseReply, addVars
  <2>5. CASE CloseFinish
    BY <2>5 DEF CloseFinish, addVars, tickVars
  <2> QED BY <1>8, <2>1, <2>2, <2>3, <2>4, <2>5 DEF CloseStep
<1>9. CASE Tick
  BY <1>9, WheelAssumption DEF Tick, Time, addVars, tickVars, closeVars
<1> QED
  BY <1>1, <1>2, <1>3, <1>4, <1>5, <1>6, <1>7, <1>8, <1>9 DEF Next, AddStep, TickStep

LEMMA OnceStep ==
  ASSUME SlotsOnTime, [Next]_vars
  PROVE  EachSlotOnce'
<1> USE DEF SlotsOnTime, TypeOK
<1>1. ASSUME UNCHANGED <<slots, dispatched>>,
             \A b \in Adder : apc'[b] \in {"sending", "returned", "panicked"}
                                <=> apc[b] \in {"sending", "returned", "panicked"}
      PROVE  EachSlotOnce'
  <2>1. IsInjective(dispatched)' /\ IsInjective(slots)'
    BY <1>1 DEF EachSlotOnce
  <2> QED BY <1>1, <2>1, SameLists DEF EachSlotOnce
<1>2. ASSUME NEW a \in Adder, NEW t \in Time, AddCheck(a, t) PROVE EachSlotOnce'
  BY <1>1, <1>2 DEF AddCheck, tickVars, closeVars
<1>3. ASSUME NEW a \in Adder, AddPush(a) PROVE EachSlotOnce'
  <2> DEFINE n == Len(slots)
  <2>0. /\ n \in Nat /\ DOMAIN slots = 1..n /\ DOMAIN slots' = 1..(n + 1)
        /\ \A j \in DOMAIN slots : slots'[j] = slots[j]
        /\ slots'[n + 1].value = a
        /\ ~Queued(a) /\ ~Dispatched(a)
    BY <1>3, PushedSlots
  <2> HIDE DEF n
  <2>1. \A b \in Adder : Queued(b)' <=> (Queued(b) \/ b = a)
    BY <1>3, PushedQueued
  <2>2. \A b \in Adder : Dispatched(b)' <=> Dispatched(b)
    BY <1>3 DEF Dispatched, AddPush
  <2>3. IsInjective(dispatched)'
    BY <1>3 DEF AddPush, EachSlotOnce
  <2>4. IsInjective(slots)'
    <3> SUFFICES ASSUME NEW i \in DOMAIN slots', NEW j \in DOMAIN slots', slots'[i] = slots'[j]
                 PROVE  i = j
      BY DEF IsInjective
    <3>1. ASSUME NEW k \in DOMAIN slots PROVE slots'[k].value # a
      BY <3>1, <2>0 DEF Queued
    <3>2. CASE i \in DOMAIN slots /\ j \in DOMAIN slots
      BY <3>2, <2>0 DEF EachSlotOnce, IsInjective
    <3> QED BY <2>0, <3>1, <3>2
  <2>5. \A b \in Adder : apc'[b] \in {"sending", "returned", "panicked"}
                           <=> (apc[b] \in {"sending", "returned", "panicked"} \/ b = a)
    BY <1>3 DEF AddPush
  <2> QED BY <2>1, <2>2, <2>3, <2>4, <2>5, <2>0 DEF EachSlotOnce
<1>4. ASSUME NEW a \in Adder, AddPanics(a) PROVE EachSlotOnce'
  BY <1>1, <1>4 DEF AddPanics
<1>5. CASE Fire
  <2> USE <1>5
  <2>1. IsInjective(dispatched)'
    <3>1. ~Dispatched(closest.value)
      BY FiredQueued DEF EachSlotOnce
    <3>2. \A k \in DOMAIN dispatched : dispatched'[k] # closest.value
      BY <3>1, FiredDispatched DEF Dispatched
    <3>3. \A i, j \in DOMAIN dispatched : dispatched'[i] = dispatched'[j] => i = j
      BY FiredDispatched DEF EachSlotOnce, IsInjective
    <3> QED BY <3>2, <3>3, FiredDispatched DEF IsInjective
  <2>2. IsInjective(slots)'
    <3>1. PICK i \in 1..Len(slots) :
             /\ Len(slots) \in Nat
             /\ DOMAIN slots = 1..Len(slots) /\ DOMAIN slots' = 1..(Len(slots) - 1)
             /\ \A j \in DOMAIN slots' : slots'[j] = IF j < i THEN slots[j] ELSE slots[j+1]
      BY FiredSlots
    <3>2. ASSUME NEW j \in DOMAIN slots', NEW k \in DOMAIN slots', slots'[j] = slots'[k]
          PROVE  j = k
      <4> DEFINE up(n) == IF n < i THEN n ELSE n + 1
      <4>1. up(j) \in DOMAIN slots /\ up(k) \in DOMAIN slots
        BY <3>1
      <4>2. slots[up(j)] = slots'[j] /\ slots[up(k)] = slots'[k]
        BY <3>1
      <4>3. up(j) = up(k)
        BY <4>1, <4>2, <3>2 DEF EachSlotOnce, IsInjective
      <4> QED BY <4>3, <3>1
    <3> QED BY <3>2 DEF IsInjective
  <2>3. apc' = apc
    BY DEF Fire, addVars
  <2> QED BY <2>1, <2>2, <2>3, FiredQueued, FiredDispatched DEF EachSlotOnce
<1>6. ASSUME NEW a \in Adder, Update(a) PROVE EachSlotOnce'
  BY <1>1, <1>6 DEF Update
<1>7. CASE UNCHANGED vars \/ Scan \/ CloseStep \/ Tick
  BY <1>1, <1>7 DEF Scan, CloseStep, CloseStore, CloseCheck, CloseRequest, CloseReply,
     CloseFinish, Tick, vars, addVars
<1> QED
  BY <1>2, <1>3, <1>4, <1>5, <1>6, <1>7 DEF Next, AddStep, TickStep

LEMMA TimesStep ==
  ASSUME SlotsOnTime, [Next]_vars
  PROVE  SlotTimes'
<1> USE DEF SlotsOnTime, TypeOK, SlotTimes
<1>1. CASE UNCHANGED <<slots, target>>
  BY <1>1
<1>2. ASSUME NEW a \in Adder, NEW t \in Time, AddCheck(a, t) PROVE SlotTimes'
  <2>1. ~Queued(a)
    BY <1>2 DEF AddCheck, EachSlotOnce
  <2>2. \A i \in DOMAIN slots : slots[i].value \in Adder /\ slots[i].value # a
    BY <2>1, ListedSlots DEF Queued
  <2> QED BY <1>2, <2>2 DEF AddCheck
<1>3. ASSUME NEW a \in Adder, AddPush(a) PROVE SlotTimes'
  BY <1>3, PushedSlots DEF AddPush
<1>4. CASE Fire
  <2>1. PICK i \in 1..Len(slots) :
             /\ Len(slots) \in Nat
             /\ DOMAIN slots = 1..Len(slots) /\ DOMAIN slots' = 1..(Len(slots) - 1)
             /\ \A j \in DOMAIN slots' : slots'[j] = IF j < i THEN slots[j] ELSE slots[j+1]
    BY <1>4, FiredSlots
  <2>2. \A j \in DOMAIN slots' : \E k \in DOMAIN slots : slots'[j] = slots[k]
    <3> TAKE j \in DOMAIN slots'
    <3>1. CASE j < i
      <4>1. j \in DOMAIN slots /\ slots'[j] = slots[j]
        BY <2>1, <3>1
      <4> QED BY <4>1
    <3>2. CASE ~(j < i)
      <4>1. j + 1 \in DOMAIN slots /\ slots'[j] = slots[j+1]
        BY <2>1, <3>2
      <4> QED BY <4>1
    <3> QED BY <3>1, <3>2
  <2> QED BY <1>4, <2>2 DEF Fire, addVars
<1> QED
  BY <1>1, <1>2, <1>3, <1>4 DEF Next, AddStep, TickStep, AddPanics, Update, Scan, CloseStep,
     CloseStore, CloseCheck, CloseRequest, CloseReply, CloseFinish, Tick, vars, addVars

LEMMA ArmedStep ==
  ASSUME SlotsOnTime, [Next]_vars
  PROVE  ArmedForEarliest'
<1> USE DEF SlotsOnTime, TypeOK
<1>0. /\ slots \in Seq(Slot) /\ Len(slots) \in Nat /\ DOMAIN slots = 1..Len(slots)
      /\ \A j \in DOMAIN slots : slots[j].value \in Adder /\ slots[j].time \in Nat
  BY ListedSlots
<1>1. ASSUME UNCHANGED slots, tpc' = "timer" => tpc = "timer" /\ closest' = closest,
             \A b \in Adder : apc'[b] = "returned" => apc[b] = "returned"
      PROVE  ArmedForEarliest'
  BY <1>0, <1>1 DEF ArmedForEarliest
<1>2. ASSUME NEW a \in Adder, AddPush(a) PROVE ArmedForEarliest'
  <2> SUFFICES ASSUME tpc = "timer" PROVE ArmedForEarliest'
    BY <1>2 DEF AddPush, tickVars, ArmedForEarliest
  <2>1. PICK i \in DOMAIN slots :
          /\ slots[i] = closest
          /\ \A j \in DOMAIN slots : apc[slots[j].value] = "returned" => slots[j].time >= closest.time
          /\ \A j \in 1..(i-1) : slots[j].time > closest.time
    BY DEF ArmedForEarliest
  <2>p. /\ DOMAIN slots' = 1..(Len(slots) + 1)
        /\ \A j \in DOMAIN slots : slots'[j] = slots[j]
        /\ slots'[Len(slots) + 1].value = a
    BY <1>2, PushedSlots
  <2>2. i \in DOMAIN slots' /\ slots'[i] = closest /\ closest' = closest
    BY <1>0, <1>2, <2>1, <2>p DEF AddPush, tickVars
  <2>3. \A j \in 1..(i-1) : slots'[j].time > closest.time
    <3>1. \A j \in 1..(i-1) : j \in DOMAIN slots
      BY <1>0
    <3> QED BY <2>1, <2>p, <3>1
  <2>4. \A b \in Adder : apc'[b] = "returned" => apc[b] = "returned" /\ b # a
    BY <1>2 DEF AddPush
  <2>5. ASSUME NEW j \in DOMAIN slots', apc'[slots'[j].value] = "returned"
        PROVE  slots'[j].time >= closest.time
    <3>1. CASE j \in DOMAIN slots
      BY <3>1, <1>0, <2>1, <2>4, <2>5, <2>p
    <3>2. CASE j = Len(slots) + 1
      BY <3>2, <2>4, <2>5, <2>p
    <3> QED BY <3>1, <3>2, <1>0, <2>p
  <2> QED BY <2>2, <2>3, <2>5 DEF ArmedForEarliest
<1>3. CASE Scan
  <2> SUFFICES ASSUME NEW i \in DOMAIN slots, IsClosest(i), closest' = slots[i]
               PROVE  ArmedForEarliest'
    BY <1>3 DEF Scan, ArmedForEarliest
  <2>1. \A j \in DOMAIN slots : slots[j].time >= slots[i].time
    BY <1>0 DEF IsClosest
  <2> QED BY <1>0, <1>3, <2>1 DEF Scan, IsClosest, ArmedForEarliest
<1>4. ASSUME NEW a \in Adder, Update(a) PROVE ArmedForEarliest'
  <2> SUFFICES ASSUME tpc' = "timer" PROVE ArmedForEarliest'
    BY DEF ArmedForEarliest
  <2>1. tpc = "timer" /\ closest.time <= target[a] /\ closest' = closest
    BY <1>4 DEF Update
  <2>2. \A b \in Adder : apc'[b] = "returned" => apc[b] = "returned" \/ b = a
    BY <1>4 DEF Update
  <2>3. PICK i \in DOMAIN slots :
          /\ slots[i] = closest
          /\ \A j \in DOMAIN slots : apc[slots[j].value] = "returned" => slots[j].time >= closest.time
          /\ \A j \in 1..(i-1) : slots[j].time > closest.time
    BY <2>1 DEF ArmedForEarliest
  <2>4. slots' = slots
    BY <1>4 DEF Update
  <2>5. \A j \in DOMAIN slots : slots[j].value = a => slots[j].time >= closest.time
    BY <1>0, <2>1, <2>3 DEF SlotTimes
  <2> QED BY <1>0, <2>1, <2>2, <2>3, <2>4, <2>5 DEF ArmedForEarliest
<1>5. CASE Fire
  BY <1>5 DEF Fire, ArmedForEarliest
<1>6. CASE UNCHANGED vars \/ CloseStep \/ Tick
  BY <1>1, <1>6 DEF CloseStep, CloseStore, CloseCheck, CloseRequest, CloseReply,
     CloseFinish, Tick, vars, addVars, tickVars
<1>7. ASSUME NEW a \in Adder, NEW t \in Time, AddCheck(a, t) PROVE ArmedForEarliest'
  BY <1>1, <1>7 DEF AddCheck, tickVars
<1>8. ASSUME NEW a \in Adder, AddPanics(a) PROVE ArmedForEarliest'
  BY <1>1, <1>8 DEF AddPanics, tickVars
<1> QED
  BY <1>2, <1>3, <1>4, <1>5, <1>6, <1>7, <1>8 DEF Next, AddStep, TickStep

LEMMA HandshakeStep ==
  ASSUME SlotsOnTime, [Next]_vars
  PROVE  CloseHandshake'
<1> USE DEF SlotsOnTime, TypeOK, CloseHandshake
<1>1. CASE CloseStep
  BY <1>1 DEF CloseStep, CloseStore, CloseCheck, CloseRequest, CloseReply, CloseFinish, tickVars
<1>2. CASE TickStep
  BY <1>2 DEF TickStep, Scan, Fire, Update, closeVars
<1>3. CASE UNCHANGED <<tickVars, closeVars>>
  BY <1>3 DEF tickVars, closeVars
<1> QED
  BY <1>1, <1>2, <1>3 DEF Next, AddStep, AddCheck, AddPush, AddPanics, Tick, vars

LEMMA SlotsInit ==
  ASSUME Init
  PROVE  SlotsOnTime
<1>1. slots \in Seq(Slot) /\ dispatched \in Seq(Adder) /\ DOMAIN slots = {} /\ DOMAIN dispatched = {}
  BY EmptySeq DEF Init
<1>2. TypeOK
  <2>1. 0 \in Time /\ 0 \in 0..MaxCloses
    BY WheelAssumption DEF Time
  <2> QED BY <1>1, <2>1 DEF Init, TypeOK
<1>3. EachSlotOnce /\ SlotTimes
  BY <1>1 DEF Init, EachSlotOnce, SlotTimes, IsInjective, Queued, Dispatched
<1>4. ArmedForEarliest /\ CloseHandshake
  BY DEF Init, ArmedForEarliest, CloseHandshake
<1> QED BY <1>2, <1>3, <1>4 DEF SlotsOnTime

LEMMA SlotsStep ==
  ASSUME SlotsOnTime, [Next]_vars
  PROVE  SlotsOnTime'
BY TypeStep, OnceStep, TimesStep, ArmedStep, HandshakeStep DEF SlotsOnTime

\* Whatever the callers of Add and Close do, each slot is dispatched at most
\* once and is in the list until then, the timer of tick always runs for the
\* earliest slot whose Add has returned, and Close ends the wheel once.
THEOREM WheelCorrect == Spec => []SlotsOnTime
<1>1. Init => SlotsOnTime
  BY SlotsInit
<1>2. SlotsOnTime /\ [Next]_vars => SlotsOnTime'
  BY SlotsStep
<1> QED BY <1>1, <1>2, PTL DEF Spec

-----------------------------------------------------------------------------
(* The wheel implements the contract Queue is checked against *)

LEMMA ContractInit ==
  ASSUME Init
  PROVE  Contract!Init
<1>1. \A a \in Adder : ~Queued(a) /\ ~Dispatched(a)
  BY DEF Init, Queued, Dispatched
<1>2. PhaseBar = "running"
  BY DEF Init, PhaseBar
<1>3. AddBar = [v \in Adder |-> "idle"]
  BY DEF Init, AddBar
<1>4. SlotBar = [v \in Adder |-> "none"]
  BY <1>1 DEF SlotBar
<1> QED BY <1>2, <1>3, <1>4 DEF Contract!Init

\* A step that leaves the lists alone leaves the slots of the contract alone.
LEMMA SlotBarSame ==
  ASSUME UNCHANGED <<slots, dispatched>>
  PROVE  SlotBar' = SlotBar
<1>1. \A b \in Adder : (Queued(b)' <=> Queued(b)) /\ (Dispatched(b)' <=> Dispatched(b))
  BY SameLists
<1> QED BY <1>1 DEF SlotBar

LEMMA PhaseBarSame ==
  ASSUME UNCHANGED <<stopped, updateClosed>>, tpc' = "done" <=> tpc = "done"
  PROVE  PhaseBar' = PhaseBar
BY DEF PhaseBar

\* A caller whose slot was not pushed has none, and one inside the send has one.
LEMMA SlotOfCaller ==
  ASSUME SlotsOnTime, NEW a \in Adder
  PROVE  /\ apc[a] = "passed"  => AddBar[a] = "passed" /\ SlotBar[a] = "none"
         /\ apc[a] = "sending" => AddBar[a] = "passed" /\ SlotBar[a] # "none"
<1>1. (Queued(a) \/ Dispatched(a)) <=> apc[a] \in {"sending", "returned", "panicked"}
  BY DEF SlotsOnTime, EachSlotOnce
<1>2. SlotBar[a] = IF Queued(a) THEN "pending" ELSE IF Dispatched(a) THEN "dispatched" ELSE "none"
  BY DEF SlotBar
<1>3. AddBar[a] = IF apc[a] = "sending" THEN "passed" ELSE apc[a]
  BY DEF AddBar
<1> QED BY <1>1, <1>2, <1>3

LEMMA ContractStep ==
  ASSUME SlotsOnTime, [Next]_vars
  PROVE  [Contract!Next]_Contract!vars
<1> USE DEF SlotsOnTime, TypeOK
<1>0. ASSUME UNCHANGED <<PhaseBar, AddBar, SlotBar>> PROVE [Contract!Next]_Contract!vars
  BY <1>0 DEF Contract!vars
<1>1. ASSUME NEW a \in Adder, NEW t \in Time, AddCheck(a, t) PROVE Contract!Begin(a)
  <2>1. AddBar[a] = "idle"
    BY <1>1 DEF AddCheck, AddBar
  <2>2. AddBar' = [AddBar EXCEPT ![a] = IF PhaseBar = "running" THEN "passed" ELSE "ignored"]
    BY <1>1 DEF AddCheck, AddBar, PhaseBar
  <2>3. PhaseBar' = PhaseBar /\ SlotBar' = SlotBar
    BY <1>1, SlotBarSame, PhaseBarSame DEF AddCheck, tickVars, closeVars
  <2> QED BY <2>1, <2>2, <2>3 DEF Contract!Begin
<1>2. ASSUME NEW a \in Adder, AddPush(a) PROVE Contract!Push(a)
  <2>1. AddBar[a] = "passed" /\ SlotBar[a] = "none"
    BY <1>2, SlotOfCaller DEF AddPush
  <2>2. PhaseBar' = PhaseBar
    BY <1>2, PhaseBarSame DEF AddPush, tickVars, closeVars
  <2>3. AddBar' = AddBar
    BY <1>2 DEF AddPush, AddBar
  <2>4. \A b \in Adder : (Queued(b)' <=> (Queued(b) \/ b = a)) /\ (Dispatched(b)' <=> Dispatched(b))
    BY <1>2, PushedQueued DEF AddPush, Dispatched
  <2>5. SlotBar' = [SlotBar EXCEPT ![a] = "pending"]
    BY <2>4 DEF SlotBar
  <2> QED BY <2>1, <2>2, <2>3, <2>5 DEF Contract!Push
<1>3. ASSUME NEW a \in Adder, AddPanics(a) PROVE Contract!Panic(a)
  <2>1. AddBar[a] = "passed" /\ SlotBar[a] # "none"
    BY <1>3, SlotOfCaller DEF AddPanics
  <2>2. PhaseBar = "closed"
    BY <1>3 DEF AddPanics, PhaseBar, CloseHandshake
  <2>3. AddBar' = [AddBar EXCEPT ![a] = "panicked"]
    BY <1>3 DEF AddPanics, AddBar
  <2>4. PhaseBar' = PhaseBar /\ SlotBar' = SlotBar
    BY <1>3, SlotBarSame, PhaseBarSame DEF AddPanics, tickVars, closeVars
  <2> QED BY <2>1, <2>2, <2>3, <2>4 DEF Contract!Panic
<1>4. ASSUME NEW a \in Adder, Update(a) PROVE Contract!Return(a)
  <2>1. AddBar[a] = "passed" /\ SlotBar[a] # "none"
    BY <1>4, SlotOfCaller DEF Update
  <2>2. PhaseBar \in {"running", "stopping"}
    BY <1>4 DEF Update, PhaseBar
  <2>3. AddBar' = [AddBar EXCEPT ![a] = "returned"]
    BY <1>4 DEF Update, AddBar
  <2>4. PhaseBar' = PhaseBar /\ SlotBar' = SlotBar
    BY <1>4, SlotBarSame, PhaseBarSame DEF Update, closeVars
  <2> QED BY <2>1, <2>2, <2>3, <2>4 DEF Contract!Return
<1>5. CASE Fire
  <2> DEFINE v == closest.value
  <2>1. /\ v \in Adder /\ Queued(v)
        /\ \A b \in Adder : /\ Queued(b)' <=> (Queued(b) /\ b # v)
                            /\ Dispatched(b)' <=> (Dispatched(b) \/ b = v)
    BY <1>5, FiredQueued, FiredDispatched
  <2> HIDE DEF v
  <2>2. PhaseBar \in {"running", "stopping"}
    BY <1>5 DEF Fire, PhaseBar
  <2>3. PhaseBar' = PhaseBar /\ AddBar' = AddBar
    BY <1>5, PhaseBarSame DEF Fire, AddBar, addVars, closeVars
  <2>4. SlotBar[v] = "pending"
    BY <2>1 DEF SlotBar
  <2>5. SlotBar' = [SlotBar EXCEPT ![v] = "dispatched"]
    BY <2>1 DEF SlotBar
  <2>6. Contract!Dispatch(v)
    BY <2>2, <2>3, <2>4, <2>5 DEF Contract!Dispatch
  <2> QED BY <2>1, <2>6 DEF Contract!Next
<1>6. CASE CloseStep
  <2> USE DEF CloseHandshake
  <2>1. SlotBar' = SlotBar /\ AddBar' = AddBar
    BY <1>6, SlotBarSame DEF CloseStep, CloseStore, CloseCheck, CloseRequest, CloseReply,
       CloseFinish, addVars, AddBar
  <2>2. CASE CloseStore
    <3>1. (PhaseBar = "running" /\ PhaseBar' = "stopping") \/ PhaseBar' = PhaseBar
      BY <2>2 DEF CloseStore, PhaseBar, tickVars
    <3> QED BY <2>1, <3>1, <1>0 DEF Contract!Next, Contract!Close
  <2>3. CASE CloseCheck \/ CloseRequest
    <3>1. PhaseBar' = PhaseBar
      BY <2>3, PhaseBarSame DEF CloseCheck, CloseRequest, tickVars
    <3> QED BY <2>1, <3>1, <1>0
  <2>4. CASE CloseReply
    <3>1. PhaseBar = "stopping" /\ PhaseBar' = "halted"
      BY <2>4 DEF CloseReply, PhaseBar
    <3> QED BY <2>1, <3>1 DEF Contract!Next, Contract!Close
  <2>5. CASE CloseFinish
    <3>1. (PhaseBar = "halted" /\ PhaseBar' = "closed") \/ PhaseBar' = PhaseBar
      BY <2>5 DEF CloseFinish, PhaseBar, tickVars
    <3> QED BY <2>1, <3>1, <1>0 DEF Contract!Next, Contract!Close
  <2> QED BY <1>6, <2>2, <2>3, <2>4, <2>5 DEF CloseStep
<1>7. CASE UNCHANGED vars \/ Scan \/ Tick
  <2>1. UNCHANGED <<slots, dispatched, apc, stopped, updateClosed>> /\ (tpc' = "done" <=> tpc = "done")
    BY <1>7 DEF vars, Scan, Tick, addVars, tickVars, closeVars
  <2>2. AddBar' = AddBar
    BY <2>1 DEF AddBar
  <2> QED BY <2>1, <2>2, <1>0, SlotBarSame, PhaseBarSame
<1> QED
  BY <1>1, <1>2, <1>3, <1>4, <1>5, <1>6, <1>7 DEF Next, AddStep, TickStep, Contract!Next

\* What Queue relies on of the wheel holds of the code of Add, tick and Close,
\* also while they overlap: an Add that began before Close takes effect and
\* returns or panics, one that began after it is ignored, and no value is
\* dispatched twice or by a wheel that has halted.
THEOREM WheelImplementsContract == Spec => KeepsContract
<1>1. Init => Contract!Init
  BY ContractInit
<1>2. SlotsOnTime /\ [Next]_vars => [Contract!Next]_Contract!vars
  BY ContractStep
<1> QED BY <1>1, <1>2, WheelCorrect, PTL DEF Spec, KeepsContract, Contract!Spec
=============================================================================
