------------------------- MODULE ImapStorageProofs -------------------------
(***************************************************************************)
(* Proofs about ImapStorage: every transfer arrives once and in order, and *)
(* a Close that returned leaves nothing behind.                            *)
(***************************************************************************)
EXTENDS ImapStorage, FiniteSetTheorems, TLAPS

USE StorageAssumption

-----------------------------------------------------------------------------
(* Types *)

\* A queue that loses its head, or gets one more at its end.
LEMMA QueueSteps ==
  ASSUME NEW S, NEW s \in Seq(S)
  PROVE  /\ s # <<>> => /\ Head(s) \in S /\ Head(s) = s[1] /\ Tail(s) \in Seq(S) /\ 1 \in DOMAIN s
                        /\ Len(Tail(s)) = Len(s) - 1
                        /\ \A i \in DOMAIN Tail(s) : i + 1 \in DOMAIN s /\ Tail(s)[i] = s[i + 1]
         /\ \A e \in S : /\ Append(s, e) \in Seq(S) /\ Len(Append(s, e)) = Len(s) + 1
                         /\ \A i \in DOMAIN Append(s, e) :
                              \/ i \in DOMAIN s /\ Append(s, e)[i] = s[i]
                              \/ i = Len(s) + 1 /\ Append(s, e)[i] = e
         /\ DOMAIN s = 1 .. Len(s) /\ Len(s) \in Nat
OBVIOUS

\* The parts of the type of the pipe.
Lives == /\ store \in [Process -> {"off", "open", "closing", "closed", "crashed"}]
         /\ pump \in [Process -> {"off", "run", "drain", "done"}]
         /\ piped \in [Process -> BOOLEAN] /\ sock \in [file : BOOLEAN, listen : BOOLEAN, conns : SUBSET Process]
Outs  == out \in [Process -> Seq(Line)] /\ \A p \in Process : Len(out[p]) <= OutCap
Inbs  == inb \in Seq(Line) /\ Len(inb) <= InCap
Wires == wire \in [Process -> Seq(Line \cup {Torn})] /\ \A p \in Process : Len(wire[p]) <= SockCap + 1
Mades == made \in [Process -> Nat] /\ made[Tool] <= MaxUpdates
Seens == seen \in [n : 0 .. MaxUpdates, ok : BOOLEAN]
Fault == faults \in [crashes : Nat, panicked : BOOLEAN]

\* PipeTyped is its parts.
LEMMA Parts == PipeTyped <=> Lives /\ Outs /\ Inbs /\ Wires /\ Mades /\ Seens /\ Fault
BY DEF PipeTyped, Lives, Outs, Inbs, Wires, Mades, Seens, Fault

\* The same after a step.
LEMMA PartsAfter == PipeTyped' <=> Lives' /\ Outs' /\ Inbs' /\ Wires' /\ Mades' /\ Seens' /\ Fault'
BY DEF PipeTyped, Lives, Outs, Inbs, Wires, Mades, Seens, Fault

\* A part is kept when its variables are.
LEMMA PartsKept ==
  /\ UNCHANGED <<store, pump, piped, sock>> /\ Lives => Lives'
  /\ UNCHANGED out /\ Outs => Outs'
  /\ UNCHANGED inb /\ Inbs => Inbs'
  /\ UNCHANGED wire /\ Wires => Wires'
  /\ UNCHANGED made /\ Mades => Mades'
  /\ UNCHANGED seen /\ Seens => Seens'
  /\ UNCHANGED faults /\ Fault => Fault'
BY DEF Lives, Outs, Inbs, Wires, Mades, Seens, Fault

\* An empty channel.
LEMMA EmptyQueue ==
  ASSUME NEW S PROVE <<>> \in Seq(S) /\ Len(<<>>) = 0
OBVIOUS

\* The states of the socket are records.
Socks == [file : BOOLEAN, listen : BOOLEAN, conns : SUBSET Process]
LEMMA FreeSocket ==
  /\ [file |-> FALSE, listen |-> FALSE, conns |-> {}] \in Socks
  /\ sock \in Socks => \A p \in Process, f \in BOOLEAN : Hangup(p, f) \in Socks
  /\ \A f, l \in BOOLEAN, c \in SUBSET Process : [file |-> f, listen |-> l, conns |-> c] \in Socks
<1>1. [file |-> FALSE, listen |-> FALSE, conns |-> {}] \in Socks
  BY DEF Socks
<1>2. ASSUME NEW f \in BOOLEAN, NEW l \in BOOLEAN, NEW c \in SUBSET Process
      PROVE  [file |-> f, listen |-> l, conns |-> c] \in Socks
  BY DEF Socks
<1>3. ASSUME NEW p \in Process, NEW f \in BOOLEAN, sock \in Socks
      PROVE  Hangup(p, f) \in Socks
  BY <1>3 DEF Hangup, Socks
<1> QED BY <1>1, <1>2, <1>3

\* There are two processes.
LEMMA Processes == Server \in Process /\ Tool \in Process /\ \A p \in Process : p = Server \/ p = Tool
BY DEF Process

\* What is told to the external sink is a line, and there is room for it.
LEMMA NotifyTyped ==
  ASSUME Outs, Mades, NEW p \in Process, Notify(p), made[p] + 1 <= MaxUpdates + MaxMsgs,
         p = Tool => made[Tool] < MaxUpdates
  PROVE  Outs' /\ Mades'
<1>1. /\ out \in [Process -> Seq(Line)] /\ made \in [Process -> Nat] /\ made[Tool] <= MaxUpdates
      /\ \A q \in Process : Len(out[q]) <= OutCap
  BY DEF Outs, Mades
<1>2. CASE piped[p]
  <2> DEFINE e == [by |-> p, n |-> made[p] + 1]
  <2>1. e \in Line
    BY <1>1 DEF Line
  <2>2. /\ Len(out[p]) < OutCap /\ out' = [out EXCEPT ![p] = Append(@, e)]
        /\ made' = [made EXCEPT ![p] = @ + 1]
    BY <1>2 DEF Notify
  <2>3. Append(out[p], e) \in Seq(Line) /\ Len(Append(out[p], e)) = Len(out[p]) + 1
    BY <1>1, <2>1, QueueSteps
  <2>4. Len(out[p]) \in Nat
    BY <1>1
  <2> HIDE DEF e
  <2>5. Outs'
    BY <1>1, <2>2, <2>3, <2>4 DEF Outs
  <2>6. Mades'
    BY <1>1, <2>2, Processes DEF Mades
  <2> QED BY <2>5, <2>6
<1>3. CASE ~piped[p]
  BY <1>3, PartsKept DEF Notify
<1> QED BY <1>2, <1>3

\* The pipe keeps its types; an inbound update is one the tool has made.
LEMMA PipeTypedStep ==
  ASSUME PipeTyped, OrderInv, DeliveryShape, MailTyped, [Next]_vars
  PROVE  PipeTyped'
<1> USE DEF mailVars, pipeVars
<1>t. Lives /\ Outs /\ Inbs /\ Wires /\ Mades /\ Seens /\ Fault
  BY Parts
<1>1. ASSUME NEW p \in Process, EnableUpdatePipe(p) \/ Close(p) \/ PumpStops(p) \/ Restart(p)
      PROVE  PipeTyped'
  <2>1. /\ UNCHANGED <<out, made, seen>> /\ (inb' = inb \/ inb' = <<>>)
        /\ wire' = wire \/ wire' = [q \in Process |-> <<>>]
        /\ faults' = faults \/ faults' = [faults EXCEPT !.crashes = @ + 1]
    BY <1>1 DEF EnableUpdatePipe, Close, PumpStops, Restart
  <2>f. Fault'
    BY <1>t, <2>1 DEF Fault
  <2>w. Wires'
    <3>1. CASE wire' = wire
      BY <1>t, <3>1, PartsKept
    <3>2. CASE wire' = [q \in Process |-> <<>>]
      BY <3>2, EmptyQueue DEF Wires
    <3> QED BY <2>1, <3>1, <3>2
  <2>2. Inbs'
    <3>1. CASE inb' = inb
      BY <1>t, <3>1, PartsKept
    <3>2. CASE inb' = <<>>
      BY <3>2, EmptyQueue DEF Inbs
    <3> QED BY <2>1, <3>1, <3>2
  <2>3. store' \in [Process -> {"off", "open", "closing", "closed", "crashed"}]
    BY <1>1, <1>t DEF EnableUpdatePipe, Close, PumpStops, Restart, Lives
  <2>4. pump' \in [Process -> {"off", "run", "drain", "done"}]
    BY <1>1, <1>t DEF EnableUpdatePipe, Close, PumpStops, Restart, Lives
  <2>5. sock' \in Socks
    <3>0. sock \in Socks /\ sock.file \in BOOLEAN /\ sock.listen \in BOOLEAN /\ sock.conns \in SUBSET Process
      BY <1>t DEF Lives, Socks
    <3>1. CASE Close(p) \/ PumpStops(p)
      BY <3>0, <3>1 DEF Close, PumpStops
    <3>2. CASE Restart(p)
      BY <3>0, <3>2, FreeSocket DEF Restart
    <3>3. CASE EnableUpdatePipe(p)
      <4>1. PICK f \in BOOLEAN, l \in BOOLEAN, c \in SUBSET Process :
              sock' = [file |-> f, listen |-> l, conns |-> c]
        <5>1. sock.conns \cup {p} \in SUBSET Process
          BY <3>0
        <5>2. \E f \in BOOLEAN, l \in BOOLEAN, c \in {sock.conns, sock.conns \cup {p}} :
                sock' = [file |-> f, listen |-> l, conns |-> c]
          BY <3>0, <3>3 DEF EnableUpdatePipe
        <5> QED BY <3>0, <5>1, <5>2
      <4> QED BY <4>1, FreeSocket
    <3> QED BY <1>1, <3>1, <3>2, <3>3
  <2>6. piped' \in [Process -> BOOLEAN]
    <3>1. piped \in [Process -> BOOLEAN] /\ sock.listen \in BOOLEAN /\ sock.file \in BOOLEAN
      BY <1>t DEF Lives
    <3>2. PICK b \in BOOLEAN : piped' = piped \/ piped' = [piped EXCEPT ![p] = b]
      BY <1>1, <3>1 DEF EnableUpdatePipe, Close, PumpStops, Restart
    <3> QED BY <3>1, <3>2
  <2>7. Lives'
    BY <2>3, <2>4, <2>5, <2>6 DEF Lives, Socks
  <2> QED BY <1>t, <2>1, <2>2, <2>7, <2>f, <2>w, PartsKept, PartsAfter
<1>2. CASE Change
  <2>1. /\ made[Tool] < MaxUpdates /\ Notify(Tool)
        /\ UNCHANGED <<store, piped, sock, inb, wire, pump, seen, faults>>
    BY <1>2 DEF Change
  <2>2. made[Tool] + 1 <= MaxUpdates + MaxMsgs
    BY <1>t, <2>1, Processes DEF Mades
  <2>3. Outs' /\ Mades'
    BY <1>t, <2>1, <2>2, NotifyTyped, Processes
  <2> QED BY <1>t, <2>1, <2>3, PartsKept, PartsAfter
<1>3. ASSUME NEW p \in Process, PumpOut(p) PROVE PipeTyped'
  <2>1. /\ out[p] \in Seq(Line) /\ wire[p] \in Seq(Line \cup {Torn}) /\ out[p] # <<>>
        /\ Len(wire[p]) \in Nat /\ Len(out[p]) \in Nat
    BY <1>3, <1>t DEF PumpOut, Outs, Wires
  <2>2. /\ Head(out[p]) \in Line /\ Tail(out[p]) \in Seq(Line) /\ Len(Tail(out[p])) = Len(out[p]) - 1
    BY <2>1, QueueSteps
  <2>3. /\ Append(wire[p], Head(out[p])) \in Seq(Line \cup {Torn})
        /\ Len(Append(wire[p], Head(out[p]))) = Len(wire[p]) + 1
    <3>1. Head(out[p]) \in Line \cup {Torn}
      BY <2>2
    <3> QED BY <2>1, <3>1, QueueSteps
  <2>4. out' = [out EXCEPT ![p] = Tail(out[p])] /\ UNCHANGED <<store, piped, sock, inb, pump, made, seen, faults>>
    BY <1>3 DEF PumpOut
  <2>5. Outs'
    BY <1>t, <2>1, <2>2, <2>4 DEF Outs
  <2>6. Wires'
    <3>1. wire' = wire \/ (Len(wire[p]) < SockCap /\ wire' = [wire EXCEPT ![p] = Append(wire[p], Head(out[p]))])
      BY <1>3 DEF PumpOut
    <3>2. CASE wire' = wire
      BY <1>t, <3>2, PartsKept
    <3>3. CASE Len(wire[p]) < SockCap /\ wire' = [wire EXCEPT ![p] = Append(wire[p], Head(out[p]))]
      <4> DEFINE w == Append(wire[p], Head(out[p]))
      <4>1. w \in Seq(Line \cup {Torn}) /\ Len(w) <= SockCap + 1
        BY <2>1, <2>3, <3>3
      <4> HIDE DEF w
      <4> QED BY <1>t, <4>1, <3>3 DEF Wires, w
    <3> QED BY <3>1, <3>2, <3>3
  <2> QED BY <1>t, <2>4, <2>5, <2>6, PartsKept, PartsAfter
<1>4. CASE PumpIn \/ PumpPanic
  <2>1. inb \in Seq(Line) /\ inb # <<>> /\ Len(inb) <= InCap
    BY <1>4, <1>t DEF PumpIn, PumpPanic, Inbs
  <2>2. /\ Head(inb) \in Line /\ Head(inb) = inb[1] /\ 1 \in DOMAIN inb
        /\ Tail(inb) \in Seq(Line) /\ Len(Tail(inb)) = Len(inb) - 1 /\ Len(inb) \in Nat
    BY <2>1, QueueSteps
  <2>3. Head(inb).n \in 0 .. MaxUpdates
    <3>1. Head(inb).by \in Process /\ Head(inb).n \in 1 .. MaxUpdates + MaxMsgs
      BY <2>2 DEF Line
    <3>2. Head(inb) # Torn
      BY <3>1, Processes DEF Torn
    <3>3. New(inb)
      BY DEF OrderInv
    <3>4. Head(inb).n <= made[Tool]
      BY <2>2, <3>2, <3>3 DEF New
    <3> QED BY <1>t, <3>1, <3>4, Processes DEF Mades
  <2>4. UNCHANGED <<store, piped, sock, out, wire, made>> /\ inb' = Tail(inb)
    BY <1>4 DEF PumpIn, PumpPanic
  <2>5. Seens'
    <3>1. PICK b \in BOOLEAN : seen' = seen \/ seen' = [n |-> Head(inb).n, ok |-> b]
      BY <1>4 DEF PumpIn, PumpPanic
    <3> QED BY <1>t, <2>3, <3>1 DEF Seens
  <2>6. Inbs'
    BY <2>1, <2>2, <2>4 DEF Inbs
  <2>7. Lives' /\ Fault'
    <3>1. pump' = pump \/ pump' = [pump EXCEPT ![Server] = "drain"]
      BY <1>4 DEF PumpIn, PumpPanic
    <3>2. faults' = faults \/ faults' = [faults EXCEPT !.crashes = @ + 1]
      BY <1>4 DEF PumpIn, PumpPanic
    <3>3. Fault'
      BY <1>t, <3>2 DEF Fault
    <3> QED BY <1>t, <2>4, <3>1, <3>3 DEF Lives
  <2> QED BY <1>t, <2>4, <2>5, <2>6, <2>7, PartsKept, PartsAfter
<1>5. ASSUME NEW p \in Process, readUpdates(p) PROVE PipeTyped'
  <2>1. /\ wire[p] \in Seq(Line \cup {Torn}) /\ wire[p] # <<>> /\ inb \in Seq(Line) /\ Len(inb) \in Nat
        /\ Len(inb) <= InCap
    BY <1>5, <1>t DEF readUpdates, Wires, Inbs
  <2>2. /\ Head(wire[p]) \in Line \cup {Torn} /\ Tail(wire[p]) \in Seq(Line \cup {Torn})
        /\ Len(Tail(wire[p])) = Len(wire[p]) - 1 /\ Len(wire[p]) \in Nat
    BY <2>1, QueueSteps
  <2>3. /\ wire' = [wire EXCEPT ![p] = Tail(wire[p])]
        /\ UNCHANGED <<store, piped, sock, out, pump, made, seen>>
    BY <1>5 DEF readUpdates
  <2>4. Wires'
    BY <1>t, <2>1, <2>2, <2>3 DEF Wires
  <2>5. Inbs'
    <3>1. inb' = inb \/ (/\ Head(wire[p]).by = Tool /\ Len(inb) < InCap
                         /\ inb' = Append(inb, Head(wire[p])))
      BY <1>5 DEF readUpdates
    <3>2. Head(wire[p]).by = Tool => Head(wire[p]) \in Line
      BY <2>2 DEF Torn
    <3>3. \A e \in Line : Append(inb, e) \in Seq(Line) /\ Len(Append(inb, e)) = Len(inb) + 1
      BY <2>1, QueueSteps
    <3> QED BY <2>1, <3>1, <3>2, <3>3 DEF Inbs
  <2>6. Fault'
    <3>1. faults' = faults \/ faults' = [faults EXCEPT !.panicked = TRUE]
      BY <1>5 DEF readUpdates
    <3> QED BY <1>t, <3>1 DEF Fault
  <2> QED BY <1>t, <2>3, <2>4, <2>5, <2>6, PartsKept, PartsAfter
<1>6. ASSUME NEW p \in Process, CloseEnds(p) PROVE PipeTyped'
  <2>1. /\ wire' = wire \/ wire' = [q \in Process |-> <<>>]
        /\ sock' = sock \/ sock' = Hangup(p, FALSE)
        /\ store' = [store EXCEPT ![p] = "closed"] /\ UNCHANGED <<piped, out, inb, pump, made, seen, faults>>
    BY <1>6 DEF CloseEnds
  <2>2. Wires'
    <3>1. CASE wire' = wire
      BY <1>t, <3>1, PartsKept
    <3>2. CASE wire' = [q \in Process |-> <<>>]
      BY <3>2, EmptyQueue DEF Wires
    <3> QED BY <2>1, <3>1, <3>2
  <2>3. Lives'
    <3>0. sock \in Socks
      BY <1>t DEF Lives, Socks
    <3>1. sock' \in Socks
      BY <3>0, <2>1, FreeSocket
    <3> QED BY <1>t, <2>1, <3>1 DEF Lives, Socks
  <2> QED BY <1>t, <2>1, <2>2, <2>3, PartsKept, PartsAfter
<1>7. ASSUME NEW p \in Process, Crash(p) PROVE PipeTyped'
  <2>1. \/ wire' = wire \/ wire' = [q \in Process |-> <<>>]
        \/ Len(wire[p]) = SockCap /\ wire' = [wire EXCEPT ![p] = Append(wire[p], Torn)]
    BY <1>7 DEF Crash
  <2>2. /\ wire[p] \in Seq(Line \cup {Torn}) /\ Len(wire[p]) \in Nat
        /\ Append(wire[p], Torn) \in Seq(Line \cup {Torn}) /\ Len(Append(wire[p], Torn)) = Len(wire[p]) + 1
    BY <1>t, QueueSteps DEF Wires
  <2>3. Wires'
    <3>1. CASE wire' = wire
      BY <1>t, <3>1, PartsKept
    <3>2. CASE wire' = [q \in Process |-> <<>>]
      BY <3>2, EmptyQueue DEF Wires
    <3>3. CASE Len(wire[p]) = SockCap /\ wire' = [wire EXCEPT ![p] = Append(wire[p], Torn)]
      <4> DEFINE w == Append(wire[p], Torn)
      <4>1. w \in Seq(Line \cup {Torn}) /\ Len(w) <= SockCap + 1
        BY <2>2, <3>3
      <4> HIDE DEF w
      <4> QED BY <1>t, <4>1, <3>3 DEF Wires, w
    <3> QED BY <2>1, <3>1, <3>2, <3>3
  <2>4. /\ out' = [out EXCEPT ![p] = <<>>] /\ (inb' = inb \/ inb' = <<>>) /\ UNCHANGED <<piped, made, seen>>
        /\ store' = [store EXCEPT ![p] = "crashed"] /\ pump' = [pump EXCEPT ![p] = "off"]
        /\ sock' = Hangup(p, sock.file)
        /\ faults' = [faults EXCEPT !.crashes = @ + 1]
    BY <1>7 DEF Crash
  <2>5. Outs'
    BY <1>t, <2>4 DEF Outs
  <2>6. Inbs'
    <3>1. CASE inb' = inb
      BY <1>t, <3>1, PartsKept
    <3>2. CASE inb' = <<>>
      BY <3>2, EmptyQueue DEF Inbs
    <3> QED BY <2>4, <3>1, <3>2
  <2>7. Lives'
    <3>0. sock \in Socks /\ sock.file \in BOOLEAN
      BY <1>t DEF Lives, Socks
    <3>1. sock' \in Socks
      BY <3>0, <2>4, FreeSocket
    <3> QED BY <1>t, <2>4, <3>1 DEF Lives, Socks
  <2>8. Fault'
    BY <1>t, <2>4 DEF Fault
  <2> QED BY <1>t, <2>3, <2>4, <2>5, <2>6, <2>7, <2>8, PartsKept, PartsAfter
<1>8. CASE Commit
  <2>1. /\ Notify(Server) \/ UNCHANGED <<out, made>>
        /\ dlv.pc = "body" /\ made[Server] \in Nat
        /\ UNCHANGED <<store, piped, sock, inb, wire, pump, seen, faults>>
    BY <1>8, <1>t, Processes DEF Commit, Mades
  <2>2. made[Server] + 1 <= MaxUpdates + MaxMsgs
    <3>1. /\ dlv.msg \in 1 .. MaxMsgs /\ ~Ended(dlv.msg)
      BY <2>1 DEF DeliveryShape
    <3>2. \A e \in ended : e.msg < dlv.msg
      <4> SUFFICES ASSUME NEW e \in ended, ~(e.msg < dlv.msg) PROVE FALSE
        OBVIOUS
      <4>1. e.msg \in 1 .. MaxMsgs /\ e.msg # dlv.msg
        BY <3>1 DEF Ended, MailTyped
      <4>2. dlv.msg \in 1 .. e.msg - 1
        BY <3>1, <4>1
      <4> QED BY <3>1, <4>2 DEF DeliveryShape
    <3>3. \A e \in ended : e.msg \in 1 .. MaxMsgs
      BY DEF MailTyped
    <3> QED BY <2>1, <3>1, <3>2, <3>3 DEF DeliveryShape
  <2>3. Outs' /\ Mades'
    BY <1>t, <2>1, <2>2, NotifyTyped, PartsKept, Processes
  <2> QED BY <1>t, <2>1, <2>3, PartsKept, PartsAfter
<1>9. ASSUME UNCHANGED pipeVars PROVE PipeTyped'
  BY <1>9, <1>t, PartsKept, PartsAfter
<1>10. CASE Start \/ Body \/ Abort \/ UNCHANGED vars
  BY <1>9, <1>10 DEF Start, Body, Abort, vars
<1>11. ASSUME NEW r \in Rcpt, openAccount(r) \/ AddRcpt(r) PROVE PipeTyped'
  BY <1>9, <1>11 DEF openAccount, AddRcpt
<1> QED
  BY <1>1, <1>2, <1>3, <1>4, <1>5, <1>6, <1>7, <1>8, <1>10, <1>11 DEF Next

-----------------------------------------------------------------------------
(* What is in the channels, and when *)

\* The parts of PipeShape.
OpenDelivery == dlv.pc # "none" => store[Server] \in {"open", "closing", "closed"}
Quiet(p) == /\ (~piped[p] \/ pump[p] = "done" \/ store[p] \in {"off", "closed", "crashed"}) => out[p] = <<>>
            /\ pump[p] = "done" => store[p] \in {"closing", "closed"}
CleanSocket ==
  faults.crashes = 0 =>
    /\ store[Server] \in {"open", "closing"} => piped[Server]
    /\ sock.file => store[Server] \in {"open", "closing"}

\* PipeShape is its parts.
LEMMA ShapeParts == PipeShape <=> OpenDelivery /\ (\A p \in Process : Quiet(p)) /\ CleanSocket
BY DEF PipeShape, OpenDelivery, Quiet, CleanSocket

\* The same after a step.
LEMMA ShapePartsAfter == PipeShape' <=> OpenDelivery' /\ (\A p \in Process : Quiet(p)') /\ CleanSocket'
BY DEF PipeShape, OpenDelivery, Quiet, CleanSocket

\* The channels are used as PipeShape says.
LEMMA PipeShapeStep ==
  ASSUME PipeTyped, PipeShape, [Next]_vars
  PROVE  PipeShape'
<1> USE DEF mailVars, pipeVars
<1>t. Lives /\ Outs /\ Fault /\ OpenDelivery /\ CleanSocket /\ \A p \in Process : Quiet(p)
  BY Parts, ShapeParts
<1>1. ASSUME NEW p \in Process, EnableUpdatePipe(p) \/ Close(p) \/ PumpStops(p) \/ Restart(p) \/ CloseEnds(p)
      PROVE  PipeShape'
  <2>1. UNCHANGED out
    BY <1>1 DEF EnableUpdatePipe, Close, PumpStops, Restart, CloseEnds
  <2>2. OpenDelivery'
    <3>1. CASE Restart(p)
      BY <1>t, <3>1, Processes DEF Restart, OpenDelivery, NoDelivery, Lives
    <3>2. CASE ~Restart(p)
      BY <1>1, <1>t, <3>2, Processes
        DEF EnableUpdatePipe, Close, PumpStops, CloseEnds, OpenDelivery, Lives
    <3> QED BY <3>1, <3>2
  <2>3. ASSUME NEW q \in Process PROVE Quiet(q)'
    <3>1. CASE q = p
      BY <1>1, <1>t, <2>1, <3>1, ZenonT(60) DEF EnableUpdatePipe, Close, PumpStops, Restart, CloseEnds, Quiet, Lives
    <3>2. CASE q # p
      <4>1. store'[q] = store[q] /\ piped'[q] = piped[q] /\ pump'[q] = pump[q] /\ out'[q] = out[q]
        BY <1>1, <1>t, <2>1, <3>2 DEF EnableUpdatePipe, Close, PumpStops, Restart, CloseEnds, Lives
      <4> QED BY <1>t, <4>1 DEF Quiet
    <3> QED BY <3>1, <3>2
  <2>4. CleanSocket'
    <3>1. CASE p = Server
      <4>0. /\ store \in [Process -> {"off", "open", "closing", "closed", "crashed"}]
            /\ piped \in [Process -> BOOLEAN] /\ Server \in Process /\ Server # Tool
        BY <1>t, <2>1, Processes DEF Lives
      <4>1. CASE EnableUpdatePipe(p)
        <5> SUFFICES ASSUME faults'.crashes = 0
                     PROVE  piped'[Server] /\ store'[Server] = "open"
          BY DEF CleanSocket
        <5>1. faults' = faults
          <6>1. [faults EXCEPT !.crashes = @ + 1].crashes # 0
            BY <1>t DEF Fault
          <6> QED BY <6>1, <4>1 DEF EnableUpdatePipe
        <5>2. ~sock.file
          BY <1>t, <3>1, <4>1, <5>1 DEF EnableUpdatePipe, CleanSocket
        <5>3. faults # [faults EXCEPT !.crashes = @ + 1]
          BY <1>t DEF Fault
        <5> QED BY <3>1, <4>0, <4>1, <5>1, <5>2, <5>3 DEF EnableUpdatePipe
      <4>2. CASE Close(p)
        BY <1>t, <3>1, <4>0, <4>2 DEF Close, CleanSocket
      <4>3. CASE PumpStops(p)
        BY <1>t, <3>1, <4>0, <4>3 DEF PumpStops, CleanSocket
      <4>4. CASE Restart(p)
        <5>1. faults' = faults /\ sock'.file = sock.file /\ store'[Server] = "off" /\ store[Server] \in {"closed", "crashed"}
          BY <3>1, <4>0, <4>4 DEF Restart, Hangup
        <5> QED BY <1>t, <5>1 DEF CleanSocket
      <4>5. CASE CloseEnds(p)
        <5>1. faults.crashes = 0 => piped[Server]
          BY <1>t, <3>1, <4>5 DEF CloseEnds, CleanSocket
        <5>2. piped[Server] => sock'.file = FALSE
          BY <3>1, <4>5 DEF CloseEnds, Hangup
        <5>3. store'[Server] = "closed" /\ faults' = faults
          BY <3>1, <4>0, <4>5 DEF CloseEnds
        <5> QED BY <4>0, <5>1, <5>2, <5>3 DEF CleanSocket
      <4> QED BY <1>1, <4>1, <4>2, <4>3, <4>4, <4>5
    <3>2. CASE p # Server
      <4>0. p = Tool /\ Server # Tool
        BY <3>2, Processes
      <4>1. store'[Server] = store[Server] /\ piped'[Server] = piped[Server]
        BY <1>1, <1>t, <3>2, Processes
          DEF EnableUpdatePipe, Close, PumpStops, Restart, CloseEnds, Lives
      <4>2. sock'.file = sock.file
        <5>1. sock \in Socks
          BY <1>t DEF Lives, Socks
        <5>2. CASE EnableUpdatePipe(p)
          BY <4>0, <5>1, <5>2 DEF EnableUpdatePipe, Socks
        <5>3. CASE ~EnableUpdatePipe(p)
          BY <1>1, <4>0, <5>1, <5>3 DEF Close, PumpStops, Restart, CloseEnds, Hangup, Socks
        <5> QED BY <5>2, <5>3
      <4>3. faults'.crashes = 0 => faults.crashes = 0
        <5>1. faults' = faults \/ faults' = [faults EXCEPT !.crashes = @ + 1]
          BY <1>1 DEF EnableUpdatePipe, Close, PumpStops, Restart, CloseEnds
        <5> QED BY <1>t, <5>1 DEF Fault
      <4> QED BY <1>t, <4>1, <4>2, <4>3 DEF CleanSocket
    <3> QED BY <3>1, <3>2
  <2> QED BY <2>2, <2>3, <2>4, ShapePartsAfter
<1>2. ASSUME NEW p \in Process, Crash(p) PROVE PipeShape'
  <2>1. /\ store' = [store EXCEPT ![p] = "crashed"] /\ pump' = [pump EXCEPT ![p] = "off"]
        /\ out' = [out EXCEPT ![p] = <<>>] /\ UNCHANGED piped
        /\ faults' = [faults EXCEPT !.crashes = @ + 1]
        /\ dlv' = IF p = Server THEN NoDelivery ELSE dlv
    BY <1>2 DEF Crash
  <2>2. OpenDelivery'
    BY <1>t, <2>1, Processes DEF OpenDelivery, NoDelivery, Lives
  <2>3. \A q \in Process : Quiet(q)'
    BY <1>t, <2>1 DEF Quiet, Lives, Outs
  <2>4. CleanSocket'
    BY <1>t, <2>1 DEF CleanSocket, Fault
  <2> QED BY <2>2, <2>3, <2>4, ShapePartsAfter
<1>3. CASE PumpPanic
  <2>1. /\ pump' = [pump EXCEPT ![Server] = "drain"] /\ faults' = [faults EXCEPT !.crashes = @ + 1]
        /\ UNCHANGED <<store, out, piped, dlv>> /\ pump[Server] = "run"
    BY <1>3 DEF PumpPanic
  <2>2. OpenDelivery'
    BY <1>t, <2>1 DEF OpenDelivery
  <2>3. \A q \in Process : Quiet(q)'
    BY <1>t, <2>1 DEF Quiet, Lives
  <2>4. CleanSocket'
    BY <1>t, <2>1 DEF CleanSocket, Fault
  <2> QED BY <2>2, <2>3, <2>4, ShapePartsAfter
<1>4. ASSUME NEW p \in Process, Notify(p), UNCHANGED <<store, piped, pump, sock, faults>>, store[p] = "open",
             dlv' = dlv \/ dlv' = NoDelivery
      PROVE  PipeShape'
  <2>1. OpenDelivery' /\ CleanSocket'
    BY <1>4, <1>t DEF OpenDelivery, CleanSocket, NoDelivery
  <2>2. ASSUME NEW q \in Process PROVE Quiet(q)'
    BY <1>4, <1>t DEF Notify, Quiet, Outs
  <2> QED BY <2>1, <2>2, ShapePartsAfter
<1>5. ASSUME NEW p \in Process, PumpOut(p) PROVE PipeShape'
  <2>1. /\ UNCHANGED <<store, piped, pump, sock, faults, dlv>> /\ out' = [out EXCEPT ![p] = Tail(out[p])]
        /\ out[p] # <<>>
    BY <1>5 DEF PumpOut
  <2>2. OpenDelivery' /\ CleanSocket'
    BY <2>1, <1>t DEF OpenDelivery, CleanSocket
  <2>3. \A q \in Process : Quiet(q)'
    BY <2>1, <1>t DEF Quiet, Outs
  <2> QED BY <2>2, <2>3, ShapePartsAfter
<1>6. ASSUME NEW p \in Process, readUpdates(p) PROVE PipeShape'
  <2>1. /\ UNCHANGED <<store, piped, pump, sock, dlv, out>>
        /\ faults' = faults \/ faults' = [faults EXCEPT !.panicked = TRUE]
    BY <1>6 DEF readUpdates
  <2>2. OpenDelivery' /\ \A q \in Process : Quiet(q)'
    BY <2>1, <1>t DEF OpenDelivery, Quiet
  <2>3. faults'.crashes = faults.crashes
    BY <1>t, <2>1 DEF Fault
  <2>4. CleanSocket'
    BY <1>t, <2>1, <2>3 DEF CleanSocket
  <2> QED BY <2>2, <2>4, ShapePartsAfter
<1>7. CASE Change
  BY <1>7, <1>4, Processes DEF Change
<1>8. CASE Commit
  <2>1. dlv.pc # "none" /\ dlv' = NoDelivery /\ UNCHANGED <<store, piped, pump, sock, faults>>
    BY <1>8 DEF Commit
  <2>2. CASE store[Server] = "open"
    BY <1>8, <1>4, <2>1, <2>2, Processes DEF Commit
  <2>3. CASE store[Server] # "open"
    <3>1. UNCHANGED out
      BY <1>8, <2>3 DEF Commit
    <3> QED BY <1>t, <2>1, <3>1, ShapePartsAfter DEF OpenDelivery, Quiet, CleanSocket, NoDelivery
  <2> QED BY <2>2, <2>3
<1>9. ASSUME UNCHANGED <<store, piped, pump, sock, faults, out>>,
             dlv'.pc # "none" => store[Server] \in {"open", "closing", "closed"}
      PROVE  PipeShape'
  BY <1>9, <1>t, ShapePartsAfter DEF OpenDelivery, Quiet, CleanSocket
<1>10. CASE PumpIn \/ UNCHANGED vars
  <2>1. UNCHANGED <<store, piped, pump, sock, faults, out, dlv>>
    BY <1>10 DEF PumpIn, vars
  <2> QED BY <2>1, <1>9, <1>t DEF OpenDelivery
<1>11. CASE Start
  <2>1. store[Server] = "open" /\ UNCHANGED pipeVars
    BY <1>11 DEF Start
  <2> QED BY <2>1, <1>9
<1>12. CASE Body \/ Abort
  <2>1. dlv.pc # "none" /\ UNCHANGED pipeVars
    BY <1>12 DEF Body, Abort
  <2> QED BY <2>1, <1>9, <1>t DEF OpenDelivery
<1>13. ASSUME NEW r \in Rcpt, openAccount(r) \/ AddRcpt(r) PROVE PipeShape'
  <2>1. store[Server] \in {"open", "closing", "closed"} /\ UNCHANGED pipeVars
    BY <1>13, <1>t DEF openAccount, AddRcpt, OpenDelivery
  <2> QED BY <2>1, <1>9
<1> QED
  BY <1>1, <1>2, <1>3, <1>5, <1>6, <1>7, <1>8, <1>10, <1>11, <1>12, <1>13 DEF Next

-----------------------------------------------------------------------------
(* The order of updates *)

\* What a channel or the socket holds.
Queued == Line \cup {Torn}
Fresh(s, lo, hi) == \A i \in DOMAIN s : s[i] # Torn => lo < s[i].n /\ s[i].n <= hi
OrTorn(s) == \A i \in DOMAIN s : s[i] = Torn \/ s[i].by = Tool

\* The updates of the tool: a inbound, b on the wire, c outbound; lo was seen, hi made.
Flow(a, b, c, lo, hi) ==
  /\ lo <= hi
  /\ From(Tool, a) /\ From(Tool, c) /\ OrTorn(b)
  /\ Fresh(a, lo, hi) /\ Fresh(b, lo, hi) /\ Fresh(c, lo, hi)
  /\ Rising(a) /\ Rising(b) /\ Rising(c)
  /\ Before(a, b) /\ Before(a, c) /\ Before(b, c)

\* OrderInv says that the updates of the tool flow and that those of the server are its own.
LEMMA OrderParts ==
  OrderInv <=> /\ seen.ok /\ Flow(inb, wire[Tool], out[Tool], seen.n, made[Tool])
               /\ From(Server, out[Server]) /\ From(Server, wire[Server])
BY DEF OrderInv, Flow, Fresh, OrTorn, New

\* The same after a step.
LEMMA OrderPartsAfter ==
  OrderInv' <=> /\ seen'.ok /\ Flow(inb', wire'[Tool], out'[Tool], seen'.n, made'[Tool])
                /\ From(Server, out'[Server]) /\ From(Server, wire'[Server])
BY DEF OrderInv, Flow, Fresh, OrTorn, New, From, Rising, Before

\* A line has a process and a positive number; a torn one has neither.
LEMMA QueuedFacts ==
  /\ \A e \in Queued : e.n \in Nat
  /\ \A e \in Line : e \in Queued /\ e # Torn /\ e.n >= 1 /\ e.by \in Process
  /\ Torn \in Queued /\ Torn.n = 0 /\ Torn.by # Tool
  /\ \A e \in Queued : e.by \in Process => e \in Line
  /\ Seq(Line) \subseteq Seq(Queued)
<1>1. /\ \A e \in Line : e.n \in 1 .. MaxUpdates + MaxMsgs /\ e.by \in Process
      /\ \A e \in Line : e \in Queued
      /\ Torn \in Queued
      /\ \A e \in Queued : e \in Line \/ e = Torn
  BY DEF Line, Queued
<1>2. Torn.n = 0 /\ Torn.by = None /\ None \notin Process
  BY DEF Torn, Process
<1>3. Seq(Line) \subseteq Seq(Queued)
  BY <1>1
<1>4. \A e \in Line : e # Torn
  BY <1>1, <1>2
<1>5. \A e \in Line : e.n \in Nat /\ e.n >= 1
  BY <1>1
<1>6. \A e \in Queued : e.n \in Nat
  BY <1>1, <1>2, <1>5
<1>7. \A e \in Queued : e.by \in Process => e \in Line
  BY <1>1, <1>2
<1> QED BY <1>1, <1>2, <1>3, <1>4, <1>5, <1>6, <1>7, Processes

\* Order is kept when the oldest update is taken.
LEMMA TailOrder ==
  ASSUME NEW s \in Seq(Queued), s # <<>>
  PROVE  /\ Rising(s) => /\ Rising(Tail(s))
                         /\ \A i \in DOMAIN Tail(s) : Tail(s)[i] # Torn => Head(s).n < Tail(s)[i].n
         /\ \A p : From(p, s) => From(p, Tail(s)) /\ Head(s).by = p
         /\ OrTorn(s) => OrTorn(Tail(s)) /\ (Head(s) = Torn \/ Head(s).by = Tool)
         /\ \A t : Before(s, t) => /\ Before(Tail(s), t)
                                   /\ \A j \in DOMAIN t : t[j] # Torn => Head(s).n < t[j].n
         /\ \A t : Before(t, s) => /\ Before(t, Tail(s))
                                   /\ Head(s) # Torn => \A i \in DOMAIN t : t[i].n < Head(s).n
         /\ \A lo, hi : Fresh(s, lo, hi) => /\ Fresh(Tail(s), lo, hi)
                                            /\ Head(s) # Torn => lo < Head(s).n /\ Head(s).n <= hi
<1> DEFINE t == Tail(s)
<1>1. /\ Head(s) = s[1] /\ 1 \in DOMAIN s /\ t \in Seq(Queued) /\ DOMAIN s = 1 .. Len(s) /\ DOMAIN t = 1 .. Len(t)
      /\ Len(t) = Len(s) - 1 /\ Len(s) \in Nat
      /\ \A i \in DOMAIN t : i + 1 \in DOMAIN s /\ t[i] = s[i + 1] /\ i \in Int /\ 1 < i + 1
  BY QueueSteps
<1> HIDE DEF t
<1>2. Rising(s) => Rising(t) /\ \A i \in DOMAIN t : t[i] # Torn => Head(s).n < t[i].n
  <2>1. ASSUME Rising(s), NEW i \in DOMAIN t, NEW j \in DOMAIN t, i < j, t[j] # Torn
        PROVE  t[i].n < t[j].n
    <3>1. i + 1 < j + 1 /\ i + 1 \in DOMAIN s /\ j + 1 \in DOMAIN s
      BY <1>1, <2>1
    <3>2. s[i + 1].n < s[j + 1].n
      BY <1>1, <2>1, <3>1 DEF Rising
    <3> QED BY <1>1, <3>2
  <2>2. ASSUME Rising(s), NEW i \in DOMAIN t, t[i] # Torn PROVE Head(s).n < t[i].n
    <3>1. 1 < i + 1 /\ 1 \in DOMAIN s /\ i + 1 \in DOMAIN s /\ s[i + 1] # Torn
      BY <1>1, <2>2
    <3>2. s[1].n < s[i + 1].n
      BY <2>2, <3>1 DEF Rising
    <3> QED BY <1>1, <3>2
  <2> QED BY <2>1, <2>2 DEF Rising
<1>3. \A p : From(p, s) => From(p, t) /\ Head(s).by = p
  BY <1>1 DEF From
<1>4. OrTorn(s) => OrTorn(t) /\ (Head(s) = Torn \/ Head(s).by = Tool)
  BY <1>1 DEF OrTorn
<1>5. \A u : Before(s, u) => Before(t, u) /\ \A j \in DOMAIN u : u[j] # Torn => Head(s).n < u[j].n
  BY <1>1 DEF Before
<1>6. \A u : Before(u, s) => Before(u, t) /\ (Head(s) # Torn => \A i \in DOMAIN u : u[i].n < Head(s).n)
  BY <1>1 DEF Before
<1>7. \A lo, hi : Fresh(s, lo, hi) => Fresh(t, lo, hi) /\ (Head(s) # Torn => lo < Head(s).n /\ Head(s).n <= hi)
  BY <1>1 DEF Fresh
<1> QED BY <1>2, <1>3, <1>4, <1>5, <1>6, <1>7 DEF t

\* Order is kept when a newer update is added at the end.
LEMMA AppendOrder ==
  ASSUME NEW s \in Seq(Queued), NEW e \in Queued
  PROVE  /\ Rising(s) /\ (e # Torn => \A i \in DOMAIN s : s[i].n < e.n) => Rising(Append(s, e))
         /\ \A p : From(p, s) /\ e.by = p => From(p, Append(s, e))
         /\ OrTorn(s) /\ (e = Torn \/ e.by = Tool) => OrTorn(Append(s, e))
         /\ \A t : Before(s, t) /\ (\A j \in DOMAIN t : t[j] # Torn => e.n < t[j].n) => Before(Append(s, e), t)
         /\ \A t : Before(t, s) /\ (e # Torn => \A i \in DOMAIN t : t[i].n < e.n) => Before(t, Append(s, e))
         /\ \A lo, hi : Fresh(s, lo, hi) /\ (e # Torn => lo < e.n /\ e.n <= hi) => Fresh(Append(s, e), lo, hi)
<1> DEFINE t == Append(s, e)
<1>1. /\ DOMAIN s = 1 .. Len(s) /\ Len(s) \in Nat
      /\ \A i \in DOMAIN t : \/ i \in DOMAIN s /\ t[i] = s[i]
                             \/ i = Len(s) + 1 /\ t[i] = e
      /\ DOMAIN t \subseteq Int
  BY QueueSteps
<1> HIDE DEF t
<1>2. Rising(s) /\ (e # Torn => \A i \in DOMAIN s : s[i].n < e.n) => Rising(t)
  BY <1>1 DEF Rising
<1>3. \A p : From(p, s) /\ e.by = p => From(p, t)
  BY <1>1 DEF From
<1>4. OrTorn(s) /\ (e = Torn \/ e.by = Tool) => OrTorn(t)
  BY <1>1 DEF OrTorn
<1>5. \A u : Before(s, u) /\ (\A j \in DOMAIN u : u[j] # Torn => e.n < u[j].n) => Before(t, u)
  BY <1>1 DEF Before
<1>6. \A u : Before(u, s) /\ (e # Torn => \A i \in DOMAIN u : u[i].n < e.n) => Before(u, t)
  BY <1>1 DEF Before
<1>7. \A lo, hi : Fresh(s, lo, hi) /\ (e # Torn => lo < e.n /\ e.n <= hi) => Fresh(t, lo, hi)
  BY <1>1 DEF Fresh
<1> QED BY <1>2, <1>3, <1>4, <1>5, <1>6, <1>7 DEF t

\* Nothing is out of order in an empty channel.
LEMMA EmptyOrder ==
  /\ Rising(<<>>) /\ OrTorn(<<>>) /\ \A p : From(p, <<>>)
  /\ \A t : Before(<<>>, t) /\ Before(t, <<>>)
  /\ \A lo, hi : Fresh(<<>>, lo, hi)
BY DEF Rising, OrTorn, From, Before, Fresh


\* The flow of updates goes on: an update is dropped or handed on, or one is made.
LEMMA FlowMoves ==
  ASSUME NEW a \in Seq(Line), NEW b \in Seq(Queued), NEW c \in Seq(Line), NEW lo \in Nat, NEW hi \in Nat,
         Flow(a, b, c, lo, hi)
  PROVE  /\ Flow(<<>>, b, c, lo, hi) /\ Flow(a, <<>>, c, lo, hi) /\ Flow(a, b, <<>>, lo, hi)
         /\ a # <<>> => /\ Flow(Tail(a), b, c, lo, hi) /\ Flow(Tail(a), b, c, Head(a).n, hi)
                        /\ Head(a).by = Tool /\ lo < Head(a).n
         /\ b # <<>> => /\ Flow(a, Tail(b), c, lo, hi)
                        /\ Head(b).by = Tool => Flow(Append(a, Head(b)), Tail(b), c, lo, hi)
         /\ c # <<>> => Flow(a, b, Tail(c), lo, hi) /\ Flow(a, Append(b, Head(c)), Tail(c), lo, hi)
         /\ Flow(a, Append(b, Torn), <<>>, lo, hi)
         /\ \A e \in Line : e.by = Tool /\ e.n = hi + 1 => Flow(a, b, Append(c, e), lo, hi + 1)
<1>0. a \in Seq(Queued) /\ c \in Seq(Queued)
  BY QueuedFacts
<1>t. /\ \A i \in DOMAIN a : a[i] \in Line /\ a[i] # Torn /\ a[i].n \in Nat
      /\ \A i \in DOMAIN b : b[i].n \in Nat /\ (b[i] = Torn => b[i].n = 0)
      /\ \A i \in DOMAIN c : c[i] \in Line /\ c[i] # Torn /\ c[i].n \in Nat
  <2>1. /\ \A i \in DOMAIN a : a[i] \in Line
        /\ \A i \in DOMAIN b : b[i] \in Queued
        /\ \A i \in DOMAIN c : c[i] \in Line
    OBVIOUS
  <2> QED BY <2>1, QueuedFacts
<1>f. /\ lo <= hi /\ From(Tool, a) /\ From(Tool, c) /\ OrTorn(b)
      /\ Fresh(a, lo, hi) /\ Fresh(b, lo, hi) /\ Fresh(c, lo, hi)
      /\ Rising(a) /\ Rising(b) /\ Rising(c)
      /\ Before(a, b) /\ Before(a, c) /\ Before(b, c)
  BY DEF Flow
<1>1. Flow(<<>>, b, c, lo, hi) /\ Flow(a, <<>>, c, lo, hi) /\ Flow(a, b, <<>>, lo, hi)
  BY <1>f, EmptyOrder DEF Flow
<1>2. ASSUME a # <<>>
      PROVE  /\ Flow(Tail(a), b, c, lo, hi) /\ Flow(Tail(a), b, c, Head(a).n, hi)
             /\ Head(a).by = Tool /\ lo < Head(a).n
  <2>1. Head(a) \in Line /\ Head(a) # Torn /\ Head(a).n \in Nat
    BY <1>2, QueueSteps, QueuedFacts
  <2>2. /\ Head(a).by = Tool /\ lo < Head(a).n /\ Head(a).n <= hi
        /\ From(Tool, Tail(a)) /\ Fresh(Tail(a), lo, hi) /\ Rising(Tail(a))
        /\ Before(Tail(a), b) /\ Before(Tail(a), c)
        /\ \A i \in DOMAIN Tail(a) : Tail(a)[i] # Torn => Head(a).n < Tail(a)[i].n
        /\ \A j \in DOMAIN b : b[j] # Torn => Head(a).n < b[j].n
        /\ \A j \in DOMAIN c : c[j] # Torn => Head(a).n < c[j].n
    BY <1>0, <1>2, <1>f, <2>1, TailOrder
  <2>3. Flow(Tail(a), b, c, lo, hi)
    BY <1>f, <2>2 DEF Flow
  <2>4. Fresh(Tail(a), Head(a).n, hi) /\ Fresh(b, Head(a).n, hi) /\ Fresh(c, Head(a).n, hi)
    BY <1>f, <2>2 DEF Fresh
  <2> QED BY <1>f, <2>2, <2>3, <2>4 DEF Flow
<1>3. ASSUME b # <<>>
      PROVE  /\ Flow(a, Tail(b), c, lo, hi)
             /\ Head(b).by = Tool => Flow(Append(a, Head(b)), Tail(b), c, lo, hi)
  <2>1. Head(b) \in Queued
    BY <1>3, QueueSteps
  <2>2. /\ OrTorn(Tail(b)) /\ Fresh(Tail(b), lo, hi) /\ Rising(Tail(b)) /\ Before(a, Tail(b)) /\ Before(Tail(b), c)
        /\ \A i \in DOMAIN Tail(b) : Tail(b)[i] # Torn => Head(b).n < Tail(b)[i].n
        /\ Head(b) # Torn => \A i \in DOMAIN a : a[i].n < Head(b).n
        /\ \A j \in DOMAIN c : c[j] # Torn => Head(b).n < c[j].n
        /\ Head(b) # Torn => lo < Head(b).n /\ Head(b).n <= hi
    BY <1>3, <1>f, TailOrder
  <2>3. Flow(a, Tail(b), c, lo, hi)
    BY <1>f, <2>2 DEF Flow
  <2>4. ASSUME Head(b).by = Tool PROVE Flow(Append(a, Head(b)), Tail(b), c, lo, hi)
    <3>1. Head(b) # Torn
      BY <2>4, QueuedFacts
    <3> DEFINE d == Append(a, Head(b))
    <3>2. From(Tool, d) /\ Fresh(d, lo, hi) /\ Rising(d) /\ Before(d, Tail(b)) /\ Before(d, c)
      BY <1>0, <1>f, <2>1, <2>2, <2>4, <3>1, AppendOrder
    <3> HIDE DEF d
    <3>3. Flow(d, Tail(b), c, lo, hi)
      BY <1>f, <2>2, <3>2 DEF Flow
    <3> QED BY <3>3 DEF d
  <2> QED BY <2>3, <2>4
<1>4. ASSUME c # <<>>
      PROVE  Flow(a, b, Tail(c), lo, hi) /\ Flow(a, Append(b, Head(c)), Tail(c), lo, hi)
  <2>1. Head(c) \in Line /\ Head(c) \in Queued /\ Head(c) # Torn
    BY <1>4, QueueSteps, QueuedFacts
  <2>2. /\ From(Tool, Tail(c)) /\ Fresh(Tail(c), lo, hi) /\ Rising(Tail(c)) /\ Before(a, Tail(c)) /\ Before(b, Tail(c))
        /\ Head(c).by = Tool /\ lo < Head(c).n /\ Head(c).n <= hi
        /\ \A i \in DOMAIN Tail(c) : Tail(c)[i] # Torn => Head(c).n < Tail(c)[i].n
        /\ \A i \in DOMAIN a : a[i].n < Head(c).n
        /\ \A i \in DOMAIN b : b[i].n < Head(c).n
    BY <1>0, <1>4, <1>f, <2>1, TailOrder
  <2> DEFINE d == Append(b, Head(c))
  <2>3. OrTorn(d) /\ Fresh(d, lo, hi) /\ Rising(d) /\ Before(a, d) /\ Before(d, Tail(c))
    BY <1>f, <2>1, <2>2, AppendOrder
  <2> HIDE DEF d
  <2>4. Flow(a, d, Tail(c), lo, hi) /\ Flow(a, b, Tail(c), lo, hi)
    BY <1>f, <2>2, <2>3 DEF Flow
  <2> QED BY <2>4 DEF d
<1>5. Flow(a, Append(b, Torn), <<>>, lo, hi)
  <2> DEFINE d == Append(b, Torn)
  <2>1. OrTorn(d) /\ Fresh(d, lo, hi) /\ Rising(d) /\ Before(a, d)
    BY <1>f, QueuedFacts, AppendOrder
  <2> HIDE DEF d
  <2>2. Flow(a, d, <<>>, lo, hi)
    BY <1>f, <2>1, EmptyOrder DEF Flow
  <2> QED BY <2>2 DEF d
<1>6. ASSUME NEW e \in Line, e.by = Tool, e.n = hi + 1 PROVE Flow(a, b, Append(c, e), lo, hi + 1)
  <2>1. /\ Fresh(a, lo, hi + 1) /\ Fresh(b, lo, hi + 1) /\ Fresh(c, lo, hi + 1)
    BY <1>f, <1>t DEF Fresh
  <2>2. /\ \A i \in DOMAIN a : a[i].n < e.n
        /\ \A i \in DOMAIN b : b[i].n < e.n
        /\ \A i \in DOMAIN c : c[i].n < e.n
    BY <1>f, <1>t, <1>6 DEF Fresh
  <2> DEFINE d == Append(c, e)
  <2>3. e \in Queued /\ lo < e.n /\ e.n <= hi + 1 /\ lo <= hi + 1
    BY <1>6, <1>f, QueuedFacts
  <2>4. From(Tool, d) /\ Fresh(d, lo, hi + 1) /\ Rising(d) /\ Before(a, d) /\ Before(b, d)
    BY <1>0, <1>f, <1>6, <2>1, <2>2, <2>3, AppendOrder
  <2> HIDE DEF d
  <2>5. Flow(a, b, d, lo, hi + 1)
    BY <1>f, <2>1, <2>3, <2>4 DEF Flow
  <2> QED BY <2>5 DEF d
<1> QED BY <1>1, <1>2, <1>3, <1>4, <1>5, <1>6


\* Every step keeps the updates in order.
LEMMA OrderStep ==
  ASSUME PipeTyped, OrderInv, [Next]_vars
  PROVE  OrderInv'
<1> USE DEF mailVars, pipeVars
<1> DEFINE a == inb
           b == wire[Tool]
           c == out[Tool]
           lo == seen.n
           hi == made[Tool]
<1>p. Server \in Process /\ Tool \in Process /\ Server # Tool /\ None \notin Process
  BY Processes DEF Process
<1>t. /\ a \in Seq(Line) /\ b \in Seq(Queued) /\ c \in Seq(Line) /\ lo \in Nat /\ hi \in Nat
      /\ wire \in [Process -> Seq(Queued)] /\ out \in [Process -> Seq(Line)] /\ made \in [Process -> Nat]
  BY <1>p, Parts, SMTT(30) DEF Inbs, Wires, Outs, Seens, Mades, Queued
<1>o. /\ seen.ok /\ Flow(a, b, c, lo, hi)
      /\ From(Server, out[Server]) /\ From(Server, wire[Server])
  BY OrderParts
<1>f. /\ Flow(<<>>, b, c, lo, hi) /\ Flow(a, <<>>, c, lo, hi) /\ Flow(a, b, <<>>, lo, hi)
      /\ a # <<>> => /\ Flow(Tail(a), b, c, lo, hi) /\ Flow(Tail(a), b, c, Head(a).n, hi)
                     /\ Head(a).by = Tool /\ lo < Head(a).n
      /\ b # <<>> => /\ Flow(a, Tail(b), c, lo, hi)
                     /\ Head(b).by = Tool => Flow(Append(a, Head(b)), Tail(b), c, lo, hi)
      /\ c # <<>> => Flow(a, b, Tail(c), lo, hi) /\ Flow(a, Append(b, Head(c)), Tail(c), lo, hi)
      /\ Flow(a, Append(b, Torn), <<>>, lo, hi)
      /\ \A e \in Line : e.by = Tool /\ e.n = hi + 1 => Flow(a, b, Append(c, e), lo, hi + 1)
  BY <1>t, <1>o, FlowMoves
<1>e. Flow(<<>>, <<>>, c, lo, hi)
  BY <1>f, EmptyOrder DEF Flow
<1>1. ASSUME NEW p \in Process, EnableUpdatePipe(p) \/ Close(p) \/ PumpStops(p) \/ Restart(p)
      PROVE  OrderInv'
  <2>1. UNCHANGED <<out, made, seen>> /\ ((UNCHANGED <<inb, wire>>) \/ (inb' = <<>> /\ wire' = [q \in Process |-> <<>>]))
    BY <1>1 DEF EnableUpdatePipe, Close, PumpStops, Restart
  <2>2. CASE UNCHANGED <<inb, wire>>
    BY <1>o, <1>f, <2>1, <2>2, OrderPartsAfter
  <2>3. CASE inb' = <<>> /\ wire' = [q \in Process |-> <<>>]
    <3>1. wire'[Tool] = <<>> /\ wire'[Server] = <<>>
      BY <1>p, <2>3
    <3> QED BY <1>o, <1>e, <2>1, <2>3, <3>1, EmptyOrder, OrderPartsAfter
  <2> QED BY <2>1, <2>2, <2>3
<1>2. ASSUME NEW p \in Process, CloseEnds(p) PROVE OrderInv'
  <2>1. UNCHANGED <<out, inb, made, seen>> /\ (wire' = wire \/ wire' = [q \in Process |-> <<>>])
    BY <1>2 DEF CloseEnds
  <2>2. wire' = wire \/ (wire'[Tool] = <<>> /\ wire'[Server] = <<>>)
    BY <1>p, <2>1
  <2> QED BY <1>o, <1>f, <2>1, <2>2, EmptyOrder, OrderPartsAfter
<1>3. ASSUME NEW p \in Process, Crash(p) PROVE OrderInv'
  <2>1. /\ UNCHANGED <<made, seen>> /\ out' = [out EXCEPT ![p] = <<>>]
        /\ inb' = IF p = Server THEN <<>> ELSE inb
        /\ \/ wire' = IF p = Server THEN [q \in Process |-> <<>>] ELSE wire
           \/ p = Tool /\ wire' = [wire EXCEPT ![p] = Append(wire[p], Torn)]
    BY <1>3 DEF Crash
  <2>2. CASE p = Server
    <3>1. /\ inb' = <<>> /\ wire'[Tool] = <<>> /\ wire'[Server] = <<>> /\ out'[Tool] = c /\ out'[Server] = <<>>
      BY <1>p, <1>t, <2>1, <2>2
    <3> QED BY <1>o, <1>e, <2>1, <3>1, EmptyOrder, OrderPartsAfter
  <2>3. CASE p = Tool
    <3>1. /\ inb' = a /\ wire'[Tool] \in {b, Append(b, Torn)} /\ wire'[Server] = wire[Server]
          /\ out'[Tool] = <<>> /\ out'[Server] = out[Server]
      BY <1>p, <1>t, <2>1, <2>3
    <3> QED BY <1>o, <1>f, <2>1, <3>1, OrderPartsAfter
  <2> QED BY <2>2, <2>3, Processes
<1>4. CASE Change
  <2>1. /\ UNCHANGED <<inb, wire, seen>>
        /\ out' = [out EXCEPT ![Tool] = Append(out[Tool], [by |-> Tool, n |-> made[Tool] + 1])]
        /\ made' = [made EXCEPT ![Tool] = made[Tool] + 1]
        /\ made[Tool] < MaxUpdates
    BY <1>4 DEF Change, Notify
  <2> DEFINE e == [by |-> Tool, n |-> made[Tool] + 1]
  <2>2. e \in Line /\ e.by = Tool /\ e.n = made[Tool] + 1
    BY <1>p, <1>t, <2>1 DEF Line
  <2>3. out'[Tool] = Append(c, e) /\ out'[Server] = out[Server] /\ made'[Tool] = hi + 1
    BY <1>p, <1>t, <2>1
  <2> HIDE DEF e
  <2> QED BY <1>o, <1>f, <2>1, <2>2, <2>3, OrderPartsAfter
<1>5. CASE Commit
  <2>1. UNCHANGED <<inb, wire, seen>> /\ (Notify(Server) \/ UNCHANGED <<out, made>>)
    BY <1>5 DEF Commit
  <2> DEFINE e == [by |-> Server, n |-> made[Server] + 1]
  <2>2. \/ UNCHANGED <<out, made>>
        \/ out' = [out EXCEPT ![Server] = Append(out[Server], e)] /\ made' = [made EXCEPT ![Server] = @ + 1]
    BY <2>1 DEF Notify
  <2>3. out'[Tool] = c /\ made'[Tool] = hi /\ out'[Server] \in {out[Server], Append(out[Server], e)}
    BY <1>p, <1>t, <2>2
  <2>4. e.by = Server
    OBVIOUS
  <2> HIDE DEF e
  <2>5. From(Server, out'[Server])
    <3>1. out[Server] \in Seq(Line)
      BY <1>p, <1>t
    <3>2. CASE out'[Server] = Append(out[Server], e)
      <4>1. \A i \in DOMAIN out'[Server] :
                \/ i \in DOMAIN out[Server] /\ out'[Server][i] = out[Server][i]
                \/ out'[Server][i] = e
        BY <3>1, <3>2
      <4> QED BY <1>o, <2>4, <4>1 DEF From
    <3> QED BY <1>o, <2>3, <3>2
  <2> QED BY <1>o, <2>1, <2>3, <2>5, OrderPartsAfter
<1>6. ASSUME NEW p \in Process, PumpOut(p) PROVE OrderInv'
  <2>1. /\ UNCHANGED <<inb, made, seen>> /\ out[p] # <<>> /\ out' = [out EXCEPT ![p] = Tail(out[p])]
        /\ wire' = wire \/ wire' = [wire EXCEPT ![p] = Append(wire[p], Head(out[p]))]
    BY <1>6 DEF PumpOut
  <2>2. CASE p = Server
    <3>1. /\ out'[Tool] = c /\ wire'[Tool] = b /\ out'[Server] = Tail(out[Server])
          /\ wire'[Server] \in {wire[Server], Append(wire[Server], Head(out[Server]))}
      BY <1>p, <1>t, <2>1, <2>2
    <3>2. /\ out[Server] \in Seq(Queued) /\ wire[Server] \in Seq(Queued) /\ out[Server] # <<>>
          /\ Head(out[Server]) \in Queued
      BY <1>p, <1>t, <2>1, <2>2, QueuedFacts, QueueSteps
    <3>3. From(Server, Tail(out[Server])) /\ Head(out[Server]).by = Server
      BY <1>o, <3>2, TailOrder
    <3>4. From(Server, Append(wire[Server], Head(out[Server])))
      BY <1>o, <3>2, <3>3, AppendOrder
    <3> QED BY <1>o, <2>1, <3>1, <3>3, <3>4, OrderPartsAfter
  <2>3. CASE p = Tool
    <3>1. /\ out'[Server] = out[Server] /\ wire'[Server] = wire[Server] /\ out'[Tool] = Tail(c) /\ c # <<>>
          /\ wire'[Tool] \in {b, Append(b, Head(c))}
      BY <1>p, <1>t, <2>1, <2>3
    <3> QED BY <1>o, <1>f, <2>1, <3>1, OrderPartsAfter
  <2> QED BY <2>2, <2>3, Processes
<1>7. ASSUME NEW p \in Process, readUpdates(p) PROVE OrderInv'
  <2>1. /\ UNCHANGED <<out, made, seen>> /\ wire[p] # <<>> /\ wire' = [wire EXCEPT ![p] = Tail(wire[p])]
        /\ inb' = inb \/ (Head(wire[p]).by = Tool /\ inb' = Append(inb, Head(wire[p])))
    BY <1>7 DEF readUpdates
  <2>2. CASE p = Server
    <3>1. wire'[Tool] = b /\ wire'[Server] = Tail(wire[Server]) /\ wire[Server] \in Seq(Queued)
      BY <1>p, <1>t, <2>1, <2>2
    <3>2. From(Server, Tail(wire[Server])) /\ Head(wire[Server]).by = Server
      BY <1>o, <2>1, <2>2, <3>1, TailOrder
    <3>3. inb' = a
      BY <1>p, <2>1, <2>2, <3>2
    <3> QED BY <1>o, <2>1, <3>1, <3>2, <3>3, OrderPartsAfter
  <2>3. CASE p = Tool
    <3>1. wire'[Server] = wire[Server] /\ wire'[Tool] = Tail(b) /\ b # <<>>
      BY <1>p, <1>t, <2>1, <2>3
    <3>2. inb' = a \/ (Head(b).by = Tool /\ inb' = Append(a, Head(b)))
      BY <2>1, <2>3
    <3> QED BY <1>o, <1>f, <2>1, <3>1, <3>2, OrderPartsAfter
  <2> QED BY <2>2, <2>3, Processes
<1>8. CASE PumpIn
  <2>1. /\ UNCHANGED <<out, wire, made>> /\ a # <<>> /\ inb' = Tail(a)
        /\ seen' = [n |-> Head(a).n, ok |-> seen.ok /\ Head(a).by = Tool /\ Head(a).n > lo]
    BY <1>8 DEF PumpIn
  <2>2. seen'.n = Head(a).n /\ Head(a).by = Tool /\ lo < Head(a).n
    BY <1>f, <2>1
  <2>3. Head(a).n \in Nat
    BY <1>t, <2>1, QueueSteps, QueuedFacts
  <2>4. seen'.ok
    BY <1>o, <1>t, <2>1, <2>2, <2>3
  <2> QED BY <1>o, <1>f, <2>1, <2>2, <2>4, OrderPartsAfter
<1>9. CASE PumpPanic
  <2>1. UNCHANGED <<out, wire, made, seen>> /\ a # <<>> /\ inb' = Tail(a)
    BY <1>9 DEF PumpPanic
  <2> QED BY <1>o, <1>f, <2>1, OrderPartsAfter
<1>10. ASSUME UNCHANGED pipeVars PROVE OrderInv'
  BY <1>10, <1>o, OrderPartsAfter
<1>11. CASE Start \/ Body \/ Abort \/ UNCHANGED vars
  BY <1>10, <1>11 DEF Start, Body, Abort, vars
<1>12. ASSUME NEW r \in Rcpt, openAccount(r) \/ AddRcpt(r) PROVE OrderInv'
  BY <1>10, <1>12 DEF openAccount, AddRcpt
<1> QED
  BY <1>1, <1>2, <1>3, <1>4, <1>5, <1>6, <1>7, <1>8, <1>9, <1>11, <1>12 DEF Next

-----------------------------------------------------------------------------
(* Deliveries *)

Copy == [msg : 1 .. MaxMsgs, folder : Folders]
FolderMaps == {<<>>} \cup UNION {[S -> Folders] : S \in SUBSET Copies}
Dlvs == [pc : {"none", "rcpt", "body", "failed"}, msg : Nat, added : SUBSET Copies,
         rcpts : SUBSET Rcpt, junk : BOOLEAN, folder : FolderMaps]
Ends == [msg : 1 .. MaxMsgs, how : {"committed", "aborted"}, rcpts : SUBSET Rcpt, junk : BOOLEAN]

\* MailTyped, with names for its sets.
LEMMA MailParts ==
  MailTyped <=> accounts \subseteq Account /\ box \in [Account -> Seq(Copy)] /\ dlv \in Dlvs /\ ended \subseteq Ends
BY DEF MailTyped, Copy, FolderMaps, Dlvs, Ends

\* The same after a step.
LEMMA MailPartsAfter ==
  MailTyped' <=> accounts' \subseteq Account /\ box' \in [Account -> Seq(Copy)] /\ dlv' \in Dlvs /\ ended' \subseteq Ends
BY DEF MailTyped, Copy, FolderMaps, Dlvs, Ends

\* A message that is under way is newer than all that ended.
LEMMA Newest ==
  ASSUME MailTyped, DeliveryShape, dlv.pc # "none"
  PROVE  dlv.msg \in 1 .. MaxMsgs /\ \A e \in ended : e.msg \in 1 .. MaxMsgs /\ e.msg < dlv.msg
<1>1. dlv.msg \in 1 .. MaxMsgs /\ ~Ended(dlv.msg)
  BY DEF DeliveryShape
<1>2. SUFFICES ASSUME NEW e \in ended PROVE e.msg \in 1 .. MaxMsgs /\ e.msg < dlv.msg
  BY <1>1
<1>3. e.msg \in 1 .. MaxMsgs /\ e.msg # dlv.msg
  BY <1>1 DEF Ended, MailTyped
<1>4. ASSUME ~(e.msg < dlv.msg) PROVE FALSE
  <2>1. dlv.msg \in 1 .. e.msg - 1
    BY <1>1, <1>3, <1>4
  <2> QED BY <1>1, <2>1 DEF DeliveryShape
<1> QED BY <1>3, <1>4

\* A sequence that gets no copy or one.
LEMMA Stored ==
  ASSUME NEW S, NEW s \in Seq(S), NEW e
  PROVE  /\ s \o [i \in 1 .. 0 |-> e] = s
         /\ s \o [i \in 1 .. 1 |-> e] = Append(s, e)
<1>1. [i \in 1 .. 0 |-> e] = <<>>
  OBVIOUS
<1>2. [i \in 1 .. 1 |-> e] = <<e>>
  OBVIOUS
<1>3. s \o <<>> = s
  OBVIOUS
<1>4. s \o <<e>> = Append(s, e)
  OBVIOUS
<1> QED BY <1>1, <1>2, <1>3, <1>4

\* A commit adds one copy, in the folder that is wanted, for the account of each recipient.
LEMMA CommitStores ==
  ASSUME MailTyped, DeliveryShape, Commit, NEW a \in Account
  PROVE  \/ ~(\E r \in dlv.rcpts : AccountOf[r] = a) /\ box'[a] = box[a]
         \/ /\ \E r \in dlv.rcpts : AccountOf[r] = a
            /\ \E f \in Folders : /\ box'[a] = Append(box[a], [msg |-> dlv.msg, folder |-> f])
                                  /\ dlv.junk <=> f = "Junk"
<1> DEFINE copies == {x \in dlv.added : x[1] = a}
           folder == CHOOSE f \in {dlv.folder[x] : x \in copies} : TRUE
           e == [msg |-> dlv.msg, folder |-> folder]
<1>1. box'[a] = box[a] \o [i \in 1 .. Cardinality(copies) |-> e]
  BY DEF Commit
<1>2. box[a] \in Seq(Copy)
  BY MailParts
<1>3. /\ dlv.pc = "body"
      /\ (\E x \in dlv.added : x[1] = a) <=> \E r \in dlv.rcpts : AccountOf[r] = a
      /\ \A x, y \in dlv.added : x[1] = y[1] => x = y
      /\ dlv.folder \in [dlv.added -> Folders]
      /\ \A x \in dlv.added : dlv.junk <=> dlv.folder[x] = "Junk"
  BY DEF DeliveryShape, Commit
<1>4. CASE copies = {}
  <2>1. Cardinality(copies) = 0
    BY <1>4, FS_EmptySet
  <2>2. ~\E x \in dlv.added : x[1] = a
    BY <1>4
  <2> HIDE DEF copies, e
  <2>3. box'[a] = box[a]
    BY <1>1, <1>2, <2>1, Stored
  <2> QED BY <1>3, <2>2, <2>3
<1>5. CASE copies # {}
  <2>1. PICK x \in dlv.added : x[1] = a
    BY <1>5
  <2>2. copies = {x}
    BY <1>3, <2>1
  <2>3. Cardinality(copies) = 1
    BY <2>2, FS_Singleton
  <2>4. folder = dlv.folder[x]
    BY <2>2
  <2>5. folder \in Folders /\ (dlv.junk <=> folder = "Junk")
    BY <1>3, <2>1, <2>4
  <2> HIDE DEF copies, folder
  <2>6. box'[a] = Append(box[a], e)
    BY <1>1, <1>2, <2>3, Stored
  <2> QED BY <1>3, <2>1, <2>5, <2>6
<1> QED BY <1>4, <1>5

\* The mail store keeps its types.
LEMMA MailTypedStep ==
  ASSUME MailTyped, DeliveryShape, [Next]_vars
  PROVE  MailTyped'
<1> USE DEF mailVars
<1>t. accounts \subseteq Account /\ box \in [Account -> Seq(Copy)] /\ dlv \in Dlvs /\ ended \subseteq Ends
  BY MailParts
<1>n. NoDelivery \in Dlvs
  <2>1. <<>> \in FolderMaps
    BY DEF FolderMaps
  <2> QED BY <2>1 DEF NoDelivery, Dlvs
<1>e. ASSUME dlv.pc # "none" PROVE \A how \in {"committed", "aborted"} : End(how) \in Ends
  <2>1. dlv.msg \in 1 .. MaxMsgs
    BY <1>e, Newest
  <2> QED BY <1>t, <2>1 DEF End, Ends, Dlvs
<1>1. ASSUME UNCHANGED <<accounts, box, ended>>, dlv' = dlv \/ dlv' = NoDelivery PROVE MailTyped'
  BY <1>1, <1>t, <1>n, MailPartsAfter
<1>2. CASE UNCHANGED vars \/ Change \/ PumpIn \/ PumpPanic
  BY <1>2, <1>1 DEF vars, Change, PumpIn, PumpPanic
<1>3. ASSUME NEW p \in Process,
             \/ EnableUpdatePipe(p) \/ Close(p) \/ Crash(p) \/ Restart(p)
             \/ PumpOut(p) \/ readUpdates(p) \/ PumpStops(p) \/ CloseEnds(p)
      PROVE  MailTyped'
  <2>1. UNCHANGED <<accounts, box, ended>> /\ (dlv' = dlv \/ dlv' = NoDelivery)
    BY <1>3 DEF EnableUpdatePipe, Close, Crash, Restart, PumpOut, readUpdates, PumpStops, CloseEnds
  <2> QED BY <2>1, <1>1
<1>4. ASSUME NEW r \in Rcpt, openAccount(r) PROVE MailTyped'
  BY <1>4, <1>t, MailPartsAfter DEF openAccount
<1>5. ASSUME NEW r \in Rcpt, AddRcpt(r) PROVE MailTyped'
  <2>1. <<AccountOf[r], r>> \in Copies
    BY <1>5, <1>t DEF AddRcpt, Copies
  <2>2. PICK add \in SUBSET Copies : dlv' = [dlv EXCEPT !.added = add, !.rcpts = @ \cup {r}]
    <3>1. dlv.added \in SUBSET Copies
      BY <1>t DEF Dlvs
    <3>2. \/ dlv' = [dlv EXCEPT !.added = dlv.added, !.rcpts = @ \cup {r}]
          \/ dlv' = [dlv EXCEPT !.added = dlv.added \cup {<<AccountOf[r], r>>}, !.rcpts = @ \cup {r}]
      BY <1>5 DEF AddRcpt
    <3>3. dlv.added \cup {<<AccountOf[r], r>>} \in SUBSET Copies
      BY <2>1, <3>1
    <3> QED BY <3>1, <3>2, <3>3
  <2>3. dlv' \in Dlvs
    BY <1>t, <2>2 DEF Dlvs
  <2> QED BY <1>5, <1>t, <2>3, MailPartsAfter DEF AddRcpt
<1>6. CASE Start
  <2>1. PICK m \in 1 .. MaxMsgs, junk \in BOOLEAN : dlv' = [NoDelivery EXCEPT !.pc = "rcpt", !.msg = m, !.junk = junk]
    BY <1>6 DEF Start
  <2>2. dlv' \in Dlvs
    <3>1. m \in Nat
      OBVIOUS
    <3> QED BY <1>n, <2>1, <3>1 DEF Dlvs
  <2> QED BY <1>6, <1>t, <2>2, MailPartsAfter DEF Start
<1>7. CASE Body
  <2>1. dlv.added \in SUBSET Copies
    BY <1>t DEF Dlvs
  <2>2. \/ dlv' = [dlv EXCEPT !.pc = "failed"]
        \/ \E g \in [dlv.added -> Folders] : dlv' = [dlv EXCEPT !.pc = "body", !.folder = g]
    <3>1. CASE dlv' = [dlv EXCEPT !.pc = "failed"]
      BY <3>1
    <3>2. ASSUME NEW f \in [dlv.added -> {"INBOX", "filtered"}],
                 dlv' = [dlv EXCEPT !.pc = "body",
                           !.folder = [x \in dlv.added |-> IF dlv.junk THEN "Junk" ELSE f[x]]]
          PROVE  \E g \in [dlv.added -> Folders] : dlv' = [dlv EXCEPT !.pc = "body", !.folder = g]
      <4> DEFINE g == [x \in dlv.added |-> IF dlv.junk THEN "Junk" ELSE f[x]]
      <4>1. g \in [dlv.added -> Folders]
        BY DEF Folders
      <4> HIDE DEF g
      <4> QED BY <3>2, <4>1 DEF g
    <3> QED BY <1>7, <3>1, <3>2 DEF Body
  <2>3. [dlv.added -> Folders] \subseteq FolderMaps
    BY <2>1 DEF FolderMaps
  <2>4. dlv' \in Dlvs
    <3>1. CASE dlv' = [dlv EXCEPT !.pc = "failed"]
      BY <1>t, <3>1 DEF Dlvs
    <3>2. ASSUME NEW g \in FolderMaps, dlv' = [dlv EXCEPT !.pc = "body", !.folder = g] PROVE dlv' \in Dlvs
      BY <1>t, <3>2 DEF Dlvs
    <3> QED BY <2>2, <2>3, <3>1, <3>2
  <2> QED BY <1>7, <1>t, <2>4, MailPartsAfter DEF Body
<1>8. CASE Abort
  <2>1. dlv.pc # "none" /\ ended' = ended \cup {End("aborted")} /\ dlv' = NoDelivery /\ UNCHANGED <<accounts, box>>
    BY <1>8 DEF Abort
  <2> QED BY <1>t, <1>n, <1>e, <2>1, MailPartsAfter
<1>9. CASE Commit
  <2>1. /\ dlv.pc # "none" /\ ended' = ended \cup {End("committed")} /\ dlv' = NoDelivery /\ UNCHANGED accounts
        /\ box' = [a \in Account |-> box'[a]]
    BY <1>9 DEF Commit
  <2>2. ASSUME NEW a \in Account PROVE box'[a] \in Seq(Copy)
    <3>1. box[a] \in Seq(Copy)
      BY <1>t
    <3>2. dlv.msg \in 1 .. MaxMsgs
      BY <2>1, Newest
    <3>3. ASSUME NEW f \in Folders PROVE Append(box[a], [msg |-> dlv.msg, folder |-> f]) \in Seq(Copy)
      <4>1. [msg |-> dlv.msg, folder |-> f] \in Copy
        BY <3>2 DEF Copy
      <4> QED BY <3>1, <4>1, QueueSteps
    <3> QED BY <1>9, <3>1, <3>3, CommitStores
  <2>3. box' \in [Account -> Seq(Copy)]
    BY <2>1, <2>2
  <2> QED BY <1>t, <1>n, <1>e, <2>1, <2>3, MailPartsAfter
<1> QED
  BY <1>2, <1>3, <1>4, <1>5, <1>6, <1>7, <1>8, <1>9 DEF Next


\* A message that ended is stored as it ended, also when others end after it.
LEMMA StoredOnceStep ==
  ASSUME MailTyped, DeliveryShape, StoredOnce, [Next]_vars
  PROVE  StoredOnce'
<1> USE DEF mailVars
<1>b. box \in [Account -> Seq(Copy)]
  BY MailParts
<1>1. ASSUME UNCHANGED <<box, ended>> PROVE StoredOnce'
  BY <1>1 DEF StoredOnce
<1>2. CASE UNCHANGED vars \/ Change \/ PumpIn \/ PumpPanic \/ Start \/ Body
  BY <1>2, <1>1 DEF vars, Change, PumpIn, PumpPanic, Start, Body
<1>3. ASSUME NEW p \in Process,
             \/ EnableUpdatePipe(p) \/ Close(p) \/ Crash(p) \/ Restart(p)
             \/ PumpOut(p) \/ readUpdates(p) \/ PumpStops(p) \/ CloseEnds(p)
      PROVE  StoredOnce'
  <2>1. UNCHANGED <<box, ended>>
    BY <1>3 DEF EnableUpdatePipe, Close, Crash, Restart, PumpOut, readUpdates, PumpStops, CloseEnds
  <2> QED BY <2>1, <1>1
<1>4. ASSUME NEW r \in Rcpt, openAccount(r) \/ AddRcpt(r) PROVE StoredOnce'
  BY <1>4, <1>1 DEF openAccount, AddRcpt
<1> DEFINE Found(b, m) == {i \in DOMAIN b : b[i].msg = m}
           Kept(b, e, a) == /\ Cardinality(Found(b, e.msg)) =
                                 IF e.how = "committed" /\ \E r \in e.rcpts : AccountOf[r] = a THEN 1 ELSE 0
                            /\ \A i \in Found(b, e.msg) : e.junk <=> b[i].folder = "Junk"
<1>5. /\ \A e \in ended, a \in Account : Kept(box[a], e, a)
      /\ (\A e \in ended', a \in Account : Kept(box'[a], e, a)) => StoredOnce'
  BY DEF StoredOnce
<1>6. ASSUME dlv.pc # "none", NEW a \in Account PROVE Found(box[a], dlv.msg) = {}
  <2>1. ~Ended(dlv.msg) /\ \A i \in DOMAIN box[a] : Ended(box[a][i].msg)
    BY <1>6 DEF DeliveryShape
  <2> QED BY <2>1
<1>7. CASE Abort
  <2>1. dlv.pc # "none" /\ ended' = ended \cup {End("aborted")} /\ UNCHANGED box
    BY <1>7 DEF Abort
  <2>2. End("aborted").msg = dlv.msg /\ End("aborted").how = "aborted"
    BY DEF End
  <2>3. ASSUME NEW a \in Account PROVE Kept(box[a], End("aborted"), a)
    <3>1. Found(box[a], End("aborted").msg) = {} /\ Cardinality({}) = 0
      BY <1>6, <2>1, <2>2, FS_EmptySet
    <3> HIDE DEF Found
    <3> QED BY <2>2, <3>1
  <2> HIDE DEF Kept
  <2> QED BY <1>5, <2>1, <2>3
<1>8. CASE Commit
  <2>1. dlv.pc # "none" /\ ended' = ended \cup {End("committed")}
    BY <1>8 DEF Commit
  <2> DEFINE d == End("committed")
  <2>2. d.msg = dlv.msg /\ d.how = "committed" /\ d.rcpts = dlv.rcpts /\ d.junk = dlv.junk
    BY DEF End
  <2>3. ASSUME NEW a \in Account, NEW e \in ended PROVE Kept(box'[a], e, a)
    <3>1. e.msg # dlv.msg
      BY <2>1 DEF DeliveryShape, Ended
    <3>2. CASE box'[a] = box[a]
      <4>1. Kept(box[a], e, a)
        BY <1>5
      <4> HIDE DEF Kept
      <4> QED BY <3>2, <4>1
    <3>3. ASSUME NEW f \in Folders, box'[a] = Append(box[a], [msg |-> dlv.msg, folder |-> f])
          PROVE  Kept(box'[a], e, a)
      <4> DEFINE c == [msg |-> dlv.msg, folder |-> f]
      <4>0. c.msg = dlv.msg
        OBVIOUS
      <4> HIDE DEF c
      <4>1. box[a] \in Seq(Copy) /\ box'[a] = Append(box[a], c)
        BY <1>b, <3>3 DEF c
      <4>2. /\ DOMAIN box[a] \subseteq DOMAIN box'[a]
            /\ \A i \in DOMAIN box[a] : box'[a][i] = box[a][i]
            /\ \A i \in DOMAIN box'[a] : i \in DOMAIN box[a] \/ box'[a][i] = c
        BY <4>1
      <4>3. Found(box'[a], e.msg) = Found(box[a], e.msg)
        BY <3>1, <4>0, <4>2
      <4>4. \A i \in Found(box[a], e.msg) : box'[a][i] = box[a][i]
        BY <4>2
      <4>5. Kept(box[a], e, a)
        BY <1>5
      <4> HIDE DEF Found
      <4> QED BY <4>3, <4>4, <4>5
    <3> QED BY <1>8, <3>2, <3>3, CommitStores
  <2>4. ASSUME NEW a \in Account PROVE Kept(box'[a], d, a)
    <3>1. CASE ~(\E r \in dlv.rcpts : AccountOf[r] = a) /\ box'[a] = box[a]
      <4>1. Found(box'[a], d.msg) = {} /\ Cardinality({}) = 0
        BY <1>6, <2>1, <2>2, <3>1, FS_EmptySet
      <4> HIDE DEF Found, d
      <4> QED BY <2>2, <3>1, <4>1
    <3>2. ASSUME \E r \in dlv.rcpts : AccountOf[r] = a, NEW f \in Folders,
                 box'[a] = Append(box[a], [msg |-> dlv.msg, folder |-> f]), dlv.junk <=> f = "Junk"
          PROVE  Kept(box'[a], d, a)
      <4> DEFINE c == [msg |-> dlv.msg, folder |-> f]
      <4>0. c.msg = dlv.msg /\ c.folder = f
        OBVIOUS
      <4> HIDE DEF c
      <4>1. box[a] \in Seq(Copy) /\ box'[a] = Append(box[a], c)
        BY <1>b, <3>2 DEF c
      <4>2. /\ DOMAIN box'[a] = DOMAIN box[a] \cup {Len(box[a]) + 1}
            /\ \A i \in DOMAIN box[a] : box'[a][i] = box[a][i]
            /\ box'[a][Len(box[a]) + 1] = c
        BY <4>1
      <4>3. \A i \in DOMAIN box[a] : box[a][i].msg # dlv.msg
        BY <1>6, <2>1
      <4>4. Found(box'[a], d.msg) = {Len(box[a]) + 1}
        BY <2>2, <4>0, <4>2, <4>3
      <4>5. Cardinality({Len(box[a]) + 1}) = 1
        BY FS_Singleton
      <4> HIDE DEF Found, d
      <4> QED BY <2>2, <3>2, <4>0, <4>2, <4>4, <4>5
    <3> HIDE DEF Kept, d
    <3>3. \/ ~(\E r \in dlv.rcpts : AccountOf[r] = a) /\ box'[a] = box[a]
          \/ /\ \E r \in dlv.rcpts : AccountOf[r] = a
             /\ \E f \in Folders : /\ box'[a] = Append(box[a], [msg |-> dlv.msg, folder |-> f])
                                   /\ dlv.junk <=> f = "Junk"
      BY <1>8, CommitStores
    <3> QED BY <3>1, <3>2, <3>3, Zenon
  <2> HIDE DEF Kept, d
  <2> QED BY <1>5, <2>1, <2>3, <2>4 DEF d
<1> QED
  BY <1>2, <1>3, <1>4, <1>7, <1>8 DEF Next


\* The parts of DeliveryShape: what has ended, and the delivery under way.
Numbered ==
  /\ \A e \in ended : \A k \in 1 .. e.msg - 1 : Ended(k)
  /\ made[Server] = 0 \/ \E e \in ended : made[Server] <= e.msg
  /\ \A a \in Account : \A i \in DOMAIN box[a] : Ended(box[a][i].msg)
Pending ==
  dlv.pc # "none" => dlv.msg \in 1 .. MaxMsgs /\ ~Ended(dlv.msg) /\ \A k \in 1 .. dlv.msg - 1 : Ended(k)
Places ==
  /\ \A a \in Account : (\E x \in dlv.added : x[1] = a) <=> \E r \in dlv.rcpts : AccountOf[r] = a
  /\ \A x, y \in dlv.added : x[1] = y[1] => x = y
  /\ dlv.pc = "body" => /\ dlv.folder \in [dlv.added -> Folders]
                        /\ \A x \in dlv.added : dlv.junk <=> dlv.folder[x] = "Junk"

\* DeliveryShape is its parts.
LEMMA DeliveryParts == DeliveryShape <=> Numbered /\ Pending /\ Places
BY DEF DeliveryShape, Numbered, Pending, Places

\* The same after a step.
LEMMA DeliveryPartsAfter == DeliveryShape' <=> Numbered' /\ Pending' /\ Places'
BY DEF DeliveryShape, Numbered, Pending, Places

\* Deliveries go on as DeliveryShape says.
LEMMA DeliveryShapeStep ==
  ASSUME MailTyped, PipeTyped, DeliveryShape, [Next]_vars
  PROVE  DeliveryShape'
<1> USE DEF mailVars, pipeVars
<1>t. dlv \in Dlvs /\ ended \subseteq Ends /\ made \in [Process -> Nat] /\ box \in [Account -> Seq(Copy)]
  BY MailParts, Parts DEF Mades
<1>p. Server \in Process /\ Tool \in Process
  BY Processes
<1>d. Numbered /\ Pending /\ Places
  BY DeliveryParts
<1>n. dlv' = NoDelivery => Pending' /\ Places'
  BY DEF Pending, Places, NoDelivery
<1>1. ASSUME UNCHANGED <<box, ended>>, made'[Server] = made[Server] PROVE Numbered'
  BY <1>1, <1>d DEF Numbered, Ended
<1>2. ASSUME UNCHANGED <<dlv, ended>> PROVE Pending' /\ Places'
  BY <1>2, <1>d DEF Pending, Places, Ended
<1>3. CASE UNCHANGED vars \/ Change \/ PumpIn \/ PumpPanic
  <2>1. UNCHANGED <<box, ended, dlv>> /\ made'[Server] = made[Server]
    BY <1>3, <1>t, <1>p DEF vars, Change, PumpIn, PumpPanic, Notify
  <2> QED BY <2>1, <1>1, <1>2, DeliveryPartsAfter
<1>4. ASSUME NEW p \in Process,
             \/ EnableUpdatePipe(p) \/ Close(p) \/ Crash(p) \/ Restart(p)
             \/ PumpOut(p) \/ readUpdates(p) \/ PumpStops(p) \/ CloseEnds(p)
      PROVE  DeliveryShape'
  <2>1. UNCHANGED <<box, ended, made>> /\ (dlv' = dlv \/ dlv' = NoDelivery)
    BY <1>4 DEF EnableUpdatePipe, Close, Crash, Restart, PumpOut, readUpdates, PumpStops, CloseEnds
  <2> QED BY <2>1, <1>1, <1>2, <1>n, DeliveryPartsAfter
<1>5. ASSUME NEW r \in Rcpt, openAccount(r) PROVE DeliveryShape'
  <2>1. UNCHANGED <<box, ended, made, dlv>>
    BY <1>5 DEF openAccount
  <2> QED BY <2>1, <1>1, <1>2, DeliveryPartsAfter
<1>6. ASSUME NEW r \in Rcpt, AddRcpt(r) PROVE DeliveryShape'
  <2>1. /\ dlv.pc = "rcpt" /\ UNCHANGED <<box, ended, made>>
        /\ dlv' = [dlv EXCEPT !.added = IF \E x \in @ : x[1] = AccountOf[r] THEN @ ELSE @ \cup {<<AccountOf[r], r>>},
                              !.rcpts = @ \cup {r}]
    BY <1>6 DEF AddRcpt
  <2>2. /\ dlv'.pc = "rcpt" /\ dlv'.msg = dlv.msg /\ dlv'.rcpts = dlv.rcpts \cup {r}
        /\ dlv'.added = IF \E x \in dlv.added : x[1] = AccountOf[r] THEN dlv.added
                        ELSE dlv.added \cup {<<AccountOf[r], r>>}
    BY <1>t, <2>1 DEF Dlvs
  <2>3. Pending'
    BY <1>d, <2>1, <2>2 DEF Pending, Ended
  <2>4. ASSUME NEW a \in Account
        PROVE  (\E x \in dlv'.added : x[1] = a) <=> \E s \in dlv'.rcpts : AccountOf[s] = a
    <3>1. (\E x \in dlv.added : x[1] = a) <=> \E s \in dlv.rcpts : AccountOf[s] = a
      BY <1>d DEF Places
    <3>2. (\E x \in dlv'.added : x[1] = a) <=> (\E x \in dlv.added : x[1] = a) \/ AccountOf[r] = a
      <4>1. CASE \E x \in dlv.added : x[1] = AccountOf[r]
        BY <2>2, <4>1
      <4>2. CASE ~\E x \in dlv.added : x[1] = AccountOf[r]
        <5>1. dlv'.added = dlv.added \cup {<<AccountOf[r], r>>} /\ <<AccountOf[r], r>>[1] = AccountOf[r]
          BY <2>2, <4>2
        <5> QED BY <5>1
      <4> QED BY <4>1, <4>2
    <3>3. (\E s \in dlv'.rcpts : AccountOf[s] = a) <=> (\E s \in dlv.rcpts : AccountOf[s] = a) \/ AccountOf[r] = a
      BY <2>2
    <3> QED BY <3>1, <3>2, <3>3
  <2>5. \A x, y \in dlv'.added : x[1] = y[1] => x = y
    BY <1>d, <2>2 DEF Places
  <2>6. Places'
    BY <2>2, <2>4, <2>5 DEF Places
  <2> QED BY <2>1, <2>3, <2>6, <1>1, DeliveryPartsAfter
<1>7. CASE Start
  <2>1. PICK m \in 1 .. MaxMsgs, junk \in BOOLEAN :
          /\ \A e \in ended : e.msg # m
          /\ \A k \in 1 .. m - 1 : \E e \in ended : e.msg = k
          /\ dlv' = [NoDelivery EXCEPT !.pc = "rcpt", !.msg = m, !.junk = junk]
    BY <1>7 DEF Start
  <2>2. UNCHANGED <<box, ended, made>> /\ dlv'.pc = "rcpt" /\ dlv'.msg = m /\ dlv'.added = {} /\ dlv'.rcpts = {}
    BY <1>7, <2>1 DEF Start, NoDelivery
  <2>3. Pending'
    BY <2>1, <2>2 DEF Pending, Ended
  <2>4. Places'
    BY <2>2 DEF Places
  <2> QED BY <2>2, <2>3, <2>4, <1>1, DeliveryPartsAfter
<1>8. CASE Body
  <2>1. UNCHANGED <<box, ended, made>> /\ dlv.pc = "rcpt"
    BY <1>8 DEF Body
  <2>2. CASE dlv' = [dlv EXCEPT !.pc = "failed"]
    <3>1. dlv'.pc = "failed" /\ dlv'.msg = dlv.msg /\ dlv'.added = dlv.added /\ dlv'.rcpts = dlv.rcpts
      BY <1>t, <2>2 DEF Dlvs
    <3>2. Pending' /\ Places'
      BY <1>d, <2>1, <3>1 DEF Pending, Places, Ended
    <3> QED BY <2>1, <3>2, <1>1, DeliveryPartsAfter
  <2>3. ASSUME NEW f \in [dlv.added -> {"INBOX", "filtered"}],
               dlv' = [dlv EXCEPT !.pc = "body",
                         !.folder = [x \in dlv.added |-> IF dlv.junk THEN "Junk" ELSE f[x]]]
        PROVE  DeliveryShape'
    <3> DEFINE g == [x \in dlv.added |-> IF dlv.junk THEN "Junk" ELSE f[x]]
    <3>1. g \in [dlv.added -> Folders] /\ \A x \in dlv.added : dlv.junk <=> g[x] = "Junk"
      BY DEF Folders
    <3>2. /\ dlv'.pc = "body" /\ dlv'.msg = dlv.msg /\ dlv'.added = dlv.added /\ dlv'.rcpts = dlv.rcpts
          /\ dlv'.junk = dlv.junk /\ dlv'.folder = g
      BY <1>t, <2>3 DEF Dlvs
    <3> HIDE DEF g
    <3>3. Pending'
      BY <1>d, <2>1, <3>2 DEF Pending, Ended
    <3>4. Places'
      BY <1>d, <3>1, <3>2 DEF Places
    <3> QED BY <2>1, <3>3, <3>4, <1>1, DeliveryPartsAfter
  <2> QED BY <1>8, <2>2, <2>3 DEF Body
<1>9. ASSUME NEW how, dlv.pc # "none", ended' = ended \cup {End(how)} PROVE
        /\ \A m : Ended(m)' <=> Ended(m) \/ m = dlv.msg
        /\ \A e \in ended' : \A k \in 1 .. e.msg - 1 : Ended(k)'
  <2>1. End(how).msg = dlv.msg
    BY DEF End
  <2>2. \A m : Ended(m)' <=> Ended(m) \/ m = dlv.msg
    BY <1>9, <2>1 DEF Ended
  <2> QED BY <1>9, <1>d, <2>1, <2>2 DEF Numbered, Pending
<1>10. CASE Abort
  <2>1. dlv.pc # "none" /\ ended' = ended \cup {End("aborted")} /\ dlv' = NoDelivery /\ UNCHANGED <<box, made>>
    BY <1>10 DEF Abort
  <2>2. Numbered'
    BY <1>d, <1>9, <2>1 DEF Numbered
  <2> QED BY <1>n, <2>1, <2>2, DeliveryPartsAfter
<1>11. CASE Commit
  <2>1. /\ dlv.pc # "none" /\ ended' = ended \cup {End("committed")} /\ dlv' = NoDelivery
        /\ Notify(Server) \/ UNCHANGED <<out, made>>
    BY <1>11 DEF Commit
  <2>2. /\ \A m : Ended(m)' <=> Ended(m) \/ m = dlv.msg
        /\ \A e \in ended' : \A k \in 1 .. e.msg - 1 : Ended(k)'
    BY <1>9, <2>1
  <2>3. made'[Server] = made[Server] \/ made'[Server] = made[Server] + 1
    BY <1>t, <1>p, <2>1 DEF Notify
  <2>4. made[Server] \in Nat /\ dlv.msg \in 1 .. MaxMsgs /\ \A e \in ended : e.msg \in 1 .. MaxMsgs /\ e.msg < dlv.msg
    BY <1>t, <1>p, <2>1, Newest
  <2>5. made'[Server] <= dlv.msg
    BY <1>d, <2>3, <2>4 DEF Numbered
  <2>6. End("committed") \in ended' /\ End("committed").msg = dlv.msg
    BY <2>1 DEF End
  <2>7. ASSUME NEW a \in Account, NEW i \in DOMAIN box'[a] PROVE \E e \in ended' : e.msg = box'[a][i].msg
    <3>1. CASE box'[a] = box[a]
      BY <1>d, <2>1, <2>7, <3>1 DEF Numbered, Ended
    <3>2. ASSUME NEW f \in Folders, box'[a] = Append(box[a], [msg |-> dlv.msg, folder |-> f])
          PROVE  \E e \in ended' : e.msg = box'[a][i].msg
      <4> DEFINE c == [msg |-> dlv.msg, folder |-> f]
      <4>0. c.msg = dlv.msg
        OBVIOUS
      <4> HIDE DEF c
      <4>1. box[a] \in Seq(Copy) /\ box'[a] = Append(box[a], c)
        BY <1>t, <3>2 DEF c
      <4>2. (i \in DOMAIN box[a] /\ box'[a][i] = box[a][i]) \/ box'[a][i] = c
        BY <2>7, <4>1
      <4> QED BY <1>d, <2>1, <2>6, <4>0, <4>2 DEF Numbered, Ended
    <3> QED BY <1>11, <3>1, <3>2, CommitStores
  <2>8. Numbered'
    BY <2>2, <2>5, <2>6, <2>7 DEF Numbered, Ended
  <2> QED BY <1>n, <2>1, <2>8, DeliveryPartsAfter
<1> QED
  BY <1>3, <1>4, <1>5, <1>6, <1>7, <1>8, <1>10, <1>11 DEF Next

-----------------------------------------------------------------------------
(* Theorems *)

\* StorageInv holds at the start.
LEMMA StorageInit == Init => StorageInv
<1> SUFFICES ASSUME Init PROVE StorageInv
  OBVIOUS
<1> USE DEF Init
<1>1. MailTyped
  <2>1. NoDelivery \in Dlvs
    <3>1. <<>> \in FolderMaps
      BY DEF FolderMaps
    <3> QED BY <3>1 DEF NoDelivery, Dlvs
  <2>2. box \in [Account -> Seq(Copy)]
    BY EmptyQueue
  <2> QED BY <2>1, <2>2, MailParts
<1>2. PipeTyped
  <2>1. Lives
    BY FreeSocket DEF Lives, Socks
  <2>2. Outs /\ Inbs /\ Wires
    BY EmptyQueue DEF Outs, Inbs, Wires
  <2>3. Mades
    BY Processes DEF Mades
  <2>4. Seens /\ Fault
    BY DEF Seens, Fault
  <2> QED BY <2>1, <2>2, <2>3, <2>4, Parts
<1>3. PipeShape
  BY Processes DEF PipeShape, NoDelivery
<1>4. OrderInv
  <2>1. inb = <<>> /\ wire[Tool] = <<>> /\ out[Tool] = <<>> /\ wire[Server] = <<>> /\ out[Server] = <<>>
    BY Processes
  <2>2. seen.ok /\ seen.n = 0 /\ made[Tool] = 0
    BY Processes
  <2> QED BY <2>1, <2>2, EmptyOrder, OrderParts DEF Flow
<1>5. DeliveryShape
  BY Processes DEF DeliveryShape, NoDelivery, Ended
<1>6. StoredOnce
  BY DEF StoredOnce
<1> QED BY <1>1, <1>2, <1>3, <1>4, <1>5, <1>6 DEF StorageInv

\* Every step keeps StorageInv.
LEMMA StorageStep == StorageInv /\ [~faults.panicked /\ Next]_vars => StorageInv'
<1> SUFFICES ASSUME StorageInv, [Next]_vars PROVE StorageInv'
  OBVIOUS
<1> QED BY MailTypedStep, PipeTypedStep, PipeShapeStep, OrderStep, DeliveryShapeStep, StoredOnceStep DEF StorageInv

\* The transfers of the storage are sound whatever crashes: a committed message is stored
\* exactly once for each account of its recipients and in Junk when it is quarantined
\* (delivery.go), another is stored nowhere, and the updates of the tool reach the update
\* manager of the server once, in order, and are never its own (updatepipe).
THEOREM StorageSound == Spec => []TransfersSound
<1>1. StorageInv => TransfersSound
  <2> SUFFICES ASSUME StorageInv PROVE TransfersSound
    OBVIOUS
  <2>1. MailTyped /\ Lives /\ Outs /\ Inbs /\ Wires /\ Seens /\ OrderInv /\ StoredOnce
    BY Parts DEF StorageInv
  <2>2. TypeOK
    BY <2>1 DEF TypeOK, MailTyped, Lives, Outs, Inbs, Wires, Seens
  <2> QED BY <2>1, <2>2 DEF TransfersSound, NoEchoNoReorder, OrderInv
<1> QED BY <1>1, StorageInit, StorageStep, PTL DEF Spec

\* A Close of the storage that returned has pushed all updates of its process, and as long
\* as no process was killed a server that starts again finds its socket free
\* (imapsql.go Close, unix_pipe.go Close).
THEOREM StopsClean == Spec => []CleanStop
<1>1. StorageInv => CleanStop
  BY Processes DEF StorageInv, CleanStop, PipeShape, FlushedOnClose, CleanRestartListens
<1> QED BY <1>1, StorageInit, StorageStep, PTL DEF Spec

=============================================================================
