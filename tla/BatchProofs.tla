---------------------------- MODULE BatchProofs ----------------------------
(***************************************************************************)
(* Proofs about module BatchSink, for every set of callers, batch size,    *)
(* number of events, errors and crashes.                                   *)
(***************************************************************************)
EXTENDS BatchSink, FiniteSetTheorems, TLAPS

\* A caller that flushes has a batch, which ends with its own event.
FlushHasBatch ==
    Alive => \A c \in Callers : callerState[c] = "flushing" => callerBatch[c] # <<>>

BatchInv == TypeOK /\ FlushHasBatch /\ TimerCoverage

LEMMA AppendIds ==
    ASSUME NEW s \in Seq(Ids), NEW e \in Ids
    PROVE  Append(s, e) \in Seq(Ids) /\ Append(s, e) # <<>> /\ Len(s) \in Nat
           /\ Len(Append(s, e)) = Len(s) + 1 /\ (Len(s) = 0 <=> s = <<>>)
OBVIOUS

LEMMA ConcatIds == \A s, r \in Seq(Ids) : s \o r \in Seq(Ids)
OBVIOUS

LEMMA EventsInIds == \A s \in Seq(Ids) : EventsIn(s) \subseteq Ids
BY DEF EventsIn

LEMMA LastOfIds == \A s \in Seq(Ids) : s # <<>> => LastOf(s) \in Ids
BY DEF LastOf

LEMMA StopType ==
    ASSUME NEW T, NEW states \in [Ids -> T], "stopped" \in T, NEW t
    PROVE  Stop(states, t) \in [Ids -> T]
BY DEF Stop

LEMMA InFlightIds == ASSUME NEW P, NEW s \in [P -> Seq(Ids)] PROVE InFlight(s) \subseteq Ids
BY EventsInIds DEF InFlight

LEMMA FlushType ==
    ASSUME BatchInv, Alive, NEW c \in Callers, callerState[c] = "flushing"
    PROVE  /\ callerBatch[c] \in Seq(Ids)
           /\ LastOf(callerBatch[c]) \in Ids
           /\ EventsIn(callerBatch[c]) \subseteq Ids
BY LastOfIds, EventsInIds DEF BatchInv, TypeOK, FlushHasBatch

LEMMA BatchInit == Init => BatchInv
BY BatchAssumption DEF Init, BatchInv, TypeOK, FlushHasBatch, Alive, TimerCoverage, Ids

\* Deliver: the first event of a batch starts the timer of that batch.
LEMMA DeliverStep == ASSUME BatchInv, NEW c \in Callers, Deliver(c) PROVE BatchInv'
<1> DEFINE batch == Append(buffer, next)
           first == StartsBatch(batch)
           t == IF first THEN NewTimer ELSE timer
           states == IF first THEN [timerState EXCEPT ![NewTimer] = "armed"] ELSE timerState
<1> USE DEF BatchInv
<1>1. next \in Ids /\ next' = next + 1 /\ next' \in 1..(MaxEvents + 1)
  BY BatchAssumption DEF Deliver, TypeOK, Ids
<1>2. /\ batch \in Seq(Ids) /\ batch # <<>> /\ Len(batch) = Len(buffer) + 1
      /\ first <=> buffer = <<>>
  BY <1>1, AppendIds DEF TypeOK, StartsBatch
<1>3. /\ t \in 0..MaxEvents
      /\ states \in [Ids -> {"none", "armed", "fired", "flushing", "done", "stopped"}]
      /\ t # 0 /\ states[t] \in {"armed", "fired"}
  BY <1>1, <1>2, BatchAssumption DEF TypeOK, TimerCoverage, Ids, NewTimer
<1>4. Stop(states, t) \in [Ids -> {"none", "armed", "fired", "flushing", "done", "stopped"}]
  BY <1>3, StopType
<1>5. \/ /\ buffer' = <<>> /\ timer' = 0 /\ timerState' = Stop(states, t)
         /\ callerState' = [callerState EXCEPT ![c] = "flushing"]
         /\ callerBatch' = [callerBatch EXCEPT ![c] = batch]
         /\ accepted' = accepted
      \/ /\ buffer' = batch /\ timer' = t /\ timerState' = states
         /\ accepted' = accepted \cup {next}
         /\ UNCHANGED callerVars
  BY DEF Deliver
<1>6. UNCHANGED <<timerBatch, closeVars, ctxDone, stream, rejected, delivered, dropped, errors, crashes>>
  BY DEF Deliver
<1> HIDE DEF batch, first, t, states
<1>7. TypeOK'
  <2>4. accepted \subseteq Ids /\ 0 \in 0..MaxEvents /\ <<>> \in Seq(Ids)
    BY BatchAssumption DEF TypeOK
  <2>1. buffer' \in Seq(Ids) /\ timer' \in 0..MaxEvents /\ accepted' \subseteq Ids
    BY <1>1, <1>2, <1>3, <1>5, <2>4
  <2>2. timerState' \in [Ids -> {"none", "armed", "fired", "flushing", "done", "stopped"}]
    BY <1>3, <1>4, <1>5
  <2>3. callerState' \in [Callers -> {"idle", "flushing"}] /\ callerBatch' \in [Callers -> Seq(Ids)]
    BY <1>2, <1>5 DEF TypeOK, callerVars
  <2> QED BY <1>1, <1>6, <2>1, <2>2, <2>3 DEF TypeOK, closeVars
<1>8. FlushHasBatch'
  <2>1. Alive /\ callerBatch \in [Callers -> Seq(Ids)] /\ callerState \in [Callers -> {"idle", "flushing"}]
    BY DEF Deliver, TypeOK
  <2> QED BY <1>2, <1>5, <2>1 DEF FlushHasBatch, callerVars
<1>9. TimerCoverage'
  BY <1>3, <1>5 DEF TimerCoverage
<1> QED BY <1>7, <1>8, <1>9

LEMMA FlushStep == ASSUME BatchInv, NEW c \in Callers, Flush(c) PROVE BatchInv'
<1>1. Alive /\ callerState[c] = "flushing"
  BY DEF Flush, FlushOk, FlushError
<1>2. /\ callerBatch[c] \in Seq(Ids) /\ LastOf(callerBatch[c]) \in Ids
      /\ EventsIn(callerBatch[c]) \subseteq Ids
  BY <1>1, FlushType
<1> USE DEF BatchInv
<1>3. CASE FlushOk(c)
  <2>1. delivered' \in Seq(Ids) /\ accepted' \subseteq Ids
    BY <1>2, <1>3, ConcatIds DEF FlushOk, TypeOK
  <2>2. TypeOK'
    BY <1>3, <2>1 DEF FlushOk, TypeOK, timerVars, closeVars, streamVars
  <2> QED BY <1>3, <2>2 DEF FlushOk, TypeOK, FlushHasBatch, Alive, TimerCoverage, timerVars
<1>4. CASE FlushError(c)
  <2>1. rejected' \subseteq Ids /\ dropped' \subseteq Ids /\ errors' \in Nat
    BY <1>2, <1>4 DEF FlushError, BatchFails, TypeOK
  <2>2. TypeOK'
    BY <1>4, <2>1 DEF FlushError, TypeOK, timerVars, closeVars
  <2> QED BY <1>4, <2>2 DEF FlushError, TypeOK, FlushHasBatch, Alive, TimerCoverage, timerVars
<1> QED BY <1>3, <1>4 DEF Flush

\* The callback: only TimerTake disturbs the cover, and it leaves the buffer empty.
LEMMA TimerStep ==
    ASSUME BatchInv, NEW t \in Ids, TimerFire(t) \/ TimerTake(t) \/ TimerFlush(t)
    PROVE  BatchInv'
<1> USE DEF BatchInv
<1>1. CASE TimerFire(t)
  <2>1. TypeOK'
    BY <1>1 DEF TimerFire, TypeOK, callerVars, closeVars, streamVars
  <2> QED BY <1>1, <2>1 DEF TimerFire, TypeOK, FlushHasBatch, Alive, TimerCoverage, callerVars, Ids
<1>2. CASE TimerTake(t)
  <2>1. TypeOK'
    BY <1>2 DEF TimerTake, FreshBuffer, TypeOK, callerVars, closeVars, streamVars
  <2> QED BY <1>2, <2>1 DEF TimerTake, FreshBuffer, FlushHasBatch, Alive, TimerCoverage, callerVars, closeVars
<1>3. CASE TimerFlush(t)
  <2>1. timerBatch[t] \in Seq(Ids) /\ EventsIn(timerBatch[t]) \subseteq Ids
    BY EventsInIds DEF TypeOK
  <2>2. TimerEnds(t)
    BY <1>3 DEF TimerFlush, TimerFlushOk, TimerFlushError
  <2>3. delivered' \in Seq(Ids) /\ dropped' \subseteq Ids /\ errors' \in Nat
    <3>1. delivered \in Seq(Ids) /\ dropped \subseteq Ids /\ errors \in Nat
      BY DEF TypeOK
    <3>2. CASE TimerFlushOk(t)
      BY <2>1, <3>1, <3>2, ConcatIds DEF TimerFlushOk
    <3>3. CASE TimerFlushError(t)
      BY <2>1, <3>1, <3>3 DEF TimerFlushError, BatchFails
    <3> QED BY <1>3, <3>2, <3>3 DEF TimerFlush
  <2>4. TypeOK'
    BY <2>2, <2>3 DEF TimerEnds, TypeOK, callerVars, closeVars, streamVars
  <2> QED BY <2>2, <2>4 DEF TimerEnds, TypeOK, FlushHasBatch, Alive, TimerCoverage, callerVars
<1> QED BY <1>1, <1>2, <1>3

LEMMA ExitStep == ASSUME BatchInv, Exit, crashes' \in Nat PROVE BatchInv'
<1> USE DEF BatchInv
<1>1. rejected' \subseteq Ids /\ dropped' \subseteq Ids
  BY InFlightIds DEF Exit, TypeOK
<1>2. TypeOK'
  BY <1>1 DEF Exit, TypeOK, streamVars
<1>3. FlushHasBatch'
  BY DEF Exit, FlushHasBatch, Alive
<1> QED BY <1>2, <1>3 DEF Exit, TimerCoverage

LEMMA CloseStep == ASSUME BatchInv, Close PROVE BatchInv'
<1> USE DEF BatchInv
<1>1. CASE CloseTake
  <2>1. timerState' \in [Ids -> {"none", "armed", "fired", "flushing", "done", "stopped"}]
    BY <1>1, StopType DEF CloseTake, TypeOK
  <2>2. TypeOK'
    BY <1>1, <2>1, BatchAssumption DEF CloseTake, TypeOK, callerVars, streamVars
  <2> QED BY <1>1, <2>2 DEF CloseTake, FlushHasBatch, Alive, TimerCoverage, callerVars
<1>2. CASE CloseFlushOk \/ CloseFlushError
  <2>1. CloseEnds
    BY <1>2 DEF CloseFlushOk, CloseFlushError
  <2>2. delivered' \in Seq(Ids) /\ dropped' \subseteq Ids /\ errors' \in Nat
    <3>1. delivered \in Seq(Ids) /\ dropped \subseteq Ids /\ errors \in Nat /\ closeBatch \in Seq(Ids)
      BY DEF TypeOK
    <3>2. CASE CloseFlushOk
      BY <3>1, <3>2, ConcatIds DEF CloseFlushOk
    <3>3. CASE CloseFlushError
      BY <3>1, <3>3, EventsInIds DEF CloseFlushError
    <3> QED BY <1>2, <3>2, <3>3
  <2>3. TypeOK'
    BY <2>1, <2>2 DEF CloseEnds, TypeOK, timerVars, callerVars, streamVars
  <2> QED BY <2>1, <2>3 DEF CloseEnds, FlushHasBatch, Alive, TimerCoverage, timerVars, callerVars
<1>3. CASE CloseReturns
  <2>1. TypeOK'
    BY <1>3 DEF CloseReturns, TypeOK, timerVars, callerVars, streamVars
  <2> QED BY <1>3, <2>1 DEF CloseReturns, FlushHasBatch, Alive, TimerCoverage, timerVars, callerVars
<1>4. CASE MainReturns
  BY <1>4, ExitStep DEF MainReturns, TypeOK
<1> QED BY <1>1, <1>2, <1>3, <1>4 DEF Close

LEMMA BatchStep == ASSUME BatchInv, [Next]_vars PROVE BatchInv'
<1>1. CASE Kill
  BY <1>1, ExitStep DEF Kill, BatchInv, TypeOK
<1>2. CASE Cancel \/ StreamReturns
  <2>1. TypeOK'
    BY <1>2 DEF Cancel, StreamReturns, BatchInv, TypeOK, timerVars, callerVars, closeVars
  <2> QED BY <1>2, <2>1 DEF Cancel, StreamReturns, BatchInv, FlushHasBatch, Alive, TimerCoverage, timerVars,
             callerVars
<1>3. CASE UNCHANGED vars
  BY <1>3 DEF vars, BatchInv, TypeOK, FlushHasBatch, Alive, TimerCoverage, timerVars, callerVars, closeVars,
     streamVars
<1> QED BY <1>1, <1>2, <1>3, DeliverStep, FlushStep, TimerStep, CloseStep DEF Next

\* BatchSink: every variable keeps its type.
THEOREM BatchTypeCorrect == Spec => []TypeOK
<1>1. BatchInv => TypeOK
  BY DEF BatchInv
<1> QED BY <1>1, BatchInit, BatchStep, PTL DEF Spec

\* A buffered event never waits without a timer: whatever number of callers,
\* stale callbacks, late Stops, errors and crashes there are, a batch that is not
\* empty has a timer that has yet to run its callback.
THEOREM BufferIsCovered == Spec => []TimerCoverage
<1>1. BatchInv => TimerCoverage
  BY DEF BatchInv
<1> QED BY <1>1, BatchInit, BatchStep, PTL DEF Spec
-----------------------------------------------------------------------------
(* Where the events are. *)

Entered == 1..(next - 1)

\* Every event that entered Deliver has its place, and no other event has one.
Placed ==
    /\ \A p \in Places : At(p) \subseteq Entered
    /\ \A e \in Entered : \E p \in Places : \A q \in Places : e \in At(q) <=> q = p

NoRepeats(s) == \A j, k \in 1..Len(s) : s[j] = s[k] => j = k

\* No batch holds an event twice, nor does the destination.
Distinct ==
    /\ NoRepeats(buffer) /\ NoRepeats(closeBatch) /\ NoRepeats(delivered)
    /\ \A t \in Ids : NoRepeats(timerBatch[t])
    /\ \A c \in Callers : NoRepeats(callerBatch[c])

\* Deliver has returned nil for what the buffer, a timer or Close holds: only a
\* caller's batch has an event whose fate is open.
HeldIsAccepted ==
    /\ EventsIn(buffer) \subseteq accepted
    /\ EventsIn(closeBatch) \subseteq accepted
    /\ \A t \in Ids : EventsIn(timerBatch[t]) \subseteq accepted

\* Whoever takes the buffer has nothing left of an earlier batch.
NoLeftovers ==
    /\ \A t \in Ids : timerState[t] # "flushing" => timerBatch[t] = <<>>
    /\ \A t \in Ids : t >= next => timerState[t] = "none"
    /\ \A c \in Callers : callerState[c] # "flushing" => callerBatch[c] = <<>>
    /\ closeState # "flushing" => closeBatch = <<>>

RoomInBuffer == Len(buffer) < MaxSize

PlaceInv == Placed /\ Distinct /\ HeldIsAccepted /\ NoLeftovers /\ RoomInBuffer /\ BatchBounded

LEMMA EventsEmpty == EventsIn(<<>>) = {} /\ NoRepeats(<<>>)
BY DEF EventsIn, NoRepeats

LEMMA EventsAppend ==
    ASSUME NEW s \in Seq(Ids), NEW e \in Ids
    PROVE  /\ EventsIn(Append(s, e)) = EventsIn(s) \cup {e}
           /\ LastOf(Append(s, e)) = e
           /\ NoRepeats(s) /\ e \notin EventsIn(s) => NoRepeats(Append(s, e))
<1>1. /\ Len(Append(s, e)) = Len(s) + 1 /\ Len(s) \in Nat
      /\ \A k \in 1..Len(s) : Append(s, e)[k] = s[k]
      /\ Append(s, e)[Len(s) + 1] = e
      /\ DOMAIN s = 1..Len(s) /\ DOMAIN Append(s, e) = 1..(Len(s) + 1)
  OBVIOUS
<1>2. EventsIn(Append(s, e)) = EventsIn(s) \cup {e}
  BY <1>1 DEF EventsIn
<1>3. NoRepeats(s) /\ e \notin EventsIn(s) => NoRepeats(Append(s, e))
  BY <1>1 DEF EventsIn, NoRepeats
<1> QED BY <1>1, <1>2, <1>3 DEF LastOf

LEMMA EventsConcat ==
    ASSUME NEW s \in Seq(Ids), NEW r \in Seq(Ids)
    PROVE  /\ EventsIn(s \o r) = EventsIn(s) \cup EventsIn(r)
           /\ NoRepeats(s) /\ NoRepeats(r) /\ EventsIn(s) \cap EventsIn(r) = {} => NoRepeats(s \o r)
<1>1. /\ Len(s \o r) = Len(s) + Len(r) /\ Len(s) \in Nat /\ Len(r) \in Nat
      /\ \A k \in 1..Len(s) : (s \o r)[k] = s[k]
      /\ \A k \in 1..Len(r) : (s \o r)[Len(s) + k] = r[k]
      /\ DOMAIN s = 1..Len(s) /\ DOMAIN r = 1..Len(r) /\ DOMAIN (s \o r) = 1..(Len(s) + Len(r))
  OBVIOUS
<1>2. \A k \in (Len(s) + 1)..(Len(s) + Len(r)) : k - Len(s) \in 1..Len(r) /\ (s \o r)[k] = r[k - Len(s)]
  <2>1. \A k \in (Len(s) + 1)..(Len(s) + Len(r)) : k - Len(s) \in 1..Len(r) /\ k = Len(s) + (k - Len(s))
    BY <1>1
  <2> QED BY <1>1, <2>1
<1>3. EventsIn(s \o r) = EventsIn(s) \cup EventsIn(r)
  <2>1. \A k \in 1..(Len(s) + Len(r)) : k \in 1..Len(s) \/ k \in (Len(s) + 1)..(Len(s) + Len(r))
    BY <1>1
  <2>2. \A k \in 1..Len(r) : Len(s) + k \in 1..(Len(s) + Len(r))
    BY <1>1
  <2>3. \A k \in 1..Len(s) : k \in 1..(Len(s) + Len(r))
    BY <1>1
  <2>4. EventsIn(s \o r) \subseteq EventsIn(s) \cup EventsIn(r)
    BY <1>1, <1>2, <2>1 DEF EventsIn
  <2>5. EventsIn(s) \subseteq EventsIn(s \o r)
    BY <1>1, <2>3 DEF EventsIn
  <2>6. EventsIn(r) \subseteq EventsIn(s \o r)
    <3>1. \A k \in 1..Len(r) : Len(s) + k \in DOMAIN (s \o r) /\ (s \o r)[Len(s) + k] = r[k]
      BY <1>1, <2>2
    <3> HIDE <2>2
    <3> QED BY <1>1, <3>1 DEF EventsIn
  <2> QED BY <2>4, <2>5, <2>6
<1>4. ASSUME NoRepeats(s), NoRepeats(r), EventsIn(s) \cap EventsIn(r) = {} PROVE NoRepeats(s \o r)
  <2> SUFFICES ASSUME NEW j \in 1..(Len(s) + Len(r)), NEW k \in 1..(Len(s) + Len(r)),
                      (s \o r)[j] = (s \o r)[k]
               PROVE  j = k
    BY <1>1 DEF NoRepeats
  <2>1. \A i \in 1..(Len(s) + Len(r)) : i \in 1..Len(s) \/ i \in (Len(s) + 1)..(Len(s) + Len(r))
    BY <1>1
  <2>2. \A i \in 1..Len(s) : (s \o r)[i] \in EventsIn(s)
    BY <1>1 DEF EventsIn
  <2>3. \A i \in (Len(s) + 1)..(Len(s) + Len(r)) : (s \o r)[i] \in EventsIn(r)
    BY <1>1, <1>2 DEF EventsIn
  <2>4. CASE j \in 1..Len(s) /\ k \in 1..Len(s)
    BY <1>1, <1>4, <2>4 DEF NoRepeats
  <2>5. CASE j \in (Len(s) + 1)..(Len(s) + Len(r)) /\ k \in (Len(s) + 1)..(Len(s) + Len(r))
    <3>1. j - Len(s) = k - Len(s)
      BY <1>2, <1>4, <2>5 DEF NoRepeats
    <3> QED BY <1>1, <3>1
  <2> QED BY <1>4, <2>1, <2>2, <2>3, <2>4, <2>5
<1> QED BY <1>3, <1>4

LEMMA PlaceForms ==
    /\ <<"buffer", 0>> \in Places /\ <<"close", 0>> \in Places /\ <<"delivered", 0>> \in Places
    /\ <<"dropped", 0>> \in Places /\ <<"rejected", 0>> \in Places
    /\ \A t \in Ids : <<"timer", t>> \in Places
    /\ \A c \in Callers : <<"caller", c>> \in Places
    /\ \A p \in Places : \/ p \in {<<"buffer", 0>>, <<"close", 0>>, <<"delivered", 0>>,
                                   <<"dropped", 0>>, <<"rejected", 0>>}
                         \/ \E t \in Ids : p = <<"timer", t>>
                         \/ \E c \in Callers : p = <<"caller", c>>
BY DEF Places

LEMMA AtForms ==
    /\ At(<<"buffer", 0>>) = EventsIn(buffer)
    /\ At(<<"close", 0>>) = EventsIn(closeBatch)
    /\ At(<<"delivered", 0>>) = EventsIn(delivered)
    /\ At(<<"dropped", 0>>) = dropped
    /\ At(<<"rejected", 0>>) = rejected
    /\ \A t \in Ids : At(<<"timer", t>>) = EventsIn(timerBatch[t])
    /\ \A c \in Callers : At(<<"caller", c>>) = EventsIn(callerBatch[c])
BY DEF At

\* Events change place together.
LEMMA Move ==
    ASSUME Placed, NEW a \in Places, NEW b \in Places, a # b, NEW M, M \subseteq At(a),
           next' = next, At(a)' = At(a) \ M, At(b)' = At(b) \cup M,
           \A p \in Places \ {a, b} : At(p)' = At(p)
    PROVE  Placed'
<1>1. Entered' = Entered
  BY DEF Entered
<1>2. \A p \in Places : At(p)' \subseteq Entered
  BY DEF Placed
<1>3. ASSUME NEW e \in Entered PROVE \E p \in Places : \A q \in Places : e \in At(q)' <=> q = p
  <2>1. PICK p \in Places : \A q \in Places : e \in At(q) <=> q = p
    BY DEF Placed
  <2>2. CASE p = a /\ e \in M
    <3>1. \A q \in Places : e \in At(q)' <=> q = b
      BY <2>1, <2>2
    <3> QED BY <3>1
  <2>3. CASE ~(p = a /\ e \in M)
    <3>1. \A q \in Places : e \in At(q)' <=> q = p
      BY <2>1, <2>3
    <3> QED BY <3>1
  <2> QED BY <2>2, <2>3
<1> QED BY <1>1, <1>2, <1>3 DEF Placed, Places, Ids

\* An event enters.
LEMMA Enter ==
    ASSUME Placed, NEW b \in Places, next \in Nat \ {0}, next' = next + 1, At(b)' = At(b) \cup {next},
           \A p \in Places \ {b} : At(p)' = At(p)
    PROVE  Placed'
<1>1. Entered' = Entered \cup {next} /\ next \notin Entered
  BY DEF Entered
<1>2. \A p \in Places : At(p)' \subseteq Entered'
  BY <1>1 DEF Placed
<1>3. ASSUME NEW e \in Entered PROVE \E p \in Places : \A q \in Places : e \in At(q)' <=> q = p
  BY <1>1 DEF Placed
<1>4. \A q \in Places : next \in At(q)' <=> q = b
  BY <1>1 DEF Placed
<1> QED BY <1>1, <1>2, <1>3, <1>4 DEF Placed, Places, Ids

\* An event enters and takes those of another place along.
LEMMA EnterAndMove ==
    ASSUME Placed, NEW a \in Places, NEW b \in Places, a # b, next \in Nat \ {0}, next' = next + 1,
           At(a)' = {}, At(b)' = At(b) \cup At(a) \cup {next},
           \A p \in Places \ {a, b} : At(p)' = At(p)
    PROVE  Placed'
<1>1. Entered' = Entered \cup {next} /\ next \notin Entered
  BY DEF Entered
<1>2. \A p \in Places : At(p)' \subseteq Entered'
  BY <1>1 DEF Placed
<1>3. ASSUME NEW e \in Entered PROVE \E p \in Places : \A q \in Places : e \in At(q)' <=> q = p
  <2>1. PICK p \in Places : \A q \in Places : e \in At(q) <=> q = p
    BY DEF Placed
  <2>2. CASE p = a
    <3>1. \A q \in Places : e \in At(q)' <=> q = b
      BY <1>1, <2>1, <2>2
    <3> QED BY <3>1
  <2>3. CASE p # a
    <3>1. \A q \in Places : e \in At(q)' <=> q = p
      BY <1>1, <2>1, <2>3
    <3> QED BY <3>1
  <2> QED BY <2>2, <2>3
<1>4. \A q \in Places : next \in At(q)' <=> q = b
  BY <1>1 DEF Placed
<1> QED BY <1>1, <1>2, <1>3, <1>4 DEF Placed, Places, Ids

\* What is at two places is different.
LEMMA PlacesDisjoint ==
    ASSUME Placed, NEW p \in Places, NEW q \in Places, p # q
    PROVE  At(p) \cap At(q) = {}
BY DEF Placed

LEMMA PlaceInit == Init => PlaceInv
<1> SUFFICES ASSUME Init PROVE PlaceInv
  OBVIOUS
<1>1. \A p \in Places : At(p) = {}
  BY PlaceForms, AtForms, EventsEmpty DEF Init
<1>2. Placed
  BY <1>1 DEF Placed, Entered, Init
<1>3. Distinct
  BY EventsEmpty DEF Distinct, Init
<1>4. HeldIsAccepted
  BY EventsEmpty DEF HeldIsAccepted, Init
<1>5. NoLeftovers /\ RoomInBuffer /\ BatchBounded
  BY BatchAssumption DEF NoLeftovers, RoomInBuffer, BatchBounded, Init
<1> QED BY <1>2, <1>3, <1>4, <1>5 DEF PlaceInv

LEMMA DeliverPlaces == ASSUME BatchInv, PlaceInv, NEW c \in Callers, Deliver(c) PROVE PlaceInv'
<1> DEFINE batch == Append(buffer, next)
           t == IF StartsBatch(batch) THEN NewTimer ELSE timer
           states == IF StartsBatch(batch) THEN [timerState EXCEPT ![NewTimer] = "armed"] ELSE timerState
<1>1. /\ next \in Ids /\ next' = next + 1 /\ next \in Nat \ {0} /\ callerState[c] = "idle"
      /\ UNCHANGED <<timerBatch, closeState, closeBatch, rejected, delivered, dropped>>
      /\ \/ /\ Len(batch) >= MaxSize /\ buffer' = <<>> /\ timerState' = Stop(states, t)
            /\ callerState' = [callerState EXCEPT ![c] = "flushing"]
            /\ callerBatch' = [callerBatch EXCEPT ![c] = batch]
            /\ accepted' = accepted
         \/ /\ ~(Len(batch) >= MaxSize) /\ buffer' = batch /\ timerState' = states
            /\ accepted' = accepted \cup {next}
            /\ UNCHANGED <<callerState, callerBatch>>
  BY BatchAssumption DEF Deliver, Full, closeVars, callerVars, Ids, BatchInv, TypeOK
<1>2. /\ Placed /\ Distinct /\ HeldIsAccepted /\ NoLeftovers /\ RoomInBuffer /\ BatchBounded
      /\ buffer \in Seq(Ids) /\ callerBatch \in [Callers -> Seq(Ids)] /\ callerBatch[c] = <<>>
      /\ callerState \in [Callers -> {"idle", "flushing"}]
      /\ timerState \in [Ids -> {"none", "armed", "fired", "flushing", "done", "stopped"}]
  BY <1>1 DEF PlaceInv, BatchInv, TypeOK, NoLeftovers
<1>3. next \notin EventsIn(buffer)
  BY <1>2, PlaceForms, AtForms DEF Placed, Entered
<1>4. /\ EventsIn(batch) = EventsIn(buffer) \cup {next} /\ NoRepeats(batch)
      /\ batch \in Seq(Ids) /\ Len(batch) = Len(buffer) + 1 /\ Len(buffer) \in Nat
  BY <1>1, <1>2, <1>3, EventsAppend, AppendIds DEF Distinct
<1>5. \A u \in Ids : timerState[u] # "flushing" => timerState'[u] # "flushing"
  BY <1>1, <1>2 DEF Stop
<1>6. \A u \in Ids : u >= next + 1 => timerState'[u] = "none"
  <2>1. \A u \in Ids : u >= next + 1 => timerState[u] = "none" /\ u # next
    BY <1>1, <1>2 DEF NoLeftovers, Ids
  <2>2. \A u \in Ids : u >= next + 1 => states[u] = "none"
    BY <1>2, <2>1 DEF NewTimer
  <2>3. states \in [Ids -> {"none", "armed", "fired", "flushing", "done", "stopped"}]
    BY <1>2
  <2> QED BY <1>1, <2>2, <2>3 DEF Stop
<1>7. NoLeftovers'
  <2>1. \A u \in Ids : timerState'[u] # "flushing" => timerBatch'[u] = <<>>
    <3>1. \A u \in Ids : u # next /\ timerState'[u] # "flushing" => timerState[u] # "flushing"
      BY <1>1, <1>2 DEF Stop, NewTimer
    <3>2. timerBatch[next] = <<>>
      <4>1. next >= next
        BY <1>1
      <4>2. timerState[next] = "none"
        BY <1>1, <1>2, <4>1 DEF NoLeftovers
      <4> QED BY <1>1, <1>2, <4>2 DEF NoLeftovers
    <3> QED BY <1>1, <1>2, <3>1, <3>2 DEF NoLeftovers
  <2>2. \A d \in Callers : callerState'[d] # "flushing" => callerBatch'[d] = <<>>
    BY <1>1, <1>2 DEF NoLeftovers
  <2> QED BY <1>1, <1>2, <1>6, <2>1, <2>2 DEF NoLeftovers
<1> HIDE DEF batch, t, states
<1>8. CASE buffer' = <<>> /\ callerBatch' = [callerBatch EXCEPT ![c] = batch] /\ accepted' = accepted
  <2>1. Placed'
    <3> DEFINE a == <<"buffer", 0>>  b == <<"caller", c>>
    <3>1. a \in Places /\ b \in Places /\ a # b
      BY PlaceForms
    <3>2. At(a) = EventsIn(buffer) /\ At(b) = {} /\ At(a)' = {} /\ At(b)' = EventsIn(batch)
      BY <1>2, <1>8, EventsEmpty DEF At
    <3>3. \A p \in Places \ {a, b} : At(p)' = At(p)
      BY <1>1, <1>2, <1>8, PlaceForms DEF At
    <3>4. At(b)' = At(b) \cup At(a) \cup {next}
      BY <1>4, <3>2
    <3> HIDE DEF a, b
    <3> QED BY <1>1, <1>2, <3>1, <3>2, <3>3, <3>4, EnterAndMove
  <2>2. Distinct'
    BY <1>1, <1>2, <1>4, <1>8, EventsEmpty DEF Distinct
  <2>3. HeldIsAccepted'
    BY <1>1, <1>2, <1>8, EventsEmpty DEF HeldIsAccepted
  <2>4. RoomInBuffer' /\ BatchBounded'
    <3>1. Len(batch) <= MaxSize
      BY <1>2, <1>4, BatchAssumption DEF RoomInBuffer
    <3> QED BY <1>1, <1>2, <1>8, <3>1, BatchAssumption DEF RoomInBuffer, BatchBounded
  <2> QED BY <1>7, <2>1, <2>2, <2>3, <2>4 DEF PlaceInv
<1>9. CASE buffer' = batch /\ Len(batch) < MaxSize /\ accepted' = accepted \cup {next}
           /\ UNCHANGED <<callerState, callerBatch>>
  <2>1. Placed'
    <3> DEFINE b == <<"buffer", 0>>
    <3>1. b \in Places /\ At(b)' = At(b) \cup {next}
      BY <1>4, <1>9, PlaceForms DEF At
    <3>2. \A p \in Places \ {b} : At(p)' = At(p)
      BY <1>1, <1>9, PlaceForms DEF At
    <3> QED BY <1>1, <1>2, <3>1, <3>2, Enter
  <2>2. Distinct'
    BY <1>1, <1>2, <1>4, <1>9 DEF Distinct
  <2>3. HeldIsAccepted'
    BY <1>1, <1>2, <1>4, <1>9 DEF HeldIsAccepted
  <2>4. RoomInBuffer' /\ BatchBounded'
    BY <1>1, <1>2, <1>9 DEF RoomInBuffer, BatchBounded
  <2> QED BY <1>7, <2>1, <2>2, <2>3, <2>4 DEF PlaceInv
<1> QED
  <2>1. ~(Len(batch) >= MaxSize) => Len(batch) < MaxSize
    BY <1>4, BatchAssumption
  <2> QED BY <1>1, <1>8, <1>9, <2>1

\* A flush that succeeds puts a batch of one place at the destination.
LEMMA Delivers ==
    ASSUME BatchInv, Placed, Distinct, NEW s \in Seq(Ids), NoRepeats(s),
           NEW p \in Places, At(p) = EventsIn(s), p # <<"delivered", 0>>, delivered' = delivered \o s
    PROVE  /\ At(<<"delivered", 0>>)' = At(<<"delivered", 0>>) \cup At(p)
           /\ NoRepeats(delivered')
<1>1. EventsIn(delivered) \cap EventsIn(s) = {}
  BY PlacesDisjoint, PlaceForms, AtForms
<1>2. delivered \in Seq(Ids)
  BY DEF BatchInv, TypeOK
<1> QED BY <1>1, <1>2, EventsConcat DEF Distinct, At

LEMMA FlushPlaces == ASSUME BatchInv, PlaceInv, NEW c \in Callers, Flush(c) PROVE PlaceInv'
<1> DEFINE a == <<"caller", c>>  s == callerBatch[c]
<1>1. /\ Alive /\ callerState[c] = "flushing"
      /\ callerState' = [callerState EXCEPT ![c] = "idle"]
      /\ callerBatch' = [callerBatch EXCEPT ![c] = <<>>]
      /\ UNCHANGED <<buffer, timerState, timerBatch, closeState, closeBatch, next>>
  BY DEF Flush, FlushOk, FlushError, timerVars, closeVars, streamVars
<1>2. /\ Placed /\ Distinct /\ HeldIsAccepted /\ NoLeftovers /\ RoomInBuffer /\ BatchBounded
      /\ callerBatch \in [Callers -> Seq(Ids)] /\ s \in Seq(Ids) /\ s # <<>>
      /\ callerState \in [Callers -> {"idle", "flushing"}]
  BY <1>1 DEF PlaceInv, BatchInv, TypeOK, FlushHasBatch
<1>3. LastOf(s) \in EventsIn(s)
  BY <1>2 DEF LastOf, EventsIn
<1>4. /\ a \in Places /\ At(a) = EventsIn(s) /\ At(a)' = {}
      /\ a # <<"delivered", 0>> /\ a # <<"dropped", 0>> /\ a # <<"rejected", 0>>
  BY <1>1, <1>2, PlaceForms, EventsEmpty DEF At
<1>5. NoLeftovers' /\ RoomInBuffer' /\ BatchBounded'
  <2>1. NoLeftovers'
    BY <1>1, <1>2 DEF NoLeftovers
  <2>2. RoomInBuffer'
    BY <1>1, <1>2 DEF RoomInBuffer
  <2>3. BatchBounded'
    BY <1>1, <1>2, BatchAssumption DEF BatchBounded
  <2> QED BY <2>1, <2>2, <2>3
<1>6. CASE FlushOk(c)
  <2>1. /\ delivered' = delivered \o s /\ accepted' = accepted \cup {LastOf(s)}
        /\ UNCHANGED <<rejected, dropped>>
    BY <1>6 DEF FlushOk
  <2>2. At(<<"delivered", 0>>)' = At(<<"delivered", 0>>) \cup At(a) /\ NoRepeats(delivered')
    <3>1. NoRepeats(s)
      BY <1>2 DEF Distinct
    <3> HIDE DEF a, s
    <3> QED BY <1>2, <1>4, <2>1, <3>1, Delivers
  <2>3. \A p \in Places \ {a, <<"delivered", 0>>} : At(p)' = At(p)
    BY <1>1, <1>2, <2>1, PlaceForms DEF At
  <2>4. Placed'
    <3>1. At(a)' = At(a) \ At(a) /\ At(a) \subseteq At(a)
      BY <1>4
    <3> HIDE DEF a
    <3> QED BY <1>1, <1>2, <1>4, <2>2, <2>3, <3>1, PlaceForms, Move
  <2>5. Distinct'
    BY <1>1, <1>2, <2>2, EventsEmpty DEF Distinct
  <2>6. HeldIsAccepted'
    BY <1>1, <1>2, <2>1 DEF HeldIsAccepted
  <2> QED BY <1>5, <2>4, <2>5, <2>6 DEF PlaceInv
<1>7. CASE FlushError(c)
  <2>1. /\ rejected' = rejected \cup {LastOf(s)}
        /\ dropped' = dropped \cup (EventsIn(s) \ {LastOf(s)})
        /\ UNCHANGED <<delivered, accepted>>
    BY <1>7 DEF FlushError
  <2>2. Distinct' /\ HeldIsAccepted'
    <3>1. Distinct'
      BY <1>1, <1>2, <2>1, EventsEmpty DEF Distinct
    <3>2. HeldIsAccepted'
      BY <1>1, <1>2, <2>1 DEF HeldIsAccepted
    <3> QED BY <3>1, <3>2
  <2>3. \A p \in Places \ {a, <<"dropped", 0>>, <<"rejected", 0>>} : At(p)' = At(p)
    BY <1>1, <1>2, <2>1, PlaceForms DEF At
  <2>4. /\ At(<<"rejected", 0>>)' = At(<<"rejected", 0>>) \cup {LastOf(s)}
        /\ At(<<"dropped", 0>>)' = At(<<"dropped", 0>>) \cup (At(a) \ {LastOf(s)})
    BY <1>4, <2>1 DEF At
  <2>5. Placed'
    <3> HIDE DEF a, s
    <3>1. Entered' = Entered
      BY <1>1 DEF Entered
    <3>2. \A p \in Places : At(p)' \subseteq Entered
      <4>1. \A p \in Places : At(p)' \subseteq At(p) \cup At(a)
        <5>1. LastOf(s) \in At(a)
          BY <1>3, <1>4
        <5> QED BY <1>4, <2>3, <2>4, <5>1
      <4> QED BY <1>2, <1>4, <4>1 DEF Placed
    <3>3. ASSUME NEW e \in Entered PROVE \E p \in Places : \A q \in Places : e \in At(q)' <=> q = p
      <4>1. PICK p \in Places : \A q \in Places : e \in At(q) <=> q = p
        BY <1>2 DEF Placed
      <4>2. CASE p = a /\ e = LastOf(s)
        <5>1. \A q \in Places : e \in At(q)' <=> q = <<"rejected", 0>>
          BY <1>4, <2>3, <2>4, <4>1, <4>2
        <5> QED BY <5>1, PlaceForms
      <4>3. CASE p = a /\ e # LastOf(s)
        <5>1. \A q \in Places : e \in At(q)' <=> q = <<"dropped", 0>>
          BY <1>4, <2>3, <2>4, <4>1, <4>3
        <5> QED BY <5>1, PlaceForms
      <4>4. CASE p # a
        <5>1. e \notin At(a)
          BY <1>4, <4>1, <4>4
        <5>2. e # LastOf(s)
          BY <1>3, <1>4, <5>1
        <5>3. \A q \in Places : e \in At(q)' <=> q = p
          BY <1>4, <2>3, <2>4, <4>1, <4>4, <5>1, <5>2
        <5> QED BY <5>3
      <4> QED BY <4>2, <4>3, <4>4
    <3> QED BY <3>1, <3>2, <3>3 DEF Placed, Places, Ids
  <2> QED BY <1>5, <2>2, <2>5 DEF PlaceInv
<1> QED BY <1>6, <1>7 DEF Flush

LEMMA TimerPlaces ==
    ASSUME BatchInv, PlaceInv, NEW t \in Ids, TimerFire(t) \/ TimerTake(t) \/ TimerFlush(t)
    PROVE  PlaceInv'
<1> DEFINE b == <<"timer", t>>
<1>1. /\ Placed /\ Distinct /\ HeldIsAccepted /\ NoLeftovers /\ RoomInBuffer /\ BatchBounded
      /\ buffer \in Seq(Ids) /\ timerBatch \in [Ids -> Seq(Ids)]
      /\ timerState \in [Ids -> {"none", "armed", "fired", "flushing", "done", "stopped"}]
  BY DEF PlaceInv, BatchInv, TypeOK
<1>2. /\ UNCHANGED <<callerState, callerBatch, closeState, closeBatch, next, accepted, rejected>>
  BY DEF TimerFire, TimerTake, TimerFlush, TimerFlushOk, TimerFlushError, TimerEnds, callerVars,
         closeVars, streamVars
<1>3. timerState[t] # "none" => ~(t >= next)
  BY <1>1 DEF NoLeftovers
<1>4. b \in Places /\ b # <<"buffer", 0>> /\ b # <<"delivered", 0>> /\ b # <<"dropped", 0>>
      /\ At(b) = EventsIn(timerBatch[t])
  BY PlaceForms, AtForms
<1>5. CASE TimerFire(t)
  <2>1. /\ timerState[t] = "armed" /\ timerState' = [timerState EXCEPT ![t] = "fired"]
        /\ UNCHANGED <<buffer, timerBatch, delivered, dropped>>
    BY <1>5 DEF TimerFire
  <2>2. \A p \in Places : At(p)' = At(p)
    BY <1>2, <2>1, PlaceForms DEF At
  <2>3. Placed'
    BY <1>1, <1>2, <2>2 DEF Placed, Entered, Places, Ids
  <2>4. Distinct' /\ HeldIsAccepted' /\ RoomInBuffer' /\ BatchBounded'
    BY <1>1, <1>2, <2>1 DEF Distinct, HeldIsAccepted, RoomInBuffer, BatchBounded
  <2>5. NoLeftovers'
    BY <1>1, <1>2, <1>3, <2>1 DEF NoLeftovers
  <2> QED BY <2>3, <2>4, <2>5 DEF PlaceInv
<1>6. CASE TimerTake(t)
  <2>1. /\ timerState[t] = "fired"
        /\ timerBatch' = [timerBatch EXCEPT ![t] = buffer] /\ buffer' = <<>>
        /\ timerState' = [timerState EXCEPT ![t] = IF buffer # <<>> THEN "flushing" ELSE "done"]
        /\ UNCHANGED <<delivered, dropped>>
    BY <1>6 DEF TimerTake, FreshBuffer
  <2>2. timerBatch[t] = <<>>
    BY <1>1, <2>1 DEF NoLeftovers
  <2>3. Placed'
    <3> DEFINE a == <<"buffer", 0>>
    <3>1. /\ a \in Places /\ At(a) \subseteq At(a) /\ At(a)' = At(a) \ At(a)
          /\ At(b)' = At(b) \cup At(a)
      BY <1>1, <2>1, <2>2, PlaceForms, EventsEmpty DEF At
    <3>2. \A p \in Places \ {a, b} : At(p)' = At(p)
      BY <1>1, <1>2, <2>1, PlaceForms DEF At
    <3>3. a # b
      BY <1>4
    <3> HIDE DEF a, b
    <3> QED BY <1>1, <1>2, <1>4, <3>1, <3>2, <3>3, Move
  <2>4. Distinct'
    BY <1>1, <1>2, <2>1, EventsEmpty DEF Distinct
  <2>5. HeldIsAccepted'
    BY <1>1, <1>2, <2>1, EventsEmpty DEF HeldIsAccepted
  <2>6. RoomInBuffer' /\ BatchBounded'
    <3>1. Len(buffer) \in Nat /\ Len(buffer) <= MaxSize
      BY <1>1, BatchAssumption DEF RoomInBuffer
    <3> QED BY <1>1, <1>2, <2>1, <3>1, BatchAssumption DEF RoomInBuffer, BatchBounded
  <2>7. NoLeftovers'
    BY <1>1, <1>2, <1>3, <2>1 DEF NoLeftovers
  <2> QED BY <2>3, <2>4, <2>5, <2>6, <2>7 DEF PlaceInv
<1>7. CASE TimerFlush(t)
  <2>1. /\ timerState[t] = "flushing" /\ timerState' = [timerState EXCEPT ![t] = "done"]
        /\ timerBatch' = [timerBatch EXCEPT ![t] = <<>>] /\ buffer' = buffer
    BY <1>7 DEF TimerFlush, TimerFlushOk, TimerFlushError, TimerEnds
  <2>2. HeldIsAccepted' /\ RoomInBuffer' /\ BatchBounded' /\ NoLeftovers'
    <3>1. HeldIsAccepted'
      BY <1>1, <1>2, <2>1, EventsEmpty DEF HeldIsAccepted
    <3>2. RoomInBuffer' /\ BatchBounded'
      BY <1>1, <1>2, <2>1, BatchAssumption DEF RoomInBuffer, BatchBounded
    <3>3. NoLeftovers'
      BY <1>1, <1>2, <1>3, <2>1 DEF NoLeftovers
    <3> QED BY <3>1, <3>2, <3>3
  <2>3. At(b)' = At(b) \ At(b) /\ At(b) \subseteq At(b)
    BY <1>1, <2>1, EventsEmpty DEF At
  <2>4. Placed' /\ NoRepeats(delivered')
    <3>1. CASE TimerFlushOk(t)
      <4>1. delivered' = delivered \o timerBatch[t] /\ dropped' = dropped
        BY <3>1 DEF TimerFlushOk
      <4>2. At(<<"delivered", 0>>)' = At(<<"delivered", 0>>) \cup At(b) /\ NoRepeats(delivered')
        <5>1. NoRepeats(timerBatch[t]) /\ timerBatch[t] \in Seq(Ids)
          BY <1>1 DEF Distinct
        <5> HIDE DEF b
        <5> QED BY <1>1, <1>4, <4>1, <5>1, Delivers
      <4>3. \A p \in Places \ {b, <<"delivered", 0>>} : At(p)' = At(p)
        BY <1>1, <1>2, <2>1, <4>1, PlaceForms DEF At
      <4> HIDE DEF b
      <4> QED BY <1>1, <1>2, <1>4, <2>3, <4>2, <4>3, PlaceForms, Move
    <3>2. CASE TimerFlushError(t)
      <4>1. delivered' = delivered /\ dropped' = dropped \cup EventsIn(timerBatch[t])
        BY <3>2 DEF TimerFlushError
      <4>2. At(<<"dropped", 0>>)' = At(<<"dropped", 0>>) \cup At(b) /\ NoRepeats(delivered')
        BY <1>1, <1>4, <4>1 DEF Distinct, At
      <4>3. \A p \in Places \ {b, <<"dropped", 0>>} : At(p)' = At(p)
        BY <1>1, <1>2, <2>1, <4>1, PlaceForms DEF At
      <4> HIDE DEF b
      <4> QED BY <1>1, <1>2, <1>4, <2>3, <4>2, <4>3, PlaceForms, Move
    <3> QED BY <1>7, <3>1, <3>2 DEF TimerFlush
  <2>5. Distinct'
    BY <1>1, <1>2, <2>1, <2>4, EventsEmpty DEF Distinct
  <2> QED BY <2>2, <2>4, <2>5 DEF PlaceInv
<1> QED BY <1>5, <1>6, <1>7

\* When the process is gone, what was on its way is dropped, or rejected if its
\* Deliver had not returned.
LEMMA ExitPlaces == ASSUME BatchInv, PlaceInv, Exit PROVE PlaceInv'
<1> DEFINE Held == At(<<"buffer", 0>>) \cup At(<<"close", 0>>) \cup UNION {At(<<"timer", t>>) : t \in Ids}
           Open == UNION {At(<<"caller", c>>) : c \in Callers}
<1>1. /\ Placed /\ Distinct /\ HeldIsAccepted /\ NoLeftovers /\ RoomInBuffer /\ BatchBounded
      /\ timerBatch \in [Ids -> Seq(Ids)] /\ callerBatch \in [Callers -> Seq(Ids)]
  BY DEF PlaceInv, BatchInv, TypeOK
<1>2. /\ buffer' = <<>> /\ timerBatch' = [t \in Ids |-> <<>>] /\ callerBatch' = [c \in Callers |-> <<>>]
      /\ closeBatch' = <<>> /\ UNCHANGED <<timerState, next, accepted, delivered>>
      /\ dropped' = dropped \cup ((EventsIn(buffer) \cup InFlight(timerBatch) \cup InFlight(callerBatch)
                                   \cup EventsIn(closeBatch)) \cap accepted)
      /\ rejected' = rejected \cup (InFlight(callerBatch) \ accepted)
  BY DEF Exit, streamVars
<1>3. InFlight(timerBatch) = UNION {At(<<"timer", t>>) : t \in Ids} /\ InFlight(callerBatch) = Open
  <2>1. InFlight(timerBatch) = UNION {EventsIn(timerBatch[t]) : t \in Ids}
    BY <1>1 DEF InFlight
  <2>2. InFlight(callerBatch) = UNION {EventsIn(callerBatch[c]) : c \in Callers}
    BY <1>1 DEF InFlight
  <2> QED BY <2>1, <2>2, AtForms
<1>4. /\ At(<<"dropped", 0>>)' = At(<<"dropped", 0>>) \cup ((Held \cup Open) \cap accepted)
      /\ At(<<"rejected", 0>>)' = At(<<"rejected", 0>>) \cup (Open \ accepted)
      /\ At(<<"delivered", 0>>)' = At(<<"delivered", 0>>)
  BY <1>2, <1>3, AtForms DEF At
<1>5. \A p \in Places \ {<<"dropped", 0>>, <<"rejected", 0>>, <<"delivered", 0>>} : At(p)' = {}
  BY <1>2, PlaceForms, EventsEmpty DEF At
<1>6. Held \subseteq accepted
  BY <1>1, AtForms DEF HeldIsAccepted
<1>7. Placed'
  <2>1. Entered' = Entered
    BY <1>2 DEF Entered
  <2>2. Held \subseteq Entered /\ Open \subseteq Entered
    BY <1>1, PlaceForms DEF Placed
  <2>3. \A p \in Places : At(p)' \subseteq Entered
    <3>1. At(<<"dropped", 0>>) \subseteq Entered /\ At(<<"rejected", 0>>) \subseteq Entered
          /\ At(<<"delivered", 0>>) \subseteq Entered
      BY <1>1, PlaceForms DEF Placed
    <3> HIDE DEF Held, Open
    <3> QED BY <1>4, <1>5, <2>2, <3>1
  <2>4. ASSUME NEW e \in Entered PROVE \E p \in Places : \A q \in Places : e \in At(q)' <=> q = p
    <3>1. PICK p \in Places : \A q \in Places : e \in At(q) <=> q = p
      BY <1>1 DEF Placed
    <3>2. CASE p \in {<<"dropped", 0>>, <<"rejected", 0>>, <<"delivered", 0>>}
      <4>1. e \notin Held /\ e \notin Open
        <5>1. /\ \A t \in Ids : e \notin At(<<"timer", t>>)
              /\ \A c \in Callers : e \notin At(<<"caller", c>>)
              /\ e \notin At(<<"buffer", 0>>) /\ e \notin At(<<"close", 0>>)
          BY <3>1, <3>2, PlaceForms
        <5> QED BY <5>1
      <4> HIDE DEF Held, Open
      <4>2. \A q \in Places : e \in At(q)' <=> q = p
        BY <1>4, <1>5, <3>1, <3>2, <4>1
      <4> QED BY <4>2
    <3>3. CASE p \notin {<<"dropped", 0>>, <<"rejected", 0>>, <<"delivered", 0>>}
      <4>1. e \in At(p) /\ e \notin At(<<"dropped", 0>>) /\ e \notin At(<<"rejected", 0>>)
            /\ e \notin At(<<"delivered", 0>>)
        BY <3>1, <3>3, PlaceForms
      <4>2. e \in Held \/ e \in Open
        <5>1. p = <<"buffer", 0>> \/ p = <<"close", 0>> => e \in Held
          BY <4>1
        <5>2. (\E t \in Ids : p = <<"timer", t>>) => e \in Held
          BY <4>1
        <5>3. (\E c \in Callers : p = <<"caller", c>>) => e \in Open
          BY <4>1
        <5> HIDE DEF Held, Open
        <5> QED BY <3>3, <5>1, <5>2, <5>3, PlaceForms
      <4> HIDE DEF Held, Open
      <4>3. CASE e \in accepted
        <5>1. \A q \in Places : e \in At(q)' <=> q = <<"dropped", 0>>
          BY <1>4, <1>5, <4>1, <4>2, <4>3
        <5> QED BY <5>1, PlaceForms
      <4>4. CASE e \notin accepted
        <5>1. \A q \in Places : e \in At(q)' <=> q = <<"rejected", 0>>
          BY <1>4, <1>5, <1>6, <4>1, <4>2, <4>4
        <5> QED BY <5>1, PlaceForms
      <4> QED BY <4>3, <4>4
    <3> QED BY <3>2, <3>3
  <2> QED BY <2>1, <2>3, <2>4 DEF Placed, Places, Ids
<1>8. Distinct' /\ HeldIsAccepted'
  BY <1>1, <1>2, EventsEmpty DEF Distinct, HeldIsAccepted
<1>9. NoLeftovers' /\ RoomInBuffer' /\ BatchBounded'
  BY <1>1, <1>2, BatchAssumption DEF NoLeftovers, RoomInBuffer, BatchBounded
<1> QED BY <1>7, <1>8, <1>9 DEF PlaceInv

\* Steps that leave every event where it is.
LEMMA PlacesSame ==
    ASSUME PlaceInv,
           UNCHANGED <<buffer, timerState, timerBatch, callerState, callerBatch, closeBatch, next, accepted,
                       rejected, delivered, dropped>>,
           closeState' # "flushing" => closeState # "flushing"
    PROVE  PlaceInv'
<1>1. \A p \in Places : At(p)' = At(p)
  BY PlaceForms DEF At
<1>2. Placed'
  BY <1>1 DEF PlaceInv, Placed, Entered, Places, Ids
<1> QED BY <1>2 DEF PlaceInv, Distinct, HeldIsAccepted, NoLeftovers, RoomInBuffer, BatchBounded

LEMMA ClosePlaces == ASSUME BatchInv, PlaceInv, Close PROVE PlaceInv'
<1> DEFINE b == <<"close", 0>>
<1>1. /\ Placed /\ Distinct /\ HeldIsAccepted /\ NoLeftovers /\ RoomInBuffer /\ BatchBounded
      /\ buffer \in Seq(Ids) /\ closeBatch \in Seq(Ids)
      /\ timerState \in [Ids -> {"none", "armed", "fired", "flushing", "done", "stopped"}]
  BY DEF PlaceInv, BatchInv, TypeOK
<1>2. b \in Places /\ b # <<"buffer", 0>> /\ b # <<"delivered", 0>> /\ b # <<"dropped", 0>>
      /\ At(b) = EventsIn(closeBatch)
  BY PlaceForms, AtForms
<1>3. CASE CloseTake
  <2>1. /\ closeState = "open" /\ closeBatch' = buffer /\ buffer' = <<>>
        /\ timerState' = Stop(timerState, timer)
        /\ closeState' = IF buffer # <<>> THEN "flushing" ELSE "closing"
        /\ UNCHANGED <<timerBatch, callerState, callerBatch, next, accepted, rejected, delivered, dropped>>
    BY <1>3 DEF CloseTake, callerVars, streamVars
  <2>2. closeBatch = <<>>
    BY <1>1, <2>1 DEF NoLeftovers
  <2>3. Placed'
    <3> DEFINE a == <<"buffer", 0>>
    <3>1. /\ a \in Places /\ At(a) \subseteq At(a) /\ At(a)' = At(a) \ At(a)
          /\ At(b)' = At(b) \cup At(a)
      BY <1>1, <2>1, <2>2, PlaceForms, EventsEmpty DEF At
    <3>2. \A p \in Places \ {a, b} : At(p)' = At(p)
      BY <1>1, <2>1, PlaceForms DEF At
    <3>3. a # b
      BY <1>2
    <3> HIDE DEF a, b
    <3> QED BY <1>1, <1>2, <2>1, <3>1, <3>2, <3>3, Move
  <2>4. Distinct' /\ HeldIsAccepted'
    <3>1. Distinct'
      BY <1>1, <2>1, EventsEmpty DEF Distinct
    <3>2. HeldIsAccepted'
      BY <1>1, <2>1, EventsEmpty DEF HeldIsAccepted
    <3> QED BY <3>1, <3>2
  <2>5. RoomInBuffer' /\ BatchBounded'
    <3>1. Len(buffer) \in Nat /\ Len(buffer) <= MaxSize
      BY <1>1, BatchAssumption DEF RoomInBuffer
    <3> QED BY <1>1, <2>1, <3>1, BatchAssumption DEF RoomInBuffer, BatchBounded
  <2>6. NoLeftovers'
    <3>1. \A u \in Ids : /\ timerState'[u] # "flushing" => timerState[u] # "flushing"
                         /\ timerState[u] = "none" => timerState'[u] = "none"
      BY <1>1, <2>1 DEF Stop
    <3> QED BY <1>1, <2>1, <3>1 DEF NoLeftovers
  <2> QED BY <2>3, <2>4, <2>5, <2>6 DEF PlaceInv
<1>4. CASE CloseFlushOk \/ CloseFlushError
  <2>1. /\ closeBatch' = <<>>
        /\ UNCHANGED <<buffer, timerState, timerBatch, callerState, callerBatch, next, accepted, rejected>>
    BY <1>4 DEF CloseFlushOk, CloseFlushError, CloseEnds, timerVars, callerVars, streamVars
  <2>2. At(b)' = At(b) \ At(b) /\ At(b) \subseteq At(b)
    BY <2>1, EventsEmpty DEF At
  <2>3. Placed' /\ NoRepeats(delivered')
    <3>1. CASE CloseFlushOk
      <4>1. delivered' = delivered \o closeBatch /\ dropped' = dropped
        BY <3>1 DEF CloseFlushOk
      <4>2. At(<<"delivered", 0>>)' = At(<<"delivered", 0>>) \cup At(b) /\ NoRepeats(delivered')
        <5>1. NoRepeats(closeBatch)
          BY <1>1 DEF Distinct
        <5> HIDE DEF b
        <5> QED BY <1>1, <1>2, <4>1, <5>1, Delivers
      <4>3. \A p \in Places \ {b, <<"delivered", 0>>} : At(p)' = At(p)
        BY <2>1, <4>1, PlaceForms DEF At
      <4> HIDE DEF b
      <4> QED BY <1>1, <1>2, <2>1, <2>2, <4>2, <4>3, PlaceForms, Move
    <3>2. CASE CloseFlushError
      <4>1. delivered' = delivered /\ dropped' = dropped \cup EventsIn(closeBatch)
        BY <3>2 DEF CloseFlushError
      <4>2. At(<<"dropped", 0>>)' = At(<<"dropped", 0>>) \cup At(b) /\ NoRepeats(delivered')
        BY <1>1, <1>2, <4>1 DEF Distinct, At
      <4>3. \A p \in Places \ {b, <<"dropped", 0>>} : At(p)' = At(p)
        BY <2>1, <4>1, PlaceForms DEF At
      <4> HIDE DEF b
      <4> QED BY <1>1, <1>2, <2>1, <2>2, <4>2, <4>3, PlaceForms, Move
    <3> QED BY <1>4, <3>1, <3>2
  <2>4. Distinct' /\ HeldIsAccepted'
    <3>1. Distinct'
      BY <1>1, <2>1, <2>3, EventsEmpty DEF Distinct
    <3>2. HeldIsAccepted'
      BY <1>1, <2>1, EventsEmpty DEF HeldIsAccepted
    <3> QED BY <3>1, <3>2
  <2>5. NoLeftovers' /\ RoomInBuffer' /\ BatchBounded'
    BY <1>1, <2>1, BatchAssumption DEF NoLeftovers, RoomInBuffer, BatchBounded
  <2> QED BY <2>3, <2>4, <2>5 DEF PlaceInv
<1>5. CASE CloseReturns
  BY <1>5, PlacesSame DEF CloseReturns, timerVars, callerVars, streamVars
<1>6. CASE MainReturns
  BY <1>6, ExitPlaces DEF MainReturns
<1> QED BY <1>3, <1>4, <1>5, <1>6 DEF Close

LEMMA PlaceStep == ASSUME BatchInv, PlaceInv, [Next]_vars PROVE PlaceInv'
<1>1. CASE Kill
  BY <1>1, ExitPlaces DEF Kill
<1>2. CASE Cancel \/ StreamReturns
  BY <1>2, PlacesSame DEF Cancel, StreamReturns, timerVars, callerVars, closeVars
<1>3. CASE UNCHANGED vars
  BY <1>3, PlacesSame DEF vars, timerVars, callerVars, closeVars, streamVars
<1> QED BY <1>1, <1>2, <1>3, DeliverPlaces, FlushPlaces, TimerPlaces, ClosePlaces DEF Next

LEMMA PlaceInvariance == Spec => []PlaceInv
<1>1. Spec => []BatchInv
  BY BatchInit, BatchStep, PTL DEF Spec
<1> QED BY <1>1, PlaceInit, PlaceStep, PTL DEF Spec

\* No flush sends more than the configured number of events: not that of a timer,
\* which may take a buffer that a later event has filled, nor that of Close.
THEOREM BatchesAreBounded == Spec => []BatchBounded
<1>1. PlaceInv => BatchBounded
  BY DEF PlaceInv
<1> QED BY <1>1, PlaceInvariance, PTL

LEMMA NoRepeatsCount ==
    ASSUME NEW s \in Seq(Ids), NoRepeats(s)
    PROVE  Len(s) = Cardinality(EventsIn(s))
<1>1. Len(s) \in Nat /\ DOMAIN s = 1..Len(s) /\ s \in [1..Len(s) -> EventsIn(s)]
  BY DEF EventsIn
<1>2. s \in Bijection(1..Len(s), EventsIn(s))
  BY <1>1 DEF Bijection, Injection, Surjection, IsInjective, EventsIn, NoRepeats
<1> QED BY <1>1, <1>2, FS_CountingElements DEF ExistsBijection

\* Every event that entered Deliver is in exactly one place, for every number of
\* callers, timers, stale callbacks, errors and crashes: the flushes that compete
\* for the buffer neither send an event twice nor lose one unrecorded.
THEOREM EventsAreConserved == Spec => []Conservation
<1>1. ASSUME BatchInv, PlaceInv PROVE Conservation
  <2>1. ASSUME NEW e \in Entered PROVE Cardinality({p \in Places : e \in At(p)}) = 1
    <3>1. PICK p \in Places : \A q \in Places : e \in At(q) <=> q = p
      BY <1>1 DEF PlaceInv, Placed
    <3>2. {q \in Places : e \in At(q)} = {p}
      BY <3>1
    <3> QED BY <3>2, FS_Singleton
  <2>2. Len(delivered) = Cardinality(EventsIn(delivered))
    BY <1>1, NoRepeatsCount DEF PlaceInv, Distinct, BatchInv, TypeOK
  <2> QED BY <2>1, <2>2 DEF Conservation, Entered
<1>2. Spec => []BatchInv
  BY BatchInit, BatchStep, PTL DEF Spec
<1> QED BY <1>1, <1>2, PlaceInvariance, PTL
=============================================================================
