----------------------------- MODULE BatchSink -----------------------------
(***************************************************************************)
(* internal/sink/batch.go: the batching decorator. Deliver buffers an      *)
(* event; the batch is sent when it is full, by the caller, or when the    *)
(* timer of its first event fires, by a goroutine of its own; Close sends  *)
(* what is left. The code between b.mu.Lock and b.mu.Unlock is one step;   *)
(* DeliverBatch runs outside the mutex.                                    *)
(*                                                                         *)
(* Events are numbered in the order in which the stream delivers them. A   *)
(* timer is named after the event that started it.                         *)
(***************************************************************************)
EXTENDS Integers, Sequences, FiniteSets

CONSTANTS
    Callers,    \* goroutines that call Deliver: one stream today
    MaxSize,    \* BatchSink.maxSize
    MaxEvents,  \* bound on the events delivered
    MaxErrors,  \* bound on errors of DeliverBatch while the context is live
    MaxCrashes  \* 1 when the process may be killed, else 0

VARIABLES
    buffer,                   \* BatchSink.buffer
    timer,                    \* BatchSink.timer, 0 for nil
    timerState, timerBatch,   \* of each timer's callback
    callerState, callerBatch, \* of each caller of Deliver
    closeState, closeBatch,   \* of Close
    next,                     \* the next event of the stream
    ctxDone,                  \* "yes" when the stream's context is cancelled
    stream,                   \* "running", or "stopped": Stream.Run has returned
    accepted,                 \* events whose Deliver returned nil
    rejected,                 \* events whose Deliver returned an error
    delivered,                \* events at the destination, in the order it got them
    dropped,                  \* accepted events that left the sink undelivered
    errors, crashes

timerVars  == <<timer, timerState, timerBatch>>
callerVars == <<callerState, callerBatch>>
closeVars  == <<closeState, closeBatch>>
streamVars == <<next, ctxDone, stream>>
vars == <<buffer, timerVars, callerVars, closeVars, streamVars, accepted, rejected, delivered,
          dropped, errors, crashes>>

Ids == 1..MaxEvents

ASSUME BatchAssumption ==
    /\ IsFiniteSet(Callers)
    /\ MaxSize \in Nat \ {0}
    /\ MaxEvents \in Nat /\ MaxErrors \in Nat /\ MaxCrashes \in Nat

EventsIn(s) == {s[k] : k \in DOMAIN s}
LastOf(s) == s[Len(s)]

Alive == closeState # "exited"
-----------------------------------------------------------------------------
Init ==
    /\ buffer = <<>> /\ timer = 0
    /\ timerState = [t \in Ids |-> "none"] /\ timerBatch = [t \in Ids |-> <<>>]
    /\ callerState = [c \in Callers |-> "idle"] /\ callerBatch = [c \in Callers |-> <<>>]
    /\ closeState = "open" /\ closeBatch = <<>>
    /\ next = 1 /\ ctxDone = "no" /\ stream = "running"
    /\ accepted = {} /\ rejected = {} /\ delivered = <<>> /\ dropped = {}
    /\ errors = 0 /\ crashes = 0

\* b.timer.Stop(): it has no effect on a timer whose callback has started.
Stop(states, t) ==
    IF t # 0 /\ states[t] = "armed" THEN [states EXCEPT ![t] = "stopped"] ELSE states

\* Mutant: a timer is started when there is none; the callback leaves b.timer set.
MutTimerIfNil(batch) == timer = 0

\* "if len(b.buffer) == 1": the event is the first one of a batch.
StartsBatch(batch) == Len(batch) = 1

\* Mutant: off by one.
MutOverfull(batch) == Len(batch) > MaxSize

\* "if len(b.buffer) >= b.maxSize".
Full(batch) == Len(batch) >= MaxSize

\* Mutant: the timer gets the name of the following event.
MutNextTimer == next + 1

\* time.AfterFunc, for the event that is delivered.
NewTimer == next

\* Deliver appends the event and, for the first one of a batch, starts a timer. A
\* full batch is taken and the timer stopped.
Deliver(c) ==
    /\ stream = "running" /\ Alive
    /\ callerState[c] = "idle"
    /\ next <= MaxEvents
    /\ LET batch == Append(buffer, next)
           first == StartsBatch(batch)
           t == IF first THEN NewTimer ELSE timer
           states == IF first THEN [timerState EXCEPT ![NewTimer] = "armed"] ELSE timerState
       IN \/ /\ Full(batch)
             /\ buffer' = <<>>
             /\ timer' = 0 /\ timerState' = Stop(states, t)
             /\ callerState' = [callerState EXCEPT ![c] = "flushing"]
             /\ callerBatch' = [callerBatch EXCEPT ![c] = batch]
             /\ UNCHANGED accepted
          \/ /\ ~Full(batch)
             /\ buffer' = batch
             /\ timer' = t /\ timerState' = states
             /\ accepted' = accepted \cup {next}
             /\ UNCHANGED callerVars
    /\ next' = next + 1
    /\ UNCHANGED <<timerBatch, closeVars, ctxDone, stream, rejected, delivered, dropped, errors, crashes>>

\* DeliverBatch fails: a fault of the destination, or the context it was given is
\* cancelled.
BatchFails ==
    \/ errors < MaxErrors /\ errors' = errors + 1
    \/ ctxDone = "yes" /\ errors' = errors

\* The caller's flush succeeds and Deliver returns nil.
FlushOk(c) ==
    /\ Alive /\ callerState[c] = "flushing"
    /\ delivered' = delivered \o callerBatch[c]
    /\ accepted' = accepted \cup {LastOf(callerBatch[c])}
    /\ callerState' = [callerState EXCEPT ![c] = "idle"]
    /\ callerBatch' = [callerBatch EXCEPT ![c] = <<>>]
    /\ UNCHANGED <<buffer, timerVars, closeVars, streamVars, rejected, dropped, errors, crashes>>

\* It fails and Deliver returns the error, for its own event only; the stream stops.
FlushError(c) ==
    /\ Alive /\ callerState[c] = "flushing"
    /\ BatchFails
    /\ rejected' = rejected \cup {LastOf(callerBatch[c])}
    /\ dropped' = dropped \cup (EventsIn(callerBatch[c]) \ {LastOf(callerBatch[c])})
    /\ callerState' = [callerState EXCEPT ![c] = "idle"]
    /\ callerBatch' = [callerBatch EXCEPT ![c] = <<>>]
    /\ stream' = "stopped"
    /\ UNCHANGED <<buffer, timerVars, closeVars, next, ctxDone, accepted, delivered, crashes>>
-----------------------------------------------------------------------------
(* The callback of time.AfterFunc. *)

\* maxWait has elapsed: the runtime starts the callback.
TimerFire(t) ==
    /\ Alive /\ timerState[t] = "armed"
    /\ timerState' = [timerState EXCEPT ![t] = "fired"]
    /\ UNCHANGED <<buffer, timer, timerBatch, callerVars, closeVars, streamVars, accepted, rejected,
                   delivered, dropped, errors, crashes>>

\* Mutants: a callback whose flush fails does not unlock the mutex; the buffer is
\* not reset.
MutMutexHeld == dropped = {} /\ buffer' = <<>>
MutBufferKept == UNCHANGED buffer

\* takeBatchLocked leaves a fresh buffer.
FreshBuffer == buffer' = <<>>

\* The callback gets the mutex and takes whatever the buffer holds. b.timer is left
\* alone.
TimerTake(t) ==
    /\ Alive /\ timerState[t] = "fired"
    /\ timerBatch' = [timerBatch EXCEPT ![t] = buffer]
    /\ timerState' = [timerState EXCEPT ![t] = IF buffer # <<>> THEN "flushing" ELSE "done"]
    /\ FreshBuffer
    /\ UNCHANGED <<timer, callerVars, closeVars, streamVars, accepted, rejected,
                   delivered, dropped, errors, crashes>>

TimerEnds(t) ==
    /\ Alive /\ timerState[t] = "flushing"
    /\ timerState' = [timerState EXCEPT ![t] = "done"]
    /\ timerBatch' = [timerBatch EXCEPT ![t] = <<>>]
    /\ UNCHANGED <<buffer, timer, callerVars, closeVars, streamVars, accepted, rejected, crashes>>

TimerFlushOk(t) ==
    /\ TimerEnds(t)
    /\ delivered' = delivered \o timerBatch[t]
    /\ UNCHANGED <<dropped, errors>>

\* The error is logged.
TimerFlushError(t) ==
    /\ TimerEnds(t)
    /\ BatchFails
    /\ dropped' = dropped \cup EventsIn(timerBatch[t])
    /\ UNCHANGED delivered
-----------------------------------------------------------------------------
(* Close, called by main once Stream.Run has returned. *)

CloseTake ==
    /\ closeState = "open"
    /\ stream = "stopped" /\ \A c \in Callers : callerState[c] = "idle"
    /\ timer' = 0 /\ timerState' = Stop(timerState, timer)
    /\ closeBatch' = buffer /\ buffer' = <<>>
    /\ closeState' = IF buffer # <<>> THEN "flushing" ELSE "closing"
    /\ UNCHANGED <<timerBatch, callerVars, streamVars, accepted, rejected, delivered, dropped,
                   errors, crashes>>

CloseEnds ==
    /\ closeState = "flushing"
    /\ closeState' = "closing" /\ closeBatch' = <<>>
    /\ UNCHANGED <<buffer, timerVars, callerVars, streamVars, accepted, rejected, crashes>>

CloseFlushOk ==
    /\ CloseEnds
    /\ delivered' = delivered \o closeBatch
    /\ UNCHANGED <<dropped, errors>>

\* The flush has a context of its own; its error is logged.
CloseFlushError ==
    /\ CloseEnds
    /\ errors < MaxErrors /\ errors' = errors + 1
    /\ dropped' = dropped \cup EventsIn(closeBatch)
    /\ UNCHANGED delivered

\* inner.Close returns, and Close with it.
CloseReturns ==
    /\ closeState = "closing"
    /\ closeState' = "closed"
    /\ UNCHANGED <<buffer, timerVars, callerVars, closeBatch, streamVars, accepted, rejected,
                   delivered, dropped, errors, crashes>>

InFlight(s) == UNION {EventsIn(s[p]) : p \in DOMAIN s}

\* The process is gone, and with it the buffer and the batches on their way.
Exit ==
    /\ closeState' = "exited"
    /\ buffer' = <<>>
    /\ timerBatch' = [t \in Ids |-> <<>>] /\ callerBatch' = [c \in Callers |-> <<>>]
    /\ closeBatch' = <<>>
    /\ dropped' = dropped \cup ((EventsIn(buffer) \cup InFlight(timerBatch) \cup InFlight(callerBatch)
                                 \cup EventsIn(closeBatch)) \cap accepted)
    /\ rejected' = rejected \cup (InFlight(callerBatch) \ accepted)
    /\ UNCHANGED <<timer, timerState, callerState, streamVars, accepted, delivered, errors>>

\* main returns once Close has.
MainReturns ==
    /\ closeState = "closed"
    /\ Exit
    /\ UNCHANGED crashes

Kill ==
    /\ Alive
    /\ crashes < MaxCrashes /\ crashes' = crashes + 1
    /\ Exit
-----------------------------------------------------------------------------
Cancel ==
    /\ Alive /\ ctxDone = "no"
    /\ ctxDone' = "yes"
    /\ UNCHANGED <<buffer, timerVars, callerVars, closeVars, next, stream, accepted, rejected,
                   delivered, dropped, errors, crashes>>

\* Stream.Run returns because its context is cancelled.
StreamReturns ==
    /\ Alive /\ ctxDone = "yes" /\ stream = "running"
    /\ stream' = "stopped"
    /\ UNCHANGED <<buffer, timerVars, callerVars, closeVars, next, ctxDone, accepted, rejected,
                   delivered, dropped, errors, crashes>>

Flush(c) == FlushOk(c) \/ FlushError(c)
TimerFlush(t) == TimerFlushOk(t) \/ TimerFlushError(t)
Close == CloseTake \/ CloseFlushOk \/ CloseFlushError \/ CloseReturns \/ MainReturns

Next ==
    \/ \E c \in Callers : Deliver(c) \/ Flush(c)
    \/ \E t \in Ids : TimerFire(t) \/ TimerTake(t) \/ TimerFlush(t)
    \/ Close \/ Kill \/ Cancel \/ StreamReturns

Spec == Init /\ [][Next]_vars

\* Timers fire, goroutines run and get the mutex, DeliverBatch has a timeout.
FairSpec ==
    /\ Spec
    /\ \A t \in Ids : WF_vars(TimerFire(t)) /\ WF_vars(TimerTake(t)) /\ WF_vars(TimerFlush(t))
    /\ \A c \in Callers : WF_vars(Flush(c))
    /\ WF_vars(Close)
-----------------------------------------------------------------------------
(* Properties. *)

TypeOK ==
    /\ buffer \in Seq(Ids) /\ timer \in 0..MaxEvents
    /\ timerState \in [Ids -> {"none", "armed", "fired", "flushing", "done", "stopped"}]
    /\ timerBatch \in [Ids -> Seq(Ids)]
    /\ callerState \in [Callers -> {"idle", "flushing"}]
    /\ callerBatch \in [Callers -> Seq(Ids)]
    /\ closeState \in {"open", "flushing", "closing", "closed", "exited"}
    /\ closeBatch \in Seq(Ids)
    /\ next \in 1..(MaxEvents + 1) /\ ctxDone \in {"yes", "no"} /\ stream \in {"running", "stopped"}
    /\ accepted \subseteq Ids /\ rejected \subseteq Ids /\ dropped \subseteq Ids
    /\ delivered \in Seq(Ids)
    /\ errors \in Nat /\ crashes \in Nat

Places == {<<"buffer", 0>>, <<"close", 0>>, <<"delivered", 0>>, <<"dropped", 0>>, <<"rejected", 0>>}
          \cup {<<"timer", t>> : t \in Ids} \cup {<<"caller", c>> : c \in Callers}

At(p) == CASE p[1] = "buffer"    -> EventsIn(buffer)
           [] p[1] = "close"     -> EventsIn(closeBatch)
           [] p[1] = "delivered" -> EventsIn(delivered)
           [] p[1] = "dropped"   -> dropped
           [] p[1] = "rejected"  -> rejected
           [] p[1] = "timer"     -> EventsIn(timerBatch[p[2]])
           [] p[1] = "caller"    -> EventsIn(callerBatch[p[2]])

\* Every event that entered Deliver is in exactly one place, whatever flushes race:
\* no batch is taken twice, no event is sent twice or vanishes unrecorded when a
\* timer, a full batch and Close compete for the buffer.
Conservation ==
    /\ \A e \in 1..(next - 1) : Cardinality({p \in Places : e \in At(p)}) = 1
    /\ Len(delivered) = Cardinality(EventsIn(delivered))

\* A waiting batch always has a timer that will flush it: b.timer is not nil and
\* has not run its callback, also after stale callbacks have taken earlier
\* batches, and Stop has come too late for others.
TimerCoverage ==
    buffer # <<>> => timer # 0 /\ timerState[timer] \in {"armed", "fired"}

\* docs/sinks.md, "Maximum events per batch", for each of the three flushes.
BatchBounded ==
    /\ \A t \in Ids : Len(timerBatch[t]) <= MaxSize
    /\ \A c \in Callers : Len(callerBatch[c]) <= MaxSize
    /\ Len(closeBatch) <= MaxSize

\* Liveness: an event does not stay in the buffer, even if no other one follows.
BufferDrains == \A e \in Ids : e \in EventsIn(buffer) ~> e \notin EventsIn(buffer)

\* sink.go, "Returns an error if the delivery fails": when an accepted event is
\* given up, the stream hears of it and stops, so that it can read the event again
\* from the slot.
DropStopsStream == dropped # {} => stream = "stopped" \/ ~Alive
=============================================================================
