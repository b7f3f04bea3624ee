----------------------------- MODULE RetrySink -----------------------------
(***************************************************************************)
(* internal/sink/retry.go and internal/sink/dlq.go: the retry decorator    *)
(* and the dead-letter file that can take the events it gives up on.       *)
(*                                                                         *)
(* The stream calls Deliver for one event after another. An error returned *)
(* to it stops the process; a new one delivers the event again. The inner  *)
(* sink is external: it may have delivered an event and report an error    *)
(* all the same (a timeout that races the answer).                         *)
(***************************************************************************)
EXTENDS Integers

CONSTANTS
    SinkEvents,          \* events the stream delivers
    Handlers,            \* configured onFailure callbacks, of {"propagate", "dlq"}
    AttemptLimits,       \* configured values of RetrySink.maxAttempts
    BaseDelay, MaxDelay, \* RetrySink.baseDelay, RetrySink.maxDelay
    DurationBits,        \* width of time.Duration, 64 in the code
    Jitters,             \* per cent, samples of [50, 150)
    MaxRestarts,         \* bound on new processes
    MaxMachineCrashes    \* bound on crashes of the machine

VARIABLES
    pc,
    onFailure, maxAttempts, \* RetrySink.onFailure, RetrySink.maxAttempts
    event, attempt, delay,
    lastErr,             \* "nil" or "error"
    ctxDone,             \* "yes" when the context is cancelled
    calls,               \* inner.Deliver calls made for this event
    late,                \* those that began under a cancelled context
    acknowledged,        \* events whose Deliver returned nil: the stream goes past them
    delivered,           \* events the destination has
    dlqFile,             \* events in the dead-letter file ...
    dlqDisk,             \* ... and those that have left the page cache
    restarts, machineCrashes

config == <<onFailure, maxAttempts>>
callVars == <<event, attempt, delay, lastErr, calls, late>>
fileVars == <<dlqFile, dlqDisk>>
boundVars == <<restarts, machineCrashes>>
vars == <<pc, config, callVars, ctxDone, acknowledged, delivered, fileVars, boundVars>>

NoEvent == "none"

ASSUME RetryAssumption ==
    /\ NoEvent \notin SinkEvents
    /\ Handlers \subseteq {"propagate", "dlq"}
    /\ AttemptLimits \subseteq Nat
    /\ BaseDelay \in Nat /\ MaxDelay \in Nat /\ DurationBits \in Nat \ {0}
    /\ Jitters \subseteq 50..149
    /\ MaxRestarts \in Nat /\ MaxMachineCrashes \in Nat
-----------------------------------------------------------------------------
(* The backoff delay. *)

MaxInt == 2^(DurationBits - 1) - 1

\* time.Duration(x) of a float64: out of range it is up to the processor, the
\* smallest integer on amd64, the largest on arm64.
ToDuration(x) == IF x <= MaxInt THEN {x} ELSE {-MaxInt - 1, MaxInt}

Capped(d) == IF d > MaxDelay THEN MaxDelay ELSE d

\* Mutant: the jitter is taken from [0, 100) per cent.
MutFullJitter(a) ==
    {(Capped(d) * (j - 50)) \div 100 : d \in ToDuration(BaseDelay * 2^a), j \in Jitters}

\* The delays the code may sleep for after the attempt with this index.
Delays(a) == {(Capped(d) * j) \div 100 : d \in ToDuration(BaseDelay * 2^a), j \in Jitters}
-----------------------------------------------------------------------------
Init ==
    /\ pc = "idle"
    /\ onFailure \in Handlers /\ maxAttempts \in AttemptLimits
    /\ event = NoEvent /\ attempt = 0 /\ delay = 0 /\ lastErr = "nil"
    /\ calls = 0 /\ late = 0
    /\ ctxDone = "no"
    /\ acknowledged = {} /\ delivered = {} /\ dlqFile = {} /\ dlqDisk = {}
    /\ restarts = 0 /\ machineCrashes = 0

\* Mutants: one attempt too many, one too few.
MutOneMore(a) == a <= maxAttempts
MutOneLess(a) == a < maxAttempts - 1

InRange(a) == a < maxAttempts

\* The head of "for attempt := range r.maxAttempts".
LoopHead(a) ==
    /\ attempt' = a
    /\ pc' = IF InRange(a) THEN "attempt" ELSE "onFailure"

Late == IF ctxDone = "yes" THEN 1 ELSE 0

\* RetrySink.Deliver is called.
Deliver(e) ==
    /\ pc = "idle"
    /\ e \notin acknowledged
    /\ event' = e
    /\ LoopHead(0)
    /\ lastErr' = "nil" /\ calls' = 0 /\ delay' = 0
    /\ late' = Late
    /\ UNCHANGED <<config, ctxDone, acknowledged, delivered, fileVars, boundVars>>

ReturnNil ==
    /\ pc' = "idle"
    /\ acknowledged' = acknowledged \cup {event}

\* What comes of a POST to the webhook: the answer, or "none" when the request
\* fails, times out or is cancelled; and whether the receiver kept the event, which
\* an answer other than 2xx, or none, leaves open.
Answers == {<<"2xx", "kept">>} \cup ({"status", "none"} \X {"kept", "lost"})

\* WebhookSink.Deliver returns nil for a 2xx answer, an error for all else.
ReturnsNil(answer) == answer[1] = "2xx"

Receive(answer) ==
    delivered' = IF answer[2] = "kept" THEN delivered \cup {event} ELSE delivered

\* inner.Deliver returns nil.
InnerOk ==
    /\ pc = "attempt"
    /\ \E answer \in Answers : ReturnsNil(answer) /\ Receive(answer)
    /\ ReturnNil
    /\ UNCHANGED <<config, callVars, ctxDone, fileVars, boundVars>>

\* Mutant: the context is not looked at.
MutNoContextCheck == FALSE

\* "if ctx.Err() != nil" after a failed attempt.
GivesUp == ctxDone = "yes"

\* inner.Deliver returns an error: give up when the context is cancelled, else
\* compute the delay and wait, after the last attempt too.
InnerError ==
    /\ pc = "attempt"
    /\ \E answer \in Answers : ~ReturnsNil(answer) /\ Receive(answer)
    /\ lastErr' = "error"
    /\ calls' = calls + 1
    /\ \/ /\ GivesUp
          /\ pc' = "stopped"
          /\ UNCHANGED delay
       \/ /\ ~GivesUp
          /\ delay' \in Delays(attempt)
          /\ pc' = "backoff"
    /\ UNCHANGED <<config, event, attempt, late, ctxDone, acknowledged, fileVars, boundVars>>

\* time.After(delay) fires. When the context is cancelled as well, select takes
\* either branch.
BackoffEnds ==
    /\ pc = "backoff"
    /\ LoopHead(attempt + 1)
    /\ late' = IF InRange(attempt + 1) THEN late + Late ELSE late
    /\ UNCHANGED <<config, event, delay, lastErr, calls, ctxDone, acknowledged, delivered,
                   fileVars, boundVars>>

BackoffCancelled ==
    /\ pc = "backoff"
    /\ ctxDone = "yes"
    /\ pc' = "stopped"
    /\ UNCHANGED <<config, callVars, ctxDone, acknowledged, delivered, fileVars, boundVars>>

\* The default callback returns the error.
Propagate ==
    /\ pc = "onFailure"
    /\ onFailure = "propagate"
    /\ pc' = "stopped"
    /\ UNCHANGED <<config, callVars, ctxDone, acknowledged, delivered, fileVars, boundVars>>

\* Mutant: a failed write is logged and nil returned.
MutWriteErrorNil == ReturnNil /\ UNCHANGED dlqFile

\* Encode fails: the handler returns an error.
WriteFails == pc' = "stopped" /\ UNCHANGED <<dlqFile, acknowledged>>

\* Mutant: the mutex is not unlocked after an entry has been written.
MutMutexHeld ==
    /\ pc = "onFailure"
    /\ onFailure = "dlq"
    /\ lastErr # "nil" /\ dlqFile = {}
    /\ dlqFile' = {event}
    /\ ReturnNil
    /\ UNCHANGED <<config, callVars, ctxDone, delivered, dlqDisk, boundVars>>

\* DLQSink.Handler: it dereferences the error, appends the entry, and returns nil
\* when the write succeeds, an error when it fails.
DLQHandler ==
    /\ pc = "onFailure"
    /\ onFailure = "dlq"
    /\ \/ /\ lastErr # "nil"
          /\ dlqFile' = dlqFile \cup {event}
          /\ ReturnNil
       \/ lastErr # "nil" /\ WriteFails
       \/ /\ lastErr = "nil"
          /\ pc' = "panic"
          /\ UNCHANGED <<dlqFile, acknowledged>>
    /\ UNCHANGED <<config, callVars, ctxDone, delivered, dlqDisk, boundVars>>
-----------------------------------------------------------------------------
(* The environment. *)

Running == pc \notin {"stopped", "panic"}

Cancel ==
    /\ Running
    /\ ctxDone = "no"
    /\ ctxDone' = "yes"
    /\ UNCHANGED <<pc, config, callVars, acknowledged, delivered, fileVars, boundVars>>

\* The stream, told to shut down, returns between two events.
Shutdown ==
    /\ pc = "idle"
    /\ ctxDone = "yes"
    /\ pc' = "stopped"
    /\ UNCHANGED <<config, callVars, ctxDone, acknowledged, delivered, fileVars, boundVars>>

\* The process is killed; what it wrote is in the page cache.
Kill ==
    /\ Running
    /\ restarts < MaxRestarts
    /\ pc' = "stopped"
    /\ UNCHANGED <<config, callVars, ctxDone, acknowledged, delivered, fileVars, boundVars>>

Restart ==
    /\ ~Running
    /\ restarts < MaxRestarts
    /\ restarts' = restarts + 1
    /\ pc' = "idle"
    /\ ctxDone' = "no"
    /\ UNCHANGED <<config, callVars, acknowledged, delivered, fileVars, machineCrashes>>

\* The kernel writes the file back.
WriteBack ==
    /\ dlqDisk # dlqFile
    /\ dlqDisk' = dlqFile
    /\ UNCHANGED <<pc, config, callVars, ctxDone, acknowledged, delivered, dlqFile, boundVars>>

\* The machine goes down: NewDLQSink opens the file without O_SYNC, so what has
\* not been written back is lost.
MachineCrash ==
    /\ machineCrashes < MaxMachineCrashes
    /\ machineCrashes' = machineCrashes + 1
    /\ dlqFile' = dlqDisk
    /\ pc' = "stopped"
    /\ UNCHANGED <<config, callVars, ctxDone, acknowledged, delivered, dlqDisk, restarts>>

Call == InnerOk \/ InnerError \/ BackoffEnds \/ BackoffCancelled \/ Propagate \/ DLQHandler

Next ==
    \/ \E e \in SinkEvents : Deliver(e)
    \/ Call
    \/ Cancel \/ Shutdown \/ Kill \/ Restart \/ WriteBack \/ MachineCrash

Spec == Init /\ [][Next]_vars

\* The inner sink has a timeout, timers fire and the process is scheduled.
FairSpec == Spec /\ WF_vars(Call)
-----------------------------------------------------------------------------
(* Properties. *)

TypeOK ==
    /\ pc \in {"idle", "attempt", "backoff", "onFailure", "stopped", "panic"}
    /\ onFailure \in Handlers /\ maxAttempts \in AttemptLimits
    /\ event \in SinkEvents \cup {NoEvent}
    /\ attempt \in 0..maxAttempts /\ delay \in Int
    /\ lastErr \in {"nil", "error"} /\ ctxDone \in {"yes", "no"}
    /\ calls \in 0..maxAttempts /\ late \in Nat
    /\ acknowledged \subseteq SinkEvents /\ delivered \subseteq SinkEvents
    /\ dlqFile \subseteq SinkEvents /\ dlqDisk \subseteq SinkEvents
    /\ restarts \in Nat /\ machineCrashes \in Nat

\* The contract of sink.go: when Deliver returns nil the stream acknowledges the
\* event, so the event is at the destination or in the dead-letter file, over
\* failed attempts, cancellation, failed dead-letter writes, kills and restarts. A
\* crash of the machine is excepted when the event is in the file: the code opens
\* it without O_SYNC. With the default callback nothing depends on the file.
NilMeansHandled ==
    /\ onFailure = "propagate" => acknowledged \subseteq delivered
    /\ machineCrashes = 0 => acknowledged \subseteq delivered \cup dlqFile

\* retry.go, "If all retries fail, call the onFailure callback": the callback runs
\* after maxAttempts failed calls for this event, and it is given their error; the
\* error is nil only when no attempt is configured. It does not run early, as when
\* the process is shutting down.
FailureHasCause ==
    pc = "onFailure" => calls = maxAttempts /\ (lastErr = "error" <=> maxAttempts > 0)

\* "Don't retry if context is cancelled": a Deliver call begins at most one
\* attempt under a cancelled context, so a shutdown waits for one attempt at most.
CancelStopsRetries == late <= 1

\* retry.go, "hammering it with retries makes things worse. Doubling the wait each
\* time gives it breathing room": the wait is at least half of what the formula of
\* docs/sinks.md says, min(baseDelay * 2^attempt, maxDelay), as long as the
\* product fits a time.Duration; and it exceeds the cap by half at most.
BackoffIsPatient ==
    pc = "backoff" /\ BaseDelay * 2^attempt \in 0..MaxInt =>
       /\ delay >= Capped(BaseDelay * 2^attempt) \div 2
       /\ 2 * delay <= 3 * MaxDelay

\* Liveness: every Deliver call returns to the stream, or panics.
DeliverReturns == pc \in {"attempt", "backoff", "onFailure"} ~> pc \in {"idle", "stopped", "panic"}
=============================================================================
