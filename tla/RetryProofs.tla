----------------------------- MODULE RetryProofs -----------------------------
(***************************************************************************)
(* Proofs about module RetrySink, for every set of events, every limit on  *)
(* the attempts, every delay, and every number of restarts and machine     *)
(* crashes.                                                                *)
(***************************************************************************)
EXTENDS RetrySink, TLAPS

\* How far a call has come. An attempt or a wait has an index below maxAttempts; as
\* many calls have failed as there were attempts; the last error is the error of one
\* of them.
Progress ==
    /\ pc \in {"attempt", "backoff"} => attempt < maxAttempts
    /\ pc = "attempt" => calls = attempt
    /\ pc = "backoff" => calls = attempt + 1
    /\ pc = "onFailure" => calls = maxAttempts
    /\ pc \in {"attempt", "backoff", "onFailure"} => (lastErr = "error" <=> calls > 0)
    /\ pc \in {"attempt", "backoff", "onFailure"} => event # NoEvent

\* An attempt that begins under a cancelled context is the last one: until it ends,
\* the context stays cancelled and late does not grow.
LateOnce ==
    /\ late <= 1
    /\ pc = "backoff" => late = 0
    /\ pc = "attempt" /\ late = 1 => ctxDone = "yes"

\* The wait is a delay of the attempt behind it.
Waits == pc = "backoff" => delay \in Delays(attempt)

RetryInv == TypeOK /\ Progress /\ LateOnce /\ Waits /\ NilMeansHandled
-----------------------------------------------------------------------------
(* The arithmetic of the delay. *)

LEMMA DurationTypes ==
    ASSUME NEW a \in Nat PROVE BaseDelay * 2^a \in Int /\ MaxInt \in Int
BY RetryAssumption, SMT DEF MaxInt

LEMMA DelayType == ASSUME NEW a \in Nat PROVE Delays(a) \subseteq Int
<1>1. ASSUME NEW x \in Int, NEW d \in ToDuration(x) PROVE d \in Int
  BY <1>1, DurationTypes DEF ToDuration
<1>2. ASSUME NEW d \in Int PROVE Capped(d) \in Int
  BY RetryAssumption DEF Capped
<1>3. ASSUME NEW d \in Int, NEW j \in Jitters PROVE (d * j) \div 100 \in Int
  BY RetryAssumption
<1> QED BY <1>1, <1>2, <1>3, DurationTypes DEF Delays

\* A jitter of [50, 150) per cent takes at most half of the delay, and adds less than
\* half of it.
LEMMA JitterBounds ==
    ASSUME NEW d \in Nat, NEW j \in 50..149
    PROVE  (d * j) \div 100 >= d \div 2 /\ 2 * ((d * j) \div 100) <= 3 * d
OBVIOUS

LEMMA DelayBounds ==
    ASSUME NEW a \in Nat, BaseDelay * 2^a \in 0..MaxInt, NEW d \in Delays(a)
    PROVE  d >= Capped(BaseDelay * 2^a) \div 2 /\ 2 * d <= 3 * MaxDelay
<1> DEFINE x == BaseDelay * 2^a
<1>1. x \in Int /\ MaxInt \in Int /\ MaxDelay \in Nat
  BY DurationTypes, RetryAssumption
<1>2. x \in Nat /\ ToDuration(x) = {x}
  BY <1>1 DEF ToDuration
<1>3. PICK j \in Jitters : d = (Capped(x) * j) \div 100
  BY <1>2 DEF Delays
<1>4. j \in 50..149
  BY RetryAssumption
<1>5. Capped(x) \in Nat /\ Capped(x) <= MaxDelay
  BY <1>1, <1>2 DEF Capped
<1> HIDE DEF x
<1>6. d >= Capped(x) \div 2 /\ 2 * d <= 3 * Capped(x) /\ d \in Int
  BY <1>3, <1>4, <1>5, JitterBounds
<1>7. 3 * Capped(x) <= 3 * MaxDelay
  BY <1>1, <1>5
<1>8. 2 * d <= 3 * MaxDelay
  BY <1>1, <1>5, <1>6, <1>7
<1> QED BY <1>6, <1>8 DEF x
-----------------------------------------------------------------------------
(* The steps of a call. *)

LEMMA RetryInit == Init => RetryInv
BY RetryAssumption DEF Init, RetryInv, TypeOK, Progress, LateOnce, Waits, NilMeansHandled

LEMMA AttemptsType == TypeOK => maxAttempts \in Nat /\ attempt \in Nat /\ calls \in Nat
BY RetryAssumption DEF TypeOK

LEMMA DeliverStep == ASSUME RetryInv, NEW e \in SinkEvents, Deliver(e) PROVE RetryInv'
<1> USE AttemptsType DEF RetryInv, Deliver, LoopHead, InRange, config, fileVars, boundVars
<1>1. TypeOK'
  BY DEF TypeOK, Late
<1>2. Progress'
  BY RetryAssumption DEF Progress
<1>3. LateOnce'
  BY DEF LateOnce, Late, TypeOK
<1>4. Waits' /\ NilMeansHandled'
  BY DEF Waits, NilMeansHandled
<1> QED BY <1>1, <1>2, <1>3, <1>4

\* The inner sink's nil means that the event was kept.
LEMMA InnerOkStep == ASSUME RetryInv, InnerOk PROVE RetryInv'
<1> USE DEF RetryInv, InnerOk, ReturnNil, config, callVars, fileVars, boundVars
<1>1. event \in SinkEvents
  BY DEF Progress, TypeOK
<1>2. delivered' = delivered \cup {event}
  <2>1. \A answer \in Answers : ReturnsNil(answer) => answer[2] = "kept"
    BY DEF Answers, ReturnsNil
  <2> QED BY <2>1 DEF Receive
<1>3. TypeOK'
  BY <1>1, <1>2 DEF TypeOK
<1>4. Progress' /\ LateOnce' /\ Waits'
  BY DEF Progress, LateOnce, Waits
<1>5. NilMeansHandled'
  BY <1>2 DEF NilMeansHandled
<1> QED BY <1>3, <1>4, <1>5

LEMMA InnerErrorStep == ASSUME RetryInv, InnerError PROVE RetryInv'
<1> USE AttemptsType DEF RetryInv, InnerError, config, fileVars, boundVars
<1>1. event \in SinkEvents /\ attempt < maxAttempts /\ calls = attempt
  BY DEF Progress, TypeOK
<1>2. delivered \subseteq delivered' /\ delivered' \subseteq SinkEvents
  BY <1>1 DEF Receive, TypeOK
<1>3. delay' \in Int
  BY DelayType DEF TypeOK
<1>4. TypeOK'
  BY <1>1, <1>2, <1>3 DEF TypeOK
<1>5. Progress'
  BY <1>1 DEF Progress
<1>6. LateOnce'
  BY DEF LateOnce, GivesUp, TypeOK
<1>7. Waits' /\ NilMeansHandled'
  BY <1>2 DEF Waits, NilMeansHandled, Delays, ToDuration, Capped
<1> QED BY <1>4, <1>5, <1>6, <1>7

LEMMA BackoffStep == ASSUME RetryInv, BackoffEnds \/ BackoffCancelled PROVE RetryInv'
<1> USE AttemptsType DEF RetryInv, config, callVars, fileVars, boundVars
<1>1. CASE BackoffEnds
  <2> USE <1>1 DEF BackoffEnds, LoopHead, InRange
  <2>1. TypeOK'
    BY DEF TypeOK, Progress, Late
  <2>2. Progress'
    BY DEF Progress
  <2>3. LateOnce'
    BY DEF LateOnce, Late, TypeOK
  <2>4. Waits' /\ NilMeansHandled'
    BY DEF Waits, NilMeansHandled
  <2> QED BY <2>1, <2>2, <2>3, <2>4
<1>2. CASE BackoffCancelled
  BY <1>2 DEF BackoffCancelled, TypeOK, Progress, LateOnce, Waits, NilMeansHandled
<1> QED BY <1>1, <1>2

\* Behind the callback the event is in the file, or Deliver has not returned nil.
LEMMA FailureStep == ASSUME RetryInv, Propagate \/ DLQHandler PROVE RetryInv'
<1> USE DEF RetryInv, config, callVars, fileVars, boundVars
<1>1. CASE Propagate
  BY <1>1 DEF Propagate, TypeOK, Progress, LateOnce, Waits, NilMeansHandled
<1>2. CASE DLQHandler
  <2> USE <1>2 DEF DLQHandler, ReturnNil, WriteFails
  <2>1. event \in SinkEvents
    BY DEF Progress, TypeOK
  <2>2. TypeOK'
    BY <2>1 DEF TypeOK
  <2>3. Progress' /\ LateOnce' /\ Waits'
    BY DEF Progress, LateOnce, Waits
  <2>4. NilMeansHandled'
    BY DEF NilMeansHandled
  <2> QED BY <2>2, <2>3, <2>4
<1> QED BY <1>1, <1>2
-----------------------------------------------------------------------------
(* The environment. *)

LEMMA ProcessStep ==
    ASSUME RetryInv, Cancel \/ Shutdown \/ Kill \/ Restart PROVE RetryInv'
<1> USE DEF RetryInv, Cancel, Shutdown, Kill, Restart, config, callVars, fileVars, boundVars
<1>1. TypeOK'
  BY DEF TypeOK
<1>2. Progress' /\ Waits' /\ NilMeansHandled'
  BY DEF Progress, Waits, NilMeansHandled, Running, Delays, ToDuration, Capped
<1>3. LateOnce'
  BY DEF LateOnce, Running, TypeOK
<1> QED BY <1>1, <1>2, <1>3

LEMMA FileStep == ASSUME RetryInv, WriteBack \/ MachineCrash PROVE RetryInv'
<1> USE DEF RetryInv, WriteBack, MachineCrash, config, callVars, fileVars, boundVars
<1>1. TypeOK'
  BY DEF TypeOK
<1>2. Progress' /\ LateOnce' /\ Waits'
  BY DEF Progress, LateOnce, Waits
<1>3. NilMeansHandled'
  BY DEF NilMeansHandled, TypeOK
<1> QED BY <1>1, <1>2, <1>3

LEMMA RetryStep == RetryInv /\ [Next]_vars => RetryInv'
<1> SUFFICES ASSUME RetryInv, [Next]_vars PROVE RetryInv'
  OBVIOUS
<1>1. CASE UNCHANGED vars
  BY <1>1 DEF vars, config, callVars, fileVars, boundVars, RetryInv, TypeOK, Progress, LateOnce,
     Waits, NilMeansHandled
<1> QED BY <1>1, DeliverStep, InnerOkStep, InnerErrorStep, BackoffStep, FailureStep, ProcessStep,
           FileStep DEF Next, Call

LEMMA RetryInvariance == Spec => []RetryInv
BY RetryInit, RetryStep, PTL DEF Spec
-----------------------------------------------------------------------------
(* What the runs check. *)

\* RetrySink and the dead-letter file: every variable keeps its type, and calls and
\* attempts stay within maxAttempts.
THEOREM RetryTypeCorrect == Spec => []TypeOK
<1>1. RetryInv => TypeOK
  BY DEF RetryInv
<1> QED BY <1>1, RetryInvariance, PTL

\* When Deliver returns nil the event is at the destination or in the dead-letter file:
\* whatever attempts failed after they had delivered, and whatever was cancelled, killed
\* and started again; with the default callback over crashes of the machine, too.
THEOREM NilIsHandled == Spec => []NilMeansHandled
<1>1. RetryInv => NilMeansHandled
  BY DEF RetryInv
<1> QED BY <1>1, RetryInvariance, PTL

\* The failure callback runs after maxAttempts failed calls and gets their error; only
\* with no attempts configured is its error nil.
THEOREM CallbackHasCause == Spec => []FailureHasCause
<1>1. RetryInv => FailureHasCause
  BY AttemptsType DEF RetryInv, Progress, TypeOK, FailureHasCause
<1> QED BY <1>1, RetryInvariance, PTL

\* A Deliver call begins at most one attempt under a cancelled context.
THEOREM CancellationIsPrompt == Spec => []CancelStopsRetries
<1>1. RetryInv => CancelStopsRetries
  BY DEF RetryInv, LateOnce, CancelStopsRetries
<1> QED BY <1>1, RetryInvariance, PTL

\* A wait is at least half of min(baseDelay * 2^attempt, maxDelay), as long as the
\* product fits a time.Duration, and never more than one and a half times maxDelay.
THEOREM WaitsAreBounded == Spec => []BackoffIsPatient
<1>1. RetryInv => BackoffIsPatient
  BY AttemptsType, DelayBounds DEF RetryInv, Waits, BackoffIsPatient
<1> QED BY <1>1, RetryInvariance, PTL
=============================================================================
