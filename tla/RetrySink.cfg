\* No attempts or four, a delay of 6 bits that the fourth attempt overflows, kills
\* and a machine that may go down once.
CONSTANTS
    SinkEvents <- MCEvents
    Handlers <- BothHandlers
    AttemptLimits <- NoOrFourAttempts
    BaseDelay = 4
    MaxDelay = 12
    DurationBits = 6
    Jitters <- MCJitters
    MaxRestarts = 2
    MaxMachineCrashes = 1
SPECIFICATION FairSpec
INVARIANTS TypeOK NilMeansHandled FailureHasCause CancelStopsRetries BackoffIsPatient
PROPERTY DeliverReturns
CHECK_DEADLOCK FALSE
