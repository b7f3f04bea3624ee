\* Two concurrent callers, as the contract of sink.go allows; errors and a crash.
CONSTANTS
    Callers <- TwoCallers
    MaxSize = 2
    MaxEvents = 4
    MaxErrors = 1
    MaxCrashes = 1
SPECIFICATION FairSpec
INVARIANTS TypeOK Conservation TimerCoverage BatchBounded
PROPERTY BufferDrains
CHECK_DEADLOCK FALSE
