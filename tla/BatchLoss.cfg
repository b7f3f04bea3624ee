\* One stream, one error of the destination, no crash.
CONSTANTS
    Callers <- OneCaller
    MaxSize = 2
    MaxEvents = 3
    MaxErrors = 1
    MaxCrashes = 0
SPECIFICATION Spec
INVARIANT DropStopsStream
CHECK_DEADLOCK FALSE
