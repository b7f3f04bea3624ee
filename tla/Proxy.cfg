\* Two clients compete for one connection per pool; one fault, shutdown at any time.
SPECIFICATION FairSpec
CONSTANTS
    Words <- MCWords
    Upper <- MCUpper
    Clients = {c1, c2}
    Primary = {p1}
    Replica = {r1}
    Statements <- Contended
    MaxMessages <- ThreeAndOne
    MaxFaults = 1
INVARIANTS TypeOK PinnedUntilEnd StatusMatchesRouting ConnPerStatement OneLateMessage
PROPERTIES QueryAnswered ShutdownCompletes
CHECK_DEADLOCK FALSE
