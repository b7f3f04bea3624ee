\* Statements without result columns on the replica.
SPECIFICATION Spec
CONSTANTS
    Words <- MCWords
    Upper <- MCUpper
    Clients = {c1}
    Primary = {p1}
    Replica = {r1}
    Statements <- ReadsOnly
    MaxMessages <- ThreeAndOne
    MaxFaults = 0
INVARIANT ErrorReported
CHECK_DEADLOCK FALSE
