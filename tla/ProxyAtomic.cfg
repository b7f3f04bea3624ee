\* One client: a write in a transaction that is rolled back.
SPECIFICATION Spec
CONSTANTS
    Words <- MCWords
    Upper <- MCUpper
    Clients = {c1}
    Primary = {p1}
    Replica = {r1}
    Statements <- Small
    MaxMessages <- ThreeAndOne
    MaxFaults = 0
INVARIANT RollbackUndoes
CHECK_DEADLOCK FALSE
