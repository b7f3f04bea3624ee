\* A decoded row longer than what is left of its transaction in the WAL.
CONSTANTS
    Txns <- WideRowTxns
    Names <- MCNames
    BeginLen = 1
    CommitLen = 2
    RelationLen = 3
    Lower <- MCLower
    Upper <- MCUpper
    Tables <- MCTables
    StreamFilter <- NoFilter
    InitialPublications <- NoPublications
    SnapshotLSNs <- NoSnapshots
    MaxFaults = 1
SPECIFICATION Spec
INVARIANT ConfirmedIsHandled
