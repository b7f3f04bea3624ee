\* Serial transactions, two faults anywhere.
CONSTANTS
    Txns <- SerialTxns
    Names <- MCNames
    BeginLen = 1
    CommitLen = 2
    RelationLen = 3
    Lower <- MCLower
    Upper <- MCUpper
    Tables <- MCTables
    StreamFilter <- MCFilter
    InitialPublications <- MCPublications
    SnapshotLSNs <- NoSnapshots
    MaxFaults = 2
SPECIFICATION Spec
INVARIANTS TypeOK ConfirmedIsHandled LsnDeduplicates
PROPERTY RowsMeetTheirSchema
