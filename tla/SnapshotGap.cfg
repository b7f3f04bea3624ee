\* The first start with -snapshot, no fault.
CONSTANTS
    Txns <- CopyTxns
    Names <- MCNames
    BeginLen = 1
    CommitLen = 2
    RelationLen = 3
    Lower <- MCLower
    Upper <- MCUpper
    Tables <- MCTables
    StreamFilter <- NoFilter
    InitialPublications <- NoPublications
    SnapshotLSNs <- MCSnapshotLSNs
    MaxFaults = 0
    TableLists <- MCTableLists
    Images <- MCImages
    ReplicaIdentity <- MCReplicaIdentity
    Null = 99
SPECIFICATION SnapSpec
PROPERTY SnapshotMeetsStream
