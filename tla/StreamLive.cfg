\* Starts with and without -snapshot; the stream creates publication and slot; one fault.
CONSTANTS
    Txns <- CopyTxns
    Names <- MCNames
    BeginLen = 1
    CommitLen = 2
    RelationLen = 3
    Lower <- MCLower
    Upper <- MCUpper
    Tables <- MCTables
    StreamFilter <- NoFilter
    InitialPublications <- NoPublications
    SnapshotLSNs <- MCSnapshotLSNs
    MaxFaults = 1
    TableLists <- MCTableLists
    Images <- MCImages
    ReplicaIdentity <- MCReplicaIdentity
    Null = 99
SPECIFICATION FairSnapSpec
INVARIANTS SnapTypeOK ConfirmedIsHandled SnapshotIsConsistent DestinationCurrent
PROPERTIES ImplementsDelivery EventuallyHandled SlotAdvances
