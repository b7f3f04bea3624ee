---------------------------- MODULE MCSnapshot ----------------------------
(* The history and the table lists for the runs of module Snapshot. *)
EXTENDS Snapshot, MCStream

\* Both tables change twice, and a row is deleted.
CopyTxns == <<
    [rows |-> <<Ins(10, 2, "Users"), Ins(14, 3, "orders")>>, commit |-> 22, end |-> 24],
    [rows |-> <<Act(34, 2, "orders", "UPDATE"), Act(38, 3, "Users", "DELETE")>>,
     commit |-> 44, end |-> 46]>>

MCSnapshotLSNs == {1} \cup {End(t) : t \in TxnIds}
MCTableLists == {<<>>, <<"Users", "orders">>}

\* One row per table. Its note is too long to be kept in the table, and does not
\* change; a DELETE has the id only.
MCImages == [e \in Events |->
    [row |-> 1, values |-> [id |-> 1, note |-> 2],
     unchanged |-> IF Action(e) = "UPDATE" THEN {"note"} ELSE {}]]
MCReplicaIdentity == [t \in Tables |-> {"id"}]
=============================================================================
