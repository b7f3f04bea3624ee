-------------------------------- MODULE Wal --------------------------------
(***************************************************************************)
(* External: the write-ahead log of PostgreSQL as a logical replication    *)
(* client sees it, modelled from what internal/cdc/stream.go reads out of  *)
(* XLogData (WALStart, len(WALData)) and reports back with                 *)
(* StandbyStatusUpdate.                                                    *)
(*                                                                         *)
(* The log is a constant: Txns lists the transactions in commit order.     *)
(* The rows of concurrent transactions interleave in the log, so a row of  *)
(* a later transaction may have a lower LSN than a row of an earlier one.  *)
(*   lsn     where the row's WAL record starts (WALStart of its message)   *)
(*   len     length of the pgoutput message that carries the row; it is    *)
(*           the length of the decoded text, not of the WAL record         *)
(*   version which of its table's schemas the row was written with         *)
(*   commit  where the commit record starts                                *)
(*   end     where it ends: WALStart of the Commit message                 *)
(***************************************************************************)
EXTENDS Integers, Sequences

CONSTANTS
    Txns,         \* the history, a sequence of transactions
    Names,        \* schema, table and other identifiers
    BeginLen,     \* length of a Begin message
    CommitLen,    \* length of a Commit message
    RelationLen   \* length of a Relation message

RowActions == {"INSERT", "UPDATE", "DELETE", "TRUNCATE"}

Row == [lsn: Nat, len: Nat, schema: Names, table: Names, action: RowActions,
        version: Nat \ {0}]

Txn == [rows: Seq(Row), commit: Nat, end: Nat]

TxnIds == 1..Len(Txns)
RowIds(t) == 1..Len(Txns[t].rows)
RowAt(t, i) == Txns[t].rows[i]
Commit(t) == Txns[t].commit
End(t) == Txns[t].end

\* A history is well formed: commit records do not overlap and follow the rows
\* of their transactions. The last conjunct says that real LSNs are far above the
\* length of a Relation message, which pgoutput sends with WALStart 0.
ASSUME WalAssumption ==
    /\ Txns \in Seq(Txn)
    /\ BeginLen \in Nat /\ CommitLen \in Nat /\ RelationLen \in Nat
    /\ \A t \in TxnIds : /\ Commit(t) < End(t)
                         /\ RelationLen < Commit(t)
                         /\ \A i \in RowIds(t) : RowAt(t, i).lsn < Commit(t)
    /\ \A t, u \in TxnIds : t < u => End(t) <= Commit(u)

(***************************************************************************)
(* A message that starts at lsn s and is n bytes long moves the client's   *)
(* position to s + n. The history has no overshoot when such a position    *)
(* never reaches past the commit record of a transaction that is not yet   *)
(* received in full. It can fail in two ways: a decoded row longer than    *)
(* what is left of its transaction's WAL (a TOASTed or hex-printed         *)
(* column), and a commit record that follows another one within            *)
(* CommitLen bytes (two concurrent transactions).                          *)
(***************************************************************************)
NoOvershoot ==
    /\ \A t \in TxnIds : \A i \in RowIds(t) :
          /\ RowAt(t, i).lsn + RowAt(t, i).len < Commit(t)
          /\ RowAt(t, i).lsn + BeginLen < Commit(t)
    /\ \A t, u \in TxnIds : t < u => End(t) + CommitLen < Commit(u)
=============================================================================
