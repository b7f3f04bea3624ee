------------------------------ MODULE Snapshot ------------------------------
(***************************************************************************)
(* internal/cdc/snapshot.go in front of internal/cdc/stream.go: a process  *)
(* started with -snapshot reads its tables in one REPEATABLE READ          *)
(* transaction, hands the rows to the handler, and then streams from the   *)
(* position it read (docs/architecture.md, phases 2 and 3).                *)
(*                                                                         *)
(* A change is an event <<transaction, row>> of module Stream. The         *)
(* destination is a Kafka log: view has the last change of each key; a     *)
(* record of the snapshot stands for the change that made its row.         *)
(***************************************************************************)
EXTENDS KafkaSink

CONSTANT
    TableLists    \* what NewSnapshot may be given; <<>> is a start without -snapshot

VARIABLES
    snapPc,       \* where Snapshot.Run is; "idle" before it, "done" after its commit
    tables,       \* Snapshot.tables
    read,         \* how many of them are read
    copied,       \* the rows of these, as the changes that made them
    visible,      \* the MVCC snapshot: transactions 1..visible
    lsn,          \* what pg_current_wal_lsn() returned, 0 without a snapshot
    captured,     \* per table, the transactions its last completed snapshot has seen
    view          \* the destination: the last record of each key

snapVars == <<snapPc, tables, read, copied, visible, lsn>>
allVars == <<vars, snapVars, captured, view>>

NoChange == <<0, 0>>

Precedes(e, f) == e[1] < f[1] \/ (e[1] = f[1] /\ e[2] < f[2])

RowOf(e) == <<TableOf(e[1], e[2]), Images[e].row>>

Rows == {RowOf(e) : e \in Events}

\* The change that made the row what it is after transactions 1..n.
LastChange(row, n) ==
    LET S == {e \in Events : e[1] <= n /\ RowOf(e) = row}
    IN  IF S = {} THEN NoChange ELSE CHOOSE e \in S : \A f \in S : ~Precedes(e, f)

Action(e) == RowAt(e[1], e[2]).action

HasRow(e) == e # NoChange /\ Action(e) \in {"INSERT", "UPDATE"}

\* The rows of a table after transactions 1..n, each as the change that made it.
Contents(table, n) ==
    {e \in {LastChange(r, n) : r \in {q \in Rows : q[1] = table}} : HasRow(e)}

\* SELECT * FROM "name" finds the table in public, which is also the event's schema.
TableNamed(name) == <<"public", name>>
TablesRead == {TableNamed(tables[k]) : k \in 1..read}

\* snapshotTable finds the columns by table name alone: names are unique here.
ASSUME SnapshotAssumption ==
    /\ \A a, b \in Tables : a[2] = b[2] => a = b
    /\ TableLists \subseteq Seq(Names) /\ <<>> \in TableLists

SnapInit ==
    /\ Init
    /\ snapPc = "idle" /\ tables = <<>> /\ read = 0 /\ copied = {} /\ visible = 0 /\ lsn = 0
    /\ captured = [t \in Tables |-> 0]
    /\ view = {}
-----------------------------------------------------------------------------
(* Snapshot.Run. *)

\* Mutant: the number of tables read outlives the list.
MutCountKept ==
    /\ snapPc' = "idle" /\ tables' = <<>> /\ read' = read
    /\ copied' = {} /\ visible' = 0 /\ lsn' = 0

\* Nothing is kept of a snapshot that failed, or that a stream has started from.
Forget ==
    /\ snapPc' = "idle" /\ tables' = <<>> /\ read' = 0
    /\ copied' = {} /\ visible' = 0 /\ lsn' = 0

\* Connect and BEGIN, which takes no MVCC snapshot yet.
SnapBegin ==
    /\ pc = "stopped"
    /\ snapPc = "idle"
    /\ tables' \in TableLists \ {<<>>}
    /\ snapPc' = "begun"
    /\ UNCHANGED <<vars, read, copied, visible, lsn, captured, view>>

\* The first statement, SELECT pg_current_wal_lsn(), takes it when it starts ...
SnapTake ==
    /\ snapPc = "begun"
    /\ visible' = committed
    /\ snapPc' = "taken"
    /\ UNCHANGED <<vars, tables, read, copied, lsn, captured, view>>

\* ... and reads the server's position while it runs.
SnapReadLSN ==
    /\ snapPc = "taken"
    /\ lsn' = ConsistentPoint
    /\ snapPc' = "tables"
    /\ UNCHANGED <<vars, tables, read, copied, visible, captured, view>>

\* Mutant: READ COMMITTED, where each statement has a snapshot of its own.
MutReadCommitted == committed

\* The transactions SELECT * sees.
Seen == visible

\* What main passes to SetStartLSN.
StartLSN == lsn

\* What the destination may have after it was handed the changes S of a table in the
\* order in which SELECT returned them: the last one of each key.
Handed(S) ==
    LET keys == {SnapshotRecord(e) : e \in S}
        lasts == {f \in [keys -> S] : \A k \in keys : SnapshotRecord(f[k]) = k}
    IN  {{r \in view : r[1] \notin keys} \cup {<<k, f[k]>> : k \in keys} : f \in lasts}

\* snapshotTable for the next table: its rows go to the handler.
SnapTable ==
    /\ snapPc = "tables"
    /\ read < Len(tables)
    /\ TableNamed(tables[read + 1]) \in Tables
    /\ LET S == Contents(TableNamed(tables[read + 1]), Seen)
       IN  view' \in Handed(S) /\ copied' = copied \cup S
    /\ read' = read + 1
    /\ UNCHANGED <<vars, snapPc, tables, visible, lsn, captured>>

\* The commit; Run returns the position.
SnapCommit ==
    /\ snapPc = "tables"
    /\ read = Len(tables)
    /\ snapPc' = "done"
    /\ captured' = [t \in Tables |-> IF t \in TablesRead THEN visible ELSE captured[t]]
    /\ UNCHANGED <<vars, tables, read, copied, visible, lsn, view>>

\* The handler returns an error for a row; the destination has some of the rows
\* before it, and may have this one all the same.
SnapHandlerError ==
    /\ snapPc = "tables"
    /\ read < Len(tables)
    /\ Fault
    /\ LET S == Contents(TableNamed(tables[read + 1]), Seen)
       IN  S # {} /\ \E T \in SUBSET S : view' \in Handed(T)
    /\ Forget
    /\ UNCHANGED <<pgVars, sendVars, ackWire, pc, procVars, handled, captured>>

\* A statement fails, as it does for a table that is not there, or the process ends.
SnapFails ==
    /\ snapPc # "idle" /\ pc = "stopped"
    /\ Fault
    /\ Forget
    /\ UNCHANGED <<pgVars, sendVars, ackWire, pc, procVars, handled, captured, view>>

SnapStep == SnapBegin \/ SnapTake \/ SnapReadLSN \/ SnapTable \/ SnapCommit
-----------------------------------------------------------------------------
(* The stream behind it, and the destination. *)

\* The destination takes what the handler is called with; after an error it has
\* it if it had it before, or may have it now.
Consume ==
    LET produced == Produce(view, Record(<<cur, idx>>), <<cur, idx>>)
    IN  view' \in CASE pc = "handler" /\ pc' = "top" -> {produced}
                    [] pc = "handler" /\ pc' = "return" ->
                         (IF handled' = handled THEN {view} ELSE {produced})
                         \cup (IF Handled(cur, idx) THEN {produced} ELSE {})
                    [] OTHER -> {view}

\* The stream is started after Run has returned nil, at its position.
StreamStep ==
    /\ Next
    /\ pc = "stopped" /\ pc' = "publication" =>
          snapPc \in {"idle", "done"} /\ startLSNOverride' = StartLSN
    /\ IF pc' # pc /\ pc' \in {"top", "stopped"} THEN Forget ELSE UNCHANGED snapVars
    /\ Consume
    /\ UNCHANGED captured

SnapNext == SnapStep \/ SnapHandlerError \/ SnapFails \/ StreamStep

SnapSpec == SnapInit /\ [][SnapNext]_allVars

\* The statements of a snapshot end; the rest is the fairness of the stream.
FairSnapSpec == SnapSpec /\ Fairness /\ WF_allVars(SnapStep)
-----------------------------------------------------------------------------
(* Properties. *)

SnapTypeOK ==
    /\ TypeOK
    /\ snapPc \in {"idle", "begun", "taken", "tables", "done"}
    /\ tables \in TableLists /\ read \in 0..Len(tables) /\ copied \subseteq Events
    /\ visible \in 0..committed /\ lsn \in Nat
    /\ captured \in [Tables -> 0..committed]
    /\ \A r \in view : r[2] \in Events
    /\ \A r, q \in view : r[1] = q[1] => r = q

\* "REPEATABLE READ gives us a consistent snapshot of the entire database at one
\* point in time": the tables read so far are those after one transaction, however
\* many commit between two of the statements.
SnapshotIsConsistent ==
    snapPc \in {"tables", "done"} =>
       \E n \in 0..committed : copied = UNION {Contents(table, n) : table \in TablesRead}

\* docs/architecture.md: "Any changes that committed before this LSN are captured by
\* the snapshot; changes after it are captured by the stream."
SnapshotMeetsStream ==
    [][pc = "start" /\ pc' = "top" /\ snapPc = "done" =>
          \A t \in 1..committed : t <= visible \/ Commit(t) >= sessionStart']_allVars

\* In neither: committed after the last snapshot of the table and before the stream's
\* debt begins.
Missed(table, t) == t > captured[table] /\ Commit(t) < floor

\* A snapshot has no event for a row that is gone, and a TRUNCATE is not forwarded.
Untold(table, e) == Action(e) = "TRUNCATE" \/ (Action(e) = "DELETE" /\ e[1] <= captured[table])

\* The versions of a row that the destination takes for its present one.
Copies(row) == {e \in {r[2] : r \in view} : RowOf(e) = row /\ HasRow(e)}

\* When the stream has caught up, the destination has the rows of the database,
\* whatever was replayed, copied twice or copied in part, except for what Missed
\* and Untold name. All records of a row have one key (kafka.go, "all changes for
\* the same row go to the same partition"), so that no older version stays beside
\* or in place of the last one, be it copied by a snapshot or streamed.
DestinationCurrent ==
    pc = "recv" /\ cur = 0 /\ ToSend = {} /\ committed = Len(Txns) =>
       \A row \in Rows :
          LET last == LastChange(row, committed)
          IN  \/ Missed(row[1], last[1]) \/ Untold(row[1], last)
              \/ Copies(row) = IF HasRow(last) THEN {last} ELSE {}
=============================================================================
