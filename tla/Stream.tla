------------------------------- MODULE Stream -------------------------------
(***************************************************************************)
(* internal/cdc/stream.go: the replication client. One process runs        *)
(* Stream.Run: connect, ensure the publication and the slot, start         *)
(* replication, then the message loop, whose deferred function sends a     *)
(* last acknowledgement on every return. The process may be killed at any  *)
(* point, its connection may break and its context may be cancelled; a     *)
(* new process is then started.                                            *)
(*                                                                         *)
(* PostgreSQL (the log of module Wal, the slot, the walsender) is the      *)
(* environment. The handler is a sink whose Deliver returns nil only when  *)
(* the event is at the destination or in the dead-letter file.             *)
(***************************************************************************)
EXTENDS Wal, Filter

CONSTANTS
    Tables,               \* tables of the database, as <<schema, table>>
    StreamFilter,         \* Stream.filter
    InitialPublications,  \* what an operator may have published beforehand
    SnapshotLSNs,         \* positions a caller may pass to SetStartLSN
    MaxFaults             \* bound on crashes, broken connections, errors, shutdowns

VARIABLES
    \* --- PostgreSQL, durable ---
    committed,        \* transactions 1..committed have committed
    pubExists,        \* the publication exists ...
    publication,      \* ... for these tables
    slotExists,       \* the replication slot exists ...
    confirmed,        \* ... with this confirmed_flush_lsn
    consistent,       \* the slot's consistent point: nothing before it can be decoded
    floor,            \* the stream owes the transactions that commit from here on:
                      \* the slot's consistent point or a later snapshot LSN
    \* --- the connection and its walsender ---
    sessionStart,     \* position START_REPLICATION begins at
    done,             \* last transaction sent in full, or 0
    cur,              \* transaction being sent, or 0
    idx,              \* its last row sent, or 0
    announced,        \* the schema of each table last sent in a Relation message, or 0
    ackWire,          \* flush position sent and not yet read by the walsender, or 0
    \* --- the process ---
    pc,
    ctxDone,          \* the context is cancelled
    startLSNOverride, \* Stream.startLSNOverride, 0 when ""
    startLSN,         \* what ensureSlot returned
    lastReceivedLSN, lastAckedLSN,
    ackDue,           \* time.Now().After(nextAckTime)
    relations,        \* Stream.relations: the schema cached for each table, 0 for none
    currentXid,       \* Stream.currentXid, 0 outside a transaction
    \* --- the destination ---
    handled,           \* events at the sink or in the dead-letter file
    faults

pgVars   == <<committed, pubExists, publication, slotExists, confirmed, consistent, floor>>
sendVars == <<sessionStart, done, cur, idx, announced>>
procVars == <<ctxDone, startLSNOverride, startLSN, lastReceivedLSN, lastAckedLSN,
              ackDue, relations, currentXid>>
vars == <<pgVars, sendVars, ackWire, pc, procVars, handled, faults>>

Positions == {"stopped", "publication", "slot", "start", "top", "recv", "handler", "return"}

\* The ChangeEvents of the history, each named by its transaction and its row: RowAt has
\* its action, schema and table, EventLSN its LSN, and the transaction is its Xid.
Events == UNION {{t} \X RowIds(t) : t \in TxnIds}

Later(a, b) == IF a < b THEN b ELSE a

ASSUME StreamAssumption ==
    /\ MaxFaults \in Nat
    /\ SnapshotLSNs \subseteq Nat
    /\ InitialPublications \subseteq SUBSET Tables
-----------------------------------------------------------------------------
(* What the walsender sends. *)

TableOf(t, i) == <<RowAt(t, i).schema, RowAt(t, i).table>>
Version(t, i) == RowAt(t, i).version
NoSchemas == [tab \in Tables |-> 0]

Published(t, i) == TableOf(t, i) \in publication

PublishedRows(t) == {i \in RowIds(t) : Published(t, i)}

\* Transactions the walsender still has to send in this session: those whose
\* commit record is not before the position it started at. PostgreSQL 16 sends
\* nothing at all for a transaction without published rows.
ToSend == {t \in (done + 1)..committed : Commit(t) >= sessionStart /\ PublishedRows(t) # {}}

RowsToSend == {i \in PublishedRows(cur) : i > idx}

IsFirst(x, S) == x \in S /\ \A y \in S : x <= y

\* processMessage hands an event to the handler: a row (a TRUNCATE is only
\* logged) that deliverIfMatch lets through.
Forwarded(t, i) ==
    /\ RowAt(t, i).action # "TRUNCATE"
    /\ Match(StreamFilter, RowAt(t, i))

\* Mutant: an event carries the LSN of its transaction's commit.
MutCommitLSN(t, i) == Commit(t)

\* ChangeEvent.LSN: WALStart of the row's message.
EventLSN(t, i) == RowAt(t, i).lsn
-----------------------------------------------------------------------------
Init ==
    /\ committed = 0
    /\ \/ pubExists = FALSE /\ publication = {}
       \/ pubExists = TRUE /\ publication \in InitialPublications
    /\ slotExists = FALSE /\ confirmed = 0 /\ consistent = 0 /\ floor = 0
    /\ sessionStart = 0 /\ done = 0 /\ cur = 0 /\ idx = 0 /\ announced = NoSchemas
    /\ ackWire = 0
    /\ pc = "stopped"
    /\ ctxDone = FALSE /\ startLSNOverride = 0 /\ startLSN = 0
    /\ lastReceivedLSN = 0 /\ lastAckedLSN = 0 /\ ackDue = FALSE
    /\ relations = NoSchemas /\ currentXid = 0
    /\ handled = {}
    /\ faults = 0

-----------------------------------------------------------------------------
(* PostgreSQL. *)

\* The next transaction of the history commits.
PgCommit ==
    /\ committed < Len(Txns)
    /\ committed' = committed + 1
    /\ UNCHANGED <<pubExists, publication, slotExists, confirmed, consistent, floor,
                   sendVars, ackWire, pc, procVars, handled, faults>>

\* The walsender reads a status update. Releases before the fix that forbids it
\* let confirmed_flush_lsn move backwards, so both outcomes are possible.
PgReadAck ==
    /\ ackWire # 0
    /\ confirmed' \in {ackWire, Later(confirmed, ackWire)}
    /\ ackWire' = 0
    /\ UNCHANGED <<committed, pubExists, publication, slotExists, consistent, floor,
                   sendVars, pc, procVars, handled, faults>>

\* A status update is lost with the connection.
PgDropAck ==
    /\ ackWire # 0
    /\ pc = "stopped"
    /\ ackWire' = 0
    /\ UNCHANGED <<pgVars, sendVars, pc, procVars, handled, faults>>
-----------------------------------------------------------------------------
(* Stream.Run up to the message loop. *)

Fault == faults < MaxFaults /\ faults' = faults + 1

\* The process ends: its memory and its walsender are gone. A status update it
\* has sent may still be read.
Exit ==
    /\ pc' = "stopped"
    /\ ctxDone' = FALSE /\ startLSNOverride' = 0 /\ startLSN' = 0
    /\ lastReceivedLSN' = 0 /\ lastAckedLSN' = 0 /\ ackDue' = FALSE
    /\ relations' = NoSchemas /\ currentXid' = 0
    /\ sessionStart' = 0 /\ done' = 0 /\ cur' = 0 /\ idx' = 0 /\ announced' = NoSchemas

\* The server's WAL has reached lsn, so that a snapshot can have it as its position.
Reached(lsn) == \A t \in TxnIds : Commit(t) < lsn => t <= committed

\* A new process: NewStream, SetStartLSN when a snapshot was taken, and the
\* replication connection of Run.
Connect ==
    /\ pc = "stopped"
    /\ startLSNOverride' \in {0} \cup {l \in SnapshotLSNs : Reached(l)}
    /\ pc' = "publication"
    /\ UNCHANGED <<pgVars, sendVars, ackWire, ctxDone, startLSN, lastReceivedLSN,
                   lastAckedLSN, ackDue, relations, currentXid, handled, faults>>

\* The tables CREATE PUBLICATION is given; an unqualified name is looked up in
\* the public schema.
Qualified(n) == IF Len(n) = 1 THEN <<"public", n[1]>> ELSE n

PublicationTables ==
    IF TableList(StreamFilter) # {} THEN {Qualified(n) : n \in TableList(StreamFilter)}
    ELSE Tables

\* ensurePublication: an existing publication is reused whatever its tables are.
\* CREATE PUBLICATION fails when a table does not exist.
EnsurePublication ==
    /\ pc = "publication"
    /\ \/ /\ pubExists
          /\ pc' = "slot"
          /\ UNCHANGED <<pubExists, publication, sendVars, procVars, handled>>
       \/ /\ ~pubExists
          /\ PublicationTables \subseteq Tables
          /\ pubExists' = TRUE
          /\ publication' = PublicationTables
          /\ pc' = "slot"
          /\ UNCHANGED <<sendVars, procVars, handled>>
       \/ /\ ~pubExists
          /\ ~(PublicationTables \subseteq Tables)
          /\ Exit
          /\ UNCHANGED <<pubExists, publication, handled>>
    /\ UNCHANGED <<committed, slotExists, confirmed, consistent, floor, ackWire, faults>>

\* CREATE_REPLICATION_SLOT waits for running transactions to finish, so that the
\* consistent point separates the transactions of the log.
ConsistentPoint == IF committed = 0 THEN 1 ELSE End(committed)

NoneRunning ==
    \A t \in (committed + 1)..Len(Txns) : \A i \in RowIds(t) : RowAt(t, i).lsn >= ConsistentPoint

\* ensureSlot: create the slot, or look up the position of the existing one.
EnsureSlot ==
    /\ pc = "slot"
    /\ \/ /\ ~slotExists
          /\ NoneRunning
          /\ slotExists' = TRUE
          /\ confirmed' = ConsistentPoint
          /\ consistent' = ConsistentPoint
          /\ floor' = Later(floor, ConsistentPoint)
          /\ startLSN' = ConsistentPoint
       \/ /\ slotExists
          /\ startLSN' = confirmed
          /\ UNCHANGED <<slotExists, confirmed, consistent, floor>>
    /\ pc' = "start"
    /\ UNCHANGED <<committed, pubExists, publication, sendVars, ackWire,
                   ctxDone, startLSNOverride, lastReceivedLSN, lastAckedLSN,
                   ackDue, relations, currentXid, handled, faults>>

\* The override, if any, and START_REPLICATION. The slot is exclusive, so the old
\* walsender has read or lost what was on its connection. A position before
\* confirmed_flush_lsn is moved up to it by the server, and decoding starts at the
\* slot's consistent point at the earliest. Neither position is used again.
StartReplication ==
    /\ pc = "start"
    /\ ackWire = 0
    /\ LET from == IF startLSNOverride # 0 THEN startLSNOverride ELSE startLSN IN
          sessionStart' = Later(Later(from, confirmed), consistent)
    /\ floor' = Later(floor, startLSNOverride)
    /\ startLSNOverride' = 0 /\ startLSN' = 0
    /\ pc' = "top"
    /\ UNCHANGED <<committed, pubExists, publication, slotExists, confirmed, consistent,
                   done, cur, idx, announced, ackWire, ctxDone, lastReceivedLSN, lastAckedLSN,
                   ackDue, relations, currentXid, handled, faults>>

\* Any step of Run before the message loop returns an error.
StartupFails ==
    /\ pc \in {"publication", "slot", "start"}
    /\ Fault
    /\ Exit
    /\ UNCHANGED <<pgVars, ackWire, handled>>
-----------------------------------------------------------------------------
(* Stream.messageLoop. *)

\* Mutant: the position before lsn.
MutSendAckBefore(lsn) == ackWire' = lsn - 1

\* sendAck: the position reported is one past lsn.
SendAck(lsn) == ackWire' = lsn + 1

NewerToAck == lastReceivedLSN > lastAckedLSN

\* Mutant: no periodic acknowledgement.
MutNeverDue == FALSE

AckIsDue == ackDue /\ NewerToAck

\* The top of the loop: leave when the context is cancelled, send the periodic
\* acknowledgement when it is due.
LoopTop ==
    /\ pc = "top"
    /\ \/ /\ ctxDone
          /\ pc' = "return"
          /\ UNCHANGED <<ackWire, lastAckedLSN, ackDue>>
       \/ /\ ~ctxDone
          /\ AckIsDue
          /\ SendAck(lastReceivedLSN)
          /\ lastAckedLSN' = lastReceivedLSN
          /\ ackDue' = FALSE
          /\ pc' = "recv"
       \/ /\ ~ctxDone
          /\ ~AckIsDue
          /\ pc' = "recv"
          /\ UNCHANGED <<ackWire, lastAckedLSN, ackDue>>
    /\ UNCHANGED <<pgVars, sendVars, ctxDone, startLSNOverride, startLSN,
                   lastReceivedLSN, relations, currentXid, handled, faults>>

\* ackInterval elapses.
AckTick ==
    /\ pc \in {"top", "recv", "handler"}
    /\ ~ackDue
    /\ ackDue' = TRUE
    /\ UNCHANGED <<pgVars, sendVars, ackWire, pc, ctxDone, startLSNOverride, startLSN,
                   lastReceivedLSN, lastAckedLSN, relations, currentXid, handled, faults>>

\* ReceiveMessage times out. Without anything to do at the top of the loop the
\* step changes nothing and is left out.
RecvTimeout ==
    /\ pc = "recv"
    /\ ctxDone \/ AckIsDue
    /\ pc' = "top"
    /\ UNCHANGED <<pgVars, sendVars, ackWire, procVars, handled, faults>>

\* Mutant: the reply acknowledges keepalive.ServerWALEnd.
MutServerWALEnd == IF committed = 0 THEN 0 ELSE End(committed)

\* What the reply to a keepalive acknowledges.
KeepaliveLSN == lastReceivedLSN

\* A keepalive that requests a reply acknowledges lastReceivedLSN as it is; one
\* that does not changes nothing.
ReceiveKeepalive ==
    /\ pc = "recv"
    /\ SendAck(KeepaliveLSN)
    /\ pc' = "top"
    /\ UNCHANGED <<pgVars, sendVars, procVars, handled, faults>>

\* Mutant: Begin moves the position to its FinalLSN.
MutFinalLSN(t, i) == Commit(t)

\* The position after a Begin message.
BeginLSN(t, i) == RowAt(t, i).lsn + BeginLen

\* Begin: the walsender takes up the next transaction. The message carries the
\* transaction's Xid and the LSN of its first published row.
ReceiveBegin ==
    /\ pc = "recv"
    /\ cur = 0
    /\ \E t \in ToSend : \E i \in PublishedRows(t) :
          /\ IsFirst(t, ToSend) /\ IsFirst(i, PublishedRows(t))
          /\ cur' = t
          /\ lastReceivedLSN' = BeginLSN(t, i)
          /\ currentXid' = t
    /\ idx' = 0
    /\ pc' = "top"
    /\ UNCHANGED <<pgVars, sessionStart, done, announced, ackWire, ctxDone, startLSNOverride,
                   startLSN, lastAckedLSN, ackDue, relations, handled, faults>>

\* Mutants: the schema is not cached; the first schema of a table is kept.
MutNotCached(table, version) == relations
MutKeepsFirst(table, version) ==
    IF relations[table] = 0 THEN [relations EXCEPT ![table] = version] ELSE relations

Cached(table, version) == [relations EXCEPT ![table] = version]

\* Relation: sent before a table's first row of the session and before its first row
\* after an ALTER TABLE, with WALStart 0.
ReceiveRelation ==
    /\ pc = "recv"
    /\ cur # 0
    /\ \E i \in RowsToSend :
          /\ IsFirst(i, RowsToSend)
          /\ announced[TableOf(cur, i)] # Version(cur, i)
          /\ announced' = [announced EXCEPT ![TableOf(cur, i)] = Version(cur, i)]
          /\ relations' = Cached(TableOf(cur, i), Version(cur, i))
    /\ lastReceivedLSN' = RelationLen
    /\ pc' = "top"
    /\ UNCHANGED <<pgVars, sessionStart, done, cur, idx, ackWire, ctxDone, startLSNOverride, startLSN,
                   lastAckedLSN, ackDue, currentXid, handled, faults>>

\* "unknown relation": no schema is cached for the table of an Insert, Update or Delete.
UnknownRelation(t, i) == RowAt(t, i).action # "TRUNCATE" /\ relations[TableOf(t, i)] = 0

\* Insert, Update, Delete or Truncate: the walsender has announced the row's schema.
\* The position moves before the row is decoded and the handler runs.
ReceiveRow ==
    /\ pc = "recv"
    /\ cur # 0
    /\ \E i \in RowsToSend :
          /\ IsFirst(i, RowsToSend)
          /\ announced[TableOf(cur, i)] = Version(cur, i)
          /\ idx' = i
          /\ lastReceivedLSN' = RowAt(cur, i).lsn + RowAt(cur, i).len
          /\ pc' = IF UnknownRelation(cur, i) THEN "return"
                   ELSE IF Forwarded(cur, i) THEN "handler" ELSE "top"
    /\ UNCHANGED <<pgVars, sessionStart, done, cur, announced, ackWire, ctxDone, startLSNOverride, startLSN,
                   lastAckedLSN, ackDue, relations, currentXid, handled, faults>>

\* Commit: its message starts at the end of the commit record.
ReceiveCommit ==
    /\ pc = "recv"
    /\ cur # 0
    /\ RowsToSend = {}
    /\ lastReceivedLSN' = End(cur) + CommitLen
    /\ currentXid' = 0
    /\ done' = cur /\ cur' = 0 /\ idx' = 0
    /\ pc' = "top"
    /\ UNCHANGED <<pgVars, sessionStart, announced, ackWire, ctxDone, startLSNOverride, startLSN,
                   lastAckedLSN, ackDue, relations, handled, faults>>

Receive == ReceiveBegin \/ ReceiveRelation \/ ReceiveRow \/ ReceiveCommit

\* The handler returns nil: the event is delivered, or parked in the DLQ.
HandlerOk ==
    /\ pc = "handler"
    /\ handled' = handled \cup {<<cur, idx>>}
    /\ pc' = "top"
    /\ UNCHANGED <<pgVars, sendVars, ackWire, procVars, faults>>

\* Mutant: the error is logged and not returned.
MutErrorLogged ==
    /\ pc = "handler" /\ Fault /\ pc' = "top"
    /\ UNCHANGED <<pgVars, sendVars, ackWire, procVars, handled>>

\* The handler returns an error; the destination may have the event all the same.
HandlerError ==
    /\ pc = "handler"
    /\ Fault
    /\ handled' \in {handled, handled \cup {<<cur, idx>>}}
    /\ pc' = "return"
    /\ UNCHANGED <<pgVars, sendVars, ackWire, procVars>>

\* ReceiveMessage or sendAck fails: the connection is broken.
ConnectionLost ==
    /\ pc \in {"top", "recv"}
    /\ Fault
    /\ pc' = "return"
    /\ UNCHANGED <<pgVars, sendVars, ackWire, procVars, handled>>

\* The deferred function: a final acknowledgement, which may fail, then Run
\* closes the connection.
FinalAck ==
    /\ pc = "return"
    /\ \/ NewerToAck /\ SendAck(lastReceivedLSN)
       \/ UNCHANGED ackWire
    /\ Exit
    /\ UNCHANGED <<pgVars, handled, faults>>
-----------------------------------------------------------------------------
\* SIGINT or SIGTERM cancels the context.
Cancel ==
    /\ pc \in {"top", "recv", "handler"}
    /\ ~ctxDone
    /\ Fault
    /\ ctxDone' = TRUE
    /\ UNCHANGED <<pgVars, sendVars, ackWire, pc, startLSNOverride, startLSN, lastReceivedLSN,
                   lastAckedLSN, ackDue, relations, currentXid, handled>>

\* The process is killed: no deferred function runs.
Crash ==
    /\ pc # "stopped"
    /\ Fault
    /\ Exit
    /\ UNCHANGED <<pgVars, ackWire, handled>>

Postgres == PgCommit \/ PgReadAck \/ PgDropAck

Run == Connect \/ EnsurePublication \/ EnsureSlot \/ StartReplication \/ StartupFails

MessageLoop == LoopTop \/ AckTick \/ RecvTimeout \/ ReceiveKeepalive \/ Receive
               \/ HandlerOk \/ HandlerError \/ ConnectionLost \/ FinalAck

Next == Postgres \/ Run \/ MessageLoop \/ Cancel \/ Crash

Spec == Init /\ [][Next]_vars

(***************************************************************************)
(* Fairness. The process is scheduled and restarted when it stops, timers  *)
(* fire, PostgreSQL commits and reads the socket. Receiving is strongly    *)
(* fair: it is enabled only while the loop waits in ReceiveMessage, and    *)
(* the walsender does not send keepalives for ever in place of data.       *)
(***************************************************************************)
Fairness ==
    /\ WF_vars(PgCommit) /\ WF_vars(PgReadAck)
    /\ WF_vars(Connect) /\ WF_vars(EnsurePublication) /\ WF_vars(EnsureSlot)
    /\ WF_vars(StartReplication)
    /\ WF_vars(LoopTop) /\ WF_vars(AckTick) /\ WF_vars(HandlerOk) /\ WF_vars(FinalAck)
    /\ SF_vars(RecvTimeout) /\ SF_vars(Receive)

FairSpec == Spec /\ Fairness
-----------------------------------------------------------------------------
(* Properties. *)

TypeOK ==
    /\ committed \in 0..Len(Txns)
    /\ pubExists \in BOOLEAN /\ publication \in SUBSET Tables
    /\ slotExists \in BOOLEAN /\ confirmed \in Nat /\ consistent \in Nat /\ floor \in Nat
    /\ sessionStart \in Nat /\ done \in 0..committed /\ cur \in 0..committed
    /\ idx \in Nat /\ (cur # 0 => idx \in 0..Len(Txns[cur].rows))
    /\ ackWire \in Nat
    /\ pc \in Positions
    /\ ctxDone \in BOOLEAN /\ startLSNOverride \in Nat /\ startLSN \in Nat
    /\ lastReceivedLSN \in Nat /\ lastAckedLSN \in Nat /\ ackDue \in BOOLEAN
    /\ announced \in [Tables -> Nat] /\ relations \in [Tables -> Nat]
    /\ currentXid \in 0..committed
    /\ handled \in SUBSET Events
    /\ faults \in Nat

\* What the stream must get to the sink or to the dead-letter file.
Owed(t, i) == Commit(t) >= floor /\ Published(t, i) /\ Forwarded(t, i)

Handled(t, i) == <<t, i>> \in handled

\* At-least-once delivery (docs/architecture.md, "Events are never lost"): a
\* transaction that commits before confirmed_flush_lsn is never sent again, so all
\* its events have reached the sink or the dead-letter file. It relates the
\* durable position to the sink across crashes, error returns with their deferred
\* acknowledgement, keepalive replies in mid-transaction and lost updates.
ConfirmedIsHandled ==
    slotExists => \A t \in TxnIds : Commit(t) < confirmed =>
                     \A i \in RowIds(t) : Owed(t, i) => Handled(t, i)

\* The stream as a Delivery. What it owes follows from the publication, the filter
\* and floor; what it has released is confirmed_flush_lsn.
Forwardable == {e \in Events : Forwarded(e[1], e[2])}

OwedEvents == {e \in Forwardable : Commit(e[1]) >= floor /\ Published(e[1], e[2])}

CommitOf(e) == Commit(e[1])

Abs == INSTANCE Delivery WITH
    CommitLSN <- CommitOf,
    owed <- OwedEvents,
    delivered <- handled,
    released <- confirmed

\* Refinement: across sessions, replays and crashes the destination gets the owed
\* events in commit order with no gap, one at a time, and the server is never
\* allowed to forget one of them (docs/architecture.md, "On restart, Postgres
\* replays events from the last acknowledged position").
ImplementsDelivery == Abs!Spec

\* Every row is decoded with the schema it was written with, over reconnects, filtered
\* rows and ALTER TABLE (stream.go, a Relation message "arrives once per table at the
\* start of the stream, and again if the schema changes"): so the "unknown relation"
\* return is not taken, and decodeTuple finds a column for each value.
RowsMeetTheirSchema ==
    [][idx' > idx => relations[TableOf(cur, idx')] = Version(cur, idx')]_vars

\* Liveness: with finitely many faults, every owed event of the history is
\* eventually handled and stays handled.
EventuallyHandled ==
    <>[](/\ slotExists
         /\ committed = Len(Txns)
         /\ \A t \in TxnIds : \A i \in RowIds(t) : Owed(t, i) => Handled(t, i))

\* Liveness: the slot does not hold back WAL for ever. The history is eventually
\* acknowledged in full, by the periodic ack, a keepalive reply or the deferred one.
SlotAdvances ==
    <>(/\ slotExists
       /\ committed = Len(Txns)
       /\ \A t \in TxnIds : Commit(t) >= floor /\ PublishedRows(t) # {} => confirmed > Commit(t))

\* event.go: LSN lets consumers "implement exactly-once delivery by tracking the
\* last processed LSN". An event that is new to the sink has a higher LSN than
\* everything the sink has, also after a replay, so that a consumer which skips
\* what is not above its last LSN skips only duplicates.
LsnDeduplicates ==
    pc = "handler" /\ ~Handled(cur, idx) =>
       \A e \in handled : EventLSN(e[1], e[2]) < EventLSN(cur, idx)
=============================================================================
