------------------------- MODULE DestinationProofs -------------------------
(***************************************************************************)
(* Proof that the destination ends up with the rows of the database        *)
(* (DestinationCurrent of module Snapshot), for every history, number of   *)
(* faults, and order of snapshots, sessions, replays and crashes.          *)
(***************************************************************************)
EXTENDS SnapshotProofs

\* Nothing is filtered out: the publication, be it the stream's own or an operator's,
\* has the tables of the history, and the filter lets their changes pass.
NothingFiltered ==
    /\ \A e \in Events : /\ TableOf(e[1], e[2]) \in Tables \cap PublicationTables
                         /\ Match(StreamFilter, RowAt(e[1], e[2]))
    /\ \A tabs \in InitialPublications : \A e \in Events : TableOf(e[1], e[2]) \in tabs

\* Every table has a column id in its replica identity, which tells its rows apart and
\* does not change.
RowsHaveIds ==
    \A e \in Events :
       /\ "id" \in DOMAIN Images[e].values \ Images[e].unchanged
       /\ "id" \in ReplicaIdentity[TableOf(e[1], e[2])]
       /\ \A f \in Events :
             TableOf(e[1], e[2]) = TableOf(f[1], f[2]) =>
                (Images[e].values["id"] = Images[f].values["id"] <=> Images[e].row = Images[f].row)

\* A snapshot reads all tables of the history.
CompleteLists ==
    \A list \in TableLists \ {<<>>} : \A e \in Events :
       \E k \in 1..Len(list) : TableNamed(list[k]) = TableOf(e[1], e[2])
-----------------------------------------------------------------------------
(* The inductive invariant. *)

\* The destination has been told of a change, or is going to be: the row's version in
\* the last completed snapshot of its table, or a change the stream owes.
Copied(e) == HasRow(e) /\ e = LastChange(RowOf(e), captured[TableOf(e[1], e[2])])

Told(e) == Forwarded(e[1], e[2]) /\ (Copied(e) \/ Commit(e[1]) >= floor)

\* The destination has an older version of the row than this change makes, or none.
Behind(e) == \A r \in view : RowOf(r[2]) = RowOf(e) => Precedes(r[2], e)

\* The change has not been sent in this session, which is going to send it.
Unsent(e) ==
    /\ pc \in Loop
    /\ Commit(e[1]) >= sessionStart
    /\ e[1] > done
    /\ cur # 0 => e[1] >= cur /\ (e[1] = cur => e[2] > idx)

\* The change is still to come: no position that is durable, on the wire or in the
\* process is past its transaction, and the walsender is not past its row.
ToCome(e) ==
    /\ confirmed <= Commit(e[1]) /\ ackWire <= Commit(e[1]) /\ consistent <= Commit(e[1])
    /\ pc = "start" => startLSN <= Commit(e[1])
    /\ pc \in Loop =>
          /\ sessionStart <= Commit(e[1]) /\ lastReceivedLSN + 1 <= Commit(e[1])
          /\ e[1] > done
          /\ cur # 0 => /\ e[1] >= cur
                        /\ e[1] = cur => e[2] >= idx
                        /\ e[1] = cur /\ pc \in {"top", "recv"} => e[2] > idx

\* What the destination is behind with is still to come, and so is all that the
\* session has not sent. The second part keeps the first: a replayed event puts an
\* older version in place of a newer one, and what comes after it is sent again.
BehindIsToCome ==
    \A e \in Events :
       Forwarded(e[1], e[2]) /\ ((Told(e) /\ Behind(e)) \/ Unsent(e)) => ToCome(e)

\* A session starts at the slot's consistent point at the earliest, and is in a
\* transaction that it has not sent and that commits after its start.
SessionOrder ==
    pc \in Loop => /\ consistent <= sessionStart
                   /\ cur # 0 => done < cur /\ sessionStart <= Commit(cur)

\* The destination has a record of a change under the key of its row, and only of
\* changes that have committed.
ViewIsPast ==
    \A r \in view : /\ r[1] = SnapshotRecord(r[2])
                    /\ r[2][1] <= committed
                    /\ snapPc \in {"taken", "tables", "done"} => r[2][1] <= visible

\* What a snapshot has read is at the destination until the stream starts behind it.
CopyIsThere ==
    snapPc \in {"tables", "done"} =>
       \A row \in Rows :
          LET last == LastChange(row, visible)
          IN  row[1] \in TablesRead /\ HasRow(last) => \E r \in view : r[2] = last

\* Snapshots are taken, and the position of one is used, before the stream starts.
Phases ==
    /\ pc \in Loop => snapPc = "idle"
    /\ snapPc \notin {"idle", "done"} => pc = "stopped"
    /\ snapPc = "idle" => lsn = 0
    /\ startLSNOverride # 0 => snapPc = "done" /\ pc # "stopped"
    /\ snapPc # "idle" => tables # <<>>
    /\ snapPc = "done" => \A e \in Events : captured[TableOf(e[1], e[2])] = visible
                                            /\ TableOf(e[1], e[2]) \in TablesRead

\* Before there is a slot, nothing has been replayed over what was copied.
CopiedBeforeSlot ==
    ~slotExists => \A e \in Events : Forwarded(e[1], e[2]) /\ Copied(e) => ~Behind(e)

AllPublished == pubExists => \A e \in Events : Published(e[1], e[2])

DestInv == /\ AllPublished /\ Phases /\ ViewIsPast /\ CopyIsThere /\ CopiedBeforeSlot
           /\ SessionOrder /\ BehindIsToCome
-----------------------------------------------------------------------------
(* Keys, the order of changes, and the order of commit records. *)

\* The records of a row, and only these, have one key, streamed or copied.
LEMMA KeysAreRows ==
    ASSUME RowsHaveIds, NEW e \in Events
    PROVE  /\ Record(e) = SnapshotRecord(e)
           /\ \A f \in Events : SnapshotRecord(e) = SnapshotRecord(f) <=> RowOf(e) = RowOf(f)
<1>1. \A f \in Events : SnapshotRecord(f) = <<TableOf(f[1], f[2]), <<"id", Images[f].values["id"]>>>>
  BY DEF SnapshotRecord, buildKey, RowsHaveIds
<1>2. Record(e) = SnapshotRecord(e)
  <2> DEFINE tuple == TupleOf(e)
             values == Images[e].values
  <2>1. "id" \in DOMAIN values /\ "id" \notin Images[e].unchanged
        /\ "id" \in ReplicaIdentity[TableOf(e[1], e[2])]
    BY DEF RowsHaveIds
  <2>2. DOMAIN tuple = DOMAIN values /\ tuple["id"].type = "t" /\ tuple["id"].data = values["id"]
    BY <2>1 DEF TupleOf
  <2>3. "id" \in DOMAIN decodeTuple(tuple) /\ decodeTuple(tuple)["id"] = values["id"]
    BY <2>1, <2>2 DEF decodeTuple
  <2> QED BY <1>1, <2>3 DEF Record, buildKey
<1>3. ASSUME NEW f \in Events PROVE SnapshotRecord(e) = SnapshotRecord(f) <=> RowOf(e) = RowOf(f)
  <2>1. TableOf(e[1], e[2]) = TableOf(f[1], f[2]) =>
           (Images[e].values["id"] = Images[f].values["id"] <=> Images[e].row = Images[f].row)
    BY DEF RowsHaveIds
  <2>2. SnapshotRecord(e) = SnapshotRecord(f) <=>
           /\ TableOf(e[1], e[2]) = TableOf(f[1], f[2])
           /\ Images[e].values["id"] = Images[f].values["id"]
    BY <1>1
  <2>3. RowOf(e) = RowOf(f) <=> TableOf(e[1], e[2]) = TableOf(f[1], f[2]) /\ Images[e].row = Images[f].row
    BY DEF RowOf
  <2> QED BY <2>1, <2>2, <2>3
<1> QED BY <1>2, <1>3

\* The changes of the log are in a total order.
LEMMA PrecedesOrder ==
    \A e, f, g \in Events :
       /\ ~Precedes(e, e)
       /\ e = f \/ Precedes(e, f) \/ Precedes(f, e)
       /\ Precedes(e, f) /\ Precedes(f, g) => Precedes(e, g)
<1> SUFFICES ASSUME NEW e \in Events, NEW f \in Events, NEW g \in Events
             PROVE  /\ ~Precedes(e, e)
                    /\ e = f \/ Precedes(e, f) \/ Precedes(f, e)
                    /\ Precedes(e, f) /\ Precedes(f, g) => Precedes(e, g)
  OBVIOUS
<1>1. /\ e = <<e[1], e[2]>> /\ e[1] \in Nat /\ e[2] \in Nat
      /\ f = <<f[1], f[2]>> /\ f[1] \in Nat /\ f[2] \in Nat
      /\ g[1] \in Nat /\ g[2] \in Nat
  BY EventTypes
<1>2. e = f \/ e[1] # f[1] \/ e[2] # f[2]
  BY <1>1
<1> QED BY <1>1, <1>2 DEF Precedes

LEMMA CommitMonotone ==
    ASSUME NEW t \in TxnIds, NEW u \in TxnIds, t <= u
    PROVE  Commit(t) <= Commit(u)
BY WalTypes, WalAssumption DEF TxnIds

\* What a snapshot reads of a table: the last versions of its rows.
LEMMA ContentsMeaning ==
    ASSUME NEW table, NEW n
    PROVE  /\ \A e \in Contents(table, n) : /\ e \in Events /\ HasRow(e) /\ e[1] <= n
                                            /\ e = LastChange(RowOf(e), n) /\ RowOf(e)[1] = table
           /\ \A row \in Rows : row[1] = table /\ HasRow(LastChange(row, n)) =>
                                   LastChange(row, n) \in Contents(table, n)
<1>1. ASSUME NEW e \in Contents(table, n)
      PROVE  e \in Events /\ HasRow(e) /\ e[1] <= n /\ e = LastChange(RowOf(e), n) /\ RowOf(e)[1] = table
  <2>1. PICK row \in Rows : row[1] = table /\ e = LastChange(row, n) /\ HasRow(e)
    BY DEF Contents
  <2>2. e \in Events /\ e[1] <= n /\ RowOf(e) = row
    BY <2>1, LastChangeMeaning DEF HasRow
  <2> QED BY <2>1, <2>2
<1> QED BY <1>1 DEF Contents
-----------------------------------------------------------------------------
(* A change that is to come stays so until its handler returns. *)

LEMMA ToComeReceive ==
    ASSUME NoOvershoot, TypeOK, Receive,
           NEW e \in Events, Published(e[1], e[2]), Forwarded(e[1], e[2]), ToCome(e)
    PROVE  ToCome(e)'
<1> DEFINE c == Commit(e[1])
<1>1. /\ e[1] \in TxnIds /\ e[1] \in Nat \ {0} /\ e[2] \in RowIds(e[1]) /\ e[2] \in Nat \ {0}
      /\ c \in Nat /\ RelationLen < c
  BY EventTypes, WalTypes, WalAssumption
<1>2. /\ done \in Nat /\ cur \in Nat /\ idx \in Nat /\ committed \in 0..Len(Txns) /\ Len(Txns) \in Nat
      /\ sessionStart \in Nat /\ cur \in 0..committed
  BY WalTypes DEF TypeOK
<1>3. pc = "recv" /\ pc' \in {"top", "handler", "return"}
      /\ UNCHANGED <<confirmed, consistent, ackWire, startLSN, sessionStart>>
  BY DEF Receive, ReceiveBegin, ReceiveRelation, ReceiveRow, ReceiveCommit, pgVars, sendVars
<1>4. /\ confirmed <= c /\ ackWire <= c /\ consistent <= c /\ sessionStart <= c /\ e[1] > done
      /\ cur # 0 => e[1] >= cur /\ (e[1] = cur => e[2] > idx)
  BY <1>3 DEF ToCome, Loop
<1>5. e[2] \in PublishedRows(e[1])
  BY <1>1 DEF PublishedRows
<1> SUFFICES /\ lastReceivedLSN' + 1 <= c
             /\ e[1] > done'
             /\ cur' # 0 => /\ e[1] >= cur'
                            /\ e[1] = cur' => e[2] >= idx'
                            /\ e[1] = cur' /\ pc' = "top" => e[2] > idx'
  BY <1>3, <1>4 DEF ToCome, Loop
<1>6. CASE ReceiveBegin
  <2>1. PICK t \in ToSend : \E i \in PublishedRows(t) :
           IsFirst(t, ToSend) /\ cur' = t /\ lastReceivedLSN' = RowAt(t, i).lsn + BeginLen
    BY <1>6 DEF ReceiveBegin, BeginLSN
  <2>2. t \in TxnIds /\ t \in Nat /\ t <= committed
    BY <1>2 DEF ToSend, TxnIds
  <2>3. lastReceivedLSN' \in Nat /\ lastReceivedLSN' < Commit(t) /\ Commit(t) \in Nat
    BY <2>1, <2>2, WalTypes DEF NoOvershoot, PublishedRows
  <2>4. e[1] >= t
    <3> SUFFICES ASSUME e[1] < t PROVE FALSE
      BY <1>1, <2>2
    <3>1. e[1] \in ToSend
      BY <1>1, <1>2, <1>4, <1>5, <2>2 DEF ToSend
    <3> QED BY <1>1, <2>1, <2>2, <3>1 DEF IsFirst
  <2>5. Commit(t) <= c
    BY <1>1, <2>2, <2>4, CommitMonotone
  <2>6. idx' = 0 /\ done' = done
    BY <1>6 DEF ReceiveBegin
  <2> HIDE DEF c
  <2> QED BY <1>1, <1>4, <2>1, <2>3, <2>4, <2>5, <2>6
<1>7. CASE ReceiveRelation
  <2>1. lastReceivedLSN' = RelationLen /\ UNCHANGED <<done, cur, idx>>
    BY <1>7 DEF ReceiveRelation, sendVars
  <2> QED BY <1>1, <1>2, <1>4, <2>1, WalTypes
<1>8. CASE ReceiveRow
  <2>1. PICK i \in RowsToSend :
           /\ IsFirst(i, RowsToSend) /\ idx' = i
           /\ lastReceivedLSN' = RowAt(cur, i).lsn + RowAt(cur, i).len
           /\ Forwarded(cur, i) => pc' # "top"
    BY <1>8 DEF ReceiveRow
  <2>2. cur # 0 /\ UNCHANGED <<done, cur>>
    BY <1>8 DEF ReceiveRow
  <2>3. cur \in TxnIds /\ i \in RowIds(cur) /\ i \in Nat
    BY <1>2, <2>2 DEF RowsToSend, PublishedRows, TxnIds, RowIds
  <2>4. lastReceivedLSN' \in Nat /\ lastReceivedLSN' < Commit(cur) /\ Commit(cur) \in Nat
    BY <2>1, <2>3, WalTypes DEF NoOvershoot
  <2>5. Commit(cur) <= c
    BY <1>1, <1>4, <2>2, <2>3, CommitMonotone
  <2>6. ASSUME e[1] = cur PROVE e[2] >= i /\ (pc' = "top" => e[2] > i)
    <3>1. e[2] \in RowsToSend
      BY <1>4, <1>5, <2>2, <2>6 DEF RowsToSend
    <3>2. e[2] >= i
      BY <1>1, <2>1, <2>3, <3>1 DEF IsFirst
    <3>3. pc' = "top" => e[2] # i
      BY <2>1, <2>6
    <3> QED BY <1>1, <2>3, <3>2, <3>3
  <2> HIDE DEF c
  <2> QED BY <1>1, <1>2, <1>4, <2>1, <2>2, <2>4, <2>5, <2>6
<1>9. CASE ReceiveCommit
  <2>1. cur # 0 /\ RowsToSend = {} /\ lastReceivedLSN' = End(cur) + CommitLen /\ done' = cur /\ cur' = 0
    BY <1>9 DEF ReceiveCommit
  <2>2. cur \in TxnIds /\ End(cur) \in Nat /\ CommitLen \in Nat
    BY <1>2, <2>1, WalTypes DEF TxnIds
  <2>3. e[1] # cur
    <3> SUFFICES ASSUME e[1] = cur PROVE FALSE
      OBVIOUS
    <3> QED BY <1>4, <1>5, <2>1 DEF RowsToSend
  <2>4. e[1] > cur
    BY <1>1, <1>2, <1>4, <2>1, <2>3
  <2>5. End(cur) + CommitLen < c
    BY <1>1, <2>2, <2>4 DEF NoOvershoot, TxnIds
  <2> HIDE DEF c
  <2> QED BY <1>1, <2>1, <2>2, <2>4, <2>5
<1> QED BY <1>6, <1>7, <1>8, <1>9 DEF Receive

LEMMA ToComeStep ==
    ASSUME NoOvershoot, TypeOK, LifeCycle, [Next]_vars,
           NEW e \in Events, Forwarded(e[1], e[2]), pubExists => Published(e[1], e[2]), ToCome(e),
           slotExists' = slotExists \/ ConsistentPoint <= Commit(e[1]),
           pc = "start" /\ pc' = "top" => startLSNOverride <= Commit(e[1]),
           pc = "handler" /\ pc' = "top" => e # <<cur, idx>>
    PROVE  ToCome(e)'
<1> DEFINE c == Commit(e[1])
<1>1. /\ e = <<e[1], e[2]>> /\ e[1] \in Nat \ {0} /\ e[2] \in Nat \ {0} /\ c \in Nat /\ 0 < c
  BY EventTypes, WalTypes, WalAssumption
<1>2. /\ cur \in Nat /\ idx \in Nat /\ confirmed \in Nat /\ ackWire \in Nat /\ startLSN \in Nat
      /\ startLSNOverride \in Nat /\ lastReceivedLSN \in Nat /\ consistent \in Nat
  BY DEF TypeOK
<1>3. /\ confirmed <= c /\ ackWire <= c /\ consistent <= c
      /\ pc = "start" => startLSN <= c
      /\ pc \in Loop =>
            /\ sessionStart <= c /\ lastReceivedLSN + 1 <= c
            /\ e[1] > done
            /\ cur # 0 => /\ e[1] >= cur
                          /\ e[1] = cur => e[2] >= idx
                          /\ e[1] = cur /\ pc \in {"top", "recv"} => e[2] > idx
  BY DEF ToCome
<1>4. CASE Postgres
  <2>1. UNCHANGED <<consistent, pc, startLSN, sessionStart, lastReceivedLSN, done, cur, idx>>
    BY <1>4 DEF Postgres, PgCommit, PgReadAck, PgDropAck, pgVars, sendVars, procVars
  <2>2. confirmed' <= c /\ ackWire' <= c
    BY <1>1, <1>3, <1>4 DEF Postgres, PgCommit, PgReadAck, PgDropAck, pgVars, Later
  <2> QED BY <1>3, <2>1, <2>2 DEF ToCome
<1>5. CASE Connect \/ EnsurePublication \/ StartupFails \/ Crash
  <2>1. UNCHANGED <<confirmed, ackWire, consistent>> /\ pc' \notin {"start"} \cup Loop
    BY <1>5 DEF Connect, EnsurePublication, StartupFails, Crash, Exit, pgVars, Loop
  <2> QED BY <1>3, <2>1 DEF ToCome
<1>6. CASE EnsureSlot
  <2>1. pc' = "start" /\ ackWire' = ackWire /\ confirmed' <= c /\ consistent' <= c /\ startLSN' <= c
    BY <1>3, <1>6 DEF EnsureSlot
  <2> QED BY <1>3, <2>1 DEF ToCome, Loop
<1>7. CASE StartReplication
  <2>1. /\ pc' = "top" /\ UNCHANGED <<confirmed, ackWire, consistent>>
        /\ lastReceivedLSN' = 0 /\ done' = 0 /\ cur' = 0
    BY <1>7 DEF StartReplication, LifeCycle, Loop
  <2>2. sessionStart' <= c
    BY <1>2, <1>3, <1>7, <2>1 DEF StartReplication, Later
  <2> QED BY <1>1, <1>3, <2>1, <2>2 DEF ToCome, Loop
<1>8. CASE LoopTop \/ ReceiveKeepalive
  <2>1. /\ UNCHANGED <<confirmed, consistent, startLSN, sessionStart, lastReceivedLSN, done, cur, idx>>
        /\ pc \in {"top", "recv"} /\ pc' \in {"top", "recv", "return"}
    BY <1>8 DEF LoopTop, ReceiveKeepalive, pgVars, sendVars, procVars
  <2>2. ackWire' = ackWire \/ ackWire' = lastReceivedLSN + 1
    BY <1>8 DEF LoopTop, ReceiveKeepalive, KeepaliveLSN, SendAck
  <2>3. ackWire' <= c
    BY <1>3, <2>1, <2>2 DEF Loop
  <2> QED BY <1>3, <2>1, <2>3 DEF ToCome, Loop
<1>9. CASE FinalAck
  <2>1. UNCHANGED <<confirmed, consistent>> /\ pc = "return" /\ pc' = "stopped"
    BY <1>9 DEF FinalAck, Exit, pgVars
  <2>2. ackWire' = ackWire \/ ackWire' = lastReceivedLSN + 1
    BY <1>9 DEF FinalAck, SendAck
  <2>3. ackWire' <= c
    BY <1>3, <2>1, <2>2 DEF Loop
  <2> QED BY <1>3, <2>1, <2>3 DEF ToCome, Loop
<1>10. CASE AckTick \/ RecvTimeout \/ ConnectionLost \/ Cancel
  <2>1. /\ UNCHANGED <<confirmed, ackWire, consistent, startLSN, sessionStart, lastReceivedLSN, done, cur, idx>>
        /\ pc \in Loop /\ pc' \in Loop /\ (pc' \in {"top", "recv"} => pc \in {"top", "recv"})
    BY <1>10 DEF AckTick, RecvTimeout, ConnectionLost, Cancel, pgVars, sendVars, procVars, Loop
  <2> QED BY <1>3, <2>1 DEF ToCome, Loop
<1>11. CASE Receive
  <2>1. pubExists
    <3>1. pc = "recv"
      BY <1>11 DEF Receive, ReceiveBegin, ReceiveRelation, ReceiveRow, ReceiveCommit
    <3> QED BY <3>1 DEF LifeCycle
  <2> QED BY <1>11, <2>1, ToComeReceive
<1>12. CASE HandlerOk \/ HandlerError
  <2>1. /\ UNCHANGED <<confirmed, ackWire, consistent, startLSN, sessionStart, lastReceivedLSN, done, cur, idx>>
        /\ pc = "handler" /\ pc' \in {"top", "return"}
    BY <1>12 DEF HandlerOk, HandlerError, pgVars, sendVars, procVars
  <2>2. pc' = "top" => e[1] # cur \/ e[2] # idx
    BY <1>1, <2>1
  <2> HIDE DEF c
  <2>3. pc' = "top" /\ cur # 0 /\ e[1] = cur => e[2] > idx
    BY <1>1, <1>2, <1>3, <2>1, <2>2 DEF Loop
  <2> QED BY <1>3, <2>1, <2>3 DEF ToCome, Loop, c
<1>13. CASE UNCHANGED vars
  BY <1>3, <1>13 DEF ToCome, vars, pgVars, sendVars, procVars
<1> QED BY <1>4, <1>5, <1>6, <1>7, <1>8, <1>9, <1>10, <1>11, <1>12, <1>13 DEF Next, Run, MessageLoop
-----------------------------------------------------------------------------
(* What a step may change. *)

\* The log after a table of a snapshot, or a part of it, was handed over.
LEMMA HandedMeaning ==
    ASSUME NEW S, view' \in Handed(S)
    PROVE  /\ \A q \in view' : q \in view \/ (q[2] \in S /\ q[1] = SnapshotRecord(q[2]))
           /\ \A r \in view : r \in view' \/ \E q \in view' : q[2] \in S /\ SnapshotRecord(q[2]) = r[1]
           /\ \A e \in S : \E q \in view' : q[2] \in S /\ SnapshotRecord(q[2]) = SnapshotRecord(e)
<1> DEFINE keys == {SnapshotRecord(e) : e \in S}
<1>1. PICK f \in [keys -> S] : /\ \A k \in keys : SnapshotRecord(f[k]) = k
                               /\ view' = {r \in view : r[1] \notin keys} \cup {<<k, f[k]>> : k \in keys}
  BY DEF Handed
<1>2. ASSUME NEW k \in keys PROVE \E q \in view' : q[2] \in S /\ SnapshotRecord(q[2]) = k
  <2>1. <<k, f[k]>> \in view' /\ f[k] \in S /\ SnapshotRecord(f[k]) = k
    BY <1>1
  <2> QED BY <2>1
<1>3. \A e \in S : SnapshotRecord(e) \in keys
  OBVIOUS
<1>4. ASSUME NEW r \in view PROVE r \in view' \/ r[1] \in keys
  BY <1>1
<1>5. ASSUME NEW q \in view' PROVE q \in view \/ (q[2] \in S /\ q[1] = SnapshotRecord(q[2]))
  <2> HIDE DEF keys
  <2> QED BY <1>1
<1> HIDE DEF keys
<1> QED BY <1>2, <1>3, <1>4, <1>5

\* A snapshot is taken while the stream is stopped.
LEMMA SnapshotMoves ==
    ASSUME Phases, SnapStep \/ SnapHandlerError \/ SnapFails
    PROVE  UNCHANGED streamState /\ pc = "stopped"
<1>1. CASE SnapStep
  BY <1>1 DEF SnapStep, SnapBegin, SnapTake, SnapReadLSN, SnapTable, SnapCommit, Phases, vars, streamState
<1>2. CASE SnapHandlerError \/ SnapFails
  BY <1>2 DEF SnapHandlerError, SnapFails, Phases, streamState
<1> QED BY <1>1, <1>2

\* The stream leaves a snapshot alone or forgets it, and writes to the log only from
\* its handler.
LEMMA StreamMoves ==
    ASSUME Phases, StreamStep
    PROVE  /\ [Next]_vars /\ captured' = captured
           /\ UNCHANGED <<snapPc, tables, read, copied, visible, lsn>> \/ Forget
           /\ pc # "handler" => view' = view
           /\ pc = "handler" =>
                 /\ snapPc = "idle"
                 /\ view' \in {view, Produce(view, Record(<<cur, idx>>), <<cur, idx>>)}
                 /\ pc' = "top" => view' = Produce(view, Record(<<cur, idx>>), <<cur, idx>>)
<1>1. [Next]_vars /\ captured' = captured
      /\ (UNCHANGED <<snapPc, tables, read, copied, visible, lsn>> \/ Forget)
  BY DEF StreamStep, snapVars
<1>2. pc # "handler" => view' = view
  BY DEF StreamStep, Consume
<1>3. ASSUME pc = "handler"
      PROVE  /\ view' \in {view, Produce(view, Record(<<cur, idx>>), <<cur, idx>>)}
             /\ pc' = "top" => view' = Produce(view, Record(<<cur, idx>>), <<cur, idx>>)
  BY <1>3 DEF StreamStep, Consume
<1> QED BY <1>1, <1>2, <1>3 DEF Phases, Loop

LEMMA PcMoves ==
    ASSUME [Next]_vars
    PROVE  /\ pc \notin Loop /\ pc' \in Loop => StartReplication
           /\ pc = "stopped" /\ pc' # "stopped" => pc' = "publication"
           /\ \/ startLSNOverride' \in {0, startLSNOverride}
              \/ pc = "stopped" /\ pc' = "publication"
           /\ pc' = "stopped" /\ pc # "stopped" => startLSNOverride' = 0
           /\ slotExists' = slotExists \/ EnsureSlot
           /\ pubExists' = pubExists \/ publication' = PublicationTables
<1>1. CASE Postgres
  BY <1>1 DEF Postgres, PgCommit, PgReadAck, PgDropAck, pgVars, sendVars, procVars
<1>2. CASE Connect \/ EnsurePublication \/ EnsureSlot
  BY <1>2 DEF Connect, EnsurePublication, EnsureSlot, Exit, pgVars, sendVars, procVars, Loop
<1>3. CASE StartReplication \/ StartupFails \/ Crash \/ FinalAck
  BY <1>3 DEF StartReplication, StartupFails, Crash, FinalAck, Exit, pgVars, Loop
<1>4. CASE LoopTop \/ AckTick \/ RecvTimeout \/ ReceiveKeepalive \/ Receive
  BY <1>4 DEF LoopTop, AckTick, RecvTimeout, ReceiveKeepalive, Receive, ReceiveBegin, ReceiveRelation,
     ReceiveRow, ReceiveCommit, pgVars, procVars, Loop
<1>5. CASE HandlerOk \/ HandlerError \/ ConnectionLost \/ Cancel
  BY <1>5 DEF HandlerOk, HandlerError, ConnectionLost, Cancel, pgVars, procVars, Loop
<1>6. CASE UNCHANGED vars
  BY <1>6 DEF vars, pgVars, procVars
<1> QED BY <1>1, <1>2, <1>3, <1>4, <1>5, <1>6 DEF Next, Run, MessageLoop

LEMMA AllPublishedStep ==
    ASSUME NothingFiltered, AllPublished, [Next]_vars \/ UNCHANGED streamState
    PROVE  AllPublished'
<1>1. CASE [Next]_vars
  <2>1. CASE pubExists
    BY <1>1, <2>1, PublicationFixed DEF AllPublished, Published
  <2>2. CASE ~pubExists /\ pubExists'
    BY <1>1, <2>2, PcMoves DEF NothingFiltered, AllPublished, Published
  <2> QED BY <2>1, <2>2 DEF AllPublished
<1>2. CASE UNCHANGED streamState
  BY <1>2 DEF streamState, pgVars, AllPublished, Published
<1> QED BY <1>1, <1>2

LEMMA PhasesStep ==
    ASSUME NothingFiltered, CompleteLists, SnapInv, Phases, [SnapNext]_allVars
    PROVE  Phases'
<1> USE DEF Phases
<1>1. CASE StreamStep
  <2>1. /\ pc \notin Loop /\ pc' \in Loop => pc' = "top" /\ startLSNOverride' = 0
        /\ pc = "stopped" /\ pc' # "stopped" => pc' = "publication"
        /\ startLSNOverride' \in {0, startLSNOverride} \/ (pc = "stopped" /\ pc' = "publication")
        /\ pc' = "stopped" /\ pc # "stopped" => startLSNOverride' = 0
    BY <1>1, PcMoves, StreamMoves DEF StartReplication
  <2>2. captured' = captured
    BY <1>1, StreamMoves
  <2>3. pc = "stopped" /\ pc' = "publication" => snapPc \in {"idle", "done"} /\ startLSNOverride' = lsn
    BY <1>1 DEF StreamStep, StartLSN
  <2>4. CASE pc' # pc /\ pc' \in {"top", "stopped"}
    <3>1. Forget
      BY <1>1, <2>4 DEF StreamStep
    <3>2. startLSNOverride' = 0
      BY <2>1, <2>4 DEF Loop
    <3> QED BY <3>1, <3>2 DEF Forget
  <2>5. CASE ~(pc' # pc /\ pc' \in {"top", "stopped"})
    <3>1. UNCHANGED <<snapPc, tables, read, copied, visible, lsn>>
      BY <1>1, <2>5 DEF StreamStep, snapVars
    <3>2. TablesRead' = TablesRead
      BY <3>1 DEF TablesRead
    <3>3. \/ (pc' \in Loop => pc \in Loop) /\ (pc' = "stopped" <=> pc = "stopped")
          \/ pc' = "publication"
      BY <2>1, <2>5 DEF Loop
    <3> QED BY <2>1, <2>2, <2>3, <3>1, <3>2, <3>3 DEF Loop
  <2> QED BY <2>4, <2>5
<1>2. CASE SnapHandlerError \/ SnapFails
  <2>1. UNCHANGED streamState /\ pc = "stopped" /\ Forget
    BY <1>2, SnapshotMoves DEF SnapHandlerError, SnapFails
  <2> QED BY <2>1 DEF streamState, procVars, Forget, Loop
<1>3. CASE SnapStep
  <2>1. UNCHANGED <<pc, startLSNOverride>> /\ pc = "stopped" /\ startLSNOverride = 0
    BY <1>3, SnapshotMoves DEF streamState, procVars
  <2>2. CASE SnapBegin
    BY <2>1, <2>2 DEF SnapBegin, Loop
  <2>3. CASE SnapTake \/ SnapReadLSN \/ SnapTable
    BY <2>1, <2>3 DEF SnapTake, SnapReadLSN, SnapTable, Loop
  <2>4. CASE SnapCommit
    <3>1. /\ snapPc = "tables" /\ read = Len(tables) /\ snapPc' = "done" /\ tables \in TableLists \ {<<>>}
          /\ captured' = [t \in Tables |-> IF t \in TablesRead THEN visible ELSE captured[t]]
          /\ UNCHANGED <<tables, read, visible, lsn>>
      BY <2>4 DEF SnapCommit, SnapInv, SnapTypes
    <3>2. ASSUME NEW e \in Events
          PROVE  TableOf(e[1], e[2]) \in TablesRead /\ captured'[TableOf(e[1], e[2])] = visible
      <4>1. TableOf(e[1], e[2]) \in TablesRead
        BY <3>1 DEF CompleteLists, TablesRead
      <4> QED BY <3>1, <4>1 DEF NothingFiltered
    <3>3. TablesRead' = TablesRead
      BY <3>1 DEF TablesRead
    <3> QED BY <2>1, <3>1, <3>2, <3>3 DEF Loop
  <2> QED BY <1>3, <2>2, <2>3, <2>4 DEF SnapStep
<1>4. CASE UNCHANGED allVars
  <2>1. UNCHANGED <<pc, startLSNOverride, snapPc, tables, read, visible, lsn, captured>>
    BY <1>4 DEF allVars, vars, snapVars, procVars
  <2>2. TablesRead' = TablesRead
    BY <2>1 DEF TablesRead
  <2> QED BY <2>1, <2>2
<1> QED BY <1>1, <1>2, <1>3, <1>4 DEF SnapNext
-----------------------------------------------------------------------------
(* The destination, the copy, and the session. *)

LEMMA ViewIsPastStep ==
    ASSUME RowsHaveIds, SnapInv, Phases, Phases', ViewIsPast, [SnapNext]_allVars
    PROVE  ViewIsPast'
<1>1. committed \in Nat /\ committed' \in Nat /\ committed <= committed'
      /\ \A r \in view : r[2] \in Events /\ r[2][1] \in Nat
  <2>1. TypeOK /\ OneRecordPerKey /\ committed \in Nat
    BY WalTypes DEF SnapInv, TypeOK
  <2>2. [Next]_vars \/ committed' = committed
    BY <2>1, StreamSteps DEF TypeOK, streamState, pgVars
  <2> QED BY <2>1, <2>2, CommittedGrows, EventTypes DEF OneRecordPerKey
<1>2. CASE SnapTable \/ SnapHandlerError
  <2>1. PICK S : view' \in Handed(S) /\ \A e \in S : e \in Events /\ e[1] <= visible
    <3>1. \A e \in Contents(TableNamed(tables[read + 1]), visible) : e \in Events /\ e[1] <= visible
      BY ContentsMeaning
    <3> QED BY <1>2, <3>1 DEF SnapTable, SnapHandlerError, Seen
  <2>2. /\ visible <= committed /\ visible \in Nat /\ snapPc = "tables"
        /\ committed' = committed /\ (snapPc' \in {"taken", "tables", "done"} => visible' = visible)
    BY <1>2 DEF SnapTable, SnapHandlerError, Forget, vars, pgVars, SnapInv, SnapTypes
  <2> SUFFICES ASSUME NEW q \in view'
               PROVE  /\ q[1] = SnapshotRecord(q[2]) /\ q[2][1] <= committed
                      /\ q[2][1] <= visible
    BY <2>2 DEF ViewIsPast
  <2>3. CASE q \in view
    BY <2>2, <2>3 DEF ViewIsPast
  <2>4. CASE q[2] \in S /\ q[1] = SnapshotRecord(q[2])
    <3>1. q[2][1] \in Nat /\ q[2][1] <= visible
      BY <2>1, <2>4, EventTypes
    <3> QED BY <1>1, <2>2, <2>4, <3>1
  <2> QED BY <2>1, <2>3, <2>4, HandedMeaning
<1>3. CASE SnapTake
  <2>1. visible' = committed /\ view' = view /\ committed' = committed
    BY <1>3 DEF SnapTake, vars, pgVars
  <2> QED BY <2>1 DEF ViewIsPast
<1>4. CASE SnapBegin \/ SnapReadLSN \/ SnapCommit \/ SnapFails \/ UNCHANGED allVars
  <2>1. view' = view /\ committed' = committed
    BY <1>4 DEF SnapBegin, SnapReadLSN, SnapCommit, SnapFails, allVars, vars, pgVars
  <2>2. snapPc' \in {"taken", "tables", "done"} =>
           snapPc \in {"taken", "tables", "done"} /\ visible' = visible
    BY <1>4 DEF SnapBegin, SnapReadLSN, SnapCommit, SnapFails, Forget, allVars, snapVars
  <2> QED BY <2>1, <2>2 DEF ViewIsPast
<1>5. CASE StreamStep
  <2>1. CASE pc = "handler"
    <3>1. <<cur, idx>> \in Events /\ cur \in Nat /\ cur <= committed
      BY <2>1, HandlerHasRow, WalTypes DEF SnapInv, TypeOK
    <3>2. Record(<<cur, idx>>) = SnapshotRecord(<<cur, idx>>)
      BY <3>1, KeysAreRows
    <3>3. \A q \in view' : q \in view \/ q = <<SnapshotRecord(<<cur, idx>>), <<cur, idx>>>>
      BY <1>5, <2>1, <3>2, StreamMoves DEF Produce
    <3>4. snapPc' = "idle"
      BY <1>5, <2>1, StreamMoves DEF Forget
    <3> QED BY <1>1, <3>1, <3>3, <3>4 DEF ViewIsPast
  <2>2. CASE pc # "handler"
    <3>1. view' = view /\ (snapPc' \in {"taken", "tables", "done"} => snapPc' = snapPc /\ visible' = visible)
      BY <1>5, <2>2, StreamMoves DEF Forget
    <3> QED BY <1>1, <3>1 DEF ViewIsPast
  <2> QED BY <2>1, <2>2
<1> QED BY <1>2, <1>3, <1>4, <1>5 DEF SnapNext, SnapStep

LEMMA CopyIsThereStep ==
    ASSUME RowsHaveIds, SnapInv, Phases, ViewIsPast, CopyIsThere, [SnapNext]_allVars
    PROVE  CopyIsThere'
<1>1. CASE SnapTable
  <2> DEFINE table == TableNamed(tables[read + 1])
             S == Contents(table, visible)
  <2>1. /\ snapPc = "tables" /\ view' \in Handed(S) /\ read' = read + 1 /\ read \in Nat
        /\ UNCHANGED <<snapPc, tables, visible>>
    BY <1>1 DEF SnapTable, Seen, SnapInv, SnapTypes
  <2>2. TablesRead' = TablesRead \cup {table}
    <3>1. 1..(read + 1) = (1..read) \cup {read + 1}
      BY <2>1
    <3> QED BY <2>1, <3>1 DEF TablesRead, TableNamed
  <2>3. \A e \in S : e \in Events /\ e = LastChange(RowOf(e), visible)
    BY ContentsMeaning
  <2> SUFFICES ASSUME NEW row \in Rows, NEW last, last = LastChange(row, visible),
                      row[1] \in TablesRead', HasRow(last)
               PROVE  \E q \in view' : q[2] = last
    BY <2>1 DEF CopyIsThere
  <2>4. last \in Events /\ RowOf(last) = row
    BY LastChangeMeaning DEF HasRow
  <2>5. ASSUME NEW q \in view', q[2] \in S, SnapshotRecord(q[2]) = SnapshotRecord(last)
        PROVE  q[2] = last
    <3>1. RowOf(q[2]) = row
      BY <2>3, <2>4, <2>5, KeysAreRows
    <3> QED BY <2>3, <2>5, <3>1
  <2> HIDE DEF S
  <2>6. CASE last \in S
    BY <2>1, <2>5, <2>6, HandedMeaning
  <2>7. CASE last \notin S
    <3>1. row[1] # table
      BY <2>7, ContentsMeaning DEF S
    <3>2. row[1] \in TablesRead
      BY <2>2, <3>1
    <3>3. PICK r \in view : r[2] = last /\ r[1] = SnapshotRecord(last)
      BY <2>1, <3>2 DEF CopyIsThere, ViewIsPast
    <3>4. r \in view' \/ \E q \in view' : q[2] \in S /\ SnapshotRecord(q[2]) = r[1]
      BY <2>1, HandedMeaning
    <3> QED BY <2>5, <3>3, <3>4
  <2> QED BY <2>6, <2>7
<1>2. CASE SnapReadLSN
  <2>1. read = 0 /\ read' = 0
    BY <1>2 DEF SnapReadLSN, SnapInv, CopiedIsVisible
  <2>2. TablesRead' = {}
    BY <2>1 DEF TablesRead
  <2> QED BY <2>2 DEF CopyIsThere
<1>3. CASE SnapBegin \/ SnapTake \/ SnapHandlerError \/ SnapFails
  BY <1>3 DEF SnapBegin, SnapTake, SnapHandlerError, SnapFails, Forget, CopyIsThere
<1>4. CASE StreamStep
  <2>1. snapPc' \in {"tables", "done"} => view' = view /\ UNCHANGED <<snapPc, tables, read, visible>>
    BY <1>4, StreamMoves DEF Forget
  <2>2. snapPc' \in {"tables", "done"} => TablesRead' = TablesRead
    BY <2>1 DEF TablesRead
  <2> QED BY <2>1, <2>2 DEF CopyIsThere
<1>5. CASE SnapCommit \/ UNCHANGED allVars
  <2>1. UNCHANGED <<view, tables, read, visible>> /\ (snapPc' \in {"tables", "done"} => snapPc \in {"tables", "done"})
    BY <1>5 DEF SnapCommit, allVars, snapVars
  <2>2. TablesRead' = TablesRead
    BY <2>1 DEF TablesRead
  <2> QED BY <2>1, <2>2 DEF CopyIsThere
<1> QED BY <1>1, <1>2, <1>3, <1>4, <1>5 DEF SnapNext, SnapStep

LEMMA SessionOrderStep ==
    ASSUME TypeOK, LifeCycle, SessionOrder, [Next]_vars \/ UNCHANGED streamState
    PROVE  SessionOrder'
<1> USE DEF SessionOrder, Loop
<1>1. CASE Postgres \/ AckTick \/ RecvTimeout \/ ReceiveKeepalive \/ LoopTop
  BY <1>1 DEF Postgres, PgCommit, PgReadAck, PgDropAck, AckTick, RecvTimeout, ReceiveKeepalive, LoopTop,
     pgVars, sendVars, procVars
<1>2. CASE Connect \/ EnsurePublication \/ EnsureSlot
  BY <1>2 DEF Connect, EnsurePublication, EnsureSlot, Exit
<1>3. CASE StartReplication
  <2>1. pc' = "top" /\ cur' = 0 /\ consistent' = consistent
        /\ \E from \in {startLSNOverride, startLSN} : sessionStart' = Later(Later(from, confirmed), consistent)
    BY <1>3 DEF StartReplication, LifeCycle
  <2>2. startLSNOverride \in Nat /\ startLSN \in Nat /\ confirmed \in Nat /\ consistent \in Nat
    BY DEF TypeOK
  <2>3. consistent <= sessionStart'
    BY <2>1, <2>2 DEF Later
  <2> QED BY <2>1, <2>3
<1>4. CASE StartupFails \/ Crash \/ FinalAck
  BY <1>4 DEF StartupFails, Crash, FinalAck, Exit
<1>5. CASE ReceiveBegin
  <2>1. PICK t \in ToSend : cur' = t
    BY <1>5 DEF ReceiveBegin
  <2>2. t \in TxnIds /\ done < t /\ sessionStart <= Commit(t)
    <3>1. done \in Nat /\ committed \in 0..Len(Txns) /\ sessionStart \in Nat /\ Len(Txns) \in Nat
      BY WalTypes DEF TypeOK
    <3>2. t \in TxnIds /\ done < t /\ Commit(t) >= sessionStart
      BY <3>1 DEF ToSend, TxnIds
    <3> QED BY <3>1, <3>2, WalTypes
  <2> QED BY <1>5, <2>1, <2>2 DEF ReceiveBegin, pgVars
<1>6. CASE ReceiveRelation \/ ReceiveRow \/ ReceiveCommit
  BY <1>6 DEF ReceiveRelation, ReceiveRow, ReceiveCommit, pgVars, sendVars
<1>7. CASE HandlerOk \/ HandlerError \/ ConnectionLost \/ Cancel
  BY <1>7 DEF HandlerOk, HandlerError, ConnectionLost, Cancel, pgVars, sendVars, procVars
<1>8. CASE UNCHANGED vars \/ UNCHANGED streamState
  BY <1>8 DEF vars, streamState, pgVars, sendVars
<1> QED BY <1>1, <1>2, <1>3, <1>4, <1>5, <1>6, <1>7, <1>8 DEF Next, Run, MessageLoop, Receive
-----------------------------------------------------------------------------
(* What the destination is behind with is to come. *)

\* A snapshot only brings the destination forward.
LEMMA SnapshotIsNotBehind ==
    ASSUME RowsHaveIds, SnapInv, ViewIsPast, SnapTable \/ SnapHandlerError,
           NEW f \in Events, Behind(f)'
    PROVE  Behind(f)
<1>1. snapPc = "tables"
  BY DEF SnapTable, SnapHandlerError
<1>2. PICK S : view' \in Handed(S) /\ \A e \in S : e \in Events /\ e = LastChange(RowOf(e), visible)
  <2>1. \A e \in Contents(TableNamed(tables[read + 1]), visible) : e \in Events /\ e = LastChange(RowOf(e), visible)
    BY ContentsMeaning
  <2> QED BY <2>1 DEF SnapTable, SnapHandlerError, Seen
<1> SUFFICES ASSUME NEW r \in view, RowOf(r[2]) = RowOf(f) PROVE Precedes(r[2], f)
  BY DEF Behind
<1>3. CASE r \in view'
  BY <1>3 DEF Behind
<1>4. CASE r \notin view'
  <2>1. PICK q \in view' : q[2] \in S /\ SnapshotRecord(q[2]) = r[1]
    BY <1>2, <1>4, HandedMeaning
  <2>2. r[2] \in Events /\ r[1] = SnapshotRecord(r[2]) /\ r[2][1] <= visible
    BY <1>1 DEF SnapInv, OneRecordPerKey, ViewIsPast
  <2>3. q[2] \in Events /\ RowOf(q[2]) = RowOf(r[2]) /\ q[2] = LastChange(RowOf(r[2]), visible)
    BY <1>2, <2>1, <2>2, KeysAreRows
  <2>4. ~Precedes(q[2], r[2])
    BY <2>2, <2>3, LastChangeMeaning
  <2>5. Precedes(q[2], f)
    BY <2>3 DEF Behind
  <2> QED BY <2>2, <2>3, <2>4, <2>5, PrecedesOrder
<1> QED BY <1>3, <1>4

\* Behind a completed snapshot the destination has what was copied.
HasCopy == snapPc = "done" => \A e \in Events : Copied(e) => ~Behind(e)

LEMMA CopyIsNotBehind == Phases /\ CopyIsThere => HasCopy
<1> SUFFICES ASSUME Phases, CopyIsThere, snapPc = "done", NEW e \in Events, Copied(e), Behind(e)
             PROVE  FALSE
  BY DEF HasCopy
<1>1. captured[TableOf(e[1], e[2])] = visible /\ TableOf(e[1], e[2]) \in TablesRead
  BY DEF Phases
<1>2. HasRow(e) /\ e = LastChange(RowOf(e), visible)
  BY <1>1 DEF Copied
<1>3. RowOf(e) \in Rows /\ RowOf(e)[1] = TableOf(e[1], e[2])
  BY DEF Rows, RowOf
<1>4. PICK r \in view : r[2] = e
  BY <1>1, <1>2, <1>3 DEF CopyIsThere
<1>5. Precedes(e, e)
  BY <1>4 DEF Behind
<1> QED BY <1>5, PrecedesOrder

\* The steps that change what was copied, or what the destination has of it.
LEMMA CapturedStep ==
    ASSUME Phases, [SnapNext]_allVars
    PROVE  captured' = captured \/ (SnapCommit /\ snapPc' = "done")
<1>1. CASE SnapStep \/ SnapHandlerError \/ SnapFails
  BY <1>1 DEF SnapStep, SnapBegin, SnapTake, SnapReadLSN, SnapTable, SnapCommit, SnapHandlerError, SnapFails
<1>2. CASE StreamStep
  BY <1>2, StreamMoves
<1>3. CASE UNCHANGED allVars
  BY <1>3 DEF allVars
<1> QED BY <1>1, <1>2, <1>3 DEF SnapNext

LEMMA ViewStep ==
    ASSUME Phases, [SnapNext]_allVars
    PROVE  view' = view \/ SnapTable \/ SnapHandlerError \/ (StreamStep /\ pc = "handler")
<1>1. CASE SnapStep \/ SnapHandlerError \/ SnapFails
  BY <1>1 DEF SnapStep, SnapBegin, SnapTake, SnapReadLSN, SnapTable, SnapCommit, SnapHandlerError, SnapFails
<1>2. CASE StreamStep
  BY <1>2, StreamMoves
<1>3. CASE UNCHANGED allVars
  BY <1>3 DEF allVars
<1> QED BY <1>1, <1>2, <1>3 DEF SnapNext

LEMMA CopiedBeforeSlotStep ==
    ASSUME RowsHaveIds, IInv, SnapInv, Phases, Phases', ViewIsPast, CopyIsThere', CopiedBeforeSlot,
           [SnapNext]_allVars
    PROVE  CopiedBeforeSlot'
<1> SUFFICES ASSUME ~slotExists', NEW e \in Events, Forwarded(e[1], e[2]), Copied(e)', Behind(e)'
             PROVE  FALSE
  BY DEF CopiedBeforeSlot
<1>1. ~slotExists
  <2>1. [Next]_vars \/ slotExists' = slotExists
    BY StreamSteps DEF IInv, TypeOK, streamState, pgVars
  <2> QED BY <2>1, PcMoves DEF EnsureSlot
<1>2. captured' = captured
  <2> SUFFICES ASSUME snapPc' = "done" PROVE FALSE
    BY CapturedStep
  <2>1. HasCopy'
    BY CopyIsNotBehind, PTL
  <2> QED BY <2>1 DEF HasCopy
<1>3. ~Behind(e)
  BY <1>1, <1>2 DEF CopiedBeforeSlot, Copied
<1>4. pc # "handler"
  BY <1>1 DEF IInv, LifeCycle, Loop
<1>5. CASE view' = view
  BY <1>3, <1>5 DEF Behind
<1>6. CASE SnapTable \/ SnapHandlerError
  BY <1>3, <1>6, SnapshotIsNotBehind
<1> QED BY <1>4, <1>5, <1>6, ViewStep

\* Only a new session has something to send that was not to be sent before.
LEMMA UnsentStep ==
    ASSUME TypeOK, LifeCycle, SessionOrder, [Next]_vars, NEW e \in Events, Unsent(e)', ~Unsent(e)
    PROVE  StartReplication
<1>1. e[1] \in Nat \ {0} /\ e[2] \in Nat \ {0} /\ cur \in Nat /\ idx \in Nat /\ done \in Nat
  BY EventTypes, WalTypes DEF TypeOK
<1> SUFFICES ASSUME ~StartReplication PROVE FALSE
  OBVIOUS
<1>2. pc \in Loop
  BY PcMoves DEF Unsent
<1>3. CASE UNCHANGED <<sessionStart, done, cur, idx>>
  BY <1>2, <1>3 DEF Unsent
<1>4. CASE ReceiveBegin
  <2>1. cur = 0 /\ UNCHANGED <<sessionStart, done>>
    BY <1>4 DEF ReceiveBegin
  <2> QED BY <1>2, <2>1 DEF Unsent
<1>5. CASE ReceiveRow
  <2>1. PICK i \in RowsToSend : idx' = i
    BY <1>5 DEF ReceiveRow
  <2>2. i \in Nat /\ i > idx
    BY DEF RowsToSend, PublishedRows, RowIds
  <2>3. UNCHANGED <<sessionStart, done, cur>>
    BY <1>5 DEF ReceiveRow
  <2> QED BY <1>1, <1>2, <2>1, <2>2, <2>3 DEF Unsent
<1>6. CASE ReceiveCommit
  <2>1. cur # 0 /\ done' = cur /\ cur' = 0 /\ sessionStart' = sessionStart
    BY <1>6 DEF ReceiveCommit
  <2> QED BY <1>1, <1>2, <2>1 DEF Unsent, SessionOrder
<1>7. CASE Exit
  BY <1>7 DEF Exit, Unsent, Loop
<1>8. CASE Postgres \/ LoopTop \/ AckTick \/ RecvTimeout \/ ReceiveKeepalive \/ ReceiveRelation
           \/ HandlerOk \/ HandlerError \/ ConnectionLost \/ Cancel \/ UNCHANGED vars
  BY <1>3, <1>8 DEF Postgres, PgCommit, PgReadAck, PgDropAck, LoopTop, AckTick, RecvTimeout, ReceiveKeepalive,
     ReceiveRelation, HandlerOk, HandlerError, ConnectionLost, Cancel, vars, sendVars
<1>9. CASE Connect \/ EnsurePublication \/ EnsureSlot
  BY <1>2, <1>9 DEF Connect, EnsurePublication, EnsureSlot, Loop
<1> QED BY <1>4, <1>5, <1>6, <1>7, <1>8, <1>9
        DEF Next, Run, MessageLoop, Receive, StartupFails, FinalAck, Crash

\* What a new session is going to send is to come.
LEMMA StartIsToCome ==
    ASSUME TypeOK, LifeCycle, StartReplication, NEW e \in Events, Unsent(e)'
    PROVE  ToCome(e)'
<1>0. startLSNOverride \in Nat /\ startLSN \in Nat /\ confirmed \in Nat /\ consistent \in Nat
  BY DEF TypeOK
<1>1. e[1] \in Nat \ {0} /\ Commit(e[1]) \in Nat /\ 0 < Commit(e[1])
  BY EventTypes, WalTypes, WalAssumption
<1>2. /\ pc' = "top" /\ ackWire' = 0 /\ lastReceivedLSN' = 0 /\ done' = 0 /\ cur' = 0
      /\ UNCHANGED <<confirmed, consistent>>
      /\ \E from \in {startLSNOverride, startLSN} : sessionStart' = Later(Later(from, confirmed), consistent)
  BY DEF StartReplication, LifeCycle, Loop
<1>3. confirmed <= sessionStart' /\ consistent <= sessionStart' /\ sessionStart' \in Nat
  BY <1>0, <1>2 DEF Later
<1>4. sessionStart' <= Commit(e[1])
  BY <1>1, <1>3 DEF Unsent
<1> QED BY <1>0, <1>1, <1>2, <1>3, <1>4 DEF ToCome, Loop

\* When an event that is replayed puts the destination behind with another, that one
\* comes after it in the session.
LEMMA ReplayedBefore ==
    ASSUME RowsHaveIds, IInv, SnapInv, Phases, ViewIsPast, SessionOrder, StreamStep, pc = "handler",
           NEW e \in Events, ~Behind(e), Behind(e)'
    PROVE  Unsent(e)
<1> DEFINE d == <<cur, idx>>
<1>1. d \in Events /\ cur \in TxnIds /\ cur # 0 /\ cur \in Nat /\ idx \in Nat /\ done \in Nat
      /\ e[1] \in TxnIds /\ e[1] \in Nat /\ e[2] \in Nat
  <2>1. d \in Events /\ cur \in TxnIds /\ cur # 0
    BY HandlerHasRow DEF IInv, HandlerRow
  <2>2. cur \in Nat /\ idx \in Nat /\ done \in Nat
    BY DEF IInv, TypeOK
  <2> QED BY <2>1, <2>2, EventTypes
<1>2. Record(d) = SnapshotRecord(d)
  BY <1>1, KeysAreRows
<1>3. PICK r \in view : RowOf(r[2]) = RowOf(e) /\ ~Precedes(r[2], e)
  BY DEF Behind
<1>4. r \notin view'
  BY <1>3 DEF Behind
<1>5. view' = Produce(view, Record(d), d)
  BY <1>4, StreamMoves
<1>6. r[1] = SnapshotRecord(d) /\ <<Record(d), d>> \in view'
  BY <1>2, <1>4, <1>5 DEF Produce
<1>7. r[2] \in Events /\ r[1] = SnapshotRecord(r[2])
  BY DEF SnapInv, OneRecordPerKey, ViewIsPast
<1>8. RowOf(d) = RowOf(e)
  BY <1>1, <1>3, <1>6, <1>7, KeysAreRows
<1>9. Precedes(d, e)
  BY <1>6, <1>8 DEF Behind
<1>10. e[1] >= cur /\ (e[1] = cur => e[2] > idx)
  BY <1>1, <1>9 DEF Precedes
<1>11. done < cur /\ sessionStart <= Commit(cur) /\ pc \in Loop
  BY <1>1 DEF SessionOrder, Loop
<1>12. Commit(cur) <= Commit(e[1])
  BY <1>1, <1>10, CommitMonotone
<1>13. Commit(e[1]) >= sessionStart
  <2>1. sessionStart \in Nat /\ Commit(cur) \in Nat /\ Commit(e[1]) \in Nat
    BY <1>1, WalTypes DEF IInv, TypeOK
  <2> QED BY <1>11, <1>12, <2>1
<1> QED BY <1>1, <1>10, <1>11, <1>13 DEF Unsent

\* A session that is sent the event in its handler is done with it, and the
\* destination is not behind with it.
LEMMA HandledIsNotBehind ==
    ASSUME RowsHaveIds, IInv, Phases, StreamStep, pc = "handler", pc' = "top", NEW e \in Events, e = <<cur, idx>>
    PROVE  ~Behind(e)' /\ ~Unsent(e)'
<1>1. cur # 0 /\ UNCHANGED <<cur, idx>>
  <2>1. [Next]_vars
    BY StreamMoves
  <2>2. UNCHANGED <<cur, idx>>
    BY <2>1 DEF Next, Postgres, PgCommit, PgReadAck, PgDropAck, Run, Connect, EnsurePublication, EnsureSlot,
       StartReplication, StartupFails, Exit, MessageLoop, LoopTop, AckTick, RecvTimeout, ReceiveKeepalive,
       Receive, ReceiveBegin, ReceiveRelation, ReceiveRow, ReceiveCommit, HandlerOk, HandlerError,
       ConnectionLost, FinalAck, Cancel, Crash, vars, sendVars
  <2> QED BY <2>2 DEF IInv, HandlerRow
<1>2. <<Record(e), e>> \in view'
  BY StreamMoves DEF Produce
<1>3. ~Behind(e)'
  BY <1>2, PrecedesOrder DEF Behind
<1>4. ~Unsent(e)'
  <2>1. e[1] = cur' /\ e[2] = idx' /\ cur' # 0 /\ idx \in Nat /\ ~(idx > idx)
    BY <1>1 DEF IInv, TypeOK
  <2> QED BY <1>1, <2>1 DEF Unsent
<1> QED BY <1>3, <1>4

LEMMA BehindIsToComeStep ==
    ASSUME NoOvershoot, RowsHaveIds, IInv, IInv', SnapInv, DestInv, Phases', CopyIsThere', [SnapNext]_allVars
    PROVE  BehindIsToCome'
<1>0. TypeOK /\ LifeCycle /\ HandlerRow /\ Phases /\ SessionOrder /\ ViewIsPast
  BY DEF IInv, DestInv
<1> SUFFICES ASSUME NEW e \in Events, Forwarded(e[1], e[2]), (Told(e)' /\ Behind(e)') \/ Unsent(e)'
             PROVE  ToCome(e)'
  BY DEF BehindIsToCome
<1>1. Commit(e[1]) \in Nat /\ floor \in Nat /\ floor' \in Nat /\ startLSNOverride \in Nat
  <2>1. Commit(e[1]) \in Nat
    BY EventTypes, WalTypes
  <2>2. floor \in Nat /\ floor' \in Nat /\ startLSNOverride \in Nat
    BY DEF IInv, TypeOK
  <2> QED BY <2>1, <2>2
<1>2. (Told(e) /\ Behind(e)) \/ Unsent(e) => ToCome(e)
  BY DEF DestInv, BehindIsToCome
<1>3. HasCopy /\ HasCopy'
  BY CopyIsNotBehind, PTL DEF DestInv
\* A copied change is not a new one to be told of, as the destination has it.
<1>4. Told(e)' /\ Behind(e)' => Told(e)
  <2> SUFFICES ASSUME Told(e)', Behind(e)' PROVE Told(e)
    OBVIOUS
  <2>1. floor <= floor'
    <3>1. [Next]_vars \/ floor' = floor
      BY <1>0, StreamSteps DEF TypeOK, streamState, pgVars
    <3> QED BY <1>0, <1>1, <3>1, Monotone
  <2>2. CASE Commit(e[1]) >= floor'
    BY <1>1, <2>1, <2>2 DEF Told
  <2>3. CASE Copied(e)'
    <3>1. CASE captured' = captured
      BY <2>3, <3>1 DEF Told, Copied
    <3>2. CASE snapPc' = "done"
      BY <1>3, <2>3, <3>2 DEF HasCopy
    <3> QED BY <1>0, <3>1, <3>2, CapturedStep
  <2> QED BY <2>2, <2>3 DEF Told
<1>5. CASE UNCHANGED streamState
  <2>1. UNCHANGED <<confirmed, consistent, ackWire, pc, startLSN, sessionStart, lastReceivedLSN, done, cur, idx>>
    BY <1>5 DEF streamState, pgVars, sendVars, procVars
  <2>2. Unsent(e)' => Unsent(e)
    BY <2>1 DEF Unsent
  <2>3. Told(e)' /\ Behind(e)' => Behind(e)
    <3>1. CASE view' = view
      BY <3>1 DEF Behind
    <3>2. CASE SnapTable \/ SnapHandlerError
      BY <1>0, <3>2, SnapshotIsNotBehind
    <3>3. CASE StreamStep /\ pc = "handler"
      <4>1. pc' = pc /\ handled' = handled /\ idx' = idx
        BY <1>5, <2>1 DEF streamState
      <4>2. CASE view' = view
        BY <3>1, <4>2
      <4>3. CASE view' # view
        BY <3>3, <4>1, <4>3 DEF StreamStep, Consume
      <4> QED BY <4>2, <4>3
    <3> QED BY <1>0, <3>1, <3>2, <3>3, ViewStep
  <2>4. ToCome(e)
    BY <1>2, <1>4, <2>2, <2>3
  <2> QED BY <2>1, <2>4 DEF ToCome
<1>6. CASE StreamStep
  <2>1. [Next]_vars /\ captured' = captured /\ (pc # "handler" => view' = view)
    BY <1>0, <1>6, StreamMoves
  <2>2. CASE (Told(e) /\ Behind(e)) \/ Unsent(e)
    <3>1. ToCome(e)
      BY <1>2, <2>2
    <3>2. pubExists => Published(e[1], e[2])
      BY DEF DestInv, AllPublished
    <3>3. slotExists' = slotExists \/ ConsistentPoint <= Commit(e[1])
      <4> SUFFICES ASSUME slotExists' # slotExists PROVE ConsistentPoint <= Commit(e[1])
        OBVIOUS
      <4>1. EnsureSlot
        BY <2>1, PcMoves
      <4>2. ~slotExists /\ pc = "slot" /\ pc' = "start" /\ floor' = Later(floor, ConsistentPoint)
        BY <4>1 DEF EnsureSlot
      <4>3. Told(e)' /\ Behind(e)'
        BY <4>2 DEF Unsent, Loop
      <4>4. ~Copied(e)'
        BY <2>1, <4>2, <4>3 DEF DestInv, CopiedBeforeSlot, Copied, Behind
      <4>5. Commit(e[1]) >= floor'
        BY <4>3, <4>4 DEF Told
      <4>6. ConsistentPoint \in Nat
        BY <1>0, ConsistentPointNat
      <4> QED BY <1>1, <4>2, <4>5, <4>6 DEF Later
    <3>4. pc = "start" /\ pc' = "top" => startLSNOverride <= Commit(e[1])
      <4> SUFFICES ASSUME pc = "start", pc' = "top", startLSNOverride # 0 PROVE startLSNOverride <= Commit(e[1])
        BY <1>1
      <4>1. StartReplication
        BY <2>1, PcMoves DEF Loop
      <4>2. startLSNOverride <= sessionStart' /\ sessionStart' \in Nat /\ startLSNOverride <= floor'
        <5>1. confirmed \in Nat /\ consistent \in Nat
          BY <1>0 DEF TypeOK
        <5> QED BY <1>1, <4>1, <5>1 DEF StartReplication, Later
      <4>3. CASE Unsent(e)'
        BY <1>1, <4>2, <4>3 DEF Unsent
      <4>4. CASE Told(e)' /\ Behind(e)'
        <5>1. ~Copied(e)'
          BY <1>0, <1>3, <2>1, <4>4 DEF Phases, HasCopy, Copied, Behind
        <5>2. Commit(e[1]) >= floor'
          BY <4>4, <5>1 DEF Told
        <5> QED BY <1>1, <4>2, <5>2
      <4> QED BY <4>3, <4>4
    <3>5. pc = "handler" /\ pc' = "top" => e # <<cur, idx>>
      BY <1>0, <1>6, HandledIsNotBehind
    <3> QED BY <1>0, <2>1, <3>1, <3>2, <3>3, <3>4, <3>5, ToComeStep
  <2>3. CASE ~((Told(e) /\ Behind(e)) \/ Unsent(e))
    <3>1. CASE Unsent(e)'
      <4>1. StartReplication
        BY <1>0, <2>1, <2>3, <3>1, UnsentStep
      <4> QED BY <1>0, <3>1, <4>1, StartIsToCome
    <3>2. CASE Told(e)' /\ Behind(e)'
      <4>1. ~Behind(e)
        BY <1>4, <2>3, <3>2
      <4>2. pc = "handler"
        BY <2>1, <3>2, <4>1 DEF Behind
      <4>3. Unsent(e)
        BY <1>0, <1>6, <3>2, <4>1, <4>2, ReplayedBefore
      <4> QED BY <2>3, <4>3
    <3> QED BY <3>1, <3>2
  <2> QED BY <2>2, <2>3
<1>7. CASE SnapStep \/ SnapHandlerError \/ SnapFails
  BY <1>0, <1>5, <1>7, SnapshotMoves
<1>8. CASE UNCHANGED allVars
  BY <1>5, <1>8 DEF allVars, vars, streamState
<1> QED BY <1>6, <1>7, <1>8 DEF SnapNext
-----------------------------------------------------------------------------
LEMMA DestInit == ASSUME NothingFiltered, SnapInit PROVE DestInv
<1>1. /\ pc = "stopped" /\ snapPc = "idle" /\ lsn = 0 /\ startLSNOverride = 0 /\ view = {} /\ floor = 0
      /\ captured = [t \in Tables |-> 0] /\ confirmed = 0 /\ ackWire = 0 /\ consistent = 0
      /\ pubExists => publication \in InitialPublications
  BY DEF SnapInit, Init
<1>2. AllPublished
  BY <1>1 DEF NothingFiltered, AllPublished, Published
<1>3. Phases /\ ViewIsPast /\ CopyIsThere /\ SessionOrder
  BY <1>1 DEF Phases, ViewIsPast, CopyIsThere, SessionOrder, Loop
<1>4. CopiedBeforeSlot
  <2> SUFFICES ASSUME NEW e \in Events, Copied(e) PROVE FALSE
    BY DEF CopiedBeforeSlot
  <2>1. captured[TableOf(e[1], e[2])] = 0
    BY <1>1 DEF NothingFiltered
  <2>2. e = LastChange(RowOf(e), 0) /\ e # NoChange
    BY <2>1 DEF Copied, HasRow
  <2>3. e[1] <= 0
    BY <2>2, LastChangeMeaning
  <2> QED BY <2>3, EventTypes
<1>5. BehindIsToCome
  <2> SUFFICES ASSUME NEW e \in Events PROVE ToCome(e)
    BY DEF BehindIsToCome
  <2>1. Commit(e[1]) \in Nat
    BY EventTypes, WalTypes
  <2> QED BY <1>1, <2>1 DEF ToCome, Loop
<1> QED BY <1>2, <1>3, <1>4, <1>5 DEF DestInv

LEMMA DestStep ==
    ASSUME NoOvershoot, NothingFiltered, RowsHaveIds, CompleteLists,
           IInv, IInv', SnapInv, DestInv, [SnapNext]_allVars
    PROVE  DestInv'
<1>1. [Next]_vars \/ UNCHANGED streamState
  BY StreamSteps DEF IInv, TypeOK
<1>2. AllPublished' /\ SessionOrder'
  BY <1>1, AllPublishedStep, SessionOrderStep DEF DestInv, IInv
<1>3. Phases'
  BY PhasesStep DEF DestInv
<1>4. ViewIsPast' /\ CopyIsThere'
  BY <1>3, ViewIsPastStep, CopyIsThereStep DEF DestInv
<1>5. CopiedBeforeSlot'
  BY <1>3, <1>4, CopiedBeforeSlotStep DEF DestInv
<1>6. BehindIsToCome'
  BY <1>3, <1>4, BehindIsToComeStep
<1> QED BY <1>2, <1>3, <1>4, <1>5, <1>6 DEF DestInv

\* When the session has nothing to send, the destination is behind with nothing that
\* it was told of; it has no later version, and one record of each row.
LEMMA CaughtUp ==
    ASSUME NothingFiltered, RowsHaveIds, IInv, SnapInv, DestInv
    PROVE  DestinationCurrent
<1> SUFFICES ASSUME pc = "recv", cur = 0, ToSend = {}, committed = Len(Txns),
                    NEW row \in Rows, NEW last, last = LastChange(row, committed),
                    ~Missed(row[1], last[1]), ~Untold(row[1], last)
             PROVE  Copies(row) = IF HasRow(last) THEN {last} ELSE {}
  BY DEF DestinationCurrent
<1>1. PICK d \in Events : row = RowOf(d)
  BY DEF Rows
<1>2. last \in Events /\ RowOf(last) = row /\ \A f \in Events : RowOf(f) = row => ~Precedes(last, f)
  <2>1. \A f \in Events : f[1] <= committed
    BY EventTypes
  <2> QED BY <1>1, <2>1, LastChangeMeaning
<1>3. row[1] = TableOf(last[1], last[2]) /\ row[1] \in Tables
  BY <1>2 DEF RowOf, NothingFiltered
<1>4. /\ last[1] \in Nat /\ last[1] <= committed /\ Commit(last[1]) \in Nat /\ last[2] \in RowIds(last[1])
      /\ floor \in Nat /\ captured[row[1]] \in Nat /\ done \in Nat /\ sessionStart \in Nat
  <2>1. last[1] \in Nat /\ last[1] <= committed /\ Commit(last[1]) \in Nat /\ last[2] \in RowIds(last[1])
    BY <1>2, EventTypes, WalTypes
  <2>2. floor \in Nat /\ done \in Nat /\ sessionStart \in Nat
    BY DEF IInv, TypeOK
  <2>3. captured[row[1]] \in Nat
    BY <1>3 DEF SnapInv, SnapTypes
  <2> QED BY <2>1, <2>2, <2>3
<1>5. Forwarded(last[1], last[2])
  BY <1>2 DEF Untold, Action, Forwarded, NothingFiltered
<1>6. Told(last)
  <2>1. CASE Commit(last[1]) >= floor
    BY <1>5, <2>1 DEF Told
  <2>2. CASE ~(Commit(last[1]) >= floor)
    <3>1. last[1] <= captured[row[1]]
      BY <1>4, <2>2 DEF Missed
    <3>2. HasRow(last)
      <4>1. Action(last) \in RowActions
        <5>1. Txns[last[1]] \in Txn
          BY <1>2, EventTypes, WalAssumption DEF TxnIds
        <5>2. RowAt(last[1], last[2]) \in Row
          BY <1>4, <5>1 DEF Txn, RowIds, RowAt
        <5> QED BY <5>2 DEF Action, Row
      <4>2. last # NoChange
        BY <1>2, EventTypes DEF NoChange
      <4> QED BY <3>1, <4>1, <4>2 DEF Untold, HasRow, RowActions
    <3>3. last = LastChange(row, captured[row[1]])
      <4> DEFINE copy == LastChange(row, captured[row[1]])
      <4>1. copy \in Events /\ RowOf(copy) = row /\ ~Precedes(copy, last)
        BY <1>2, <3>1, LastChangeMeaning
      <4> QED BY <1>2, <4>1, PrecedesOrder
    <3> QED BY <1>2, <1>3, <1>5, <3>2, <3>3 DEF Told, Copied
  <2> QED BY <2>1, <2>2
<1>7. ~Behind(last)
  <2> SUFFICES ASSUME Behind(last) PROVE FALSE
    OBVIOUS
  <2>1. ToCome(last)
    BY <1>2, <1>5, <1>6 DEF DestInv, BehindIsToCome
  <2>2. sessionStart <= Commit(last[1]) /\ last[1] > done
    BY <2>1 DEF ToCome, Loop
  <2>3. last[2] \in PublishedRows(last[1])
    <3>1. pubExists
      BY DEF IInv, LifeCycle
    <3> QED BY <1>2, <1>4, <3>1 DEF DestInv, AllPublished, PublishedRows
  <2>4. last[1] \in ToSend
    BY <1>4, <2>2, <2>3 DEF ToSend
  <2> QED BY <2>4
<1>8. PICK r \in view : RowOf(r[2]) = row /\ ~Precedes(r[2], last)
  BY <1>2, <1>7 DEF Behind
<1>9. \A q \in view : q[2] \in Events /\ q[1] = SnapshotRecord(q[2])
  BY DEF SnapInv, OneRecordPerKey, DestInv, ViewIsPast
<1>10. r[2] = last
  BY <1>2, <1>8, <1>9, PrecedesOrder
<1>11. \A q \in view : RowOf(q[2]) = row => q[2] = last
  <2> SUFFICES ASSUME NEW q \in view, RowOf(q[2]) = row PROVE q[2] = last
    OBVIOUS
  <2>1. q[1] = r[1]
    BY <1>8, <1>9, KeysAreRows
  <2> QED BY <1>10, <2>1 DEF SnapInv, OneRecordPerKey
<1> QED BY <1>2, <1>10, <1>11 DEF Copies

\* The destination ends up with the rows of the database: whenever the stream has
\* caught up, each row has one record, its last version, whatever was copied by
\* several snapshots or by parts of them, streamed, replayed or left unconfirmed by
\* crashes, except what fell between a snapshot and the stream (Missed) and what no
\* event tells of (Untold).
THEOREM DestinationEndsUpCurrent ==
    ASSUME NoOvershoot, NothingFiltered, RowsHaveIds, CompleteLists
    PROVE  SnapSpec => []DestinationCurrent
<1>1. SnapInit => DestInv
  BY DestInit
<1>2. IInv /\ IInv' /\ SnapInv /\ DestInv /\ [SnapNext]_allVars => DestInv'
  BY DestStep
<1>3. IInv /\ SnapInv /\ DestInv => DestinationCurrent
  BY CaughtUp
<1> QED BY <1>1, <1>2, <1>3, SnapStreamInvariance, SnapInvariance, PTL DEF SnapSpec
=============================================================================
