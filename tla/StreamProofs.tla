---------------------------- MODULE StreamProofs ----------------------------
(***************************************************************************)
(* Proofs about module Stream, for every history, filter, publication and  *)
(* number of faults.                                                       *)
(***************************************************************************)
EXTENDS Stream, TLAPS
-----------------------------------------------------------------------------
(* The inductive invariant. *)

Loop == {"top", "recv", "handler", "return"}

\* The events the stream still owes: <<transaction, row>>.
Pending == {e \in Events : Owed(e[1], e[2]) /\ e \notin handled}

\* It is safe to report position lsn as flushed: every transaction that commits
\* before it is handled.
Settled(lsn) == \A e \in Pending : lsn <= Commit(e[1])

\* What is durable, on the wire or about to be sent is safe to report.
PositionsSettled ==
    /\ Settled(confirmed)
    /\ Settled(ackWire)
    /\ pc = "start" => Settled(startLSN)
    /\ pc \in Loop => Settled(sessionStart) /\ Settled(lastReceivedLSN + 1)

\* The walsender is in commit order, and the rows before its position are handled:
\* the row at idx too, unless its handler is still running or has failed.
InOrder ==
    pc \in Loop =>
       \A e \in Pending :
          /\ e[1] > done
          /\ cur # 0 => /\ e[1] >= cur
                        /\ e[1] = cur => e[2] >= idx
                        /\ e[1] = cur /\ pc \in {"top", "recv"} => e[2] > idx

\* The life cycle of the publication and the slot.
LifeCycle ==
    /\ slotExists \/ pc \notin {"stopped", "publication"} => pubExists
    /\ pc \in {"start"} \cup Loop => slotExists
    /\ ~slotExists => confirmed = 0 /\ ackWire = 0 /\ handled = {}
    /\ consistent <= floor
    /\ pc \notin Loop => done = 0 /\ cur = 0 /\ lastReceivedLSN = 0

\* A running handler has a row.
HandlerRow == pc = "handler" => cur # 0 /\ idx # 0

IInv == TypeOK /\ HandlerRow /\ LifeCycle /\ PositionsSettled /\ InOrder
-----------------------------------------------------------------------------
\* The types of what a history holds.
LEMMA WalTypes ==
    /\ Len(Txns) \in Nat /\ BeginLen \in Nat /\ CommitLen \in Nat /\ RelationLen \in Nat
    /\ \A t \in TxnIds :
          /\ Commit(t) \in Nat /\ End(t) \in Nat
          /\ Len(Txns[t].rows) \in Nat
          /\ \A i \in RowIds(t) : /\ RowAt(t, i).lsn \in Nat /\ RowAt(t, i).len \in Nat
                                 /\ Version(t, i) \in Nat
<1>1. Txns \in Seq(Txn) /\ BeginLen \in Nat /\ CommitLen \in Nat /\ RelationLen \in Nat
  BY WalAssumption
<1>2. ASSUME NEW t \in TxnIds
      PROVE /\ Commit(t) \in Nat /\ End(t) \in Nat
            /\ Len(Txns[t].rows) \in Nat
            /\ \A i \in RowIds(t) : /\ RowAt(t, i).lsn \in Nat /\ RowAt(t, i).len \in Nat
                                   /\ Version(t, i) \in Nat
  <2>1. Txns[t] \in Txn
    BY <1>1 DEF TxnIds
  <2>2. Txns[t].rows \in Seq(Row) /\ Txns[t].commit \in Nat /\ Txns[t].end \in Nat
    BY <2>1 DEF Txn
  <2>3. ASSUME NEW i \in RowIds(t) PROVE RowAt(t, i) \in Row
    BY <2>2 DEF RowIds, RowAt
  <2> QED BY <2>2, <2>3 DEF Commit, End, Version, Row
<1> QED BY <1>1, <1>2

LEMMA LaterNat == \A a, b \in Nat : Later(a, b) \in Nat
BY DEF Later

LEMMA ConsistentPointNat == ASSUME TypeOK PROVE ConsistentPoint \in Nat
BY WalTypes DEF ConsistentPoint, TypeOK, TxnIds

LEMMA ExitTypes == ASSUME TypeOK, Exit, UNCHANGED <<pgVars, ackWire, handled>>,
                          faults' \in Nat
                   PROVE  TypeOK'
<1>1. ctxDone' \in BOOLEAN /\ ackDue' \in BOOLEAN
  BY Zenon DEF Exit
<1>2. announced' \in [Tables -> Nat] /\ relations' \in [Tables -> Nat]
  BY DEF Exit, NoSchemas
<1> QED BY <1>1, <1>2, WalTypes DEF TypeOK, Exit, pgVars, Positions

LEMMA HandlerHasRow ==
    ASSUME TypeOK, HandlerRow, pc = "handler"
    PROVE  cur \in TxnIds /\ idx \in RowIds(cur) /\ <<cur, idx>> \in Events
           /\ RowAt(cur, idx).lsn \in Nat
<1>1. cur \in TxnIds /\ idx \in RowIds(cur)
  BY WalTypes DEF TypeOK, HandlerRow, TxnIds, RowIds
<1> QED BY <1>1, WalTypes DEF Events, TypeOK, HandlerRow

LEMMA HandlerRowStep == ASSUME TypeOK, HandlerRow, [Next]_vars PROVE HandlerRow'
<1>1. CASE ReceiveRow
  BY <1>1, WalTypes DEF ReceiveRow, RowsToSend, PublishedRows, RowIds, TypeOK, TxnIds, HandlerRow
<1>2. CASE Next /\ ~ReceiveRow
  BY <1>2 DEF Next, Postgres, PgCommit, PgReadAck, PgDropAck, Run, Connect, EnsurePublication,
     EnsureSlot, StartReplication, StartupFails, Exit, MessageLoop, LoopTop, AckTick, RecvTimeout,
     ReceiveKeepalive, Receive, ReceiveBegin, ReceiveRelation, ReceiveCommit, HandlerOk,
     HandlerError, ConnectionLost, FinalAck, Cancel, Crash, sendVars, HandlerRow
<1>3. CASE UNCHANGED vars
  BY <1>3 DEF vars, sendVars, HandlerRow
<1> QED BY <1>1, <1>2, <1>3

LEMMA TypeInit == ASSUME Init PROVE TypeOK /\ HandlerRow
<1>1. pubExists \in BOOLEAN /\ slotExists \in BOOLEAN /\ ctxDone \in BOOLEAN /\ ackDue \in BOOLEAN
  BY Zenon DEF Init
<1>2. announced \in [Tables -> Nat] /\ relations \in [Tables -> Nat]
  BY DEF Init, NoSchemas
<1> QED BY <1>1, <1>2, WalTypes, StreamAssumption DEF Init, TypeOK, HandlerRow, Positions

LEMMA TypeStep == ASSUME TypeOK, HandlerRow, [Next]_vars PROVE TypeOK'
<1> USE DEF TypeOK, Positions
<1>1. CASE PgCommit
  BY <1>1, WalTypes DEF PgCommit, sendVars, procVars
<1>2. CASE PgReadAck
  BY <1>2, LaterNat DEF PgReadAck, sendVars, procVars
<1>3. CASE PgDropAck
  BY <1>3 DEF PgDropAck, pgVars, sendVars, procVars
<1>4. CASE Connect
  <2>1. startLSNOverride' \in Nat
    BY <1>4, StreamAssumption DEF Connect
  <2> QED BY <1>4, <2>1 DEF Connect, pgVars, sendVars
<1>5. CASE EnsurePublication
  <2>1. CASE Exit
    BY <1>5, <2>1, ExitTypes, Zenon DEF EnsurePublication, Exit, pgVars
  <2>2. CASE ~Exit
    BY <1>5, <2>2 DEF EnsurePublication, sendVars, procVars
  <2> QED BY <2>1, <2>2
<1>6. CASE EnsureSlot
  <2>1. ConsistentPoint \in Nat
    BY ConsistentPointNat
  <2> QED BY <1>6, <2>1, LaterNat DEF EnsureSlot, sendVars
<1>7. CASE StartReplication
  BY <1>7, LaterNat DEF StartReplication
<1>8. CASE StartupFails
  BY <1>8, ExitTypes DEF StartupFails, Fault
<1>9. CASE LoopTop
  <2>1. ackDue' \in BOOLEAN
    BY <1>9, Zenon DEF LoopTop
  <2> QED BY <1>9, <2>1 DEF LoopTop, SendAck, pgVars, sendVars
<1>10. CASE AckTick
  <2>1. ackDue' \in BOOLEAN
    BY <1>10, Zenon DEF AckTick
  <2> QED BY <1>10, <2>1 DEF AckTick, pgVars, sendVars
<1>11. CASE RecvTimeout
  BY <1>11 DEF RecvTimeout, pgVars, sendVars, procVars
<1>12. CASE ReceiveKeepalive
  BY <1>12 DEF ReceiveKeepalive, KeepaliveLSN, SendAck, pgVars, sendVars, procVars
<1>13. CASE ReceiveBegin
  <2>1. PICK t \in ToSend : \E i \in PublishedRows(t) :
           cur' = t /\ currentXid' = t /\ lastReceivedLSN' = RowAt(t, i).lsn + BeginLen
    BY <1>13 DEF ReceiveBegin, BeginLSN
  <2>2. t \in TxnIds /\ t \in 1..committed
    BY WalTypes DEF ToSend, TxnIds
  <2>3. lastReceivedLSN' \in Nat
    BY <2>1, <2>2, WalTypes DEF PublishedRows
  <2>4. Len(Txns[t].rows) \in Nat
    BY <2>2, WalTypes
  <2> QED BY <1>13, <2>1, <2>2, <2>3, <2>4 DEF ReceiveBegin, pgVars
<1>14. CASE ReceiveRelation
  <2>1. PICK i \in RowsToSend :
           /\ announced' = [announced EXCEPT ![TableOf(cur, i)] = Version(cur, i)]
           /\ relations' = [relations EXCEPT ![TableOf(cur, i)] = Version(cur, i)]
    BY <1>14 DEF ReceiveRelation, Cached
  <2>2. cur \in TxnIds /\ i \in RowIds(cur)
    BY <1>14, WalTypes DEF ReceiveRelation, RowsToSend, PublishedRows, TxnIds
  <2>3. Version(cur, i) \in Nat
    BY <2>2, WalTypes
  <2>4. announced' \in [Tables -> Nat] /\ relations' \in [Tables -> Nat]
    BY <2>1, <2>3
  <2> QED BY <1>14, <2>4, WalTypes DEF ReceiveRelation, pgVars
<1>15. CASE ReceiveRow
  <2>1. PICK i \in RowsToSend : idx' = i /\ lastReceivedLSN' = RowAt(cur, i).lsn + RowAt(cur, i).len
    BY <1>15 DEF ReceiveRow
  <2>2. cur \in TxnIds /\ i \in RowIds(cur)
    BY <1>15, WalTypes DEF ReceiveRow, RowsToSend, PublishedRows, TxnIds
  <2>3. idx' \in 0..Len(Txns[cur].rows) /\ idx' \in Nat /\ lastReceivedLSN' \in Nat
    BY <2>1, <2>2, WalTypes DEF RowIds
  <2> QED BY <1>15, <2>3 DEF ReceiveRow, pgVars
<1>16. CASE ReceiveCommit
  <2>1. cur \in TxnIds
    BY <1>16, WalTypes DEF ReceiveCommit, TxnIds
  <2> QED BY <1>16, <2>1, WalTypes DEF ReceiveCommit, pgVars
<1>17. CASE HandlerOk
  <2>1. <<cur, idx>> \in Events
    BY <1>17, HandlerHasRow DEF HandlerOk
  <2> QED BY <1>17, <2>1 DEF HandlerOk, pgVars, sendVars, procVars
<1>18. CASE HandlerError
  <2>1. <<cur, idx>> \in Events /\ RowAt(cur, idx).lsn \in Nat
    BY <1>18, HandlerHasRow DEF HandlerError
  <2> QED BY <1>18, <2>1 DEF HandlerError, Fault, pgVars, sendVars, procVars
<1>19. CASE ConnectionLost
  BY <1>19 DEF ConnectionLost, Fault, pgVars, sendVars, procVars
<1>20. CASE FinalAck
  <2>1. ctxDone' \in BOOLEAN /\ ackDue' \in BOOLEAN
    BY <1>20, Zenon DEF FinalAck, Exit
  <2>2. announced' \in [Tables -> Nat] /\ relations' \in [Tables -> Nat]
    BY <1>20 DEF FinalAck, Exit, NoSchemas
  <2> QED BY <1>20, <2>1, <2>2, WalTypes DEF FinalAck, Exit, SendAck, pgVars
<1>21. CASE Cancel
  <2>1. ctxDone' \in BOOLEAN
    BY <1>21, Zenon DEF Cancel
  <2> QED BY <1>21, <2>1 DEF Cancel, Fault, pgVars, sendVars
<1>22. CASE Crash
  BY <1>22, ExitTypes DEF Crash, Fault
<1>23. CASE UNCHANGED vars
  BY <1>23 DEF vars, pgVars, sendVars, procVars
<1> HIDE DEF TypeOK, Positions
<1> QED BY <1>1, <1>2, <1>3, <1>4, <1>5, <1>6, <1>7, <1>8, <1>9, <1>10, <1>11, <1>12, <1>13,
           <1>14, <1>15, <1>16, <1>17, <1>18, <1>19, <1>20, <1>21, <1>22, <1>23
        DEF Next, Postgres, Run, MessageLoop, Receive

\* Stream: every variable keeps its type, over every session, crash and restart.
THEOREM TypeCorrect == Spec => []TypeOK
<1>1. Init => TypeOK /\ HandlerRow
  BY TypeInit
<1>2. TypeOK /\ HandlerRow /\ [Next]_vars => (TypeOK /\ HandlerRow)'
  BY TypeStep, HandlerRowStep
<1> QED BY <1>1, <1>2, PTL DEF Spec
-----------------------------------------------------------------------------
(* No event is lost. *)

\* Commit records are in the order of their transactions.
LEMMA CommitOrder ==
    ASSUME NEW t \in TxnIds, NEW u \in TxnIds, Commit(t) < Commit(u)
    PROVE  t < u
BY WalTypes, WalAssumption DEF TxnIds

LEMMA PendingTypes ==
    \A e \in Pending : /\ e \in Events /\ e = <<e[1], e[2]>>
                      /\ e[1] \in TxnIds /\ e[1] \in Nat \ {0} /\ Commit(e[1]) \in Nat
                      /\ e[2] \in RowIds(e[1]) /\ e[2] \in Nat \ {0}
<1> SUFFICES ASSUME NEW e \in Pending
             PROVE  /\ e \in Events /\ e = <<e[1], e[2]>>
                    /\ e[1] \in TxnIds /\ e[1] \in Nat \ {0} /\ Commit(e[1]) \in Nat
                    /\ e[2] \in RowIds(e[1]) /\ e[2] \in Nat \ {0}
  OBVIOUS
<1>1. e \in Events
  BY DEF Pending
<1>2. PICK t \in TxnIds : e \in {t} \X RowIds(t)
  BY <1>1 DEF Events
<1>3. e = <<e[1], e[2]>> /\ e[1] = t /\ e[2] \in RowIds(t)
  BY <1>2
<1>4. t \in Nat \ {0} /\ e[2] \in Nat \ {0} /\ Commit(t) \in Nat
  BY <1>3, WalTypes DEF TxnIds, RowIds
<1> QED BY <1>1, <1>3, <1>4

\* Handled events stay handled, and the floor only rises.
LEMMA Monotone ==
    ASSUME TypeOK, [Next]_vars
    PROVE  handled \subseteq handled' /\ floor <= floor'
<1> USE DEF TypeOK, Later
<1>1. CASE Postgres
  BY <1>1 DEF Postgres, PgCommit, PgReadAck, PgDropAck, pgVars
<1>2. CASE EnsureSlot
  <2>1. ConsistentPoint \in Nat
    BY ConsistentPointNat
  <2> QED BY <1>2, <2>1 DEF EnsureSlot
<1>3. CASE StartReplication
  BY <1>3 DEF StartReplication
<1>4. CASE HandlerOk \/ HandlerError
  BY <1>4 DEF HandlerOk, HandlerError, pgVars
<1>5. CASE Connect \/ EnsurePublication \/ StartupFails \/ Crash \/ FinalAck
  BY <1>5 DEF Connect, EnsurePublication, StartupFails, Crash, FinalAck, pgVars
<1>6. CASE LoopTop \/ AckTick \/ RecvTimeout \/ ReceiveKeepalive \/ ConnectionLost \/ Cancel
  BY <1>6 DEF LoopTop, AckTick, RecvTimeout, ReceiveKeepalive, ConnectionLost, Cancel, pgVars
<1>7. CASE Receive
  BY <1>7 DEF Receive, ReceiveBegin, ReceiveRelation, ReceiveRow, ReceiveCommit, pgVars
<1>8. CASE UNCHANGED vars
  BY <1>8 DEF vars, pgVars
<1> HIDE DEF TypeOK, Later
<1> QED BY <1>1, <1>2, <1>3, <1>4, <1>5, <1>6, <1>7, <1>8 DEF Next, Run, MessageLoop

\* The tables of a publication never change once it exists.
LEMMA PublicationFixed ==
    ASSUME [Next]_vars, pubExists
    PROVE  pubExists' /\ publication' = publication
<1>1. CASE Postgres \/ Run
  BY <1>1 DEF Postgres, PgCommit, PgReadAck, PgDropAck, Run, Connect, EnsurePublication, EnsureSlot,
     StartReplication, StartupFails, pgVars
<1>2. CASE MessageLoop
  BY <1>2 DEF MessageLoop, LoopTop, AckTick, RecvTimeout, ReceiveKeepalive, Receive, ReceiveBegin,
     ReceiveRelation, ReceiveRow, ReceiveCommit, HandlerOk, HandlerError, ConnectionLost, FinalAck,
     pgVars
<1>3. CASE Cancel \/ Crash \/ UNCHANGED vars
  BY <1>3 DEF Cancel, Crash, vars, pgVars
<1> QED BY <1>1, <1>2, <1>3 DEF Next

\* No event becomes pending: the history is fixed and the floor only rises.
LEMMA PendingShrinks ==
    ASSUME TypeOK, TypeOK', [Next]_vars, pubExists
    PROVE  Pending' \subseteq Pending
<1>1. handled \subseteq handled' /\ floor <= floor' /\ publication' = publication
  BY Monotone, PublicationFixed
<1> SUFFICES ASSUME NEW e \in Events, Owed(e[1], e[2])', e \notin handled'
             PROVE  Owed(e[1], e[2]) /\ e \notin handled
  BY DEF Pending
<1>2. e[1] \in TxnIds
  BY DEF Events
<1>3. Commit(e[1]) >= floor' /\ TableOf(e[1], e[2]) \in publication' /\ Forwarded(e[1], e[2])
  BY DEF Owed, Published
<1>4. floor \in Nat /\ floor' \in Nat /\ Commit(e[1]) \in Nat
  BY <1>2, WalTypes DEF TypeOK
<1>5. Commit(e[1]) >= floor /\ TableOf(e[1], e[2]) \in publication
  BY <1>1, <1>3, <1>4
<1>6. Owed(e[1], e[2])
  BY <1>3, <1>5 DEF Owed, Published
<1> QED BY <1>1, <1>6

LEMMA LifeCycleStep == ASSUME TypeOK, LifeCycle, [Next]_vars PROVE LifeCycle'
<1> USE DEF TypeOK, LifeCycle, Loop, Later
<1>1. CASE PgCommit \/ PgDropAck
  BY <1>1 DEF PgCommit, PgDropAck, pgVars, sendVars, procVars
<1>12. CASE PgReadAck
  BY <1>12 DEF PgReadAck, sendVars, procVars
<1>2. CASE Connect
  BY <1>2 DEF Connect, pgVars, sendVars
<1>3. CASE EnsurePublication
  BY <1>3 DEF EnsurePublication, Exit, sendVars, procVars
<1>4. CASE EnsureSlot
  <2>1. ConsistentPoint \in Nat
    BY ConsistentPointNat
  <2> QED BY <1>4, <2>1 DEF EnsureSlot, sendVars
<1>5. CASE StartReplication
  BY <1>5 DEF StartReplication
<1>6. CASE StartupFails \/ Crash
  BY <1>6 DEF StartupFails, Crash, Exit, pgVars
<1>7. CASE FinalAck
  BY <1>7 DEF FinalAck, Exit, pgVars
<1>8. CASE LoopTop \/ AckTick \/ RecvTimeout \/ ReceiveKeepalive
  BY <1>8 DEF LoopTop, AckTick, RecvTimeout, ReceiveKeepalive, pgVars
<1>9. CASE Receive
  BY <1>9 DEF Receive, ReceiveBegin, ReceiveRelation, ReceiveRow, ReceiveCommit, pgVars
<1>10. CASE HandlerOk \/ HandlerError \/ ConnectionLost \/ Cancel
  BY <1>10 DEF HandlerOk, HandlerError, ConnectionLost, Cancel, pgVars
<1>11. CASE UNCHANGED vars
  BY <1>11 DEF vars, pgVars, sendVars, procVars
<1> HIDE DEF TypeOK, LifeCycle, Loop, Later
<1> QED BY <1>1, <1>2, <1>3, <1>4, <1>5, <1>6, <1>7, <1>8, <1>9, <1>10, <1>11, <1>12
        DEF Next, Postgres, Run, MessageLoop

\* Before the walsender takes up a transaction, the earlier ones are settled: it
\* skips only those that are settled already and those with nothing published.
LEMMA BeginInOrder ==
    ASSUME IInv, pc = "recv", NEW t \in ToSend, IsFirst(t, ToSend)
    PROVE  t \in TxnIds /\ \A e \in Pending : e[1] >= t
<1>1. t \in TxnIds /\ t \in Nat
  BY WalTypes DEF IInv, TypeOK, ToSend, TxnIds
<1> SUFFICES ASSUME NEW e \in Pending, e[1] < t PROVE FALSE
  BY <1>1, PendingTypes
<1>2. e[1] \in TxnIds /\ e[1] \in Nat /\ e[2] \in RowIds(e[1]) /\ Commit(e[1]) \in Nat
  BY PendingTypes
<1>3. e[1] > done /\ sessionStart <= Commit(e[1])
  BY DEF IInv, InOrder, PositionsSettled, Settled, Loop
<1>4. e[2] \in PublishedRows(e[1])
  BY <1>2 DEF PublishedRows, Pending, Owed
<1>5. e[1] \in ToSend
  BY <1>1, <1>2, <1>3, <1>4 DEF ToSend, IInv, TypeOK
<1> QED BY <1>1, <1>2, <1>5 DEF IsFirst

\* When the walsender has no more rows of its transaction, that one is settled.
LEMMA CommitInOrder ==
    ASSUME IInv, pc = "recv", cur # 0, RowsToSend = {}
    PROVE  \A e \in Pending : e[1] > cur
<1> SUFFICES ASSUME NEW e \in Pending, ~(e[1] > cur) PROVE FALSE
  OBVIOUS
<1>1. e[1] \in Nat /\ e[2] \in Nat /\ e[2] \in RowIds(e[1])
  BY PendingTypes
<1>2. cur \in Nat
  BY DEF IInv, TypeOK
<1>3. e[1] = cur /\ e[2] > idx
  BY <1>1, <1>2 DEF IInv, InOrder, Loop
<1>4. e[2] \in RowsToSend
  BY <1>1, <1>3 DEF RowsToSend, PublishedRows, Pending, Owed
<1> QED BY <1>4

\* A row the walsender skips is not published, so it is not pending.
LEMMA RowInOrder ==
    ASSUME IInv, pc = "recv", cur # 0, NEW i \in RowsToSend, IsFirst(i, RowsToSend)
    PROVE  i \in RowIds(cur) /\ \A e \in Pending : e[1] >= cur /\ (e[1] = cur => e[2] >= i)
<1>1. i \in RowIds(cur) /\ i \in Nat /\ cur \in TxnIds
  BY WalTypes DEF RowsToSend, PublishedRows, IInv, TypeOK, TxnIds, RowIds
<1> SUFFICES ASSUME NEW e \in Pending PROVE e[1] >= cur /\ (e[1] = cur => e[2] >= i)
  BY <1>1
<1>2. e[2] \in Nat /\ e[2] \in RowIds(e[1])
  BY PendingTypes
<1>3. e[1] >= cur /\ (e[1] = cur => e[2] > idx)
  BY DEF IInv, InOrder, Loop
<1>4. ASSUME e[1] = cur PROVE e[2] >= i
  <2>1. e[2] \in RowsToSend
    BY <1>2, <1>3, <1>4 DEF RowsToSend, PublishedRows, Pending, Owed
  <2> QED BY <2>1 DEF IsFirst
<1> QED BY <1>3, <1>4

LEMMA InOrderStep ==
    ASSUME IInv, [Next]_vars, TypeOK'
    PROVE  InOrder'
<1> SUFFICES ASSUME pc' \in Loop, NEW e \in Pending'
             PROVE  /\ e[1] > done'
                    /\ cur' # 0 => /\ e[1] >= cur'
                                   /\ e[1] = cur' => e[2] >= idx'
                                   /\ e[1] = cur' /\ pc' \in {"top", "recv"} => e[2] > idx'
  BY DEF InOrder
<1>1. CASE pubExists
  <2>1. e \in Pending
    BY <1>1, PendingShrinks DEF IInv
  <2>2. /\ e \in Events /\ e = <<e[1], e[2]>>
        /\ e[1] \in Nat \ {0} /\ e[2] \in Nat \ {0} /\ e[2] \in RowIds(e[1])
    BY <2>1, PendingTypes
  <2>3. cur \in Nat /\ idx \in Nat /\ done \in Nat /\ pc \in Positions
    BY DEF IInv, TypeOK
  <2>4. pc \in Loop => /\ e[1] > done
                       /\ cur # 0 => /\ e[1] >= cur
                                     /\ e[1] = cur => e[2] >= idx
                                     /\ e[1] = cur /\ pc \in {"top", "recv"} => e[2] > idx
    BY <2>1 DEF IInv, InOrder
  <2>5. CASE Postgres
    BY <2>4, <2>5 DEF Postgres, PgCommit, PgReadAck, PgDropAck, sendVars
  <2>6. CASE Connect \/ EnsurePublication \/ EnsureSlot \/ StartupFails \/ Crash \/ FinalAck
    BY <2>6 DEF Connect, EnsurePublication, EnsureSlot, StartupFails, Crash, FinalAck, Exit, Loop
  <2>7. CASE StartReplication
    <3>1. done = 0 /\ cur = 0
      BY <2>7 DEF StartReplication, IInv, LifeCycle, Loop
    <3> QED BY <2>2, <2>7, <3>1 DEF StartReplication
  <2>8. CASE LoopTop \/ AckTick \/ RecvTimeout \/ ReceiveKeepalive \/ ReceiveRelation
             \/ ConnectionLost \/ Cancel
    BY <2>4, <2>8 DEF LoopTop, AckTick, RecvTimeout, ReceiveKeepalive, ReceiveRelation,
       ConnectionLost, Cancel, sendVars, Loop
  <2>9. CASE ReceiveBegin
    <3>1. PICK t \in ToSend : IsFirst(t, ToSend) /\ cur' = t
      BY <2>9 DEF ReceiveBegin
    <3>2. e[1] >= t
      BY <2>1, <2>9, <3>1, BeginInOrder DEF ReceiveBegin
    <3> QED BY <2>2, <2>4, <2>9, <3>1, <3>2 DEF ReceiveBegin, Loop
  <2>10. CASE ReceiveRow
    <3>1. PICK i \in RowsToSend : IsFirst(i, RowsToSend) /\ idx' = i
                                  /\ pc' = IF UnknownRelation(cur, i) THEN "return"
                                           ELSE IF Forwarded(cur, i) THEN "handler" ELSE "top"
      BY <2>10 DEF ReceiveRow
    <3>2. e[1] >= cur /\ (e[1] = cur => e[2] >= i)
      BY <2>1, <2>10, <3>1, RowInOrder DEF ReceiveRow
    <3>3. ASSUME e[1] = cur, pc' \in {"top", "recv"} PROVE e[2] # i
      BY <2>1, <3>1, <3>3 DEF Pending, Owed
    <3>4. i \in Nat
      BY WalTypes DEF RowsToSend, PublishedRows, RowIds
    <3>5. pc \in Loop /\ cur # 0 /\ cur' = cur /\ done' = done
      BY <2>10 DEF ReceiveRow, Loop
    <3> QED BY <2>2, <2>3, <2>4, <3>1, <3>2, <3>3, <3>4, <3>5
  <2>11. CASE ReceiveCommit
    BY <2>1, <2>11, CommitInOrder DEF ReceiveCommit
  <2>12. CASE HandlerOk
    <3>1. e # <<cur, idx>>
      BY <2>12 DEF HandlerOk, Pending
    <3> QED BY <2>2, <2>3, <2>4, <2>12, <3>1 DEF HandlerOk, sendVars, Loop
  <2>13. CASE HandlerError
    BY <2>4, <2>13 DEF HandlerError, sendVars, Loop
  <2>14. CASE UNCHANGED vars
    BY <2>4, <2>14 DEF vars, sendVars
  <2> QED BY <2>5, <2>6, <2>7, <2>8, <2>9, <2>10, <2>11, <2>12, <2>13, <2>14
          DEF Next, Run, MessageLoop, Receive
<1>2. CASE ~pubExists
  <2>1. pc \in {"stopped", "publication"}
    BY <1>2 DEF IInv, LifeCycle
  <2>2. pc' \notin Loop
    BY <2>1 DEF Next, Postgres, PgCommit, PgReadAck, PgDropAck, Run, Connect, EnsurePublication,
       EnsureSlot, StartReplication, StartupFails, Exit, MessageLoop, LoopTop, AckTick, RecvTimeout,
       ReceiveKeepalive, Receive, ReceiveBegin, ReceiveRelation, ReceiveRow, ReceiveCommit,
       HandlerOk, HandlerError, ConnectionLost, FinalAck, Cancel, Crash, vars, Loop
  <2> QED BY <2>2
<1> QED BY <1>1, <1>2

\* A position before the commit record of transaction c is safe to report when
\* every transaction before c is settled.
LEMMA BeforeCommit ==
    ASSUME NEW c \in TxnIds, \A e \in Pending : e[1] >= c, NEW lsn \in Nat, lsn < Commit(c)
    PROVE  \A e \in Pending : lsn + 1 <= Commit(e[1])
<1> SUFFICES ASSUME NEW e \in Pending, ~(lsn + 1 <= Commit(e[1])) PROVE FALSE
  OBVIOUS
<1>1. e[1] \in TxnIds /\ e[1] \in Nat /\ Commit(e[1]) \in Nat /\ e[1] >= c
  BY PendingTypes
<1>2. Commit(e[1]) < Commit(c) /\ c \in Nat
  BY <1>1, WalTypes DEF TxnIds
<1> QED BY <1>1, <1>2, CommitOrder

LEMMA ReceivedSettled ==
    ASSUME NoOvershoot, IInv, Receive
    PROVE  \A e \in Pending : lastReceivedLSN' + 1 <= Commit(e[1])
<1>1. CASE ReceiveBegin
  <2>1. PICK t \in ToSend : \E i \in PublishedRows(t) :
           IsFirst(t, ToSend) /\ lastReceivedLSN' = RowAt(t, i).lsn + BeginLen
    BY <1>1 DEF ReceiveBegin, BeginLSN
  <2>2. t \in TxnIds /\ \A e \in Pending : e[1] >= t
    BY <1>1, <2>1, BeginInOrder DEF ReceiveBegin
  <2>3. lastReceivedLSN' \in Nat /\ lastReceivedLSN' < Commit(t)
    BY <2>1, <2>2, WalTypes DEF NoOvershoot, PublishedRows
  <2> QED BY <2>2, <2>3, BeforeCommit
<1>2. CASE ReceiveRelation
  BY <1>2, PendingTypes, WalTypes, WalAssumption DEF ReceiveRelation
<1>3. CASE ReceiveRow
  <2>1. PICK i \in RowsToSend :
           IsFirst(i, RowsToSend) /\ lastReceivedLSN' = RowAt(cur, i).lsn + RowAt(cur, i).len
    BY <1>3 DEF ReceiveRow
  <2>2. i \in RowIds(cur) /\ \A e \in Pending : e[1] >= cur
    BY <1>3, <2>1, RowInOrder DEF ReceiveRow
  <2>3. cur \in TxnIds
    BY <1>3, WalTypes DEF ReceiveRow, IInv, TypeOK, TxnIds
  <2>4. lastReceivedLSN' \in Nat /\ lastReceivedLSN' < Commit(cur)
    BY <2>1, <2>2, <2>3, WalTypes DEF NoOvershoot
  <2> QED BY <2>2, <2>3, <2>4, BeforeCommit
<1>4. CASE ReceiveCommit
  <2> SUFFICES ASSUME NEW e \in Pending PROVE lastReceivedLSN' + 1 <= Commit(e[1])
    OBVIOUS
  <2>1. e[1] > cur
    BY <1>4, CommitInOrder DEF ReceiveCommit
  <2>2. cur \in TxnIds /\ e[1] \in TxnIds
    <3>1. cur \in TxnIds
      BY <1>4, WalTypes DEF ReceiveCommit, IInv, TypeOK, TxnIds
    <3> QED BY <3>1, PendingTypes
  <2>3. cur < e[1]
    BY <2>1, <2>2 DEF TxnIds
  <2>4. End(cur) + CommitLen < Commit(e[1])
    BY <2>2, <2>3 DEF NoOvershoot
  <2> QED BY <1>4, <2>2, <2>4, WalTypes DEF ReceiveCommit
<1> QED BY <1>1, <1>2, <1>3, <1>4 DEF Receive

LEMMA PositionsStep ==
    ASSUME NoOvershoot, IInv, [Next]_vars, TypeOK'
    PROVE  PositionsSettled'
<1> SUFFICES ASSUME NEW e \in Pending', NEW c, c = Commit(e[1])
             PROVE  /\ confirmed' <= c
                    /\ ackWire' <= c
                    /\ pc' = "start" => startLSN' <= c
                    /\ pc' \in Loop => sessionStart' <= c /\ lastReceivedLSN' + 1 <= c
  BY DEF PositionsSettled, Settled
<1>1. c \in Nat /\ floor' <= c /\ 0 < c
  <2>1. e \in Events
    BY DEF Pending
  <2>2. e[1] \in TxnIds
    BY <2>1 DEF Events
  <2>3. c \in Nat /\ 0 < c
    BY <2>2, WalTypes, WalAssumption
  <2>4. floor' <= c
    BY <2>3 DEF Pending, Owed, TypeOK
  <2> QED BY <2>3, <2>4
<1>2. CASE pubExists
  <2>1. e \in Pending
    BY <1>2, PendingShrinks DEF IInv
  <2>2. /\ confirmed <= c /\ ackWire <= c
        /\ pc = "start" => startLSN <= c
        /\ pc \in Loop => sessionStart <= c /\ lastReceivedLSN + 1 <= c
    BY <2>1 DEF IInv, PositionsSettled, Settled
  <2>3. CASE Postgres
    BY <1>1, <2>2, <2>3 DEF Postgres, PgCommit, PgReadAck, PgDropAck, pgVars, sendVars, procVars, Later
  <2>4. CASE Connect \/ EnsurePublication
    BY <2>2, <2>4 DEF Connect, EnsurePublication, Exit, pgVars, Loop
  <2>5. CASE EnsureSlot
    <3>1. ConsistentPoint \in Nat /\ floor \in Nat
      BY ConsistentPointNat DEF IInv, TypeOK
    <3> QED BY <1>1, <2>2, <2>5, <3>1 DEF EnsureSlot, Loop, Later
  <2>6. CASE StartReplication
    <3>1. consistent <= floor' /\ startLSNOverride <= floor' /\ lastReceivedLSN' = 0
      BY <2>6 DEF StartReplication, IInv, LifeCycle, TypeOK, Loop, Later
    <3>2. consistent \in Nat /\ startLSNOverride \in Nat /\ floor' \in Nat
      BY DEF IInv, TypeOK
    <3>3. consistent <= c /\ startLSNOverride <= c
      BY <1>1, <3>1, <3>2
    <3> QED BY <1>1, <2>2, <2>6, <3>1, <3>3 DEF StartReplication, Later
  <2>7. CASE StartupFails \/ Crash
    BY <2>2, <2>7 DEF StartupFails, Crash, Exit, pgVars, Loop
  <2>8. CASE FinalAck
    BY <2>2, <2>8 DEF FinalAck, SendAck, Exit, pgVars, Loop
  <2>9. CASE LoopTop \/ ReceiveKeepalive
    BY <2>2, <2>9 DEF LoopTop, ReceiveKeepalive, KeepaliveLSN, SendAck, pgVars, sendVars, procVars, Loop
  <2>10. CASE AckTick \/ RecvTimeout \/ ConnectionLost \/ Cancel
    BY <2>2, <2>10 DEF AckTick, RecvTimeout, ConnectionLost, Cancel, pgVars, sendVars, procVars, Loop
  <2>11. CASE Receive
    <3>1. lastReceivedLSN' + 1 <= c
      BY <2>1, <2>11, ReceivedSettled
    <3> QED BY <2>2, <2>11, <3>1 DEF Receive, ReceiveBegin, ReceiveRelation, ReceiveRow,
               ReceiveCommit, pgVars, sendVars, Loop
  <2>12. CASE HandlerOk \/ HandlerError
    BY <2>2, <2>12 DEF HandlerOk, HandlerError, pgVars, sendVars, procVars, Loop
  <2>13. CASE UNCHANGED vars
    BY <2>2, <2>13 DEF vars, pgVars, sendVars, procVars
  <2> QED BY <2>3, <2>4, <2>5, <2>6, <2>7, <2>8, <2>9, <2>10, <2>11, <2>12, <2>13
          DEF Next, Run, MessageLoop
<1>3. CASE ~pubExists
  <2>1. pc \in {"stopped", "publication"} /\ ~slotExists /\ confirmed = 0 /\ ackWire = 0
    BY <1>3 DEF IInv, LifeCycle
  <2>2. confirmed' = 0 /\ ackWire' = 0 /\ pc' \notin {"start"} \cup Loop
    BY <2>1 DEF Next, Postgres, PgCommit, PgReadAck, PgDropAck, Run, Connect, EnsurePublication,
       EnsureSlot, StartReplication, StartupFails, Exit, MessageLoop, LoopTop, AckTick, RecvTimeout,
       ReceiveKeepalive, Receive, ReceiveBegin, ReceiveRelation, ReceiveRow, ReceiveCommit,
       HandlerOk, HandlerError, ConnectionLost, FinalAck, Cancel, Crash, vars, pgVars, Loop
  <2> QED BY <1>1, <2>2
<1> QED BY <1>2, <1>3
-----------------------------------------------------------------------------
LEMMA InvInit == ASSUME Init PROVE IInv
<1>1. TypeOK /\ HandlerRow
  BY TypeInit
<1>2. LifeCycle /\ InOrder
  BY DEF Init, LifeCycle, InOrder, Loop
<1>3. PositionsSettled
  BY PendingTypes DEF Init, PositionsSettled, Settled, Loop
<1> QED BY <1>1, <1>2, <1>3 DEF IInv

LEMMA InvStep == ASSUME NoOvershoot, IInv, [Next]_vars PROVE IInv'
<1>1. TypeOK' /\ HandlerRow' /\ LifeCycle'
  BY TypeStep, HandlerRowStep, LifeCycleStep DEF IInv
<1> QED BY <1>1, InOrderStep, PositionsStep DEF IInv

LEMMA Invariance == ASSUME NoOvershoot PROVE Spec => []IInv
<1>1. Init => IInv
  BY InvInit
<1>2. IInv /\ [Next]_vars => IInv'
  BY InvStep
<1> QED BY <1>1, <1>2, PTL DEF Spec

LEMMA InvSafe == IInv => ConfirmedIsHandled
<1> SUFFICES ASSUME IInv, NEW t \in TxnIds, Commit(t) < confirmed,
                    NEW i \in RowIds(t), Owed(t, i), ~Handled(t, i)
             PROVE  FALSE
  BY DEF ConfirmedIsHandled
<1>1. <<t, i>> \in Events
  BY DEF Events
<1>2. <<t, i>> \in Pending
  BY <1>1 DEF Pending, Handled
<1>3. confirmed <= Commit(t)
  BY <1>2 DEF IInv, PositionsSettled, Settled
<1> QED BY <1>3, WalTypes DEF IInv, TypeOK

\* At-least-once delivery: in a history without overshoot, whatever the filter, the
\* publication, the schedule and the number of crashes, broken connections, lost
\* acknowledgements, handler errors and shutdowns, the slot never moves past an
\* event that has reached neither the sink nor the dead-letter file.
THEOREM NoEventLost == ASSUME NoOvershoot PROVE Spec => []ConfirmedIsHandled
BY InvSafe, Invariance, PTL
-----------------------------------------------------------------------------
(* The stream implements Delivery. *)

LEMMA OwedMeaning ==
    /\ OwedEvents = {e \in Events : Owed(e[1], e[2])}
    /\ OwedEvents' = {e \in Events : Owed(e[1], e[2])'}
<1>1. OwedEvents = {e \in Events : Owed(e[1], e[2])}
  BY DEF OwedEvents, Forwardable, Owed
<1>2. OwedEvents' = {e \in Events : Owed(e[1], e[2])'}
  BY DEF OwedEvents, Forwardable, Owed, Published
<1> QED BY <1>1, <1>2

\* With a publication the debt only shrinks.
LEMMA OwedShrinks ==
    ASSUME TypeOK, TypeOK', [Next]_vars, pubExists
    PROVE  OwedEvents' \subseteq OwedEvents
<1>1. floor <= floor' /\ publication' = publication
  BY Monotone, PublicationFixed
<1> SUFFICES ASSUME NEW e \in Forwardable, Commit(e[1]) >= floor',
                    TableOf(e[1], e[2]) \in publication'
             PROVE  Commit(e[1]) >= floor /\ TableOf(e[1], e[2]) \in publication
  BY DEF OwedEvents, Published
<1>2. e[1] \in TxnIds
  BY DEF Forwardable, Events
<1>3. floor \in Nat /\ floor' \in Nat /\ Commit(e[1]) \in Nat
  BY <1>2, WalTypes DEF TypeOK
<1> QED BY <1>1, <1>3

\* What the server may forget is delivered.
LEMMA ConfirmedIsSafe ==
    ASSUME IInv PROVE \A e \in OwedEvents : CommitOf(e) < confirmed => e \in handled
<1> SUFFICES ASSUME NEW e \in OwedEvents, CommitOf(e) < confirmed, e \notin handled PROVE FALSE
  OBVIOUS
<1>1. e \in Pending
  BY OwedMeaning DEF Pending
<1>2. confirmed <= Commit(e[1])
  BY <1>1 DEF IInv, PositionsSettled, Settled
<1> QED BY <1>1, <1>2, PendingTypes DEF CommitOf, IInv, TypeOK

\* What precedes the event in the handler is delivered.
LEMMA HandlerIsNext ==
    ASSUME IInv, pc = "handler"
    PROVE  \A f \in OwedEvents : Abs!Before(f, <<cur, idx>>) => f \in handled
<1> SUFFICES ASSUME NEW f \in OwedEvents, Abs!Before(f, <<cur, idx>>), f \notin handled
             PROVE  FALSE
  OBVIOUS
<1>1. f \in Pending
  BY OwedMeaning DEF Pending
<1>2. cur # 0 /\ cur \in Nat /\ idx \in Nat
  BY DEF IInv, HandlerRow, TypeOK
<1>3. f[1] >= cur /\ (f[1] = cur => f[2] >= idx)
  BY <1>1, <1>2 DEF IInv, InOrder, Loop
<1>4. f[1] \in Nat /\ f[2] \in Nat
  BY <1>1, PendingTypes
<1> QED BY <1>2, <1>3, <1>4 DEF Abs!Before

LEMMA DeliveryStutters ==
    ASSUME UNCHANGED <<committed, publication, floor, handled, confirmed>>
    PROVE  UNCHANGED Abs!vars
BY DEF Abs!vars, OwedEvents, Forwardable, Published

LEMMA DeliveryStep ==
    ASSUME IInv, IInv', [Next]_vars
    PROVE  Abs!Next \/ UNCHANGED Abs!vars
<1> USE DEF Abs!Next
<1>1. CASE PgCommit
  <2>1. UNCHANGED <<OwedEvents, handled, confirmed>> /\ committed' = committed + 1
    BY <1>1 DEF PgCommit, OwedEvents, Forwardable, Published
  <2> QED BY <2>1 DEF Abs!Append
<1>2. CASE PgReadAck
  <2>1. UNCHANGED <<committed, OwedEvents, handled>>
    BY <1>2 DEF PgReadAck, OwedEvents, Forwardable, Published
  <2>2. confirmed' \in Nat /\ \A e \in OwedEvents' : CommitOf(e) < confirmed' => e \in handled'
    <3>1. (\A e \in OwedEvents : CommitOf(e) < confirmed => e \in handled)'
      BY ConfirmedIsSafe, PTL
    <3> QED BY <3>1 DEF IInv, TypeOK, CommitOf
  <2>3. CASE confirmed' = confirmed
    BY <2>1, <2>3 DEF Abs!vars
  <2>4. CASE confirmed' # confirmed
    BY <2>1, <2>2, <2>4 DEF Abs!Release, Abs!Safe
  <2> QED BY <2>3, <2>4
<1>3. CASE EnsurePublication
  <2>1. CASE pubExists
    BY <1>3, <2>1, DeliveryStutters DEF EnsurePublication
  <2>2. CASE ~pubExists
    <3>1. handled = {} /\ confirmed = 0
      BY <2>2 DEF IInv, LifeCycle
    <3>2. OwedEvents' \subseteq Events
      BY OwedMeaning
    <3>3. UNCHANGED <<committed, handled, confirmed>>
      BY <1>3, <2>2 DEF EnsurePublication
    <3> QED BY <3>1, <3>2, <3>3 DEF Abs!Subscribe
  <2> QED BY <2>1, <2>2
<1>4. CASE EnsureSlot
  <2>1. CASE slotExists
    BY <1>4, <2>1, DeliveryStutters DEF EnsureSlot
  <2>2. CASE ~slotExists
    <3>1. OwedEvents' \subseteq OwedEvents
      BY <1>4, OwedShrinks DEF EnsureSlot, IInv, LifeCycle
    <3>2. confirmed' \in Nat /\ \A e \in OwedEvents' : CommitOf(e) < confirmed' => e \in handled'
      <4>1. (\A e \in OwedEvents : CommitOf(e) < confirmed => e \in handled)'
        BY ConfirmedIsSafe, PTL
      <4> QED BY <4>1 DEF IInv, TypeOK, CommitOf
    <3>3. UNCHANGED <<committed, handled>> /\ confirmed' = ConsistentPoint /\ confirmed = 0
      BY <1>4, <2>2 DEF EnsureSlot, IInv, LifeCycle
    <3>4. ConsistentPoint # 0
      <4>1. committed # 0 => committed \in TxnIds
        BY WalTypes DEF IInv, TypeOK, TxnIds
      <4>2. \A t \in TxnIds : Commit(t) \in Nat /\ End(t) \in Nat /\ Commit(t) < End(t)
        BY WalTypes, WalAssumption
      <4> QED BY <4>1, <4>2 DEF ConsistentPoint
    <3> QED BY <3>1, <3>2, <3>3, <3>4 DEF Abs!Release, Abs!Safe
  <2> QED BY <2>1, <2>2
<1>5. CASE StartReplication
  <2>1. OwedEvents' \subseteq OwedEvents
    BY <1>5, OwedShrinks DEF StartReplication, IInv, LifeCycle
  <2> QED BY <1>5, <2>1 DEF StartReplication, Abs!Forgo
<1>6. CASE HandlerOk \/ HandlerError
  <2>1. <<cur, idx>> \in Events /\ cur <= committed /\ pc = "handler"
    <3>1. pc = "handler"
      BY <1>6 DEF HandlerOk, HandlerError
    <3>2. <<cur, idx>> \in Events
      BY <3>1, HandlerHasRow DEF IInv
    <3>3. cur <= committed
      BY WalTypes DEF IInv, TypeOK
    <3> QED BY <3>1, <3>2, <3>3
  <2>2. UNCHANGED <<committed, publication, floor, confirmed>>
    BY <1>6 DEF HandlerOk, HandlerError, pgVars
  <2>3. handled' = handled \/ handled' = handled \cup {<<cur, idx>>}
    BY <1>6 DEF HandlerOk, HandlerError
  <2>4. CASE handled' = handled
    BY <2>2, <2>4, DeliveryStutters
  <2>5. CASE handled' # handled
    <3>1. UNCHANGED OwedEvents
      BY <2>2 DEF OwedEvents, Forwardable, Published
    <3>2. <<cur, idx>> \in Events \ handled
      BY <2>1, <2>3, <2>5
    <3>3. \A f \in OwedEvents : Abs!Before(f, <<cur, idx>>) => f \in handled
      BY <2>1, HandlerIsNext
    <3> QED BY <2>1, <2>2, <2>3, <2>5, <3>1, <3>2, <3>3 DEF Abs!Deliver
  <2> QED BY <2>4, <2>5
<1>7. CASE PgDropAck \/ Connect \/ StartupFails \/ Crash \/ FinalAck \/ Cancel
  BY <1>7, DeliveryStutters DEF PgDropAck, Connect, StartupFails, Crash, FinalAck, Cancel, pgVars
<1>8. CASE LoopTop \/ AckTick \/ RecvTimeout \/ ReceiveKeepalive \/ ConnectionLost \/ Receive
  BY <1>8, DeliveryStutters DEF LoopTop, AckTick, RecvTimeout, ReceiveKeepalive, ConnectionLost,
     Receive, ReceiveBegin, ReceiveRelation, ReceiveRow, ReceiveCommit, pgVars
<1>9. CASE UNCHANGED vars
  BY <1>9, DeliveryStutters DEF vars, pgVars
<1> QED BY <1>1, <1>2, <1>3, <1>4, <1>5, <1>6, <1>7, <1>8, <1>9
        DEF Next, Postgres, Run, MessageLoop

\* Refinement: in a history without overshoot the stream, its sessions, replays and
\* crashes included, is an in-order at-least-once channel: no owed event is skipped,
\* none is overtaken by a later one, and none is released before it is delivered.
THEOREM StreamImplementsDelivery == ASSUME NoOvershoot PROVE Spec => ImplementsDelivery
<1>1. Init => Abs!Init
  BY OwedMeaning DEF Init, Abs!Init
<1>2. IInv /\ IInv' /\ [Next]_vars => [Abs!Next]_(Abs!vars)
  BY DeliveryStep
<1> QED BY <1>1, <1>2, Invariance, PTL DEF Spec, ImplementsDelivery, Abs!Spec
-----------------------------------------------------------------------------
(* The schema of a row. A process and its walsender begin together, with    *)
(* nothing announced and nothing cached.                                   *)

SchemasAgree == relations = announced

LEMMA SchemasStep == ASSUME SchemasAgree, [Next]_vars PROVE SchemasAgree'
<1> USE DEF SchemasAgree
<1>1. CASE ReceiveRelation
  BY <1>1 DEF ReceiveRelation, Cached
<1>2. CASE Connect \/ EnsurePublication \/ EnsureSlot \/ StartReplication \/ StartupFails
           \/ Crash \/ FinalAck
  BY <1>2 DEF Connect, EnsurePublication, EnsureSlot, StartReplication, StartupFails, Crash,
     FinalAck, Exit, sendVars, procVars
<1>3. CASE ReceiveBegin \/ ReceiveRow \/ ReceiveCommit
  BY <1>3 DEF ReceiveBegin, ReceiveRow, ReceiveCommit
<1>4. CASE Postgres \/ HandlerOk \/ HandlerError \/ ConnectionLost \/ Cancel
  BY <1>4 DEF Postgres, PgCommit, PgReadAck, PgDropAck, HandlerOk, HandlerError, ConnectionLost,
     Cancel, sendVars, procVars
<1>5. CASE LoopTop \/ AckTick \/ RecvTimeout \/ ReceiveKeepalive
  BY <1>5 DEF LoopTop, AckTick, RecvTimeout, ReceiveKeepalive, sendVars, procVars
<1>6. CASE UNCHANGED vars
  BY <1>6 DEF vars, sendVars, procVars
<1> QED BY <1>1, <1>2, <1>3, <1>4, <1>5, <1>6 DEF Next, Run, MessageLoop, Receive

\* The walsender moves on to a row only when a row is received.
LEMMA RowSteps ==
    ASSUME TypeOK, [Next]_vars, idx' > idx
    PROVE  ReceiveRow
<1>1. idx \in Nat
  BY DEF TypeOK
<1>2. CASE Connect \/ EnsurePublication \/ EnsureSlot \/ StartReplication \/ StartupFails
           \/ Crash \/ FinalAck
  BY <1>1, <1>2 DEF Connect, EnsurePublication, EnsureSlot, StartReplication, StartupFails, Crash,
     FinalAck, Exit, sendVars
<1>3. CASE ReceiveBegin \/ ReceiveRelation \/ ReceiveCommit
  BY <1>1, <1>3 DEF ReceiveBegin, ReceiveRelation, ReceiveCommit
<1>4. CASE Postgres \/ HandlerOk \/ HandlerError \/ ConnectionLost \/ Cancel
  BY <1>1, <1>4 DEF Postgres, PgCommit, PgReadAck, PgDropAck, HandlerOk, HandlerError,
     ConnectionLost, Cancel, sendVars
<1>5. CASE LoopTop \/ AckTick \/ RecvTimeout \/ ReceiveKeepalive
  BY <1>1, <1>5 DEF LoopTop, AckTick, RecvTimeout, ReceiveKeepalive, sendVars
<1>6. CASE UNCHANGED vars
  BY <1>1, <1>6 DEF vars, sendVars
<1> QED BY <1>2, <1>3, <1>4, <1>5, <1>6 DEF Next, Run, MessageLoop, Receive

\* Every row is decoded with the schema it was written with, for every history of rows
\* and ALTER TABLE, over every reconnect, replay and filtered row: processMessage never
\* returns "unknown relation".
THEOREM SchemasCurrent == Spec => RowsMeetTheirSchema
<1>1. Init => TypeOK /\ HandlerRow /\ SchemasAgree
  BY TypeInit DEF Init, SchemasAgree
<1>2. TypeOK /\ HandlerRow /\ SchemasAgree /\ [Next]_vars
      => (TypeOK /\ HandlerRow /\ SchemasAgree)'
  BY TypeStep, HandlerRowStep, SchemasStep
<1>3. TypeOK /\ SchemasAgree /\ [Next]_vars
      => [idx' > idx => relations[TableOf(cur, idx')] = Version(cur, idx')]_vars
  BY RowSteps DEF ReceiveRow, SchemasAgree
<1> QED BY <1>1, <1>2, <1>3, PTL DEF Spec, RowsMeetTheirSchema
-----------------------------------------------------------------------------
(* Deduplication by LSN. *)

\* Transactions that do not overlap in the log: the rows have the order of the
\* transactions.
SerialRows ==
    \A e, f \in Events : Abs!Before(e, f) => EventLSN(e[1], e[2]) < EventLSN(f[1], f[2])

\* Without snapshots the debt begins at the slot's consistent point, and a session
\* sends nothing that is not owed.
SessionOwed ==
    /\ startLSNOverride = 0 /\ floor = consistent
    /\ ~slotExists => floor = 0
    /\ pc \in Loop => sessionStart >= floor
    /\ pc \in Loop /\ cur # 0 => Commit(cur) >= sessionStart
    /\ pc = "handler" => Published(cur, idx) /\ Forwarded(cur, idx)

\* Nothing is handled ahead of an owed event.
NoGap == \A f \in handled : \A e \in OwedEvents : Abs!Before(e, f) => e \in handled

LEMMA SessionOwedStep ==
    ASSUME SnapshotLSNs = {}, TypeOK, LifeCycle, SessionOwed, [Next]_vars
    PROVE  SessionOwed'
<1> USE DEF SessionOwed, Loop
<1>1. CASE Postgres
  <2>1. UNCHANGED <<publication, slotExists, consistent, floor, sessionStart, cur, idx, pc, startLSNOverride>>
    BY <1>1 DEF Postgres, PgCommit, PgReadAck, PgDropAck, pgVars, sendVars, procVars
  <2> QED BY <2>1 DEF Published
<1>2. CASE Connect
  BY <1>2 DEF Connect, pgVars, sendVars
<1>3. CASE EnsurePublication
  <2>1. pc' \in {"slot", "stopped"} /\ startLSNOverride' = 0 /\ UNCHANGED <<floor, consistent, slotExists>>
    BY <1>3 DEF EnsurePublication, Exit, procVars
  <2> QED BY <2>1
<1>4. CASE EnsureSlot
  <2>1. ConsistentPoint \in Nat
    BY ConsistentPointNat
  <2>2. startLSNOverride' = 0 /\ pc' = "start" /\ floor' = consistent' /\ (~slotExists' => floor' = 0)
    BY <1>4, <2>1 DEF EnsureSlot, Later
  <2> QED BY <2>2
<1>5. CASE StartReplication
  <2>1. floor \in Nat /\ consistent \in Nat /\ confirmed \in Nat /\ startLSN \in Nat /\ cur = 0
    BY <1>5 DEF TypeOK, LifeCycle, StartReplication
  <2>2. startLSNOverride' = 0 /\ UNCHANGED <<floor, consistent, slotExists>> /\ pc' = "top" /\ cur' = 0
    BY <1>5, <2>1 DEF StartReplication, Later
  <2>3. sessionStart' >= consistent
    BY <1>5, <2>1 DEF StartReplication, Later
  <2> QED BY <2>2, <2>3
<1>6. CASE StartupFails \/ Crash \/ FinalAck
  BY <1>6 DEF StartupFails, Crash, FinalAck, Exit, pgVars
<1>7. CASE LoopTop \/ AckTick \/ RecvTimeout \/ ReceiveKeepalive
  BY <1>7 DEF LoopTop, AckTick, RecvTimeout, ReceiveKeepalive, pgVars, sendVars, procVars, Published
<1>8. CASE ReceiveBegin
  <2>1. PICK t \in ToSend : cur' = t
    BY <1>8 DEF ReceiveBegin
  <2>2. Commit(t) >= sessionStart
    BY DEF ToSend
  <2> QED BY <1>8, <2>1, <2>2 DEF ReceiveBegin, pgVars
<1>9. CASE ReceiveRow
  <2>1. PICK i \in RowsToSend : idx' = i /\ (pc' = "handler" => Forwarded(cur, i))
    BY <1>9 DEF ReceiveRow
  <2>2. Published(cur, i)
    BY DEF RowsToSend, PublishedRows
  <2>3. UNCHANGED <<publication, cur, sessionStart, startLSNOverride, slotExists, floor, consistent>>
    BY <1>9 DEF ReceiveRow, pgVars
  <2>4. pc' = "handler" => Published(cur, idx)' /\ Forwarded(cur, idx)'
    BY <2>1, <2>2, <2>3 DEF Published
  <2>5. pc = "recv"
    BY <1>9 DEF ReceiveRow
  <2> QED BY <2>3, <2>4, <2>5
<1>10. CASE ReceiveRelation \/ ReceiveCommit
  BY <1>10 DEF ReceiveRelation, ReceiveCommit, pgVars, sendVars
<1>11. CASE HandlerOk \/ HandlerError \/ ConnectionLost \/ Cancel
  BY <1>11 DEF HandlerOk, HandlerError, ConnectionLost, Cancel, pgVars, sendVars, procVars, Published
<1>12. CASE UNCHANGED vars
  BY <1>12 DEF vars, pgVars, sendVars, procVars, Published
<1> QED BY <1>1, <1>2, <1>3, <1>4, <1>5, <1>6, <1>7, <1>8, <1>9, <1>10, <1>11, <1>12
        DEF Next, Run, MessageLoop, Receive

\* Only the handler adds to what is handled, and only its own event.
LEMMA HandledStep ==
    ASSUME [Next]_vars
    PROVE  handled' = handled \/ (pc = "handler" /\ handled' = handled \cup {<<cur, idx>>})
<1>1. CASE HandlerOk \/ HandlerError
  BY <1>1 DEF HandlerOk, HandlerError
<1>2. CASE Postgres \/ Run
  BY <1>2 DEF Postgres, PgCommit, PgReadAck, PgDropAck, Run, Connect, EnsurePublication, EnsureSlot,
     StartReplication, StartupFails
<1>3. CASE MessageLoop /\ ~(HandlerOk \/ HandlerError)
  BY <1>3 DEF MessageLoop, LoopTop, AckTick, RecvTimeout, ReceiveKeepalive, Receive, ReceiveBegin,
     ReceiveRelation, ReceiveRow, ReceiveCommit, ConnectionLost, FinalAck
<1>4. CASE Cancel \/ Crash \/ UNCHANGED vars
  BY <1>4 DEF Cancel, Crash, vars
<1> QED BY <1>1, <1>2, <1>3, <1>4 DEF Next

LEMMA NoGapStep == ASSUME IInv, TypeOK', NoGap, [Next]_vars PROVE NoGap'
<1>1. CASE ~pubExists
  <2>1. handled = {} /\ pc # "handler"
    BY <1>1 DEF IInv, LifeCycle
  <2>2. handled' = {}
    BY <2>1, HandledStep
  <2> QED BY <2>2 DEF NoGap
<1>2. CASE pubExists
  <2>1. OwedEvents' \subseteq OwedEvents
    BY <1>2, OwedShrinks DEF IInv
  <2>2. CASE handled' = handled
    BY <2>1, <2>2 DEF NoGap
  <2>3. CASE pc = "handler" /\ handled' = handled \cup {<<cur, idx>>}
    <3>1. \A e \in OwedEvents : Abs!Before(e, <<cur, idx>>) => e \in handled
      BY <2>3, HandlerIsNext
    <3> SUFFICES ASSUME NEW f \in handled', NEW e \in OwedEvents, Abs!Before(e, f)
                 PROVE  e \in handled
      BY <2>1, <2>3 DEF NoGap, Abs!Before
    <3> QED BY <2>3, <3>1 DEF NoGap
  <2> QED BY <2>2, <2>3, HandledStep
<1> QED BY <1>1, <1>2

\* Exactly-once by LSN: in a serial history without overshoot, and without a start
\* from a snapshot, an event that is new to the sink has a higher LSN than all the
\* sink has, over every replay, crash and reconnect.
THEOREM NewEventsHaveNewLSNs ==
    ASSUME NoOvershoot, SerialRows, SnapshotLSNs = {}
    PROVE  Spec => []LsnDeduplicates
<1>1. Init => SessionOwed /\ NoGap
  BY DEF Init, SessionOwed, NoGap, Loop
<1>2. IInv /\ IInv' /\ SessionOwed /\ NoGap /\ [Next]_vars => (SessionOwed /\ NoGap)'
  BY SessionOwedStep, NoGapStep DEF IInv
<1>3. IInv /\ SessionOwed /\ NoGap => LsnDeduplicates
  <2> SUFFICES ASSUME IInv, SessionOwed, NoGap, pc = "handler", ~Handled(cur, idx), NEW f \in handled
               PROVE  EventLSN(f[1], f[2]) < EventLSN(cur, idx)
    BY DEF LsnDeduplicates
  <2> DEFINE e == <<cur, idx>>
  <2>1. e \in Events /\ cur \in TxnIds /\ idx \in RowIds(cur) /\ cur # 0
    BY HandlerHasRow DEF IInv, HandlerRow
  <2>2. e \in OwedEvents
    <3>1. Published(cur, idx) /\ Forwarded(cur, idx) /\ Commit(cur) >= sessionStart /\ sessionStart >= floor
      BY <2>1 DEF SessionOwed, Loop
    <3>2. Commit(cur) >= floor
      BY <2>1, <3>1, WalTypes DEF IInv, TypeOK
    <3> QED BY <2>1, <3>1, <3>2 DEF OwedEvents, Forwardable
  <2>3. f \in Events /\ f # e /\ ~Abs!Before(e, f)
    BY <2>2 DEF Handled, NoGap, IInv, TypeOK
  <2>4. f[1] \in Nat /\ f[2] \in Nat /\ cur \in Nat /\ idx \in Nat /\ f = <<f[1], f[2]>>
    <3>1. PICK t \in TxnIds : f \in {t} \X RowIds(t)
      BY <2>3 DEF Events
    <3> QED BY <2>1, <3>1 DEF TxnIds, RowIds
  <2>5. f[1] # cur \/ f[2] # idx
    BY <2>3, <2>4
  <2>6. Abs!Before(f, e)
    BY <2>3, <2>4, <2>5 DEF Abs!Before
  <2> QED BY <2>1, <2>3, <2>6 DEF SerialRows
<1> QED BY <1>1, <1>2, <1>3, Invariance, PTL DEF Spec
=============================================================================
