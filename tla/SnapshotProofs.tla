--------------------------- MODULE SnapshotProofs ---------------------------
(***************************************************************************)
(* Proofs about module Snapshot, for every history, list of tables, filter *)
(* and number of faults. What module StreamProofs proves of the stream     *)
(* alone is carried over to the stream behind a snapshot.                  *)
(***************************************************************************)
EXTENDS Snapshot, StreamProofs, WellFoundedInduction

LEMMA Least ==
    ASSUME NEW T, T \subseteq Nat, T # {}
    PROVE  \E x \in T : \A y \in T : x <= y
<1> DEFINE Lt == {p \in Nat \X Nat : p[1] < p[2]}
<1>1. Lt = OpToRel(<,Nat)
  BY Zenon DEF OpToRel
<1>2. IsWellFoundedOn(Lt, Nat)
  BY <1>1, NatLessThanWellFounded
<1> HIDE DEF Lt
<1>3. PICK x \in T : \A y \in T : ~(<<y, x>> \in Lt)
  BY <1>2, WFMin
<1>4. ASSUME NEW y \in T PROVE x <= y
  <2>1. x \in Nat /\ y \in Nat
    OBVIOUS
  <2>2. ~(y < x)
    BY <1>3, <2>1 DEF Lt
  <2> QED BY <2>1, <2>2
<1> QED BY <1>4

LEMMA Greatest ==
    ASSUME NEW T, T \subseteq Nat, T # {}, NEW n \in Nat, \A x \in T : x <= n
    PROVE  \E x \in T : \A y \in T : y <= x
<1> DEFINE U == {k \in Nat : n - k \in T}
<1>1. U # {}
  <2>1. PICK x \in T : TRUE
    OBVIOUS
  <2>2. x \in Nat /\ n - x \in Nat /\ n - (n - x) = x
    OBVIOUS
  <2> QED BY <2>1, <2>2
<1>2. PICK k \in U : \A j \in U : k <= j
  BY <1>1, Least
<1>3. ASSUME NEW y \in T PROVE y <= n - k
  <2>1. y \in Nat /\ n - y \in Nat /\ n - (n - y) = y
    OBVIOUS
  <2>2. k <= n - y /\ k \in Nat
    BY <1>2, <2>1
  <2> QED BY <2>1, <2>2
<1> QED BY <1>2, <1>3

LEMMA EventTypes ==
    \A e \in Events : /\ e = <<e[1], e[2]>>
                      /\ e[1] \in TxnIds /\ e[1] \in Nat \ {0} /\ e[1] <= Len(Txns)
                      /\ e[2] \in RowIds(e[1]) /\ e[2] \in Nat \ {0} /\ e[2] <= Len(Txns[e[1]].rows)
                      /\ Len(Txns[e[1]].rows) \in Nat
<1> SUFFICES ASSUME NEW e \in Events
             PROVE  /\ e = <<e[1], e[2]>>
                    /\ e[1] \in TxnIds /\ e[1] \in Nat \ {0} /\ e[1] <= Len(Txns)
                    /\ e[2] \in RowIds(e[1]) /\ e[2] \in Nat \ {0} /\ e[2] <= Len(Txns[e[1]].rows)
                    /\ Len(Txns[e[1]].rows) \in Nat
  OBVIOUS
<1>1. PICK t \in TxnIds : e \in {t} \X RowIds(t)
  BY DEF Events
<1>2. e = <<e[1], e[2]>> /\ e[1] = t /\ e[2] \in RowIds(t)
  BY <1>1
<1> QED BY <1>2, WalTypes DEF TxnIds, RowIds

\* Some events have a last one.
LEMMA LastExists ==
    ASSUME NEW S, S \subseteq Events, S # {}
    PROVE  \E e \in S : \A f \in S : ~Precedes(e, f)
<1> DEFINE T == {e[1] : e \in S}
<1>1. T # {} /\ T \subseteq Nat /\ \A x \in T : x <= Len(Txns)
  BY EventTypes
<1>2. PICK t \in T : \A y \in T : y <= t
  BY <1>1, WalTypes, Greatest
<1> DEFINE I == {e[2] : e \in {f \in S : f[1] = t}}
<1>3. t \in TxnIds /\ Len(Txns[t].rows) \in Nat
  BY EventTypes
<1>4. I # {} /\ I \subseteq Nat /\ \A x \in I : x <= Len(Txns[t].rows)
  BY EventTypes
<1>5. PICK i \in I : \A y \in I : y <= i
  BY <1>3, <1>4, Greatest
<1>6. PICK e \in S : e[1] = t /\ e[2] = i
  BY <1>5
<1>7. ASSUME NEW f \in S, Precedes(e, f) PROVE FALSE
  <2>1. f[1] <= t /\ f[1] \in Nat /\ t \in Nat /\ f[2] \in Nat /\ i \in Nat
    BY <1>2, <1>6, EventTypes
  <2>2. f[1] = t /\ i < f[2]
    BY <1>6, <1>7, <2>1 DEF Precedes
  <2>3. f[2] <= i
    BY <1>5, <2>2
  <2> QED BY <2>1, <2>2, <2>3
<1> QED BY <1>6, <1>7

\* The last change of a row is a change of that row, and the latest one.
LEMMA LastChangeMeaning ==
    ASSUME NEW row, NEW n
    PROVE  LET S == {e \in Events : e[1] <= n /\ RowOf(e) = row}
           IN  \/ S = {} /\ LastChange(row, n) = NoChange
               \/ /\ LastChange(row, n) \in S
                  /\ \A f \in S : ~Precedes(LastChange(row, n), f)
<1> DEFINE S == {e \in Events : e[1] <= n /\ RowOf(e) = row}
<1>1. CASE S = {}
  BY <1>1 DEF LastChange
<1>2. CASE S # {}
  <2>1. \E e \in S : \A f \in S : ~Precedes(e, f)
    BY <1>2, LastExists
  <2>2. LastChange(row, n) = CHOOSE e \in S : \A f \in S : ~Precedes(e, f)
    BY <1>2 DEF LastChange
  <2> HIDE DEF S
  <2>3. LastChange(row, n) \in S /\ \A f \in S : ~Precedes(LastChange(row, n), f)
    BY <2>1, <2>2
  <2> QED BY <2>3 DEF S
<1> QED BY <1>1, <1>2

LEMMA ContentsEvents == \A table, n : Contents(table, n) \subseteq Events
BY LastChangeMeaning DEF Contents, HasRow
-----------------------------------------------------------------------------
(* The stream behind a snapshot takes the steps of the stream, and faults.  *)

streamState == <<pgVars, sendVars, ackWire, pc, procVars, handled>>

LEMMA StreamSteps ==
    ASSUME [SnapNext]_allVars, faults \in Nat
    PROVE  [Next]_vars \/ (UNCHANGED streamState /\ faults' \in Nat)
<1>1. CASE SnapStep
  BY <1>1 DEF SnapStep, SnapBegin, SnapTake, SnapReadLSN, SnapTable, SnapCommit
<1>2. CASE SnapHandlerError \/ SnapFails
  BY <1>2 DEF SnapHandlerError, SnapFails, Fault, streamState
<1>3. CASE StreamStep
  BY <1>3 DEF StreamStep
<1>4. CASE UNCHANGED allVars
  BY <1>4 DEF allVars
<1> QED BY <1>1, <1>2, <1>3, <1>4 DEF SnapNext

\* The fault counter is the only variable the invariants of the stream do not relate.
LEMMA FaultOnly ==
    ASSUME UNCHANGED streamState, faults' \in Nat
    PROVE  /\ TypeOK => TypeOK'
           /\ HandlerRow => HandlerRow'
           /\ IInv => IInv'
           /\ UNCHANGED Abs!vars
<1>1. UNCHANGED <<committed, pubExists, publication, slotExists, confirmed, consistent, floor,
                  sessionStart, done, cur, idx, ackWire, pc, ctxDone, startLSNOverride, startLSN,
                  announced, lastReceivedLSN, lastAckedLSN, ackDue, relations, currentXid, handled>>
  BY DEF streamState, pgVars, sendVars, procVars
<1>2. TypeOK => TypeOK'
  BY <1>1 DEF TypeOK
<1>3. HandlerRow => HandlerRow'
  BY <1>1 DEF HandlerRow
<1>5. Pending' = Pending
  BY <1>1 DEF Pending, Owed, Published, TableOf
<1>6. PositionsSettled => PositionsSettled'
  BY <1>1, <1>5 DEF PositionsSettled, Settled
<1>7. InOrder => InOrder'
  BY <1>1, <1>5 DEF InOrder
<1>8. LifeCycle => LifeCycle'
  BY <1>1 DEF LifeCycle
<1>9. UNCHANGED Abs!vars
  BY <1>1, DeliveryStutters
<1> QED BY <1>2, <1>3, <1>6, <1>7, <1>8, <1>9 DEF IInv

LEMMA SnapStreamInvariance == ASSUME NoOvershoot PROVE SnapSpec => []IInv
<1>1. SnapInit => IInv
  BY InvInit DEF SnapInit
<1>2. IInv /\ [SnapNext]_allVars => IInv'
  BY StreamSteps, FaultOnly, InvStep DEF IInv, TypeOK
<1> QED BY <1>1, <1>2, PTL DEF SnapSpec

\* At-least-once delivery behind a snapshot: however often a snapshot fails, is
\* taken again or is left out, and whatever position it starts the stream at, the
\* slot never moves past an event that is owed and not handled.
THEOREM NoEventLostBehindSnapshot == ASSUME NoOvershoot PROVE SnapSpec => []ConfirmedIsHandled
BY InvSafe, SnapStreamInvariance, PTL

\* Refinement: the snapshot and the stream behind it are an in-order at-least-once
\* channel for what is owed; the steps of the snapshot are invisible to it.
THEOREM SnapshotImplementsDelivery == ASSUME NoOvershoot PROVE SnapSpec => ImplementsDelivery
<1>1. SnapInit => Abs!Init
  BY OwedMeaning DEF SnapInit, Init, Abs!Init
<1>2. IInv /\ IInv' /\ [SnapNext]_allVars => [Abs!Next]_(Abs!vars)
  BY StreamSteps, FaultOnly, DeliveryStep DEF IInv, TypeOK
<1> QED BY <1>1, <1>2, SnapStreamInvariance, PTL DEF SnapSpec, ImplementsDelivery, Abs!Spec
-----------------------------------------------------------------------------
(* The snapshot itself. *)

\* The types of the snapshot's own variables.
SnapTypes ==
    /\ snapPc \in {"idle", "begun", "taken", "tables", "done"}
    /\ tables \in TableLists /\ read \in 0..Len(tables) /\ copied \subseteq Events
    /\ visible \in 0..committed /\ lsn \in Nat
    /\ captured \in [Tables -> 0..committed]

\* Every key has one record, which is an event.
OneRecordPerKey ==
    /\ \A r \in view : r[2] \in Events
    /\ \A r, q \in view : r[1] = q[1] => r = q

\* What is copied is what the MVCC snapshot shows of the tables read so far; before
\* the first table nothing is.
CopiedIsVisible ==
    /\ snapPc \in {"idle", "begun", "taken"} => read = 0 /\ copied = {}
    /\ snapPc \in {"tables", "done"} => copied = UNION {Contents(table, visible) : table \in TablesRead}

SnapInv == TypeOK /\ HandlerRow /\ SnapTypes /\ OneRecordPerKey /\ CopiedIsVisible

LEMMA ForgetStep ==
    ASSUME TypeOK, SnapTypes, Forget, committed' = committed, captured' = captured
    PROVE  SnapTypes' /\ CopiedIsVisible'
<1>1. SnapTypes'
  <2>1. committed \in Nat /\ 0 \in 0..committed /\ Len(<<>>) = 0
    BY WalTypes DEF TypeOK
  <2> QED BY <2>1, SnapshotAssumption DEF SnapTypes, Forget
<1> QED BY <1>1 DEF CopiedIsVisible, Forget

LEMMA HandedStep ==
    ASSUME OneRecordPerKey, NEW S, S \subseteq Events, view' \in Handed(S)
    PROVE  OneRecordPerKey'
<1> DEFINE keys == {SnapshotRecord(e) : e \in S}
<1>1. PICK f \in [keys -> S] : view' = {r \in view : r[1] \notin keys} \cup {<<k, f[k]>> : k \in keys}
  BY DEF Handed
<1> HIDE DEF keys
<1> QED BY <1>1 DEF OneRecordPerKey

LEMMA CommittedGrows ==
    ASSUME TypeOK, [Next]_vars PROVE committed \in Nat /\ committed' \in Nat /\ committed <= committed'
<1> USE DEF TypeOK
<1>1. CASE PgCommit
  BY <1>1, WalTypes DEF PgCommit
<1>2. CASE Run \/ PgReadAck \/ PgDropAck
  BY <1>2, WalTypes DEF Run, PgReadAck, PgDropAck, Connect, EnsurePublication, EnsureSlot,
     StartReplication, StartupFails, pgVars
<1>3. CASE MessageLoop
  BY <1>3, WalTypes DEF MessageLoop, LoopTop, AckTick, RecvTimeout, ReceiveKeepalive, Receive, ReceiveBegin,
     ReceiveRelation, ReceiveRow, ReceiveCommit, HandlerOk, HandlerError, ConnectionLost, FinalAck,
     pgVars
<1>4. CASE Cancel \/ Crash \/ UNCHANGED vars
  BY <1>4, WalTypes DEF Cancel, Crash, vars, pgVars
<1> QED BY <1>1, <1>2, <1>3, <1>4 DEF Next, Postgres

LEMMA SnapInitInv == ASSUME SnapInit PROVE SnapInv
<1>1. TypeOK /\ HandlerRow /\ committed = 0
  BY TypeInit DEF SnapInit, Init
<1>2. SnapTypes
  BY <1>1, SnapshotAssumption DEF SnapInit, SnapTypes
<1> QED BY <1>1, <1>2 DEF SnapInit, SnapInv, OneRecordPerKey, CopiedIsVisible

\* The snapshot's steps: only SnapTable adds to the copy, and it reads what the MVCC
\* snapshot shows.
LEMMA SnapStepInv ==
    ASSUME TypeOK, SnapTypes, OneRecordPerKey, CopiedIsVisible, SnapStep
    PROVE  SnapTypes' /\ OneRecordPerKey' /\ CopiedIsVisible'
<1> USE DEF SnapTypes
<1>0. tables \in Seq(Names) /\ Len(tables) \in Nat /\ committed \in Nat
  BY SnapshotAssumption, WalTypes DEF TypeOK
<1>1. CASE SnapBegin
  <2>1. tables' \in TableLists /\ snapPc' = "begun" /\ snapPc = "idle"
        /\ UNCHANGED <<committed, read, copied, visible, lsn, captured, view>>
    BY <1>1 DEF SnapBegin, vars, pgVars
  <2>2. Len(tables') \in Nat /\ read = 0 /\ copied = {}
    BY <2>1, SnapshotAssumption DEF CopiedIsVisible
  <2> QED BY <2>1, <2>2 DEF OneRecordPerKey, CopiedIsVisible
<1>2. CASE SnapTake
  <2>1. snapPc = "begun" /\ snapPc' = "taken" /\ visible' = committed
        /\ UNCHANGED <<committed, tables, read, copied, lsn, captured, view>>
    BY <1>2 DEF SnapTake, vars, pgVars
  <2>2. committed \in 0..committed
    BY <1>0
  <2> QED BY <2>1, <2>2 DEF OneRecordPerKey, CopiedIsVisible
<1>3. CASE SnapReadLSN
  <2>1. snapPc = "taken" /\ snapPc' = "tables" /\ lsn' = ConsistentPoint
        /\ UNCHANGED <<committed, tables, read, copied, visible, captured, view>>
    BY <1>3 DEF SnapReadLSN, vars, pgVars
  <2>2. TablesRead' = {} /\ copied' = {} /\ lsn' \in Nat
    BY <2>1, ConsistentPointNat DEF CopiedIsVisible, TablesRead
  <2> QED BY <2>1, <2>2 DEF OneRecordPerKey, CopiedIsVisible
<1>4. CASE SnapTable
  <2> DEFINE table == TableNamed(tables[read + 1])
             S == Contents(table, visible)
  <2>1. snapPc = "tables" /\ read < Len(tables) /\ view' \in Handed(S) /\ copied' = copied \cup S
        /\ read' = read + 1 /\ UNCHANGED <<committed, snapPc, tables, visible, lsn, captured>>
    BY <1>4 DEF SnapTable, Seen, vars, pgVars
  <2>2. S \subseteq Events
    BY ContentsEvents
  <2>3. TablesRead' = TablesRead \cup {table}
    <3>1. 1..(read + 1) = (1..read) \cup {read + 1}
      BY <1>0
    <3> QED BY <2>1, <3>1 DEF TablesRead, TableNamed
  <2>4. SnapTypes'
    BY <1>0, <2>1, <2>2
  <2>5. CopiedIsVisible'
    <3>1. copied' = UNION {Contents(t, visible) : t \in TablesRead'}
      BY <2>1, <2>3 DEF CopiedIsVisible
    <3> HIDE DEF S, table
    <3> QED BY <2>1, <3>1 DEF CopiedIsVisible
  <2> HIDE DEF S
  <2>6. OneRecordPerKey'
    BY <2>1, <2>2, HandedStep
  <2> QED BY <2>4, <2>5, <2>6
<1>5. CASE SnapCommit
  <2>1. snapPc = "tables" /\ snapPc' = "done"
        /\ captured' = [t \in Tables |-> IF t \in TablesRead THEN visible ELSE captured[t]]
        /\ UNCHANGED <<committed, tables, read, copied, visible, lsn, view>>
    BY <1>5 DEF SnapCommit, vars, pgVars
  <2>2. TablesRead' = TablesRead
    BY <2>1 DEF TablesRead
  <2> QED BY <2>1, <2>2 DEF OneRecordPerKey, CopiedIsVisible
<1> QED BY <1>1, <1>2, <1>3, <1>4, <1>5 DEF SnapStep

\* A snapshot that failed is forgotten; the destination keeps what it was handed.
LEMMA SnapFaultInv ==
    ASSUME TypeOK, SnapTypes, OneRecordPerKey, SnapHandlerError \/ SnapFails
    PROVE  SnapTypes' /\ OneRecordPerKey' /\ CopiedIsVisible'
<1>1. Forget /\ committed' = committed /\ captured' = captured
  BY DEF SnapHandlerError, SnapFails, pgVars
<1>2. OneRecordPerKey'
  <2>1. CASE SnapHandlerError
    <3>1. PICK T \in SUBSET Contents(TableNamed(tables[read + 1]), Seen) : view' \in Handed(T)
      BY <2>1 DEF SnapHandlerError
    <3> QED BY <3>1, ContentsEvents, HandedStep
  <2>2. CASE SnapFails
    BY <2>2 DEF SnapFails, OneRecordPerKey
  <2> QED BY <2>1, <2>2
<1> QED BY <1>1, <1>2, ForgetStep

\* The stream keeps the snapshot or forgets it, and the destination takes its event.
LEMMA StreamStepInv ==
    ASSUME TypeOK, HandlerRow, SnapTypes, OneRecordPerKey, CopiedIsVisible, StreamStep
    PROVE  SnapTypes' /\ OneRecordPerKey' /\ CopiedIsVisible'
<1>1. committed \in Nat /\ committed' \in Nat /\ committed <= committed' /\ captured' = captured
  BY CommittedGrows DEF StreamStep
<1>2. SnapTypes' /\ CopiedIsVisible'
  <2>1. captured' \in [Tables -> 0..committed']
    BY <1>1 DEF SnapTypes
  <2>2. CASE UNCHANGED snapVars
    <3>1. UNCHANGED <<snapPc, tables, read, copied, visible, lsn>> /\ TablesRead' = TablesRead
      BY <2>2 DEF snapVars, TablesRead
    <3> QED BY <1>1, <2>1, <3>1 DEF SnapTypes, CopiedIsVisible
  <2>3. CASE Forget
    <3>1. 0 \in 0..committed' /\ Len(<<>>) = 0
      BY <1>1
    <3> QED BY <2>1, <2>3, <3>1, SnapshotAssumption DEF SnapTypes, CopiedIsVisible, Forget
  <2> QED BY <2>2, <2>3 DEF StreamStep
<1>3. OneRecordPerKey'
  <2>1. CASE pc = "handler"
    <3>1. <<cur, idx>> \in Events
      BY <2>1, HandlerHasRow
    <3>2. view' = view \/ view' = Produce(view, Record(<<cur, idx>>), <<cur, idx>>)
      BY <2>1 DEF StreamStep, Consume
    <3> QED BY <3>1, <3>2 DEF OneRecordPerKey, Produce
  <2>2. CASE pc # "handler"
    BY <2>2 DEF StreamStep, Consume, OneRecordPerKey
  <2> QED BY <2>1, <2>2
<1> QED BY <1>2, <1>3

LEMMA SnapInvStep == ASSUME SnapInv, [SnapNext]_allVars PROVE SnapInv'
<1> USE DEF SnapInv
<1>1. TypeOK' /\ HandlerRow'
  BY StreamSteps, FaultOnly, TypeStep, HandlerRowStep DEF TypeOK
<1>2. CASE UNCHANGED allVars
  <2>1. UNCHANGED <<committed, snapPc, tables, read, copied, visible, lsn, captured, view>>
    BY <1>2 DEF allVars, vars, pgVars, snapVars
  <2>2. TablesRead' = TablesRead
    BY <2>1 DEF TablesRead
  <2> QED BY <1>1, <2>1, <2>2 DEF SnapTypes, OneRecordPerKey, CopiedIsVisible
<1> QED BY <1>1, <1>2, SnapStepInv, SnapFaultInv, StreamStepInv DEF SnapNext

LEMMA SnapInvariance == SnapSpec => []SnapInv
BY SnapInitInv, SnapInvStep, PTL DEF SnapSpec

\* Snapshot: every variable keeps its type, and the destination has one record of
\* each key.
THEOREM SnapTypeCorrect == SnapSpec => []SnapTypeOK
<1>1. SnapInv => SnapTypeOK
  BY DEF SnapInv, SnapTypes, OneRecordPerKey, SnapTypeOK
<1> QED BY <1>1, SnapInvariance, PTL

\* The tables read so far are those after one transaction of the history, for every
\* list of tables and whatever commits between the statements of the snapshot.
THEOREM CopyIsOfOnePoint == SnapSpec => []SnapshotIsConsistent
<1>1. SnapInv => SnapshotIsConsistent
  BY DEF SnapInv, SnapTypes, CopiedIsVisible, SnapshotIsConsistent
<1> QED BY <1>1, SnapInvariance, PTL
=============================================================================
