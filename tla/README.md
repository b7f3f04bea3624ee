# Verification of waltap

TLA+ models of waltap, with TLC configurations and TLAPS proofs. waltap has two
tools in one repository: a change-data-capture client (`internal/cdc`,
`internal/sink`), which reads PostgreSQL's logical replication stream and
delivers row changes to a sink, and a read/write split proxy
(`internal/proxy`). Line numbers refer to `src/`. `PROJECT.json` maps each
definition to the lines it models, and lists runs, mutants, findings, hazards
and theorems.

Contents: 1 inventory, 2 modules, 3 runs, 4 what the runs refute, 5 fairness,
6 proofs, 7 what is not modelled, 8 plan.

## 1. Inventory

### Change data capture

**Replication stream** (`cdc/stream.go`). State: `startLSNOverride`, the cache
`relations`, `currentXid`; in the message loop `lastReceivedLSN`,
`lastAckedLSN`, `nextAckTime`. Operations: `Run` connects, creates or reuses
the publication and the slot, and starts replication. The message loop
acknowledges every ten seconds, receives with a timeout, answers keepalives,
decodes pgoutput messages and calls the handler for each row that passes the
filter. A deferred function sends a last acknowledgement on *every* return.
Hard: crashes and broken connections around an acknowledgement; the position
moves before the handler runs and is `WALStart` plus the length of the decoded
message, which is no WAL length; Relation messages move it backwards. Correct
when: nothing is confirmed to PostgreSQL before the sink has it; every owed
event is handled in the end; the slot advances; rows are decoded with the schema they
were written with.

**Filter** (`cdc/filter.go`). No mutable state; `NewFilter`, `Match`,
`TableList`. It decides both what is published and what is forwarded.

**Snapshot** (`cdc/snapshot.go`). A process started with `-snapshot` reads whole
tables in one REPEATABLE READ transaction, hands the rows to the handler as
INSERTs, and returns the LSN the stream should start from. Hard: the MVCC
snapshot, the LSN and the slot are three points in time; commits between all
statements; a failure in the middle of a table, and the next start. Correct when
what is copied is of one point in time, every transaction is in the snapshot or
in the stream, and the destination ends up with the rows of the database.

**Sinks** (`sink/`). `Sink.Deliver` returns an error or nil; the stream
acknowledges after nil. Decorators:

- `RetrySink` (`retry.go`): attempts with exponential, jittered backoff, then a
  callback. State within a call: attempt, last error. Hard: an attempt that
  timed out but was delivered; cancellation racing the backoff; arithmetic on
  `time.Duration`.
- `DLQSink` (`dlq.go`): the callback that appends the event to a file. State:
  the file behind a mutex. Hard: a write that fails; a machine crash.
- `BatchSink` (`batch.go`): buffers events; a batch is sent by the caller when
  it is full, by the callback of a timer, or by `Close`. State: `buffer`,
  `timer`, `flushCtx` behind a mutex; `DeliverBatch` runs outside of it. Hard:
  everything about the three flushes racing, late `Stop`s, and failures of
  flushes nobody waits for.
- `MetricsSink`: counters only.

Destinations: stdout, webhook (single and batched), Kafka. They keep no state
beyond a client. What matters of the webhook is which answers are a nil; of
**Kafka** (`kafka.go`) which key a record gets: the order of a row's records, and
which of them survive compaction, hang on it.

### Proxy

**Classifier** (`proxy/classifier.go`): a pure function from SQL text to READ,
WRITE or TXN, by the first word behind blanks and comments. Hard: nested,
adjacent and unclosed comments; the server reads the same text with another
lexer. Correct when what the server takes for a write goes to the primary.

**Proxy** (`proxy/proxy.go`). State: listener, two pgxpool pools, `activeConns`;
per client goroutine `inTransaction` and `txFailed`. `Run` accepts clients;
`handleClient` does the startup, then reads, classifies, routes and executes one
query after another; `executeAndRelay` takes a connection from a pool for *one*
statement. Hard: the proxy's idea of the transaction state against the server's;
pool exhaustion; errors that only show after the rows are closed; shutdown with
clients blocked in a read. Correct when: statements of a transaction go to the
primary; status bytes agree with the routing; no session holds a connection while it
waits; statements are answered; shutdown ends. Its wire helpers compute length fields apart
from the bytes they describe, in both directions, while the client may send
requests behind one another and break off anywhere: correct when both sides read
what was written, and every request gets one ReadyForQuery.

### Interactions

    PostgreSQL --XLogData--> Stream --handler--> RetrySink --Deliver--> destination
        ^                      |                    |
        +---- status update ---+                    +--onFailure--> DLQSink (file)

    Stream --handler--> BatchSink --DeliverBatch--> batch destination

    client --Query--> Proxy (Classifier) --pool.Query--> primary or replica

    PostgreSQL --SELECT *--> Snapshot --handler--> sink, then SetStartLSN --> Stream

The interface between the stream and a sink is the contract of `sink.go`: nil
means acknowledged. `Stream` assumes it of its handler; `RetrySink` and
`BatchSink` are checked against it (`NilMeansHandled`, `DropStopsStream`). This is
the seam along which the models compose. `Snapshot` composes three components:
the snapshot, the stream behind it and a Kafka log.

## 2. Modules

| module | models | built on |
|---|---|---|
| `Wal` | external: the history, a sequence of transactions with LSNs | |
| `Delivery` | abstract: at-least-once delivery in commit order | |
| `Filter` | `cdc/filter.go` | |
| `Stream` | `cdc/stream.go`, with slot and walsender as environment; implements `Delivery` | `Wal`, `Filter` |
| `KafkaSink` | `sink/kafka.go`, the decoded tuples of `stream.go` | `Stream` |
| `Snapshot` | `cdc/snapshot.go`, in front of the stream and a Kafka log | `KafkaSink` |
| `RetrySink` | `sink/retry.go`, `sink/dlq.go`, the answers of `sink/webhook.go` | |
| `BatchSink` | `sink/batch.go` | |
| `Classifier` | `proxy/classifier.go` and the routing of `proxy.go`, on first words | |
| `Scanner` | `proxy/classifier.go`, from the text to the first word | `Classifier` |
| `Proxy` | `proxy/proxy.go` with many clients; pools and server sessions as environment | `Classifier` |
| `Wire` | `proxy/proxy.go` with one client, byte by byte | `Scanner` |
| `MCStream`, `MCSnapshot`, `MCRetrySink`, `MCBatchSink`, `MCProxy`, `MCWire` | values for the runs | |
| `StreamProofs`, `BatchProofs`, `RetryProofs`, `ProxyProofs` | theorems | `Stream`, `BatchSink`, `RetrySink`, `Proxy` |
| `SnapshotProofs` | theorems; that the stream behind a snapshot is the stream | `Snapshot`, `StreamProofs` |
| `DestinationProofs` | theorem: the destination's rows are the database's | `SnapshotProofs` |
| `ScannerProofs` | lemmas: loops, sequences, and comments in texts of any length | `Scanner` |
| `WireProofs` | theorems | `Wire`, `ScannerProofs` |

Operators named `Mut...` are plausible slips in the code. Each stands before the
definition it mutates and shows that a property can fail; no specification uses
them.

**Wal and Stream.** A history is a constant: transactions in commit order, rows
with the LSN of their record and the length of their message. Rows of
concurrent transactions may interleave. Variables fall into PostgreSQL's durable
state (`committed`, the publication, `confirmed` = confirmed_flush_lsn), the
walsender's position (`done`, `cur`, `idx`) and what it has told of the tables
(`announced`), a status update on the wire
(`ackWire`), the process (reset by `Exit`) and the destination (`handled`).
`pc` names the place in `Run` and in the message loop; `top`, `recv`,
`handler` and `return` are the head of the loop, `ReceiveMessage`, the sink call
and the deferred function. `ReceiveBegin`, `ReceiveRelation`, `ReceiveRow` and
`ReceiveCommit` are one case of `processMessage` each, together with the
assignment to `lastReceivedLSN` at line 233. A row has the version of its table's schema;
the walsender sends a Relation message before a row whose version is not the one announced
last in the session, and goes by its own memory in this, while the process goes by its cache
`relations`: a row without a schema there ends the loop ("unknown relation"). `startLSN` and the override are
zeroed once used, as nothing reads them again. A keepalive that wants no reply, a
timeout with nothing to do, and messages of unknown types change no state.
`confirmed` may move backwards, as it could in PostgreSQL until that was
forbidden; START_REPLICATION moves a start before it up to it. `floor` is where
the debt of the stream begins: the slot's consistent point, or a later snapshot
position. What lies between a snapshot and a younger slot is no debt of the
stream; `Snapshot` looks at it (`Missed`).

**Delivery.** No process, session or message: events, what is owed of them, what
is delivered, and a released position that the server may forget up to. Events
are delivered in commit order without a gap; the position is released only where
everything owed before it is delivered. `Stream` maps `handled` to `delivered`,
`confirmed` to `released`, and what publication, filter and `floor` select to
`owed`. Replays, lost updates and crashes are stutters. To settle the publication
is `Subscribe`; a later `floor` is `Forgo` or part of `Release`.

**KafkaSink and Snapshot.** A change of a row is an event of `Stream`; `Images`
adds its row and column values. `TupleOf` is what pgoutput sends of it (only the
replica identity of a deleted row, nothing of an unchanged TOASTed column),
`decodeTuple` what `stream.go` makes of that, and `buildKey` the key. The log
(`view`) is the last record of each key; `SELECT *` gives the rows in no order, so that
of rows with the same key any one may be the last (`Handed`). `SnapTake` and `SnapReadLSN` are the two
halves of one statement, `SELECT pg_current_wal_lsn()`, which takes the MVCC
snapshot when it starts and reads the position while it runs; commits happen
between these and all other steps. The stream's steps are those of `Stream`,
conjoined with what they do to the log (`StreamStep`).

**RetrySink.** One `Deliver` call at a time. A failed attempt may or may not have
reached the destination. `ToDuration` is Go's conversion of a float64 that does
not fit: implementation-defined, the smallest integer on amd64 and the largest
on arm64. `DurationBits` replaces 64 so that a small instance overflows. The
dead-letter file has two levels: what was written (`dlqFile`) and what left the
page cache (`dlqDisk`); killing the process loses nothing, a machine crash loses
the difference.

**BatchSink.** What the code does between `mu.Lock` and `mu.Unlock` is one step;
each `DeliverBatch` is another. Events are numbered in delivery order, a timer is
named after the event that started it, and each timer's callback has a state, so
that any number of late callbacks may wait for the mutex. `flushCtx` is the
stream's only context and is represented by `ctxDone`. Main calls `Close` after
`Stream.Run` has returned.

**Proxy.** `sess[c]` is the goroutine of client c. A connection of a pool carries
the server session's transaction status `tx` and its uncommitted writes. pgxpool
destroys a connection that is released inside a transaction; this is what makes
`RollbackUndoes` false. `pool.Query` returns an error only when it cannot acquire a
connection or prepare the statement; later errors are in `rows.Err`, which
`executeAndRelay` reads when it has received a RowDescription (`SeesError`). A statement
with columns may fail before it or after it (`Failures`), one without has none.
A statement is reduced to its first word, what precedes it, and what PostgreSQL
does with it.

**Scanner and Wire.** `Scanner` translates `stripLeadingComments` and `firstToken`
over sequences of bytes, beside a state machine for PostgreSQL's own lexer (external):
`LexerStep` reads a byte, `Lexer` a text from any state. `Wire` is one connection: `inbox`
and `outbox` hold bytes, `readRawMessage`, `parseStartupParams`, `extractSQL` and the
`send...` functions are translated with the lengths they compute, and `handleClient` drives
them. A loop over bytes is a function of one round of it, `Iterated` as often as there are
bytes: often enough, as every round takes at least one, and a round that has nothing to do
changes nothing. Replies are decoded (external) as the protocol's message formats say: a
`...Size` operator reads from the bytes how long the next piece is, a message, a field or a
value, and `Cuts` divides the bytes by it. What is decoded is compared with what was meant
(`replies`). That the server's answers came in messages too is the assumption `AnswersFit`: a
piece of one is not longer than an Int32 can say, and a row has no more columns than an Int16
can. Texts are compared where `Closed` (PostgreSQL refuses an unclosed comment) and
`LinesEndWithLF` hold. The second is a condition because the two lexers disagree about a
carriage return alone: it ends a `--` comment for PostgreSQL and not for the proxy
(`classifier.go:121`), so of `--`, CR and an INSERT the proxy sees an empty statement, and
sends it to the replica (`wire_lone_cr`). The lengths of requests are read without a sign, as
`binary.BigEndian.Uint32` does. A server's answer is any of `Results`. What `Wire` leaves to
`Proxy` is everything about more than one client; what `Proxy` leaves to `Wire` is
everything about bytes. Both use `Route`.

## 3. Runs

Passing runs. Every action fires in one of them.

| run | instance | shows |
|---|---|---|
| `stream` | 2 serial transactions, 6 rows of 3 tables, one altered between two rows, filter with blank entries and mixed case, operator's publication, 2 faults | `ConfirmedIsHandled`, `RowsMeetTheirSchema`, `LsnDeduplicates` |
| `stream_live` | snapshot, stream and Kafka log; 2 transactions with an UPDATE and a DELETE, starts with and without `-snapshot`, 1 fault | `SnapshotIsConsistent`, `DestinationCurrent`, `ConfirmedIsHandled`, `ImplementsDelivery`, `EventuallyHandled`, `SlotAdvances` |
| `retry` | 2 events, 0 or 4 attempts, both callbacks, a 6-bit duration, 2 restarts, 1 machine crash | `NilMeansHandled`, `FailureHasCause`, `CancelStopsRetries`, `BackoffIsPatient`, `DeliverReturns` |
| `batch` | 2 callers, 4 events, batches of 2, 1 error, 1 kill | `Conservation`, `TimerCoverage`, `BatchBounded`, `BufferDrains` |
| `proxy` | 2 clients, 3 messages of one and 1 of the other, 1 connection per pool, 1 fault | `PinnedUntilEnd`, `StatusMatchesRouting`, `ConnPerStatement`, `OneLateMessage`, `QueryAnswered`, `ShutdownCompletes` |
| `wire` | 1 client: a statement of up to 3 pieces (4 or 5 in a comment), or a transaction of 3 requests; 5 kinds of result | `RequestsUnderstood`, `RepliesUnderstood`, `InStep`, `WritesReachPrimary`, `CommentsStripped` |

Why the bounds are enough for the cases that matter. Two transactions and two
faults let a fault, a replay and a second fault hit a transaction that is
partly handled, with another one behind it; three tables give a row that is
published and filtered out. One row per table is
inserted, and then updated or deleted, so that a copied, a streamed and a replayed
version of it can meet in the log; the fault may hit the snapshot or the stream, and
a second snapshot may follow a first. Four attempts reach a first, a capped and an
overflowing delay. Four
events in batches of two give a full batch, a timer left from it, and a second
batch for the stale callback to take. One connection per pool is the tightest
pool; two clients are enough to wait for each other; three messages of one of them make
BEGIN, a statement and an end, while the other competes with it at any point. Pieces of a text are blanks, a line feed, `--`, `/*`, `*/`,
`/`, `*`, `(` and two keywords of two letters each: three of them make every pair of
comment marks overlap, and five nest a comment twice. Results have no, one and two
columns, no row, NULLs, empty values, values with a NUL in them, and a negative
number; startup messages are below and above the limit, which is 40 bytes instead of
10000. Bounds are constants (`MaxFaults`, `MaxRestarts`,
`MaxMachineCrashes`, `MaxEvents`, `MaxErrors`, `MaxCrashes`, `MaxMessages`) and
appear in guards only. No run uses symmetry. Deadlock is checked for `Stream`, which never stops for
good (`snapshot_gap` and `stream_live` are the same system); the others end when the
process or the history does, so their configurations turn the check off.

The statements of `proxy` are `begin`, ROLLBACK and a SELECT, next to messages that the
proxy does not support; writes are in `proxy_atomic` and `proxy_swallow`. What the code does
outside of that is in the next section. `StatusMatchesRouting` excepts the answer to an
unsupported message, which is always 'I'.

Where a property is narrower than one may wish, `hazards` in `PROJECT.json` says so at the
line in question, and a hazard that the code has and no property could exclude is listed
there without one.

## 4. Where the code and its documentation disagree

Each of these runs checks one sentence of the documentation or of a comment and
ends in a counterexample (`findings` in `PROJECT.json` quotes both sides).

| run | refuted | in short |
|---|---|---|
| `stream_overshoot` | `ConfirmedIsHandled` | a decoded row longer than the WAL left in its transaction acknowledges the transaction before the row is handled |
| `snapshot_gap` | `SnapshotMeetsStream` | a transaction that commits after the MVCC snapshot and before the position it reads, or before the slot exists, is neither copied nor streamed |
| `batch_loss` | `DropStopsStream` | a timer's failed flush is only logged: accepted events are gone and the stream goes on |
| `proxy_atomic` | `RollbackUndoes` | every statement has its own connection, so ROLLBACK undoes nothing |
| `proxy_swallow` | `ErrorReported` | an error that comes before a RowDescription is not read, and the client is told the statement is done |
| `wire_lone_cr` | `ReplicaGetsReads` | of `--`, CR and an INSERT the proxy sees no statement, and the write goes to the replica |

Other limits of the code, without a run of their own. The properties of
section 3 name them as exceptions or their instances leave them out:

- `stream.go:169`, against `sink.go:43-44`: the deferred acknowledgement after a
  handler error covers the failed event's LSN. This alone does not lose the event: as
  long as the acknowledged position is inside the transaction, PostgreSQL sends the
  transaction again. That is what `ConfirmedIsHandled` says in `stream`, and what
  `NoEventLost` proves under the assumption that `stream_overshoot` drops.
- `stream.go:276`, against `event.go:41-42`: rows of concurrent transactions are
  delivered in commit order, not in LSN order, so that a consumer which tracks the
  last LSN skips new events. `LsnDeduplicates` holds of serial transactions only.
- `snapshot.go:86`: what lies between the snapshot and the stream (`Missed` in
  `DestinationCurrent`). A row that was deleted before a later snapshot is not told
  to the destination again, and a TRUNCATE never is (`Untold`).
- `snapshot.go:34`, `stream.go:83-92`: a snapshot may be of fewer tables than the stream.
  It moves the stream's start past transactions whose rows of the *other* tables were
  neither copied nor handled. TLC finds it when a second list of tables is allowed: `orders` is copied after one of its
  rows was inserted and updated, a start without `-snapshot` replays the insertion and
  crashes, a start with a snapshot of `users` alone skips the update. The instances take
  the same tables for both, and `DestinationIsCurrent` (section 6) has `CompleteLists` as a
  hypothesis.
- `snapshot.go:94`: table names are unqualified: the columns are those of any schema's
  table of the name, the rows those of the first in the search path, and the event's
  schema is "public". `SnapshotAssumption` keeps names unique.
- `kafka.go:122`: an UPDATE that changes `id`, a table without `id`, or a DELETE under a
  replica identity without it, gives the row's records different keys; older
  versions then stay in the log. The rows of the run keep their `id`.
- `batch.go:118`: a later batch may overtake an earlier one.
- `classifier.go:67`: " TO " anywhere, in a COPY FROM too, sends it to the replica:
  `WritesReachPrimary` allows it, as it allows writes that begin with a read's word
  (`SELECT ... INTO`, `EXPLAIN ANALYZE`). `classifier.go:129`: the text behind an unclosed
  comment is its last byte (excepted by `Closed`). `classifier.go:121` is excepted by
  `LinesEndWithLF` in `WritesReachPrimary` and `CommentsStripped`; `ReplicaGetsReads` is the
  first of them without the exception.
- `retry.go:109`: a delay that does not fit `time.Duration` may be negative, and
  the retry comes at once (excepted in `BackoffIsPatient`). `retry.go:114`:
  jitter exceeds the cap, by half at most.
- `retry.go:87`: zero attempts give the callback a nil error, which the
  dead-letter handler dereferences (`FailureHasCause`; the `panic` of
  `DLQHandler`).
- `dlq.go:54`: no O_SYNC, against the comment at line 41 (excepted in
  `NilMeansHandled`).
- `batch.go:91`, `:98`, `:131`: a callback that `Stop` missed takes the next
  batch; flushes may overtake each other; `Close` does not wait for a callback.
  `batch.go:125`: a kill loses events whose `Deliver` returned nil.
- `proxy.go:224`, `:229`: `Begin`, `BEGIN;`, a BEGIN after a blank or a comment do
  not pin the session, and SAVEPOINT and RELEASE unpin it. `proxy.go:257`: 'E' is
  told once, then 'T' again. `proxy.go:279`: other messages are always answered 'I', in a
  transaction too.

## 5. Fairness

- `Stream`: weak fairness of the process's own steps (the Go scheduler, timers,
  a supervisor that restarts it), of PostgreSQL committing the history and
  reading the socket; strong fairness of `Receive` and `RecvTimeout`, which are
  enabled only while the loop waits: the walsender does not send keepalives for
  ever in place of data. Faults are bounded. That creating the slot succeeds
  relies on running transactions to finish, as `PgCommit` is fair.
- `Snapshot`: weak fairness of the statements of a snapshot (`SnapStep`), and that of
  `Stream`. A start with or without `-snapshot` is a choice of the operator.
- `RetrySink`: weak fairness of the steps of a call; inner sinks have timeouts.
- `BatchSink`: timers fire, goroutines get the mutex, `DeliverBatch` has a
  timeout (30 s for the webhook). No fairness of `Deliver`: `BufferDrains` holds
  when no further event comes.
- `Proxy` (`Wire` has no liveness property): strong fairness of acquiring a
  connection (pgxpool serves waiters in order), weak fairness of statements,
  relaying, and the steps of shutdown. Fairness of `Relay` assumes that a client
  reads its result or disconnects: the code sets no write deadline. Clients are
  not assumed to send or leave.

## 6. Proofs

`StreamProofs`:

- `TypeCorrect`: `Spec => []TypeOK`, for every history, filter and bound.
- `SchemasCurrent`: `Spec => RowsMeetTheirSchema`, for every history, interleaved ones too,
  with tables altered between any of their rows.
- `StreamImplementsDelivery`: `ASSUME NoOvershoot PROVE Spec => ImplementsDelivery`: the
  stream refines `Delivery`.
- `NoEventLost`: `ASSUME NoOvershoot PROVE Spec => []ConfirmedIsHandled`.
  `NoOvershoot` (module `Wal`) states that the lengths the code adds to LSNs stay
  before the next commit record. It is needed: `stream_overshoot` is a history
  without it. It does not exclude interleaved transactions.

`ConfirmedIsHandled` is not inductive: a confirmed position comes from the wire,
the wire from `lastReceivedLSN`, and this from a walsender position. Call an
owed event that is not handled *pending*, and a position *settled* when no
pending event's transaction commits before it. The invariant `IInv` is `TypeOK`
together with

- `HandlerRow`: a running handler has a row;
- `LifeCycle`: which of publication, slot and positions exist at which `pc`;
- `PositionsSettled`: confirmed, the update on the wire, the start positions and
  `lastReceivedLSN + 1` are all settled;
- `InOrder`: pending events are not before the walsender's position; the row at
  `idx` is not pending unless its handler runs or failed.

Lemmas: pending events only become fewer (`PendingShrinks`, because a
publication does not change and `floor` only grows); each receiving step keeps
`InOrder`; then `lastReceivedLSN + 1` is settled by `NoOvershoot`
(`ReceivedSettled`), and every other position is a copy of a settled one
(`PositionsStep`).

The refinement follows from `IInv`. A step that hands over an event is
`Delivery`'s `Deliver`, as `InOrder` says that no pending event is before it; a step
that changes `confirmed` is `Release`, as the position is settled; a publication is
created while nothing is handled and nothing confirmed (`LifeCycle`). Everything else
stutters or commits.

`RowsMeetTheirSchema` has an invariant of its own (`SchemasAgree`): over all sessions, lost
connections and filtered rows, what the process has cached is what the walsender has
announced, for each table.

`LsnDeduplicates` is the theorem `NewEventsHaveNewLSNs`, under `NoOvershoot`, for histories
whose transactions are serial (`SerialRows`), and without starts from a snapshot
(`SnapshotLSNs = {}`). The run `stream` is such an instance; interleaved transactions break the
property (section 4). Without snapshots a session sends only what is owed (`SessionOwed`), and
nothing is handled ahead of an owed event (`NoGap`): so a new event is behind all that is
handled in commit order, which is LSN order when transactions are serial.

`SnapshotProofs`: a step of `Snapshot` is a step of `Stream` or leaves the stream's variables
as they are, except for the override, which becomes a position that `Stream` allows. So
`IInv` holds of `SnapSpec` too (`SnapStreamInvariance`), and with it
`NoEventLostBehindSnapshot` and `SnapshotImplementsDelivery`. `SnapTypeCorrect` and `CopyIsOfOnePoint`
(`SnapshotIsConsistent`) come from `SnapInv`, which adds that the log has one record per key
(`OneRecordPerKey`) and that what is copied so far is what the MVCC snapshot shows of the
tables read so far (`CopiedIsVisible`).

`DestinationProofs`: `DestinationEndsUpCurrent`, `SnapSpec => []DestinationCurrent`. An
invariant about states in which the stream has caught up is not inductive: replays put old
versions of a row over new ones. `DestInv` says, of each event, that whatever the destination
is *behind* with, as well as all that the session has *not sent*, is still *to come*: no
position (confirmed, on the wire, of the slot, of the session, received, the walsender's) is
past it. The second half is needed for the first: when a replayed version goes to the log,
the versions after it are unsent in this session. When nothing is left to come, nothing is
behind. The rest of `DestInv` is what a snapshot establishes: its rows are in the log until
the stream starts behind them, and nothing is replayed over them before there is a slot.
The hypotheses are `NoOvershoot`; `NothingFiltered`; `RowsHaveIds`, that each table has an
unchanging `id` in its replica identity (otherwise keys differ, section 4); and
`CompleteLists`, that a snapshot reads all tables. The instance of `stream_live` satisfies
them. `DestInv` was checked with TLC on that instance, with one and with two faults, before it
was proved.

`BatchProofs`, for every set of callers and every batch size: `BatchTypeCorrect`
(`Spec => []TypeOK`) and `BufferIsCovered` (`Spec => []TimerCoverage`). The invariant adds
`FlushHasBatch`: a caller that flushes has a non-empty batch. The heart is that `Deliver`
starts a timer exactly when the buffer becomes non-empty, and that every step that runs or
stops the timer of the buffer empties it. `EventsAreConserved` (`Conservation`) and
`BatchesAreBounded` come from `PlaceInv`: an accepted event is in one *place*, the buffer, the
flush of one caller or of one timer, or delivered, failed or lost, and no place has it
twice. A step moves a sequence of events from one place to another (`Move`), or puts a new
event somewhere (`Enter`, `EnterAndMove`).

`RetryProofs`, for every number of attempts, event, restart and machine crash, and for every
base, maximum and width of a duration: `RetryTypeCorrect`, `NilIsHandled` (`NilMeansHandled`),
`CallbackHasCause` (`FailureHasCause`), `CancellationIsPrompt` (`CancelStopsRetries`) and
`WaitsAreBounded` (`BackoffIsPatient`). `RetryInv` adds to these how far a call is at each `pc`
(`Progress`) and that at most one attempt begins under a cancelled context, the last
(`LateOnce`). The bounds of
the jitter (`JitterBounds`, `DelayBounds`) are arithmetic.

`ProxyProofs`, for every set of clients, both pools of any size, and every number of
messages and faults; each layer rests on the one before it:

- `ProxyTypeCorrect` and `LateMessages` from `CoreInv`: types, `activeConns` is the number
  of goroutines that serve a client (`Counted`), and a session that waits for its client
  has read no message since the cancellation, because it looked at the context before it
  waited.
- `OneConnection` from `CoreInv` too. What a session holds is decided by its phase, so each
  step of a session is one of three kinds: it holds nothing before and after, keeps what it
  holds, or gives it back (`HoldsNothing`, `KeepsIt`, `GivesBack`).
- `TransactionsPinned` and `StatusTrue` from `RoutesInv`, which relates `inTransaction`,
  `txFailed`, the status the client was told and the transaction the client means to be
  in. The first assumes `PlainStatements`: statements are what their first token says to
  `proxy.go:224`. Without it the property fails (section 4), so it is a hypothesis of the
  theorem, and not an assumption on the constants. The second has no hypothesis; what it
  says of a session that was last refused a message is nothing until the next query is
  answered (`Told`).

`WireProofs`, for every sequence of requests of any text, every startup message, list of
server parameters and result: `WireTypeCorrect` (`WireTypeOK`), `RequestsAreUnderstood`
(`RequestsUnderstood`), `AlwaysInStep` (`InStep`), `RepliesAreUnderstood`
(`RepliesUnderstood`), `CommentsAreStripped` (`CommentsStripped`) and
`WritesStayOnPrimary` (`WritesReachPrimary`). `WInv` says what the bytes in `inbox`
are: the startup message or nothing (`Opening`), then the requests that are sent and not
taken, then the tail that a leaving client may have added (`Pending`), a piece of a Query or a
Terminate. Of the bytes in `outbox` it says that they are the replies, one behind the other,
and nothing else (`Written`); of what was taken, that it is what was sent and that the
replica got only what `ClassifyQuery` calls a read (`Taken`). The invariant rests on lemmas
about the helpers of `proxy.go`:

- `Int32RoundTrip`: a length is read as it was written, up to the largest Int32;
- `FramedIsRead`, `BrokenOffIsShort`: `readRawMessage` takes exactly the first message of
  what it is given, whatever comes behind it, and waits for one that is not all there;
- `NulEnds`, `ParseRound`, `StartupIsParsed`: `parseStartupParams` finds user and database;
- `EncodeType`: each `send...` function writes bytes, for NULLs, negative numbers and empty
  strings too;
- `AnswerEnds`, `RelayedReady`: whatever the server answers, what `executeAndRelay` and
  `handleClient` write for it together has one ReadyForQuery, its last message.

`RepliesAreUnderstood` needs the reverse of the `send...` functions. A general lemma,
`PiecesFound`, says that bytes made of pieces, each as long as its size operator finds it to
be whatever comes behind it, are cut into just these pieces; it is used three times, for the
fields of a RowDescription, the values of a DataRow and the messages of a connection
(`StreamIsUnderstood`).
What is left is each kind of piece by itself: lengths and numbers with their signs (an OID is
unsigned, a modifier is -1), strings up to their NUL, and the NULLs of a row.

`CommentsAreStripped` compares the loops of `classifier.go` with the lexer, for a text of any
length (`ScannerProofs`). What the two must agree on is the *end* of a text: the depth of
comments and, but for blanks, the text from the first word on (`SameEnd`). `ReadsSplit`
says that a text may be read in two parts; `TrimEnd`, that `TrimSpace` changes nothing in the
end; `LineStripped`, that a line comment is over for both behind the same line feed;
`PlainText`, that a trimmed text without a comment before it is left whole. `BlockStripped`
is about nested comments. The loop takes `/*` and `*/` as two bytes and the lexer byte by
byte, so that their invariant holds between the rounds of the loop: both are equally deep,
and the lexer is not in the middle of a pair that the loop has still to take (`Opened`), or both
are out of the comment (`Passed`). With these, a round of `stripLeadingComments` keeps the
end, and takes two bytes at least or leaves a text that is `Plain` (`StripRound`); hence
`AllStripped`. `FirstTokenSeen` is the second half of `CommentsStripped`: a text that begins
with a letter is only trimmed, and blanks at its end do not change its first word.

`WritesStayOnPrimary` is about texts whose comments are closed and whose carriage returns
have their line feeds; of others it says nothing, and `wire_lone_cr` shows why. It follows
from `AllStripped` and `Taken`: the word that `ClassifyQuery`
saw is the one that PostgreSQL reads (`ReadSeen`), because what ends a token for the proxy is
no letter for the lexer either.

Two conditions come with the texts of requests, both in `WireAssumption`: they have no NUL and
a message with its overhead fits in an Int32, as PostgreSQL's protocol demands of a client.
`AnswersFit` says the like of what the server answered. Whether a startup message exceeds
`MaxStartupLen` is left open: then the session ends.
A recursive function is a function in TLA+ only once one exists that fulfils its equation:
`Recursion` shows it for loops that count (`IteratedRounds`, `IteratedFixed`,
`FlattenSteps`) and for the lexer (`ReadsExists`, `ReadsIs`). `WInv` was checked with TLC on
the instance of `wire`, but for the type of `replies`, before it was proved.

Constants are constrained only by the named assumptions of each module
(`WalAssumption`, `StreamAssumption`, `SnapshotAssumption`, `RetryAssumption`,
`BatchAssumption`, `ClassifierAssumption`, `ScannerAssumption`, `WireAssumption`,
`AnswersFit`, `ProxyAssumption`).

Numbers are compared by a least or a greatest counterexample (`Least`, `Greatest`, from
the well-foundedness of `<`): the library's induction theorems take an operator as a
parameter, which no prover here can instantiate. An induction along a text or a loop is
stated about a set of numbers that contains 0 and every successor (`Induction`).

Model-checked only: liveness (`EventuallyHandled`, `SlotAdvances`, `DeliverReturns`,
`BufferDrains`, `QueryAnswered`, `ShutdownCompletes`), which is beyond the prover. Every
invariant of a passing run, and the refinement of `Delivery`, is a theorem; where a theorem
has a hypothesis, this section names it.

## 7. Not modelled

- Conversion of column values by type, JSON, HTTP: data, no control. The lengths that
  matter to positions are parameters of `Wal`. The timestamp of an event.
- `MetricsSink` and Prometheus counters: nothing reads them.
- `StdoutSink` and the formatting of the batch sinks: output only. Their answers, as those
  of the webhook, are the outcomes of an attempt in `RetrySink` and of `DeliverBatch` in
  `BatchSink`.
- The franz-go client: `ProduceSync` is one step that succeeds, fails, or fails with the
  record written.
- Letters and blanks that are not ASCII: `strings.TrimSpace` and `strings.ToUpper` know some
  (U+0085, U+00A0, U+017F), `Scanner` does not. PostgreSQL knows none of them.
- Startup messages that no client of PostgreSQL sends: `parseStartupParams` panics when the
  last key or value has no NUL (`proxy.go:369`). The clients of `Wire` end their strings.
- `extractSQL`'s branch for Parse has no caller; `truncateSQL` is for logs.
- The test servers under `cmd/`; the main programs are not in the repository, so
  the order "Run, then Close" and the start with `-snapshot` are taken from the package
  documentation.
- SET, RESET and DISCARD on pooled connections: they run in whatever session the pool
  gives, and the proxy keeps no state of them, so that no property of settings could hold.
  Replica lag. Clients that never read: the fairness of `Relay` excludes them.

## 8. Plan

Modelled is everything that section 7 does not list; proved is every invariant that holds.
What would come next:

1. `RollbackUndoes` and `ErrorReported` would be theorems of a proxy that pins a
   connection to a transaction and reads `rows.Err` in every case: run and prove them if
   the code changes.
2. `LinesEndWithLF` could go from the last two theorems of `WireProofs` if
   `stripLeadingComments` ended a line at a carriage return too; `LineRead` is the lemma that
   uses it.
3. A property of settings (SET on a pooled connection), once the proxy keeps state of them.
