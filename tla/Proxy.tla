------------------------------- MODULE Proxy -------------------------------
(***************************************************************************)
(* internal/proxy/proxy.go: the read/write split proxy. One goroutine      *)
(* serves each client (handleClient); every statement takes a connection   *)
(* of the primary's or of the replica's pool for as long as it runs.       *)
(*                                                                         *)
(* External: the two pgxpool pools (a connection released inside a         *)
(* transaction is destroyed), the PostgreSQL sessions behind their         *)
(* connections (tx, work, committed), and the clients.                     *)
(***************************************************************************)
EXTENDS Classifier, FiniteSets

CONSTANTS
    Clients,       \* client connections, one handler goroutine each
    Primary,       \* the connections of primaryPool
    Replica,       \* the connections of replicaPool
    Statements,    \* what clients send in Query messages
    MaxMessages,   \* bound on the messages of each client
    MaxFaults      \* bound on statement errors and lost connections

VARIABLES
    run,         \* Run: "accepting", then its deferred calls, "returned"
    listener,    \* "open" or "closed"
    ctxDone,     \* "yes" when the proxy's context is cancelled
    activeConns, \* Proxy.activeConns
    sess,        \* the goroutine of each client
    owner,       \* who has acquired a pooled connection, Nobody if free
    tx, work,    \* transaction status and uncommitted writes of a connection
    committed,   \* writes committed at the primary
    undone,      \* writes whose client has been told that they are rolled back
    faults

proxyVars == <<run, listener, ctxDone, activeConns>>
serverVars == <<tx, work, committed>>
vars == <<proxyVars, sess, owner, serverVars, undone, faults>>

Nobody == "nobody"
Conns == Primary \cup Replica
Writes == Clients \X Nat  \* a write is its client and the number of its message
Idle == [lead |-> "none", word |-> "", to |-> FALSE, effect |-> "read", cols |-> FALSE]

ASSUME ProxyAssumption ==
    /\ Nobody \notin Clients
    /\ IsFiniteSet(Clients)
    /\ Primary \cap Replica = {}
    /\ Statements \subseteq Statement
    /\ "" \in Words
    /\ MaxMessages \in [Clients -> Nat] /\ MaxFaults \in Nat

(***************************************************************************)
(* inTransaction, txFailed: the variables of handleClient. told: the       *)
(* status byte of the last ReadyForQuery. outcome and reply: what became   *)
(* of the last statement at the server and what the client was told; a     *)
(* statement is "undescribed" when it fails before its RowDescription is   *)
(* read, or has no columns to describe.                                    *)
(* intent: "T" when the client has sent BEGIN and not yet COMMIT or        *)
(* ROLLBACK. block: the writes since then. late: messages read after the   *)
(* context was cancelled.                                                  *)
(***************************************************************************)
Phases == {"none", "startup", "sslRefused", "awaiting", "acquiring", "running", "relaying", "gone"}
Serving == {"acquiring", "running", "relaying"}
Outcomes == {"ok", "refused", "failed", "undescribed"}

Session ==
    [phase: Phases, stmt: Statement, useReplica: BOOLEAN, inTransaction: BOOLEAN,
     txFailed: BOOLEAN, told: {"I", "T", "E"}, outcome: Outcomes, reply: {"ok", "error", "unsupported"},
     intent: {"I", "T"}, block: SUBSET Writes,
     count: Nat, late: Nat]

NewSession ==
    [phase |-> "none", stmt |-> Idle, useReplica |-> FALSE, inTransaction |-> FALSE,
     txFailed |-> FALSE, told |-> "I", outcome |-> "ok", reply |-> "ok",
     intent |-> "I", block |-> {}, count |-> 0, late |-> 0]

\* handleClient has returned.
Gone == [NewSession EXCEPT !.phase = "gone"]

Init ==
    /\ run = "accepting" /\ listener = "open" /\ ctxDone = "no" /\ activeConns = 0
    /\ sess = [c \in Clients |-> NewSession]
    /\ owner = [k \in Conns |-> Nobody]
    /\ tx = [k \in Conns |-> "I"] /\ work = [k \in Conns |-> {}]
    /\ committed = {} /\ undone = {} /\ faults = 0
-----------------------------------------------------------------------------
(* Run: the accept loop, and the deferred calls once it has returned. *)

Accept(c) ==
    /\ run = "accepting" /\ listener = "open"
    /\ sess[c].phase = "none"
    /\ sess' = [sess EXCEPT ![c].phase = "startup"]
    /\ activeConns' = activeConns + 1
    /\ UNCHANGED <<run, listener, ctxDone, owner, serverVars, undone, faults>>

Cancel ==
    /\ ctxDone = "no" /\ ctxDone' = "yes"
    /\ UNCHANGED <<run, listener, activeConns, sess, owner, serverVars, undone, faults>>

\* By the goroutine that waits for ctx.Done, or by Proxy.Close.
CloseListener ==
    /\ listener = "open" /\ listener' = "closed"
    /\ UNCHANGED <<run, ctxDone, activeConns, sess, owner, serverVars, undone, faults>>

\* Mutant: it always tries again.
MutNeverStops == FALSE

\* "if ctx.Err() != nil" after a failed Accept.
StopsAccepting == ctxDone = "yes"

\* Accept fails: Run returns if the context is cancelled, else it tries again.
AcceptFails ==
    /\ run = "accepting" /\ listener = "closed"
    /\ run' = IF StopsAccepting THEN "closingReplica" ELSE run
    /\ UNCHANGED <<listener, ctxDone, activeConns, sess, owner, serverVars, undone, faults>>

\* The deferred Close of a pool waits until its connections are released.
PoolCloses ==
    \/ /\ run = "closingReplica" /\ \A k \in Replica : owner[k] = Nobody
       /\ run' = "closingPrimary"
    \/ /\ run = "closingPrimary" /\ \A k \in Primary : owner[k] = Nobody
       /\ run' = "returned"

ClosePools ==
    /\ PoolCloses
    /\ UNCHANGED <<listener, ctxDone, activeConns, sess, owner, serverVars, undone, faults>>
-----------------------------------------------------------------------------
(* handleClient: the top of its loop, and the startup of a session. *)

\* Mutant: the loop does not look at the context.
MutNeverReturns == FALSE

\* "if ctx.Err() != nil return" at the top of the loop.
Returns == ctxDone = "yes"

\* The loop's next iteration; the variables of the last one are gone.
Continue(s) ==
    IF Returns THEN Gone
    ELSE [s EXCEPT !.phase = "awaiting", !.stmt = Idle, !.useReplica = FALSE]

\* Mutant: activeConns goes down with every message.
MutCountsMessages == activeConns - 1

NextActive == IF Returns THEN activeConns - 1 ELSE activeConns

\* An SSLRequest is answered 'N' once.
RefuseSSL(c) ==
    /\ sess[c].phase = "startup"
    /\ sess' = [sess EXCEPT ![c].phase = "sslRefused"]
    /\ UNCHANGED <<proxyVars, owner, serverVars, undone, faults>>

\* sendAuthOk ends with ReadyForQuery('I'); the loop begins.
Startup(c) ==
    /\ sess[c].phase \in {"startup", "sslRefused"}
    /\ sess' = [sess EXCEPT ![c] = Continue(@)]
    /\ activeConns' = NextActive
    /\ UNCHANGED <<run, listener, ctxDone, owner, serverVars, undone, faults>>

\* Terminate, the end of the client's stream, or an error reading from it.
Disconnect(c) ==
    /\ sess[c].phase \in {"startup", "sslRefused", "awaiting"}
    /\ sess' = [sess EXCEPT ![c] = Gone]
    /\ activeConns' = activeConns - 1
    /\ UNCHANGED <<run, listener, ctxDone, owner, serverVars, undone, faults>>
-----------------------------------------------------------------------------
(* The message loop. *)

Intent(s, intent) ==
    CASE s.effect = "begin" -> "T"
      [] s.effect \in {"commit", "rollback"} -> "I"
      [] OTHER -> intent

\* The loop reads another message; it returned above if the context was cancelled
\* before the read.
Reads(c) ==
    /\ sess[c].phase = "awaiting"
    /\ sess[c].count < MaxMessages[c]

Late(c) == IF ctxDone = "yes" THEN sess[c].late + 1 ELSE sess[c].late

\* The routing decision for a statement, made before pool.Query is called.
Asked(c, s) ==
    LET r == Route(s, sess[c].inTransaction, sess[c].txFailed)
    IN [sess[c] EXCEPT
          !.phase = "acquiring", !.stmt = s, !.inTransaction = r[1], !.txFailed = r[2],
          !.useReplica = r[3], !.count = @ + 1, !.late = Late(c),
          !.intent = Intent(s, @), !.block = IF s.effect = "begin" THEN {} ELSE @]

\* A Query message: route it and call pool.Query.
Query(c) ==
    /\ Reads(c)
    /\ \E s \in Statements : sess' = [sess EXCEPT ![c] = Asked(c, s)]
    /\ UNCHANGED <<proxyVars, owner, serverVars, undone, faults>>

Refused(c) == [sess[c] EXCEPT !.told = "I", !.count = @ + 1, !.late = Late(c),
                              !.outcome = "refused", !.reply = "unsupported"]

\* Any other message is answered with an error and ReadyForQuery('I').
Refuse(c) ==
    /\ Reads(c)
    /\ sess' = [sess EXCEPT ![c] = Continue(Refused(c))]
    /\ activeConns' = NextActive
    /\ UNCHANGED <<run, listener, ctxDone, owner, serverVars, undone, faults>>

ReadyStatus(c) == IF sess[c].inTransaction THEN "T" ELSE "I"

\* executeAndRelay returned nil: CommandComplete and ReadyForQuery were sent.
Replied(c) ==
    LET b == sess[c].block
        w == IF sess[c].stmt.effect = "write" THEN {<<c, sess[c].count>>} ELSE {}
    IN [sess[c] EXCEPT
          !.told = ReadyStatus(c), !.reply = "ok",
          !.block = IF sess[c].intent = "T" THEN b \cup w ELSE {}]

\* Mutant: an error is always followed by ReadyForQuery('I').
MutErrorIdle(c, outcome) ==
    [sess[c] EXCEPT !.reply = "error", !.txFailed = sess[c].txFailed \/ sess[c].inTransaction,
                    !.told = "I", !.outcome = outcome]

\* It returned an error, which is sent; the transaction, if any, is marked failed.
Errored(c, outcome) ==
    LET failed == sess[c].txFailed \/ sess[c].inTransaction
    IN [sess[c] EXCEPT
          !.reply = "error", !.txFailed = failed, !.outcome = outcome,
          !.told = IF failed THEN "E" ELSE ReadyStatus(c)]
-----------------------------------------------------------------------------
(* executeAndRelay. *)

Pool(c) == IF sess[c].useReplica THEN Replica ELSE Primary
PoolClosed(c) == \/ run \in {"closingPrimary", "returned"}
                 \/ run = "closingReplica" /\ sess[c].useReplica

\* pool.Query acquires a free connection of the pool, opening one if need be.
Acquire(c) ==
    /\ sess[c].phase = "acquiring" /\ ~PoolClosed(c)
    /\ \E k \in Pool(c) : owner[k] = Nobody /\ owner' = [owner EXCEPT ![k] = c]
    /\ sess' = [sess EXCEPT ![c].phase = "running"]
    /\ UNCHANGED <<proxyVars, serverVars, undone, faults>>

\* It fails when the pool is closed or the context cancelled, and when no
\* connection can be opened.
AcquireFails(c) ==
    /\ sess[c].phase = "acquiring"
    /\ \/ (PoolClosed(c) \/ ctxDone = "yes") /\ UNCHANGED faults
       \/ faults < MaxFaults /\ faults' = faults + 1
    /\ sess' = [sess EXCEPT ![c] = Continue(Errored(c, "refused"))]
    /\ activeConns' = NextActive
    /\ UNCHANGED <<run, listener, ctxDone, owner, serverVars, undone>>

\* The server runs a statement without error. A replica is read-only, a savepoint
\* needs a transaction, and a failed transaction only ends.
Accepts(k, s) ==
    /\ k \in Replica => s.effect # "write"
    /\ s.effect = "savepoint" => tx[k] = "T"
    /\ tx[k] = "E" => s.effect \in {"commit", "rollback"}

TxAfter(k, s) == CASE s.effect = "begin" -> "T"
                   [] s.effect \in {"commit", "rollback"} -> "I"
                   [] OTHER -> tx[k]

Write(c, k) == IF sess[c].stmt.effect = "write" /\ k \in Primary THEN {<<c, sess[c].count>>} ELSE {}

\* What the statement makes durable: a write of its own outside a transaction,
\* and with COMMIT the writes of the transaction.
Durable(c, k) ==
    IF tx[k] = "I" THEN Write(c, k)
    ELSE IF tx[k] = "T" /\ sess[c].stmt.effect = "commit" THEN work[k] ELSE {}

ExecuteOk(c) == \E k \in Conns :
    /\ sess[c].phase = "running" /\ owner[k] = c
    /\ Accepts(k, sess[c].stmt)
    /\ tx' = [tx EXCEPT ![k] = TxAfter(k, sess[c].stmt)]
    /\ work' = [work EXCEPT ![k] = IF tx'[k] = "T" THEN work[k] \cup Write(c, k) ELSE {}]
    /\ committed' = committed \cup Durable(c, k)
    /\ sess' = [sess EXCEPT ![c].phase = "relaying", ![c].outcome = "ok"]
    /\ UNCHANGED <<proxyVars, owner, undone, faults>>

\* pgxpool's Release: a connection inside a transaction is destroyed, which rolls
\* it back.
Release(k) ==
    /\ owner' = [owner EXCEPT ![k] = Nobody]
    /\ tx' = [tx EXCEPT ![k] = "I"]
    /\ work' = [work EXCEPT ![k] = {}]

\* The server refuses to prepare the statement: pool.Query returns the error and
\* has released the connection.
PrepareFails(c) == \E k \in Conns :
    /\ sess[c].phase = "running" /\ owner[k] = c
    /\ faults < MaxFaults /\ faults' = faults + 1
    /\ Release(k)
    /\ sess' = [sess EXCEPT ![c] = Continue(Errored(c, "refused"))]
    /\ activeConns' = NextActive
    /\ UNCHANGED <<run, listener, ctxDone, committed, undone>>

\* Whether the RowDescription arrives before the error: the server may refuse to bind
\* the statement, or to start it, or fail while it runs.
Failures(s) == IF s.cols THEN {"failed", "undescribed"} ELSE {"undescribed"}

\* It fails to run the prepared statement.
ExecuteFails(c) == \E k \in Conns :
    /\ sess[c].phase = "running" /\ owner[k] = c
    /\ \/ ~Accepts(k, sess[c].stmt) /\ UNCHANGED faults
       \/ faults < MaxFaults /\ faults' = faults + 1
    /\ tx' = [tx EXCEPT ![k] = IF @ = "T" THEN "E" ELSE @]
    /\ work' = [work EXCEPT ![k] = {}]
    /\ \E o \in Failures(sess[c].stmt) :
          sess' = [sess EXCEPT ![c].phase = "relaying", ![c].outcome = o]
    /\ UNCHANGED <<proxyVars, owner, committed, undone>>

\* The connection breaks, or the cancelled context breaks it, before the statement
\* has reached the server or after it has run.
ConnectionLost(c) == \E k \in Conns :
    /\ sess[c].phase = "running" /\ owner[k] = c
    /\ \/ ctxDone = "yes" /\ UNCHANGED faults
       \/ faults < MaxFaults /\ faults' = faults + 1
    /\ committed' \in {committed, committed \cup Durable(c, k)}
    /\ tx' = [tx EXCEPT ![k] = "I"] /\ work' = [work EXCEPT ![k] = {}]
    /\ \E o \in Failures(sess[c].stmt) :
          sess' = [sess EXCEPT ![c].phase = "relaying", ![c].outcome = o]
    /\ UNCHANGED <<proxyVars, owner, undone>>

\* rows.Err is only looked at when the result has fields, so when a RowDescription has
\* been read.
SeesError(c) == sess[c].outcome = "failed"

\* Mutant: rows is not closed.
MutNotClosed(k) == UNCHANGED <<owner, tx, work>>

\* The deferred rows.Close releases the connection.
CloseRows(k) == Release(k)

\* The result goes to the client, then rows is closed.
Relay(c) == \E k \in Conns :
    /\ sess[c].phase = "relaying" /\ owner[k] = c
    /\ sess' = [sess EXCEPT ![c] = Continue(IF SeesError(c) THEN Errored(c, "failed") ELSE Replied(c))]
    /\ undone' = IF ~SeesError(c) /\ sess[c].stmt.effect = "rollback"
                 THEN undone \cup sess[c].block ELSE undone
    /\ activeConns' = NextActive
    /\ CloseRows(k)
    /\ UNCHANGED <<run, listener, ctxDone, committed, faults>>
-----------------------------------------------------------------------------
Execute(c) == ExecuteOk(c) \/ PrepareFails(c) \/ ExecuteFails(c) \/ ConnectionLost(c)

Serve(c) == Acquire(c) \/ AcquireFails(c) \/ Execute(c) \/ Relay(c)

Next ==
    \/ \E c \in Clients : \/ Accept(c) \/ RefuseSSL(c) \/ Startup(c) \/ Disconnect(c)
                          \/ Query(c) \/ Refuse(c) \/ Serve(c)
    \/ Cancel \/ CloseListener \/ AcceptFails \/ ClosePools

Spec == Init /\ [][Next]_vars

\* The pool serves waiters in the order of their calls, so one of them does not
\* wait forever while connections keep being released; statements end, clients
\* read their results or disconnect, and the goroutine that closes the listener
\* runs.
FairSpec ==
    /\ Spec
    /\ \A c \in Clients : /\ SF_vars(Acquire(c) \/ AcquireFails(c))
                          /\ WF_vars(Execute(c)) /\ WF_vars(Relay(c))
    /\ WF_vars(ctxDone = "yes" /\ CloseListener)
    /\ WF_vars(AcceptFails) /\ WF_vars(ClosePools)
-----------------------------------------------------------------------------
(* Properties. *)

TypeOK ==
    /\ run \in {"accepting", "closingReplica", "closingPrimary", "returned"}
    /\ listener \in {"open", "closed"} /\ ctxDone \in {"yes", "no"}
    /\ activeConns \in Nat
    /\ sess \in [Clients -> Session]
    /\ owner \in [Conns -> Clients \cup {Nobody}]
    /\ tx \in [Conns -> {"I", "T", "E"}]
    /\ work \in [Conns -> SUBSET Writes]
    /\ committed \subseteq Writes
    /\ undone \subseteq Writes
    /\ faults \in 0..MaxFaults

\* proxy.go, "When a transaction starts (BEGIN), ALL queries go to primary until
\* COMMIT/ROLLBACK": whatever was refused, failed or lost in between.
PinnedUntilEnd ==
    \A c \in Clients : sess[c].phase \in Serving /\ sess[c].intent = "T" => ~sess[c].useReplica

\* proxy.go, "'I' = idle (not in transaction)": what the client is told decides as
\* the routing does, except after a message that is not a Query, which is answered 'I'.
StatusMatchesRouting ==
    \A c \in Clients : sess[c].phase = "awaiting" /\ sess[c].reply # "unsupported" =>
        (sess[c].told = "I" <=> ~sess[c].inTransaction)

\* A session has at most one connection, of the pool it was routed to, and only
\* while a statement of its own runs: sessions that wait for their clients, or for
\* a connection, hold none, so that they cannot wait for one another.
ConnPerStatement ==
    \A k \in Conns : owner[k] # Nobody =>
        /\ sess[owner[k]].phase \in {"running", "relaying"}
        /\ k \in Pool(owner[k])
        /\ \A j \in Conns : owner[j] = owner[k] => j = k

\* Shutdown: a session reads at most one message after the context is cancelled,
\* although it only looks at the context between two messages.
OneLateMessage == \A c \in Clients : sess[c].late <= 1

\* Liveness: a statement is answered, however few connections the pool has.
QueryAnswered == \A c \in Clients : sess[c].phase \in Serving ~> sess[c].phase \notin Serving

\* Liveness: Run returns once its context is cancelled.
ShutdownCompletes == ctxDone = "yes" ~> run = "returned"

\* classifier.go, "Transactions are pinned to the primary to preserve isolation
\* guarantees": a write that was rolled back is not in the database.
RollbackUndoes == undone \cap committed = {}

\* classifier.go, "the application gets a clear error": a statement that the server
\* did not run is not reported as done.
ErrorReported ==
    \A c \in Clients : sess[c].phase = "awaiting" /\ sess[c].outcome # "ok" => sess[c].reply # "ok"
=============================================================================
