---------------------------- MODULE ProxyProofs ----------------------------
(***************************************************************************)
(* Proofs about module Proxy, for every set of clients, connections and    *)
(* statements, and every number of messages and faults.                    *)
(***************************************************************************)
EXTENDS Proxy, FiniteSetTheorems, TLAPS

Live == {c \in Clients : sess[c].phase \notin {"none", "gone"}}

\* Proxy.activeConns counts the goroutines.
Counted == activeConns = Cardinality(Live)

TypeInv == TypeOK /\ Counted

LEMMA SessionUpdate ==
    ASSUME NEW c \in Clients, NEW s \in Session, sess \in [Clients -> Session],
           sess' = [sess EXCEPT ![c] = s]
    PROVE  /\ sess' \in [Clients -> Session]
           /\ sess'[c] = s
           /\ \A d \in Clients \ {c} : sess'[d] = sess[d]
OBVIOUS

LEMMA NewSessionType == NewSession \in Session /\ Gone \in Session /\ Idle \in Statement
<1>1. Idle \in Statement
  BY ProxyAssumption DEF Idle, Statement, Leads, Effects
<1>2. {} \in SUBSET Writes /\ 0 \in Nat
  OBVIOUS
<1>3. NewSession \in Session
  BY <1>1, <1>2 DEF NewSession, Session, Phases, Outcomes
<1>4. Gone \in Session
  BY <1>3 DEF Gone, Session, Phases
<1> QED BY <1>1, <1>3, <1>4

LEMMA ContinueType ==
    ASSUME NEW s \in Session
    PROVE  /\ Continue(s) \in Session
           /\ Returns => Continue(s) = Gone
           /\ ~Returns => /\ Continue(s).phase = "awaiting"
                          /\ Continue(s).late = s.late /\ Continue(s).told = s.told
                          /\ Continue(s).reply = s.reply
                          /\ Continue(s).inTransaction = s.inTransaction
                          /\ Continue(s).txFailed = s.txFailed /\ Continue(s).intent = s.intent
<1>1. /\ Idle \in Statement /\ Gone \in Session
  BY NewSessionType
<1>2. CASE Returns
  BY <1>1, <1>2 DEF Continue
<1>3. CASE ~Returns
  <2>1. Continue(s) = [s EXCEPT !.phase = "awaiting", !.stmt = Idle, !.useReplica = FALSE]
    BY <1>3 DEF Continue
  <2>2. "awaiting" \in Phases
    BY DEF Phases
  <2>3. Continue(s) \in Session
    BY <1>1, <2>1, <2>2 DEF Session
  <2>4. /\ Continue(s).phase = "awaiting"
        /\ Continue(s).late = s.late /\ Continue(s).told = s.told
        /\ Continue(s).reply = s.reply
        /\ Continue(s).inTransaction = s.inTransaction
        /\ Continue(s).txFailed = s.txFailed /\ Continue(s).intent = s.intent
    BY <2>1 DEF Session
  <2> QED BY <1>3, <2>3, <2>4
<1> QED BY <1>2, <1>3

\* What a step of one session does to the count.
LEMMA LiveFinite == IsFiniteSet(Live) /\ Cardinality(Live) \in Nat
BY ProxyAssumption, FS_Subset, FS_CardinalityType DEF Live

LEMMA Counting ==
    ASSUME NEW c \in Clients, TypeInv, NEW s \in Session, sess' = [sess EXCEPT ![c] = s],
           \/ /\ sess[c].phase \in {"none", "gone"} /\ s.phase \notin {"none", "gone"}
              /\ activeConns' = activeConns + 1
           \/ /\ sess[c].phase \notin {"none", "gone"} /\ s.phase \in {"none", "gone"}
              /\ activeConns' = activeConns - 1
           \/ /\ sess[c].phase \notin {"none", "gone"} /\ s.phase \notin {"none", "gone"}
              /\ activeConns' = activeConns
    PROVE  Counted' /\ activeConns' \in Nat /\ sess' \in [Clients -> Session]
<1>0. /\ sess' \in [Clients -> Session] /\ sess'[c] = s
      /\ \A d \in Clients \ {c} : sess'[d] = sess[d]
  BY SessionUpdate DEF TypeInv, TypeOK
<1>1. CASE sess[c].phase \in {"none", "gone"}
  <2>1. Live' = Live \cup {c} /\ c \notin Live
    BY <1>0, <1>1 DEF Live
  <2>2. Cardinality(Live') = Cardinality(Live) + 1
    BY <2>1, LiveFinite, FS_AddElement
  <2>3. activeConns' = activeConns + 1 /\ activeConns = Cardinality(Live) /\ activeConns \in Nat
    BY <1>1 DEF TypeInv, TypeOK, Counted
  <2> QED BY <1>0, <2>2, <2>3 DEF Counted
<1>2. CASE s.phase \in {"none", "gone"} /\ sess[c].phase \notin {"none", "gone"}
  <2>1. Live' = Live \ {c} /\ c \in Live
    BY <1>0, <1>2 DEF Live
  <2>2. Cardinality(Live) # 0
    BY <2>1, LiveFinite, FS_EmptySet
  <2>3. Cardinality(Live') = Cardinality(Live) - 1
    BY <2>1, LiveFinite, FS_RemoveElement
  <2>4. activeConns' = activeConns - 1 /\ activeConns = Cardinality(Live)
    BY <1>2 DEF TypeInv, Counted
  <2> QED BY <1>0, <2>2, <2>3, <2>4, LiveFinite DEF Counted
<1>3. CASE s.phase \notin {"none", "gone"} /\ sess[c].phase \notin {"none", "gone"}
  <2>1. Live' = Live
    BY <1>0, <1>3 DEF Live
  <2> QED BY <1>0, <1>3, <2>1 DEF Counted, TypeInv, TypeOK
<1> QED BY <1>1, <1>2, <1>3

LEMMA CountingContinue ==
    ASSUME NEW c \in Clients, TypeInv, NEW s \in Session, sess' = [sess EXCEPT ![c] = Continue(s)],
           sess[c].phase \notin {"none", "gone"}, activeConns' = NextActive
    PROVE  Counted' /\ activeConns' \in Nat /\ sess' \in [Clients -> Session]
<1>1. Continue(s) \in Session
  BY ContinueType
<1>2. Returns => Continue(s).phase = "gone"
  BY ContinueType DEF Gone, NewSession
<1>3. ~Returns => Continue(s).phase = "awaiting"
  BY ContinueType
<1> QED BY <1>1, <1>2, <1>3, Counting DEF NextActive

\* The sessions that the replies leave behind are well typed.
LEMMA ReplyType ==
    ASSUME NEW c \in Clients, sess \in [Clients -> Session], sess[c].count # 0
    PROVE  /\ Replied(c) \in Session
           /\ Replied(c).phase = sess[c].phase /\ Replied(c).late = sess[c].late
           /\ Replied(c).intent = sess[c].intent /\ Replied(c).told = ReadyStatus(c)
           /\ Replied(c).inTransaction = sess[c].inTransaction
           /\ Replied(c).txFailed = sess[c].txFailed
<1>1. ReadyStatus(c) \in {"I", "T", "E"}
  BY DEF ReadyStatus
<1>2. /\ sess[c] \in Session /\ sess[c].block \in SUBSET Writes /\ sess[c].count \in Nat
  BY DEF Session
<1>3. <<c, sess[c].count>> \in Writes
  BY <1>2 DEF Writes
<1> QED BY <1>1, <1>2, <1>3 DEF Replied, Session

LEMMA ErrorType ==
    ASSUME NEW c \in Clients, sess \in [Clients -> Session], NEW o \in Outcomes
    PROVE  /\ Errored(c, o) \in Session
           /\ Errored(c, o).late = sess[c].late /\ Errored(c, o).intent = sess[c].intent
           /\ Errored(c, o).inTransaction = sess[c].inTransaction
           /\ Errored(c, o).txFailed = (sess[c].txFailed \/ sess[c].inTransaction)
           /\ Errored(c, o).told = IF sess[c].txFailed \/ sess[c].inTransaction
                                   THEN "E" ELSE ReadyStatus(c)
<1> DEFINE failed == sess[c].txFailed \/ sess[c].inTransaction
           told == IF failed THEN "E" ELSE ReadyStatus(c)
<1>1. sess[c] \in Session /\ failed \in BOOLEAN /\ told \in {"I", "T", "E"}
  BY DEF ReadyStatus
<1>2. Errored(c, o) = [sess[c] EXCEPT
          !.reply = "error", !.txFailed = failed, !.outcome = o, !.told = told]
  BY DEF Errored
<1> HIDE DEF failed, told
<1>3. /\ Errored(c, o) \in Session
      /\ Errored(c, o).late = sess[c].late /\ Errored(c, o).intent = sess[c].intent
      /\ Errored(c, o).inTransaction = sess[c].inTransaction
      /\ Errored(c, o).txFailed = failed /\ Errored(c, o).told = told
  BY <1>1, <1>2 DEF Session
<1> QED BY <1>3 DEF failed, told
-----------------------------------------------------------------------------
(* Types and the shutdown of a session. A session that waits for its client *)
(* has read no message since the context was cancelled: it looked at the    *)
(* context before it waited, and the context stays cancelled.               *)

SessInv(s) ==
    /\ s.phase \in Serving => s.count # 0
    /\ s.phase \notin Serving => s.late = 0
    /\ s.late # 0 => s.late = 1 /\ ctxDone = "yes"

CoreInv == TypeInv /\ \A c \in Clients : SessInv(sess[c])

LEMMA NewSessionInv == SessInv(NewSession) /\ SessInv(Gone)
BY DEF SessInv, NewSession, Gone, Serving

\* A session that goes on after its statement.
LEMMA ContinueInv ==
    ASSUME NEW s \in Session, s.late # 0 => ctxDone = "yes", ctxDone \in {"yes", "no"}
    PROVE  SessInv(Continue(s))
<1>1. CASE Returns
  BY <1>1, ContinueType, NewSessionInv
<1>2. CASE ~Returns
  BY <1>2, ContinueType DEF SessInv, Serving, Returns
<1> QED BY <1>1, <1>2

LEMMA SessInvUpdate ==
    ASSUME CoreInv, NEW c \in Clients, NEW s \in Session, sess' = [sess EXCEPT ![c] = s],
           SessInv(s), ctxDone' = ctxDone
    PROVE  \A d \in Clients : SessInv(sess[d])'
<1>1. sess'[c] = s /\ \A d \in Clients \ {c} : sess'[d] = sess[d]
  BY SessionUpdate DEF CoreInv, TypeInv, TypeOK
<1>2. ASSUME NEW d \in Clients PROVE SessInv(sess[d])'
  <2>1. sess'[d] \in {s, sess[d]} /\ SessInv(sess[d])
    BY <1>1 DEF CoreInv
  <2> QED BY <1>1, <2>1 DEF SessInv, CoreInv
<1> QED BY <1>2

\* The statement of a session whose connection runs it writes what Writes holds.
LEMMA DurableType ==
    ASSUME CoreInv, NEW c \in Clients, NEW k \in Conns, sess[c].phase \in Serving
    PROVE  Write(c, k) \subseteq Writes /\ Durable(c, k) \subseteq Writes
<1>1. sess[c] \in Session /\ sess[c].count \in Nat
  BY DEF CoreInv, TypeInv, TypeOK, Session
<1>2. <<c, sess[c].count>> \in Writes
  BY <1>1 DEF Writes
<1>3. work[k] \subseteq Writes
  BY DEF CoreInv, TypeInv, TypeOK
<1> QED BY <1>2, <1>3 DEF Write, Durable

LEMMA CoreInit == Init => CoreInv
<1> SUFFICES ASSUME Init PROVE CoreInv
  OBVIOUS
<1>1. sess \in [Clients -> Session] /\ \A c \in Clients : sess[c] = NewSession
  BY NewSessionType DEF Init
<1>2. Live = {}
  BY <1>1 DEF Live, NewSession
<1>3. Counted
  BY <1>2, FS_EmptySet DEF Counted, Init
<1>4. faults \in 0..MaxFaults
  <2>1. MaxFaults \in Nat /\ faults = 0
    BY ProxyAssumption DEF Init
  <2> QED BY <2>1
<1>5. TypeOK
  BY <1>1, <1>4 DEF TypeOK, Init
<1> QED BY <1>1, <1>3, <1>5, NewSessionInv DEF CoreInv, TypeInv

\* The steps that put one session in a state s and count what Counting counts.
LEMMA CoreStep ==
    ASSUME CoreInv, NEW c \in Clients, NEW s \in Session, SessInv(s),
           sess' = [sess EXCEPT ![c] = s], ctxDone' = ctxDone, TypeOK', Counted'
    PROVE  CoreInv'
BY SessInvUpdate DEF CoreInv, TypeInv

LEMMA AcceptCore == ASSUME CoreInv, NEW c \in Clients, Accept(c) PROVE CoreInv'
<1> DEFINE s == [sess[c] EXCEPT !.phase = "startup"]
<1>1. s \in Session /\ SessInv(s) /\ sess' = [sess EXCEPT ![c] = s] /\ s.phase = "startup"
  BY DEF CoreInv, TypeInv, TypeOK, SessInv, Accept, Session, Phases, Serving
<1>2. Counted' /\ activeConns' \in Nat /\ sess' \in [Clients -> Session]
  <2>1. sess[c].phase = "none" /\ activeConns' = activeConns + 1
    BY DEF Accept
  <2> QED BY <1>1, <2>1, Counting DEF CoreInv
<1>3. TypeOK' /\ ctxDone' = ctxDone
  BY <1>2 DEF CoreInv, TypeInv, TypeOK, Accept, serverVars
<1> QED BY <1>1, <1>2, <1>3, CoreStep

LEMMA RefuseSSLCore == ASSUME CoreInv, NEW c \in Clients, RefuseSSL(c) PROVE CoreInv'
<1> DEFINE s == [sess[c] EXCEPT !.phase = "sslRefused"]
<1>1. s \in Session /\ SessInv(s) /\ sess' = [sess EXCEPT ![c] = s] /\ s.phase = "sslRefused"
  BY DEF CoreInv, TypeInv, TypeOK, SessInv, RefuseSSL, Session, Phases, Serving
<1>2. Counted' /\ activeConns' \in Nat /\ sess' \in [Clients -> Session]
  <2>1. sess[c].phase = "startup" /\ activeConns' = activeConns
    BY DEF RefuseSSL, proxyVars
  <2> QED BY <1>1, <2>1, Counting DEF CoreInv
<1>3. TypeOK' /\ ctxDone' = ctxDone
  BY <1>2 DEF CoreInv, TypeInv, TypeOK, RefuseSSL, serverVars, proxyVars
<1> QED BY <1>1, <1>2, <1>3, CoreStep

\* A session that goes on with its loop: only itself and activeConns change.
LEMMA ContinueCore ==
    ASSUME CoreInv, NEW c \in Clients, NEW s \in Session, s.late # 0 => ctxDone = "yes",
           sess[c].phase \notin {"none", "gone"},
           sess' = [sess EXCEPT ![c] = Continue(s)], activeConns' = NextActive,
           UNCHANGED <<run, listener, ctxDone>>,
           owner' \in [Conns -> Clients \cup {Nobody}], tx' \in [Conns -> {"I", "T", "E"}],
           work' \in [Conns -> SUBSET Writes],
           committed' \subseteq Writes, undone' \subseteq Writes, faults' \in 0..MaxFaults
    PROVE  CoreInv'
<1>1. Counted' /\ activeConns' \in Nat /\ sess' \in [Clients -> Session]
  BY CountingContinue DEF CoreInv
<1>2. SessInv(Continue(s)) /\ Continue(s) \in Session
  BY ContinueInv, ContinueType DEF CoreInv, TypeInv, TypeOK
<1>3. TypeOK'
  BY <1>1 DEF CoreInv, TypeInv, TypeOK
<1> QED BY <1>1, <1>2, <1>3, CoreStep

LEMMA StartupCore == ASSUME CoreInv, NEW c \in Clients, Startup(c) PROVE CoreInv'
<1>1. sess[c] \in Session /\ sess[c].late = 0
  BY DEF CoreInv, TypeInv, TypeOK, SessInv, Startup, Serving
<1>2. sess' = [sess EXCEPT ![c] = Continue(sess[c])]
  BY <1>1 DEF Startup, CoreInv, TypeInv, TypeOK
<1> QED
  BY <1>1, <1>2, ContinueCore DEF Startup, serverVars, CoreInv, TypeInv, TypeOK

LEMMA DisconnectCore == ASSUME CoreInv, NEW c \in Clients, Disconnect(c) PROVE CoreInv'
<1>1. Gone \in Session /\ SessInv(Gone) /\ Gone.phase = "gone"
  BY NewSessionType, NewSessionInv DEF Gone, NewSession
<1>2. Counted' /\ activeConns' \in Nat /\ sess' \in [Clients -> Session]
  <2>1. /\ sess[c].phase \notin {"none", "gone"} /\ activeConns' = activeConns - 1
        /\ sess' = [sess EXCEPT ![c] = Gone]
    BY DEF Disconnect
  <2> QED BY <1>1, <2>1, Counting DEF CoreInv
<1>3. TypeOK' /\ ctxDone' = ctxDone
  BY <1>2 DEF CoreInv, TypeInv, TypeOK, Disconnect, serverVars
<1> QED BY <1>1, <1>2, <1>3, CoreStep DEF Disconnect

LEMMA RouteType ==
    ASSUME NEW s, NEW i \in BOOLEAN, NEW f \in BOOLEAN
    PROVE  /\ Route(s, i, f)[1] \in BOOLEAN
           /\ Route(s, i, f)[2] \in BOOLEAN
           /\ Route(s, i, f)[3] \in BOOLEAN
<1>1. CASE ClassifyQuery(s) = "TXN"
  <2>1. Route(s, i, f) = <<FirstToken(s) \in {"BEGIN", "START", "begin", "start"}, FALSE, FALSE>>
    BY <1>1 DEF Route
  <2> QED BY <2>1
<1>2. CASE ClassifyQuery(s) # "TXN" /\ i
  <2>1. Route(s, i, f) = <<TRUE, f, FALSE>>
    BY <1>2 DEF Route
  <2> QED BY <2>1
<1>3. CASE ClassifyQuery(s) # "TXN" /\ ~i
  <2>1. Route(s, i, f) = <<FALSE, f, ClassifyQuery(s) = "READ">>
    BY <1>3 DEF Route
  <2> QED BY <2>1
<1> QED BY <1>1, <1>2, <1>3

\* A session at the end of its read has been counted as late at most once.
LEMMA LateOnce ==
    ASSUME CoreInv, NEW c \in Clients, Reads(c)
    PROVE  /\ Late(c) \in {0, 1} /\ Late(c) \in Nat
           /\ Late(c) # 0 => ctxDone = "yes"
           /\ sess[c].count + 1 \in Nat /\ sess[c].count + 1 # 0
<1>1. sess[c].late = 0
  BY DEF CoreInv, SessInv, Reads, Serving
<1>2. sess[c].count \in Nat
  BY DEF CoreInv, TypeInv, TypeOK, Session
<1> QED BY <1>1, <1>2 DEF Late

\* The session that a Query message leaves behind.
LEMMA AskedType ==
    ASSUME CoreInv, NEW c \in Clients, Reads(c), NEW s \in Statements, NEW r,
           r = Route(s, sess[c].inTransaction, sess[c].txFailed)
    PROVE  /\ Asked(c, s) \in Session
           /\ Asked(c, s).phase = "acquiring" /\ Asked(c, s).late = Late(c)
           /\ Asked(c, s).count = sess[c].count + 1
           /\ Asked(c, s).inTransaction = r[1] /\ Asked(c, s).txFailed = r[2]
           /\ Asked(c, s).useReplica = r[3]
           /\ Asked(c, s).intent = Intent(s, sess[c].intent)
<1>1. sess[c] \in Session /\ sess[c].inTransaction \in BOOLEAN /\ sess[c].txFailed \in BOOLEAN
  BY DEF CoreInv, TypeInv, TypeOK, Session
<1>2. r[1] \in BOOLEAN /\ r[2] \in BOOLEAN /\ r[3] \in BOOLEAN
  BY <1>1, RouteType
<1>3. s \in Statement
  BY ProxyAssumption
<1> DEFINE i == Intent(s, sess[c].intent)
           b == IF s.effect = "begin" THEN {} ELSE sess[c].block
           n == sess[c].count + 1
           l == Late(c)
<1>4. i \in {"I", "T"} /\ b \in SUBSET Writes
  BY <1>1 DEF Intent, Session
<1>5. n \in Nat /\ l \in Nat
  BY LateOnce
<1>6. Asked(c, s) = [sess[c] EXCEPT
        !.phase = "acquiring", !.stmt = s, !.inTransaction = r[1], !.txFailed = r[2],
        !.useReplica = r[3], !.count = n, !.late = l, !.intent = i, !.block = b]
  BY DEF Asked
<1> HIDE DEF i, b, n, l
<1>7. Asked(c, s) \in Session
  BY <1>1, <1>2, <1>3, <1>4, <1>5, <1>6 DEF Session, Phases
<1>8. /\ Asked(c, s).phase = "acquiring" /\ Asked(c, s).late = l /\ Asked(c, s).count = n
      /\ Asked(c, s).inTransaction = r[1] /\ Asked(c, s).txFailed = r[2]
      /\ Asked(c, s).useReplica = r[3] /\ Asked(c, s).intent = i
  BY <1>1, <1>6 DEF Session
<1> QED BY <1>7, <1>8 DEF i, n, l

LEMMA QueryCore == ASSUME CoreInv, NEW c \in Clients, Query(c) PROVE CoreInv'
<1>1. Reads(c) /\ sess[c].phase = "awaiting"
  BY DEF Query, Reads
<1>2. PICK s \in Statements : sess' = [sess EXCEPT ![c] = Asked(c, s)]
  BY DEF Query
<1>3. /\ Asked(c, s) \in Session /\ Asked(c, s).phase = "acquiring"
      /\ Asked(c, s).late = Late(c) /\ Asked(c, s).count = sess[c].count + 1
  BY <1>1, AskedType
<1>4. SessInv(Asked(c, s))
  BY <1>1, <1>3, LateOnce DEF SessInv, Serving
<1>5. Counted' /\ activeConns' \in Nat /\ sess' \in [Clients -> Session]
  <2>1. activeConns' = activeConns
    BY DEF Query, proxyVars
  <2> QED BY <1>1, <1>2, <1>3, <2>1, Counting DEF CoreInv
<1>6. TypeOK' /\ ctxDone' = ctxDone
  BY <1>5 DEF CoreInv, TypeInv, TypeOK, Query, proxyVars, serverVars
<1> QED BY <1>2, <1>3, <1>4, <1>5, <1>6, CoreStep

LEMMA RefusedType ==
    ASSUME CoreInv, NEW c \in Clients, Reads(c)
    PROVE  /\ Refused(c) \in Session /\ Refused(c).late = Late(c)
           /\ Refused(c).inTransaction = sess[c].inTransaction
           /\ Refused(c).txFailed = sess[c].txFailed /\ Refused(c).intent = sess[c].intent
           /\ Refused(c).reply = "unsupported"
<1> DEFINE n == sess[c].count + 1
           l == Late(c)
<1>1. sess[c] \in Session /\ n \in Nat /\ l \in Nat
  BY LateOnce DEF CoreInv, TypeInv, TypeOK
<1>2. Refused(c) = [sess[c] EXCEPT !.told = "I", !.count = n, !.late = l,
                                   !.outcome = "refused", !.reply = "unsupported"]
  BY DEF Refused
<1> HIDE DEF n, l
<1>3. /\ Refused(c) \in Session /\ Refused(c).late = l
      /\ Refused(c).inTransaction = sess[c].inTransaction
      /\ Refused(c).txFailed = sess[c].txFailed /\ Refused(c).intent = sess[c].intent
      /\ Refused(c).reply = "unsupported"
  BY <1>1, <1>2 DEF Session, Outcomes
<1> QED BY <1>3 DEF l

LEMMA RefuseCore == ASSUME CoreInv, NEW c \in Clients, Refuse(c) PROVE CoreInv'
<1>1. Reads(c) /\ sess[c].phase = "awaiting"
  BY DEF Refuse, Reads
<1>2. Refused(c) \in Session /\ (Refused(c).late # 0 => ctxDone = "yes")
  BY <1>1, RefusedType, LateOnce
<1> QED
  BY <1>1, <1>2, ContinueCore DEF Refuse, serverVars, CoreInv, TypeInv, TypeOK

\* A step that changes neither the phase nor the reads of a serving session.
LEMMA ServingCore ==
    ASSUME CoreInv, NEW c \in Clients, NEW s \in Session, sess[c].phase \in Serving,
           s.phase \in Serving, s.count = sess[c].count, s.late = sess[c].late,
           sess' = [sess EXCEPT ![c] = s], UNCHANGED proxyVars, TypeOK'
    PROVE  CoreInv'
<1>1. SessInv(s)
  BY DEF CoreInv, SessInv
<1>2. activeConns' = activeConns /\ ctxDone' = ctxDone
  BY DEF proxyVars
<1>3. Counted'
  BY <1>2, Counting DEF CoreInv, Serving
<1> QED BY <1>1, <1>2, <1>3, CoreStep

LEMMA AcquireCore == ASSUME CoreInv, NEW c \in Clients, Acquire(c) PROVE CoreInv'
<1> DEFINE s == [sess[c] EXCEPT !.phase = "running"]
<1>1. /\ s \in Session /\ s.phase = "running" /\ s.count = sess[c].count /\ s.late = sess[c].late
      /\ sess[c].phase = "acquiring" /\ sess' = [sess EXCEPT ![c] = s]
  BY DEF CoreInv, TypeInv, TypeOK, Acquire, Session, Phases
<1>2. sess' \in [Clients -> Session]
  BY <1>1, SessionUpdate DEF CoreInv, TypeInv, TypeOK
<1>3. TypeOK'
  BY <1>2 DEF CoreInv, TypeInv, TypeOK, Acquire, proxyVars, serverVars
<1>4. UNCHANGED proxyVars
  BY DEF Acquire
<1> QED BY <1>1, <1>3, <1>4, ServingCore DEF Serving

\* A fault is one of the bounded ones, or none.
LEMMA FaultType ==
    ASSUME faults \in 0..MaxFaults,
           UNCHANGED faults \/ (faults < MaxFaults /\ faults' = faults + 1)
    PROVE  faults' \in 0..MaxFaults
<1>1. MaxFaults \in Nat
  BY ProxyAssumption
<1> QED BY <1>1

\* A session that goes on after its error.
LEMMA ErroredInv ==
    ASSUME CoreInv, NEW c \in Clients, NEW o \in Outcomes
    PROVE  Errored(c, o) \in Session /\ (Errored(c, o).late # 0 => ctxDone = "yes")
<1>1. sess \in [Clients -> Session] /\ (sess[c].late # 0 => ctxDone = "yes")
  BY DEF CoreInv, TypeInv, TypeOK, SessInv
<1> QED BY <1>1, ErrorType

LEMMA AcquireFailsCore == ASSUME CoreInv, NEW c \in Clients, AcquireFails(c) PROVE CoreInv'
<1> DEFINE s == Errored(c, "refused")
<1>1. s \in Session /\ (s.late # 0 => ctxDone = "yes")
  BY ErroredInv DEF Outcomes
<1>2. sess' = [sess EXCEPT ![c] = Continue(s)] /\ sess[c].phase = "acquiring"
  BY DEF AcquireFails
<1> HIDE DEF s
<1>3. faults' \in 0..MaxFaults
  BY FaultType DEF AcquireFails, CoreInv, TypeInv, TypeOK
<1> QED
  BY <1>1, <1>2, <1>3, ContinueCore DEF AcquireFails, serverVars, CoreInv, TypeInv, TypeOK

LEMMA ReleaseType ==
    ASSUME TypeOK, NEW k \in Conns, Release(k)
    PROVE  /\ owner' \in [Conns -> Clients \cup {Nobody}] /\ tx' \in [Conns -> {"I", "T", "E"}]
           /\ work' \in [Conns -> SUBSET Writes]
BY DEF TypeOK, Release

LEMMA PrepareFailsCore == ASSUME CoreInv, NEW c \in Clients, PrepareFails(c) PROVE CoreInv'
<1> DEFINE s == Errored(c, "refused")
<1>1. s \in Session /\ (s.late # 0 => ctxDone = "yes")
  BY ErroredInv DEF Outcomes
<1>2. PICK k \in Conns : Release(k)
  BY DEF PrepareFails
<1>3. sess' = [sess EXCEPT ![c] = Continue(s)] /\ sess[c].phase = "running"
  BY DEF PrepareFails
<1> HIDE DEF s
<1>4. faults' \in 0..MaxFaults
  BY FaultType DEF PrepareFails, CoreInv, TypeInv, TypeOK
<1>5. TypeOK
  BY DEF CoreInv, TypeInv
<1> QED
  BY <1>1, <1>2, <1>3, <1>4, <1>5, ReleaseType, ContinueCore DEF PrepareFails, TypeOK

\* The statement has run, or failed, at the server.
LEMMA RanCore ==
    ASSUME CoreInv, NEW c \in Clients, NEW o \in Outcomes, sess[c].phase = "running",
           sess' = [sess EXCEPT ![c].phase = "relaying", ![c].outcome = o],
           UNCHANGED <<proxyVars, owner, undone>>,
           tx' \in [Conns -> {"I", "T", "E"}], work' \in [Conns -> SUBSET Writes],
           committed' \subseteq Writes, faults' \in 0..MaxFaults
    PROVE  CoreInv'
<1> DEFINE s == [sess[c] EXCEPT !.phase = "relaying", !.outcome = o]
<1>0. sess \in [Clients -> Session]
  BY DEF CoreInv, TypeInv, TypeOK
<1>4. sess' = [sess EXCEPT ![c] = s]
  BY <1>0
<1>1. /\ s \in Session /\ s.phase = "relaying" /\ s.count = sess[c].count /\ s.late = sess[c].late
  BY <1>0 DEF Session, Phases
<1>2. sess' \in [Clients -> Session]
  BY <1>0, <1>1, <1>4, SessionUpdate
<1>3. TypeOK'
  BY <1>2 DEF CoreInv, TypeInv, TypeOK, proxyVars
<1> QED BY <1>1, <1>3, <1>4, ServingCore DEF Serving

LEMMA ExecuteOkCore == ASSUME CoreInv, NEW c \in Clients, ExecuteOk(c) PROVE CoreInv'
<1>1. sess[c].phase = "running"
  BY DEF ExecuteOk
<1>2. PICK k \in Conns :
         /\ tx' = [tx EXCEPT ![k] = TxAfter(k, sess[c].stmt)]
         /\ work' = [work EXCEPT ![k] = IF tx'[k] = "T" THEN work[k] \cup Write(c, k) ELSE {}]
         /\ committed' = committed \cup Durable(c, k)
  BY DEF ExecuteOk
<1>3. Write(c, k) \subseteq Writes /\ Durable(c, k) \subseteq Writes
  BY <1>1, DurableType DEF Serving
<1>4. TxAfter(k, sess[c].stmt) \in {"I", "T", "E"}
  BY DEF TxAfter, CoreInv, TypeInv, TypeOK
<1>5. /\ tx' \in [Conns -> {"I", "T", "E"}] /\ work' \in [Conns -> SUBSET Writes]
      /\ committed' \subseteq Writes
  BY <1>2, <1>3, <1>4 DEF CoreInv, TypeInv, TypeOK
<1>6. UNCHANGED <<proxyVars, owner, undone>> /\ faults' \in 0..MaxFaults
  BY DEF ExecuteOk, CoreInv, TypeInv, TypeOK
<1>7. sess' = [sess EXCEPT ![c].phase = "relaying", ![c].outcome = "ok"]
  BY DEF ExecuteOk
<1> QED BY <1>1, <1>5, <1>6, <1>7, RanCore DEF Outcomes

LEMMA ExecuteFailsCore == ASSUME CoreInv, NEW c \in Clients, ExecuteFails(c) PROVE CoreInv'
<1>1. /\ sess[c].phase = "running" /\ UNCHANGED <<proxyVars, owner, undone>>
      /\ committed' = committed
  BY DEF ExecuteFails
<1>4. PICK o \in Outcomes : sess' = [sess EXCEPT ![c].phase = "relaying", ![c].outcome = o]
  BY DEF ExecuteFails, Failures, Outcomes
<1>2. /\ tx' \in [Conns -> {"I", "T", "E"}] /\ work' \in [Conns -> SUBSET Writes]
      /\ committed' \subseteq Writes
  BY <1>1 DEF ExecuteFails, CoreInv, TypeInv, TypeOK
<1>3. faults' \in 0..MaxFaults
  BY FaultType DEF ExecuteFails, CoreInv, TypeInv, TypeOK
<1> QED BY <1>1, <1>2, <1>3, <1>4, RanCore

LEMMA ConnectionLostCore == ASSUME CoreInv, NEW c \in Clients, ConnectionLost(c) PROVE CoreInv'
<1>1. sess[c].phase = "running" /\ UNCHANGED <<proxyVars, owner, undone>>
  BY DEF ConnectionLost
<1>6. PICK o \in Outcomes : sess' = [sess EXCEPT ![c].phase = "relaying", ![c].outcome = o]
  BY DEF ConnectionLost, Failures, Outcomes
<1>2. PICK k \in Conns : /\ committed' \in {committed, committed \cup Durable(c, k)}
                         /\ tx' = [tx EXCEPT ![k] = "I"] /\ work' = [work EXCEPT ![k] = {}]
  BY DEF ConnectionLost
<1>3. Durable(c, k) \subseteq Writes
  BY <1>1, DurableType DEF Serving
<1>4. /\ tx' \in [Conns -> {"I", "T", "E"}] /\ work' \in [Conns -> SUBSET Writes]
      /\ committed' \subseteq Writes
  BY <1>2, <1>3 DEF CoreInv, TypeInv, TypeOK
<1>5. faults' \in 0..MaxFaults
  BY FaultType DEF ConnectionLost, CoreInv, TypeInv, TypeOK
<1> QED BY <1>1, <1>4, <1>5, <1>6, RanCore

LEMMA RelayCore == ASSUME CoreInv, NEW c \in Clients, Relay(c) PROVE CoreInv'
<1>1. PICK k \in Conns : CloseRows(k)
  BY DEF Relay
<1> DEFINE s == IF SeesError(c) THEN Errored(c, "failed") ELSE Replied(c)
<1>2. sess' = [sess EXCEPT ![c] = Continue(s)] /\ sess[c].phase = "relaying"
  BY DEF Relay
<1>3. sess \in [Clients -> Session] /\ sess[c].count # 0 /\ (sess[c].late # 0 => ctxDone = "yes")
  BY <1>2 DEF CoreInv, TypeInv, TypeOK, SessInv, Serving
<1>4. s \in Session /\ (s.late # 0 => ctxDone = "yes")
  <2>1. "failed" \in Outcomes
    BY DEF Outcomes
  <2>2. Errored(c, "failed") \in Session /\ (Errored(c, "failed").late # 0 => ctxDone = "yes")
    BY <2>1, ErroredInv
  <2>3. Replied(c) \in Session /\ (Replied(c).late # 0 => ctxDone = "yes")
    BY <1>3, ReplyType
  <2> QED BY <2>2, <2>3
<1> HIDE DEF s
<1>5. undone' \subseteq Writes
  BY <1>3 DEF Relay, CoreInv, TypeInv, TypeOK, Session
<1>6. TypeOK
  BY DEF CoreInv, TypeInv
<1> QED
  BY <1>1, <1>2, <1>4, <1>5, <1>6, ReleaseType, ContinueCore DEF Relay, CloseRows, TypeOK

\* The steps of the accept loop and of the shutdown touch no session.
LEMMA RunCore ==
    ASSUME CoreInv, Cancel \/ CloseListener \/ AcceptFails \/ ClosePools
    PROVE  CoreInv'
<1>1. /\ UNCHANGED <<activeConns, sess, owner, serverVars, undone, faults>>
      /\ ctxDone' \in {ctxDone, "yes"} /\ listener' \in {listener, "closed"}
      /\ run' \in {run, "closingReplica", "closingPrimary", "returned"}
  BY DEF Cancel, CloseListener, AcceptFails, ClosePools, PoolCloses
<1>2. TypeOK'
  BY <1>1 DEF CoreInv, TypeInv, TypeOK, serverVars
<1>3. Counted'
  BY <1>1 DEF CoreInv, TypeInv, Counted, Live
<1>4. \A c \in Clients : SessInv(sess[c])'
  BY <1>1 DEF CoreInv, SessInv
<1> QED BY <1>2, <1>3, <1>4 DEF CoreInv, TypeInv

LEMMA CoreStutter == ASSUME CoreInv, UNCHANGED vars PROVE CoreInv'
BY DEF CoreInv, TypeInv, TypeOK, Counted, Live, SessInv, vars, proxyVars, serverVars

LEMMA CoreNext == CoreInv /\ [Next]_vars => CoreInv'
<1> SUFFICES ASSUME CoreInv, [Next]_vars PROVE CoreInv'
  OBVIOUS
<1>1. CASE UNCHANGED vars
  BY <1>1, CoreStutter
<1>2. CASE Cancel \/ CloseListener \/ AcceptFails \/ ClosePools
  BY <1>2, RunCore
<1>3. ASSUME NEW c \in Clients,
             \/ Accept(c) \/ RefuseSSL(c) \/ Startup(c) \/ Disconnect(c)
             \/ Query(c) \/ Refuse(c) \/ Serve(c)
      PROVE  CoreInv'
  BY <1>3, AcceptCore, RefuseSSLCore, StartupCore, DisconnectCore, QueryCore, RefuseCore,
     AcquireCore, AcquireFailsCore, ExecuteOkCore, PrepareFailsCore, ExecuteFailsCore,
     ConnectionLostCore, RelayCore DEF Serve, Execute
<1> QED BY <1>1, <1>2, <1>3 DEF Next

\* The states of the proxy, of its sessions and of the two servers stay well
\* typed, and Proxy.activeConns counts the goroutines that serve clients.
THEOREM ProxyTypeCorrect == Spec => [](TypeOK /\ Counted)
<1>1. CoreInv => TypeOK /\ Counted
  BY DEF CoreInv, TypeInv
<1> QED BY <1>1, CoreInit, CoreNext, PTL DEF Spec

\* Shutdown: a session reads at most one message after the context is cancelled,
\* whatever the number of messages and of sessions.
THEOREM LateMessages == Spec => []OneLateMessage
<1>1. CoreInv => OneLateMessage
  <2> SUFFICES ASSUME CoreInv, NEW c \in Clients PROVE sess[c].late <= 1
    BY DEF OneLateMessage
  <2>1. sess[c].late = 0 \/ sess[c].late = 1
    BY DEF CoreInv, SessInv
  <2> QED BY <2>1
<1> QED BY <1>1, CoreInit, CoreNext, PTL DEF Spec
-----------------------------------------------------------------------------
(* The connections. What a session holds is decided by its phase, so each  *)
(* step of a session is one of three kinds: it holds nothing before and    *)
(* after, it keeps what it holds, or it gives it back.                     *)

LEMMA HoldsNothing ==
    ASSUME CoreInv, ConnPerStatement, NEW c \in Clients, NEW s \in Session,
           sess[c].phase \notin {"running", "relaying"}, sess' = [sess EXCEPT ![c] = s],
           UNCHANGED owner
    PROVE  ConnPerStatement'
<1>1. \A d \in Clients \ {c} : sess'[d] = sess[d]
  BY SessionUpdate DEF CoreInv, TypeInv, TypeOK
<1>2. \A k \in Conns : owner[k] # Nobody => owner[k] \in Clients \ {c}
  BY DEF CoreInv, TypeInv, TypeOK, ConnPerStatement
<1> QED BY <1>1, <1>2 DEF ConnPerStatement, Pool

LEMMA KeepsIt ==
    ASSUME CoreInv, ConnPerStatement, NEW c \in Clients, NEW s \in Session,
           s.phase \in {"running", "relaying"}, s.useReplica = sess[c].useReplica,
           sess' = [sess EXCEPT ![c] = s], UNCHANGED owner
    PROVE  ConnPerStatement'
<1>1. sess'[c] = s /\ \A d \in Clients \ {c} : sess'[d] = sess[d]
  BY SessionUpdate DEF CoreInv, TypeInv, TypeOK
<1>2. \A k \in Conns : owner[k] # Nobody => owner[k] \in Clients
  BY DEF CoreInv, TypeInv, TypeOK
<1>3. ASSUME NEW k \in Conns, owner[k] # Nobody
      PROVE  sess'[owner[k]].phase \in {"running", "relaying"} /\ k \in Pool(owner[k])'
  <2>1. sess[owner[k]].phase \in {"running", "relaying"} /\ k \in Pool(owner[k])
    BY <1>3 DEF ConnPerStatement
  <2> QED BY <1>1, <1>2, <1>3, <2>1 DEF Pool
<1> QED BY <1>3 DEF ConnPerStatement

LEMMA GivesBack ==
    ASSUME CoreInv, ConnPerStatement, NEW c \in Clients, NEW s \in Session, NEW k \in Conns,
           owner[k] = c, sess' = [sess EXCEPT ![c] = s], owner' = [owner EXCEPT ![k] = Nobody]
    PROVE  ConnPerStatement'
<1>1. \A d \in Clients \ {c} : sess'[d] = sess[d]
  BY SessionUpdate DEF CoreInv, TypeInv, TypeOK
<1>2. c # Nobody
  BY ProxyAssumption
<1>3. \A j \in Conns : owner'[j] # Nobody =>
         j # k /\ owner'[j] = owner[j] /\ owner[j] \in Clients \ {c}
  BY <1>2 DEF CoreInv, TypeInv, TypeOK, ConnPerStatement
<1> QED BY <1>1, <1>3 DEF ConnPerStatement, Pool

LEMMA AcquirePools ==
    ASSUME CoreInv, ConnPerStatement, NEW c \in Clients, Acquire(c)
    PROVE  ConnPerStatement'
<1> DEFINE s == [sess[c] EXCEPT !.phase = "running"]
<1>1. sess[c] \in Session /\ sess \in [Clients -> Session] /\ sess[c].phase = "acquiring"
  BY DEF CoreInv, TypeInv, TypeOK, Acquire
<1>2. s \in Session /\ s.phase = "running" /\ s.useReplica = sess[c].useReplica
  BY <1>1 DEF Session, Phases
<1>3. sess'[c] = s /\ \A d \in Clients \ {c} : sess'[d] = sess[d]
  BY <1>1 DEF Acquire
<1>4. PICK k \in Pool(c) : owner[k] = Nobody /\ owner' = [owner EXCEPT ![k] = c]
  BY DEF Acquire
<1>5. k \in Conns
  BY <1>4 DEF Pool, Conns
<1>6. \A j \in Conns : owner[j] # Nobody => owner[j] \in Clients \ {c}
  BY <1>1 DEF CoreInv, TypeInv, TypeOK, ConnPerStatement
<1>7. owner'[k] = c /\ \A j \in Conns \ {k} : owner'[j] = owner[j]
  BY <1>4, <1>5 DEF CoreInv, TypeInv, TypeOK
<1>8. c # Nobody
  BY ProxyAssumption
<1>9. ASSUME NEW j \in Conns, owner'[j] # Nobody
      PROVE  /\ sess'[owner'[j]].phase \in {"running", "relaying"}
             /\ j \in Pool(owner[j])'
             /\ \A i \in Conns : owner'[i] = owner'[j] => i = j
  <2>1. CASE j = k
    <3>1. sess'[c].phase = "running" /\ j \in Pool(c)'
      BY <1>2, <1>3, <1>4, <2>1 DEF Pool
    <3>2. \A i \in Conns \ {k} : owner[i] # c
      BY <1>6, <1>8
    <3> QED BY <1>7, <2>1, <3>1, <3>2
  <2>2. CASE j # k
    <3>1. owner'[j] = owner[j] /\ owner[j] \in Clients \ {c}
      BY <1>6, <1>7, <1>9, <2>2
    <3>2. /\ sess[owner[j]].phase \in {"running", "relaying"} /\ j \in Pool(owner[j])
          /\ \A i \in Conns : owner[i] = owner[j] => i = j
      BY <1>9, <3>1 DEF ConnPerStatement
    <3>3. sess'[owner'[j]].phase \in {"running", "relaying"} /\ j \in Pool(owner[j])'
      BY <1>3, <3>1, <3>2 DEF Pool
    <3>4. owner'[k] # owner'[j]
      BY <1>7, <3>1
    <3> QED BY <1>7, <3>1, <3>2, <3>3, <3>4
  <2> QED BY <2>1, <2>2
<1> QED BY <1>9 DEF ConnPerStatement

\* A statement has run, or failed, on the connection of its session.
LEMMA RanPools ==
    ASSUME CoreInv, ConnPerStatement, NEW c \in Clients,
           ExecuteOk(c) \/ ExecuteFails(c) \/ ConnectionLost(c)
    PROVE  ConnPerStatement'
<1>1. PICK o \in Outcomes : sess' = [sess EXCEPT ![c].phase = "relaying", ![c].outcome = o]
  <2>1. "ok" \in Outcomes /\ Failures(sess[c].stmt) \subseteq Outcomes
    BY DEF Failures, Outcomes
  <2> QED BY <2>1 DEF ExecuteOk, ExecuteFails, ConnectionLost
<1> DEFINE s == [sess[c] EXCEPT !.phase = "relaying", !.outcome = o]
<1>2. sess \in [Clients -> Session]
  BY DEF CoreInv, TypeInv, TypeOK
<1>3. sess' = [sess EXCEPT ![c] = s]
  BY <1>1, <1>2
<1>4. s \in Session
  <2>1. sess[c] \in Session /\ "relaying" \in Phases
    BY <1>2 DEF Phases
  <2> QED BY <2>1 DEF Session
<1>5. s.phase = "relaying" /\ s.useReplica = sess[c].useReplica
  BY <1>2 DEF Session
<1>6. UNCHANGED owner
  BY DEF ExecuteOk, ExecuteFails, ConnectionLost
<1> HIDE DEF s
<1> QED BY <1>3, <1>4, <1>5, <1>6, KeepsIt

LEMMA EndPools ==
    ASSUME CoreInv, ConnPerStatement, NEW c \in Clients, PrepareFails(c) \/ Relay(c)
    PROVE  ConnPerStatement'
<1>1. PICK k \in Conns : owner[k] = c /\ owner' = [owner EXCEPT ![k] = Nobody]
  BY DEF PrepareFails, Relay, CloseRows, Release
<1>2. \E s : sess' = [sess EXCEPT ![c] = Continue(s)]
  BY DEF PrepareFails, Relay
<1>3. sess' \in [Clients -> Session]
  BY PrepareFailsCore, RelayCore DEF CoreInv, TypeInv, TypeOK
<1>4. sess' = [sess EXCEPT ![c] = sess'[c]] /\ sess'[c] \in Session
  BY <1>2, <1>3 DEF CoreInv, TypeInv, TypeOK
<1> QED BY <1>1, <1>4, GivesBack

LEMMA LoopPools ==
    ASSUME CoreInv, ConnPerStatement, NEW c \in Clients,
           \/ Accept(c) \/ RefuseSSL(c) \/ Startup(c) \/ Disconnect(c)
           \/ Query(c) \/ Refuse(c) \/ AcquireFails(c)
    PROVE  ConnPerStatement'
<1>1. UNCHANGED owner
  BY DEF Accept, RefuseSSL, Startup, Disconnect, Query, Refuse, AcquireFails
<1>2. /\ sess[c].phase \notin {"running", "relaying"}
      /\ \A d \in Clients \ {c} : sess'[d] = sess[d]
  BY DEF Accept, RefuseSSL, Startup, Disconnect, Query, Refuse, Reads, AcquireFails,
         CoreInv, TypeInv, TypeOK
<1>3. sess' \in [Clients -> Session]
  BY AcceptCore, RefuseSSLCore, StartupCore, DisconnectCore, QueryCore, RefuseCore,
     AcquireFailsCore DEF CoreInv, TypeInv, TypeOK
<1>4. sess' = [sess EXCEPT ![c] = sess'[c]] /\ sess'[c] \in Session
  BY <1>2, <1>3 DEF CoreInv, TypeInv, TypeOK
<1> QED BY <1>1, <1>2, <1>4, HoldsNothing

LEMMA PoolsNext == CoreInv /\ ConnPerStatement /\ [Next]_vars => ConnPerStatement'
<1> SUFFICES ASSUME CoreInv, ConnPerStatement, [Next]_vars PROVE ConnPerStatement'
  OBVIOUS
<1>1. CASE UNCHANGED <<sess, owner>>
  BY <1>1 DEF ConnPerStatement, Pool
<1>2. CASE UNCHANGED vars \/ Cancel \/ CloseListener \/ AcceptFails \/ ClosePools
  BY <1>1, <1>2 DEF vars, Cancel, CloseListener, AcceptFails, ClosePools
<1>3. ASSUME NEW c \in Clients,
             \/ Accept(c) \/ RefuseSSL(c) \/ Startup(c) \/ Disconnect(c)
             \/ Query(c) \/ Refuse(c) \/ Serve(c)
      PROVE  ConnPerStatement'
  BY <1>3, LoopPools, AcquirePools, RanPools, EndPools DEF Serve, Execute
<1> QED BY <1>2, <1>3 DEF Next

LEMMA PoolsInit == Init => ConnPerStatement
BY DEF Init, ConnPerStatement

\* A session has at most one connection, of the pool it was routed to, and only while
\* a statement of its own runs.
THEOREM OneConnection == Spec => []ConnPerStatement
BY CoreInit, CoreNext, PoolsInit, PoolsNext, PTL DEF Spec
-----------------------------------------------------------------------------
(* Routing. The pinning of a transaction rests on the first token: it is   *)
(* right for statements that are what their first token says, which is an  *)
(* assumption about what clients send. What the client is told agrees with *)
(* the routing for every statement, until a message that the proxy refuses *)
(* is answered.                                                            *)

PlainStatements == \A s \in Statements :
    /\ s.effect = "begin" => /\ ClassifyQuery(s) = "TXN"
                             /\ FirstToken(s) \in {"BEGIN", "START", "begin", "start"}
    /\ /\ ClassifyQuery(s) = "TXN"
       /\ FirstToken(s) \notin {"BEGIN", "START", "begin", "start"}
       => s.effect \in {"commit", "rollback"}

\* What is true of a session at every point of its loop.
Pinned(s) ==
    /\ s.txFailed => s.inTransaction
    /\ PlainStatements => (s.intent = "T" => s.inTransaction)

Told(s) == s.reply # "unsupported" => (s.told = "I" <=> ~s.inTransaction)

RouteInv(s) ==
    /\ Pinned(s)
    /\ s.phase \in Serving => (s.inTransaction => ~s.useReplica)
    /\ s.phase \notin Serving => Told(s)

RoutesInv == \A c \in Clients : RouteInv(sess[c])

LEMMA NewRouteInv == RouteInv(NewSession) /\ RouteInv(Gone)
BY DEF RouteInv, Pinned, Told, NewSession, Gone, Serving

LEMMA ContinueRoute ==
    ASSUME NEW s \in Session, Pinned(s), Told(s)
    PROVE  RouteInv(Continue(s))
<1>1. CASE Returns
  BY <1>1, ContinueType, NewRouteInv
<1>2. CASE ~Returns
  <2> DEFINE t == Continue(s)
  <2>1. /\ t.phase = "awaiting" /\ t.told = s.told /\ t.inTransaction = s.inTransaction
        /\ t.txFailed = s.txFailed /\ t.intent = s.intent /\ t.reply = s.reply
    BY <1>2, ContinueType
  <2> HIDE DEF t
  <2>2. RouteInv(t)
    BY <2>1 DEF RouteInv, Pinned, Told, Serving
  <2> QED BY <2>2 DEF t
<1> QED BY <1>1, <1>2

LEMMA RouteUpdate ==
    ASSUME CoreInv, RoutesInv, NEW c \in Clients, NEW s \in Session,
           sess' = [sess EXCEPT ![c] = s], RouteInv(s)
    PROVE  RoutesInv'
<1>1. sess'[c] = s /\ \A d \in Clients \ {c} : sess'[d] = sess[d]
  BY SessionUpdate DEF CoreInv, TypeInv, TypeOK
<1>2. ASSUME NEW d \in Clients PROVE RouteInv(sess[d])'
  <2>1. sess'[d] \in {s, sess[d]} /\ RouteInv(sess[d])
    BY <1>1 DEF RoutesInv
  <2> QED BY <1>1, <2>1 DEF RouteInv, Pinned, Told
<1> QED BY <1>2 DEF RoutesInv

\* A session whose phase changes and whose routing does not.
LEMMA SameRoute ==
    ASSUME CoreInv, RoutesInv, NEW c \in Clients, NEW s \in Session,
           s.phase \in Serving <=> sess[c].phase \in Serving, s.told = sess[c].told,
           s.reply = sess[c].reply,
           s.txFailed = sess[c].txFailed, s.inTransaction = sess[c].inTransaction,
           s.useReplica = sess[c].useReplica, s.intent = sess[c].intent,
           sess' = [sess EXCEPT ![c] = s]
    PROVE  RoutesInv'
<1>1. RouteInv(sess[c])
  BY DEF RoutesInv
<1>2. RouteInv(s)
  BY <1>1 DEF RouteInv, Pinned, Told
<1> QED BY <1>2, RouteUpdate

\* A session that goes on after an error, or after a reply.
LEMMA ContinueRoutes ==
    ASSUME CoreInv, RoutesInv, NEW c \in Clients, NEW s \in Session, Pinned(s), Told(s),
           sess' = [sess EXCEPT ![c] = Continue(s)]
    PROVE  RoutesInv'
BY RouteUpdate, ContinueRoute, ContinueType

LEMMA ErroredRoute ==
    ASSUME CoreInv, RoutesInv, NEW c \in Clients, NEW o \in Outcomes
    PROVE  Pinned(Errored(c, o)) /\ (Errored(c, o).told = "I" <=> ~Errored(c, o).inTransaction)
<1>1. sess \in [Clients -> Session] /\ Pinned(sess[c])
  BY DEF CoreInv, TypeInv, TypeOK, RoutesInv, RouteInv
<1> DEFINE e == Errored(c, o)
<1>2. /\ e.intent = sess[c].intent /\ e.inTransaction = sess[c].inTransaction
      /\ e.txFailed = (sess[c].txFailed \/ sess[c].inTransaction)
      /\ e.told = IF sess[c].txFailed \/ sess[c].inTransaction THEN "E" ELSE ReadyStatus(c)
  BY <1>1, ErrorType
<1> HIDE DEF e
<1>3. Pinned(e)
  BY <1>1, <1>2, Zenon DEF Pinned
<1>4. CASE sess[c].inTransaction
  <2>1. e.told = "E" /\ e.inTransaction
    BY <1>2, <1>4
  <2> QED BY <1>3, <2>1 DEF e
<1>5. CASE ~sess[c].inTransaction
  <2>1. ~sess[c].txFailed
    BY <1>1, <1>5 DEF Pinned
  <2>2. e.told = "I" /\ ~e.inTransaction
    BY <1>2, <1>5, <2>1 DEF ReadyStatus
  <2> QED BY <1>3, <2>2 DEF e
<1> QED BY <1>4, <1>5

LEMMA RepliedRoute ==
    ASSUME CoreInv, RoutesInv, NEW c \in Clients, sess[c].phase \in Serving
    PROVE  Pinned(Replied(c)) /\ (Replied(c).told = "I" <=> ~Replied(c).inTransaction)
<1>1. sess \in [Clients -> Session] /\ Pinned(sess[c]) /\ sess[c].count # 0
  BY DEF CoreInv, TypeInv, TypeOK, SessInv, RoutesInv, RouteInv
<1> DEFINE r == Replied(c)
<1>2. /\ r.intent = sess[c].intent /\ r.inTransaction = sess[c].inTransaction
      /\ r.txFailed = sess[c].txFailed /\ r.told = ReadyStatus(c)
  BY <1>1, ReplyType
<1> HIDE DEF r
<1>3. Pinned(r)
  BY <1>1, <1>2, Zenon DEF Pinned
<1>4. r.told = "I" <=> ~r.inTransaction
  <2>1. ReadyStatus(c) = "I" <=> ~sess[c].inTransaction
    BY DEF ReadyStatus
  <2> QED BY <1>2, <2>1, Zenon
<1> QED BY <1>3, <1>4 DEF r

\* What the switch of the loop decides.
LEMMA RouteFacts ==
    ASSUME NEW s \in Statements, NEW i \in BOOLEAN, NEW f \in BOOLEAN, f => i,
           NEW t, PlainStatements => (t = "T" => i)
    PROVE  /\ Route(s, i, f)[2] => Route(s, i, f)[1]
           /\ Route(s, i, f)[1] => ~Route(s, i, f)[3]
           /\ PlainStatements => (Intent(s, t) = "T" => Route(s, i, f)[1])
<1> DEFINE begins == FirstToken(s) \in {"BEGIN", "START", "begin", "start"}
<1>1. CASE ClassifyQuery(s) = "TXN"
  <2>1. Route(s, i, f) = <<begins, FALSE, FALSE>>
    BY <1>1 DEF Route
  <2>2. PlainStatements => (Intent(s, t) = "T" => begins)
    <3>1. ASSUME PlainStatements, ~begins PROVE Intent(s, t) # "T"
      BY <1>1, <3>1 DEF PlainStatements, Intent
    <3> QED BY <3>1
  <2>3. begins \in BOOLEAN
    OBVIOUS
  <2> HIDE DEF begins
  <2>4. /\ Route(s, i, f)[1] = begins
        /\ Route(s, i, f)[2] = FALSE /\ Route(s, i, f)[3] = FALSE
    BY <2>1, <2>3
  <2> QED BY <2>2, <2>4, Zenon
<1>2. CASE ClassifyQuery(s) # "TXN"
  <2>1. PlainStatements => (Intent(s, t) = "T" => i)
    BY <1>2 DEF PlainStatements, Intent
  <2>2. CASE i
    <3>1. Route(s, i, f) = <<TRUE, f, FALSE>>
      BY <1>2, <2>2 DEF Route
    <3> QED BY <3>1
  <2>3. CASE ~i
    <3>1. Route(s, i, f) = <<FALSE, f, ClassifyQuery(s) = "READ">>
      BY <1>2, <2>3 DEF Route
    <3>2. ~f
      BY <2>3
    <3>3. ~Route(s, i, f)[1] /\ ~Route(s, i, f)[2]
      BY <3>1, <3>2
    <3>4. PlainStatements => ~(Intent(s, t) = "T")
      BY <2>1, <2>3
    <3> QED BY <3>3, <3>4, Zenon
  <2> QED BY <2>2, <2>3
<1> QED BY <1>1, <1>2

LEMMA QueryRoutes ==
    ASSUME CoreInv, RoutesInv, NEW c \in Clients, Query(c)
    PROVE  RoutesInv'
<1>1. Reads(c) /\ sess[c] \in Session
  BY DEF Query, CoreInv, TypeInv, TypeOK
<1>2. PICK s \in Statements : sess' = [sess EXCEPT ![c] = Asked(c, s)]
  BY DEF Query
<1> DEFINE i == sess[c].inTransaction
           f == sess[c].txFailed
           a == Asked(c, s)
<1>3. i \in BOOLEAN /\ f \in BOOLEAN
  BY <1>1 DEF Session
<1>4. (f => i) /\ (PlainStatements => (sess[c].intent = "T" => i))
  BY DEF RoutesInv, RouteInv, Pinned
<1>5. /\ a \in Session /\ a.phase = "acquiring" /\ a.inTransaction = Route(s, i, f)[1]
      /\ a.txFailed = Route(s, i, f)[2] /\ a.useReplica = Route(s, i, f)[3]
      /\ a.intent = Intent(s, sess[c].intent)
  BY <1>1, AskedType
<1>6. /\ Route(s, i, f)[2] => Route(s, i, f)[1]
      /\ Route(s, i, f)[1] => ~Route(s, i, f)[3]
      /\ PlainStatements => (Intent(s, sess[c].intent) = "T" => Route(s, i, f)[1])
  BY <1>3, <1>4, RouteFacts
<1> HIDE DEF a, i, f
<1>7. Pinned(a)
  BY <1>5, <1>6, Zenon DEF Pinned
<1>8. a.inTransaction => ~a.useReplica
  BY <1>5, <1>6, Zenon
<1>9. RouteInv(a)
  BY <1>5, <1>7, <1>8 DEF RouteInv, Serving
<1> QED BY <1>2, <1>5, <1>9, RouteUpdate DEF a

LEMMA RefuseRoutes ==
    ASSUME CoreInv, RoutesInv, NEW c \in Clients, Refuse(c)
    PROVE  RoutesInv'
<1>1. Reads(c) /\ sess' = [sess EXCEPT ![c] = Continue(Refused(c))]
  BY DEF Refuse
<1>2. /\ Refused(c) \in Session /\ Refused(c).inTransaction = sess[c].inTransaction
      /\ Refused(c).txFailed = sess[c].txFailed /\ Refused(c).intent = sess[c].intent
      /\ Refused(c).reply = "unsupported"
  BY <1>1, RefusedType
<1>3. Pinned(sess[c])
  BY DEF RoutesInv, RouteInv
<1>4. Pinned(Refused(c))
  BY <1>2, <1>3, Zenon DEF Pinned
<1>5. Told(Refused(c))
  BY <1>2 DEF Told
<1> QED BY <1>1, <1>2, <1>4, <1>5, ContinueRoutes

LEMMA LoopRoutes ==
    ASSUME CoreInv, RoutesInv, NEW c \in Clients,
           Accept(c) \/ RefuseSSL(c) \/ Startup(c) \/ Disconnect(c)
    PROVE  RoutesInv'
<1>1. sess[c] \in Session /\ sess \in [Clients -> Session] /\ RouteInv(sess[c])
  BY DEF CoreInv, TypeInv, TypeOK, RoutesInv
<1>2. sess[c].phase \notin Serving
  BY DEF Accept, RefuseSSL, Startup, Disconnect, Serving
<1>3. ASSUME NEW p \in Phases \ Serving, sess' = [sess EXCEPT ![c].phase = p]
      PROVE  RoutesInv'
  <2> DEFINE s == [sess[c] EXCEPT !.phase = p]
  <2>1. sess' = [sess EXCEPT ![c] = s] /\ s \in Session /\ s.phase \notin Serving
    BY <1>1, <1>3 DEF Session
  <2>2. /\ s.told = sess[c].told /\ s.txFailed = sess[c].txFailed
        /\ s.inTransaction = sess[c].inTransaction /\ s.useReplica = sess[c].useReplica
        /\ s.intent = sess[c].intent /\ s.reply = sess[c].reply
    BY <1>1 DEF Session
  <2> HIDE DEF s
  <2> QED BY <1>2, <2>1, <2>2, SameRoute
<1>4. CASE Accept(c) \/ RefuseSSL(c)
  BY <1>3, <1>4 DEF Accept, RefuseSSL, Phases, Serving
<1>5. CASE Startup(c)
  <2>1. sess' = [sess EXCEPT ![c] = Continue(sess[c])]
    BY <1>1, <1>5 DEF Startup
  <2>2. Pinned(sess[c]) /\ Told(sess[c])
    BY <1>1, <1>2 DEF RouteInv
  <2> QED BY <1>1, <2>1, <2>2, ContinueRoutes
<1>6. CASE Disconnect(c)
  BY <1>6, NewSessionType, NewRouteInv, RouteUpdate DEF Disconnect
<1> QED BY <1>4, <1>5, <1>6

LEMMA ServeRoutes ==
    ASSUME CoreInv, RoutesInv, NEW c \in Clients, Serve(c)
    PROVE  RoutesInv'
<1>1. sess[c] \in Session /\ sess \in [Clients -> Session] /\ sess[c].phase \in Serving
  BY DEF CoreInv, TypeInv, TypeOK, Serve, Acquire, AcquireFails, Execute, ExecuteOk, PrepareFails,
         ExecuteFails, ConnectionLost, Relay, Serving
<1>2. ASSUME NEW p \in Serving, NEW o \in Outcomes,
             sess' = [sess EXCEPT ![c] = [sess[c] EXCEPT !.phase = p, !.outcome = o]]
      PROVE  RoutesInv'
  <2> DEFINE s == [sess[c] EXCEPT !.phase = p, !.outcome = o]
  <2>1. p \in Phases
    BY DEF Phases, Serving
  <2>2. s \in Session
    BY <1>1, <2>1 DEF Session
  <2>3. /\ s.phase = p /\ s.told = sess[c].told /\ s.txFailed = sess[c].txFailed
        /\ s.inTransaction = sess[c].inTransaction /\ s.useReplica = sess[c].useReplica
        /\ s.intent = sess[c].intent /\ s.reply = sess[c].reply
    BY <1>1 DEF Session
  <2>4. sess' = [sess EXCEPT ![c] = s]
    BY <1>2
  <2> HIDE DEF s
  <2> QED BY <1>1, <2>2, <2>3, <2>4, SameRoute
<1>3. ASSUME NEW s \in Session, Pinned(s), s.told = "I" <=> ~s.inTransaction,
             sess' = [sess EXCEPT ![c] = Continue(s)]
      PROVE  RoutesInv'
  BY <1>3, ContinueRoutes DEF Told
<1>4. /\ "failed" \in Outcomes /\ "refused" \in Outcomes /\ "ok" \in Outcomes
      /\ sess[c].outcome \in Outcomes
  BY <1>1 DEF Outcomes, Session
<1>5. CASE Acquire(c)
  <2>1. sess' = [sess EXCEPT ![c] = [sess[c] EXCEPT !.phase = "running", !.outcome = sess[c].outcome]]
    BY <1>1, <1>5 DEF Acquire, Session
  <2> QED BY <1>2, <1>4, <2>1 DEF Serving
<1>6. CASE ExecuteOk(c) \/ ExecuteFails(c) \/ ConnectionLost(c)
  <2>1. PICK o \in Outcomes : sess' = [sess EXCEPT ![c].phase = "relaying", ![c].outcome = o]
    <3>1. Failures(sess[c].stmt) \subseteq Outcomes
      BY DEF Failures, Outcomes
    <3> QED BY <1>4, <1>6, <3>1 DEF ExecuteOk, ExecuteFails, ConnectionLost
  <2>2. sess' = [sess EXCEPT ![c] = [sess[c] EXCEPT !.phase = "relaying", !.outcome = o]]
    BY <1>1, <2>1
  <2> QED BY <1>2, <2>2 DEF Serving
<1>7. CASE AcquireFails(c) \/ PrepareFails(c)
  <2>1. sess' = [sess EXCEPT ![c] = Continue(Errored(c, "refused"))]
    BY <1>7 DEF AcquireFails, PrepareFails
  <2> QED BY <1>1, <1>3, <1>4, <2>1, ErrorType, ErroredRoute
<1>8. CASE Relay(c)
  <2>1. \/ sess' = [sess EXCEPT ![c] = Continue(Errored(c, "failed"))]
        \/ sess' = [sess EXCEPT ![c] = Continue(Replied(c))]
    BY <1>8 DEF Relay
  <2>2. sess[c].count # 0
    BY <1>1 DEF CoreInv, SessInv
  <2>3. Replied(c) \in Session /\ Errored(c, "failed") \in Session
    BY <1>1, <1>4, <2>2, ReplyType, ErrorType
  <2> QED BY <1>1, <1>3, <1>4, <2>1, <2>3, ErroredRoute, RepliedRoute
<1> QED BY <1>5, <1>6, <1>7, <1>8 DEF Serve, Execute

LEMMA RoutesNext == CoreInv /\ RoutesInv /\ [Next]_vars => RoutesInv'
<1> SUFFICES ASSUME CoreInv, RoutesInv, [Next]_vars PROVE RoutesInv'
  OBVIOUS
<1>1. CASE UNCHANGED sess
  BY <1>1 DEF RoutesInv, RouteInv, Pinned, Told
<1>2. CASE UNCHANGED vars \/ Cancel \/ CloseListener \/ AcceptFails \/ ClosePools
  BY <1>1, <1>2 DEF vars, Cancel, CloseListener, AcceptFails, ClosePools
<1>3. ASSUME NEW c \in Clients,
             \/ Accept(c) \/ RefuseSSL(c) \/ Startup(c) \/ Disconnect(c)
             \/ Query(c) \/ Refuse(c) \/ Serve(c)
      PROVE  RoutesInv'
  BY <1>3, LoopRoutes, QueryRoutes, RefuseRoutes, ServeRoutes
<1> QED BY <1>2, <1>3 DEF Next

LEMMA RoutesInit == Init => RoutesInv
BY NewRouteInv DEF Init, RoutesInv

\* Every statement between BEGIN and COMMIT or ROLLBACK goes to the primary, whatever
\* was refused, failed or lost in between, when statements are what their first
\* token says.
THEOREM TransactionsPinned == PlainStatements => (Spec => []PinnedUntilEnd)
<1> SUFFICES ASSUME PlainStatements PROVE Spec => []PinnedUntilEnd
  OBVIOUS
<1>1. RoutesInv => PinnedUntilEnd
  BY DEF RoutesInv, RouteInv, Pinned, PinnedUntilEnd
<1> QED BY <1>1, CoreInit, CoreNext, RoutesInit, RoutesNext, PTL DEF Spec

\* A client that waits has been told "idle" exactly when its next read is routed as
\* outside of a transaction, for every statement it may send in Query messages, unless
\* its last message was one that the proxy refuses.
THEOREM StatusTrue == Spec => []StatusMatchesRouting
<1>1. RoutesInv => StatusMatchesRouting
  BY DEF RoutesInv, RouteInv, Told, StatusMatchesRouting, Serving
<1> QED BY <1>1, CoreInit, CoreNext, RoutesInit, RoutesNext, PTL DEF Spec
=============================================================================
