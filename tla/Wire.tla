-------------------------------- MODULE Wire --------------------------------
(***************************************************************************)
(* internal/proxy/proxy.go, byte by byte: one client connection, from its  *)
(* startup message to its end. What the client and the server behind the   *)
(* proxy do is external; the proxy's two directions are the helpers at the *)
(* end of the file (readRawMessage, extractSQL, parseStartupParams and the *)
(* send functions), driven by handleClient and executeAndRelay.            *)
(***************************************************************************)
EXTENDS Scanner, Integers

CONSTANTS
    Scripts,        \* the sequences of requests [type, sql] that a client may send
    Results,        \* how the server may answer a statement
    Startups,       \* what a client may ask for: [user, database]
    ServerParams,   \* the <<name, value>> pairs of sendAuthOk
    MaxStartupLen   \* 10000 in readRawMessage

VARIABLES
    client,         \* where the client is: "new", "ssl", "started", "closed"
    asked,          \* the startup parameters it sent
    sent,           \* the requests it sent in full
    inbox,          \* bytes on their way to the proxy
    phase,          \* handleClient: "startup", "sslRefused", "loop", "gone"
    params,         \* the user and database it has parsed
    got,            \* the requests it has taken, with their routing
    inTransaction, txFailed,
    outbox,         \* bytes written to the client
    replies         \* the messages they stand for

\* What the bytes of a number count.
Place == <<256 * 256 * 256, 256 * 256, 256, 1>>

\* A string of the protocol has no NUL, and the length of a message is an Int32.
Text == Seq(1..255)
MaxInt32 == 127 * Place[1] + (Place[1] - 1)

\* A column's table, number, type, type's size, modifier and format: the widths of the
\* numbers on the wire and in Go, and which have a sign there.
Widths == <<4, 2, 4, 2, 4, 2>>
Signed == <<FALSE, FALSE, FALSE, TRUE, TRUE, TRUE>>

FitsIn(n, k) == n \div Place[5 - Widths[k]] \in IF Signed[k] THEN -128..127 ELSE 0..255

FieldDescription ==
    [name: Text, nums: {nums \in [1..6 -> Int] : \A k \in 1..6 : FitsIn(nums[k], k)}]

\* A value is {bytes}, or {} for NULL.
Value == {v \in SUBSET Seq(Byte) : \A a, b \in v : a = b}

Answer == [is: {"ok", "refused", "failed"}, fields: Seq(FieldDescription),
           rows: Seq(Seq(Value)), tag: Text, error: Text]

ASSUME WireAssumption ==
    /\ MaxStartupLen \in Nat
    /\ Startups \subseteq [user: Text, database: Text]
    /\ \A a \in Startups : Len(a.user) + Len(a.database) + 15 <= MaxInt32
    /\ Scripts \subseteq Seq([type: {"Q", "P"}, sql: Text])
    /\ \A script \in Scripts : \A i \in DOMAIN script : Len(script[i].sql) + 8 <= MaxInt32
    /\ Results \subseteq Answer
    /\ ServerParams \in Seq(Text \X Text)

clientVars == <<client, asked, sent>>
vars == <<clientVars, inbox, phase, params, got, inTransaction, txFailed, outbox, replies>>

Params == [user: Seq(Byte), database: Seq(Byte)]
NoParams == [user |-> <<>>, database |-> <<>>]
SSLCode == 1234 * Place[2] + 5679    \* 80877103
-----------------------------------------------------------------------------
(* Bytes. *)

\* Mutant: a negative number is not converted.
MutNoWrap(n, w) == [i \in 1..w |-> IF i = w THEN n % 256 ELSE n \div Place[4 - w + i]]

\* The low w bytes of n, the highest first: binary.BigEndian. Negative numbers wrap.
Bytes(n, w) == [i \in 1..w |-> (n \div Place[4 - w + i]) % 256]
Int32(n) == Bytes(n, 4)
Int16(n) == Bytes(n, 2)

\* What they encode, as a number without a sign (binary.BigEndian) and with one.
Unsigned(b) ==
    LET high == 256 * b[1] + b[2]
    IN  IF Len(b) = 2 THEN high ELSE Place[2] * high + 256 * b[3] + b[4]

Number(b) ==
    LET high == 256 * (IF b[1] >= 128 THEN b[1] - 256 ELSE b[1]) + b[2]
    IN  IF Len(b) = 2 THEN high ELSE Place[2] * high + 256 * b[3] + b[4]

\* make([]byte, n) with body copied to its front.
Filled(n, body) == [i \in 1..n |-> IF i <= Len(body) THEN body[i] ELSE 0]

\* A message of the given type and length field.
Frame(type, payloadLen, body) == <<type>> \o Int32(payloadLen) \o Filled(payloadLen - 4, body)

CString(s) == s \o <<0>>

SumOf(f) ==
    LET sum[i \in 0..Len(f)] == IF i = 0 THEN 0 ELSE sum[i - 1] + f[i]
    IN  sum[Len(f)]
-----------------------------------------------------------------------------
(* The send functions. A message is <<type, ...>>, and Code its first byte. *)

Code == [R |-> 82, S |-> 83, K |-> 75, Z |-> 90, E |-> 69, C |-> 67, T |-> 84, D |-> 68,
         Q |-> 81, P |-> 80, X |-> 88, N |-> 78, M |-> 77, I |-> 73]

sendParameterStatus(key, value) ==
    Frame(Code.S, 4 + Len(key) + 1 + Len(value) + 1, CString(key) \o CString(value))

sendReadyForQuery(status) == <<Code.Z>> \o Int32(5) \o <<Code[status]>>

\* "SELECT 0", the text of the refusal, and "ERROR".
SelectZero == <<83, 48>>
Unsupported == <<111, 110>>
Severity == <<69, 82, 82, 79, 82>>

sendError(errMsg) ==
    Frame(Code.E, 4 + 1 + Len(Severity) + 1 + 1 + Len(errMsg) + 1 + 1,
          <<Code.S>> \o CString(Severity) \o <<Code.M>> \o CString(errMsg) \o <<0>>)

sendCommandComplete(tag) == Frame(Code.C, 4 + Len(tag) + 1, CString(tag))

FieldBytes(f) ==
    CString(f.name) \o FlattenSeq([k \in DOMAIN Widths |-> Bytes(f.nums[k], Widths[k])])

sendRowDescription(fields) ==
    Frame(Code.T, 4 + 2 + SumOf([i \in DOMAIN fields |-> Len(fields[i].name) + 1 + SumOf(Widths)]),
          Int16(Len(fields)) \o FlattenSeq([i \in DOMAIN fields |-> FieldBytes(fields[i])]))

ValueOf(v) == CHOOSE b \in v : TRUE

ValueBytes(v) == IF v = {} THEN Int32(-1) ELSE Int32(Len(ValueOf(v))) \o ValueOf(v)

\* Mutant: nothing is counted for a NULL.
MutNullIsFree(v) == IF v = {} THEN 0 ELSE 4 + Len(ValueOf(v))

ValueSize(v) == IF v = {} THEN 4 ELSE 4 + Len(ValueOf(v))

sendDataRow(values) ==
    Frame(Code.D, 4 + 2 + SumOf([i \in DOMAIN values |-> ValueSize(values[i])]),
          Int16(Len(values)) \o FlattenSeq([i \in DOMAIN values |-> ValueBytes(values[i])]))

Encode(m) == CASE m[1] = "R" -> <<Code.R>> \o Int32(8) \o Int32(0)
               [] m[1] = "K" -> <<Code.K>> \o Int32(12) \o Int32(1) \o Int32(1)
               [] m[1] = "S" -> sendParameterStatus(m[2], m[3])
               [] m[1] = "Z" -> sendReadyForQuery(m[2])
               [] m[1] = "E" -> sendError(m[2])
               [] m[1] = "C" -> sendCommandComplete(m[2])
               [] m[1] = "T" -> sendRowDescription(m[2])
               [] m[1] = "D" -> sendDataRow(m[2])

\* A message that the protocol can carry: its length is an Int32, its count an Int16.
Sendable(m) == Len(Encode(m)) <= MaxInt32 /\ (m[1] \in {"T", "D"} => Len(m[2]) < 128 * 256)

\* What the server answers came in such messages. The numbers of columns and of bytes in
\* a row are PostgreSQL's limits.
ASSUME AnswersFit ==
    /\ \A i \in DOMAIN ServerParams : Sendable(<<"S", ServerParams[i][1], ServerParams[i][2]>>)
    /\ \A r \in Results : /\ Sendable(<<"T", r.fields>>)
                          /\ \A i \in DOMAIN r.rows : Sendable(<<"D", r.rows[i]>>)
                          /\ Sendable(<<"C", r.tag>>) /\ Sendable(<<"E", r.error>>)

\* The messages of sendAuthOk.
sendAuthOk ==
    <<<<"R">>>> \o [i \in DOMAIN ServerParams |-> <<"S", ServerParams[i][1], ServerParams[i][2]>>]
    \o <<<<"K">>, <<"Z", "I">>>>

Write(msgs) ==
    /\ outbox' = outbox \o FlattenSeq([i \in DOMAIN msgs |-> Encode(msgs[i])])
    /\ replies' = replies \o msgs
-----------------------------------------------------------------------------
(* Reading from the client. *)

\* readRawMessage, startup: the length comes first and counts itself. "short" is a
\* message that is not all there: io.ReadFull waits for the rest, or fails at the end.
readStartup(b) ==
    LET msgLen == Unsigned(SubSeq(b, 1, 4))
    IN  CASE Len(b) < 4 -> [is |-> "short"]
          [] Len(b) >= 4 /\ (msgLen < 4 \/ msgLen > MaxStartupLen) -> [is |-> "invalid"]
          [] Len(b) >= 4 /\ msgLen \in 4..MaxStartupLen /\ Len(b) < msgLen -> [is |-> "short"]
          [] OTHER -> [is |-> "ok", msg |-> SubSeq(b, 1, msgLen), rest |-> From(b, msgLen + 1)]

\* Mutant: the type byte is not counted.
MutNoTypeByte(msgLen) == msgLen

\* How long a message is with its type byte.
MessageLen(msgLen) == 1 + msgLen

\* readRawMessage, after the startup.
readRawMessage(b) ==
    LET msgLen == Unsigned(SubSeq(b, 2, 5))
    IN  CASE Len(b) < 5 -> [is |-> "short"]
          [] Len(b) >= 5 /\ msgLen < 4 -> [is |-> "invalid"]
          [] Len(b) >= 5 /\ msgLen >= 4 /\ Len(b) < MessageLen(msgLen) -> [is |-> "short"]
          [] OTHER -> [is |-> "ok", msg |-> SubSeq(b, 1, MessageLen(msgLen)),
                       rest |-> From(b, MessageLen(msgLen) + 1)]

\* The bytes before the first NUL; "keyEnd := 0" when there is none.
UpToNul(b) == LET i == IndexOf(b, {0}) IN IF i = 0 THEN <<>> ELSE SubSeq(b, 1, i - 1)

UserKey == <<117>>
DatabaseKey == <<100>>

\* A round of the loop of parseStartupParams, over what follows the length and version.
\* The code panics when a key or a value that no NUL ends is the last of the message: a
\* client ends its strings, so that From is never asked for more than there is.
ParseParam ==
    [st \in [rest: Seq(Byte), params: Params] |->
        LET key == UpToNul(st.rest)
            afterKey == From(st.rest, Len(key) + 2)
            value == UpToNul(afterKey)
        IN  IF Len(st.rest) <= 1 THEN st
            ELSE [rest |-> From(afterKey, Len(value) + 2),
                  params |-> CASE key = UserKey -> [st.params EXCEPT !.user = value]
                               [] key = DatabaseKey -> [st.params EXCEPT !.database = value]
                               [] OTHER -> st.params]]

\* Each round takes two bytes at least.
parseStartupParams(msg) ==
    IF Len(msg) < 8 THEN NoParams
    ELSE Iterated(ParseParam, [rest |-> From(msg, 9), params |-> NoParams], Len(msg)).params

\* extractSQL of a Query; its branch for Parse has no caller.
extractSQL(msg) ==
    LET payload == From(msg, 6)
    IN  IF IndexOf(payload, {0}) = 0 THEN payload ELSE UpToNul(payload)
-----------------------------------------------------------------------------
Init ==
    /\ client = "new" /\ asked = NoParams /\ sent = <<>> /\ inbox = <<>>
    /\ phase = "startup" /\ params = NoParams /\ got = <<>>
    /\ inTransaction = FALSE /\ txFailed = FALSE
    /\ outbox = <<>> /\ replies = <<>>

(* The client (external). *)

proxyVars == <<phase, params, got, inTransaction, txFailed, replies>>

SSLRequest == Int32(8) \o Int32(SSLCode)

SendSSLRequest ==
    /\ client = "new" /\ client' = "ssl"
    /\ inbox' = SSLRequest
    /\ UNCHANGED <<asked, sent, outbox, proxyVars>>

StartupBody(a) ==
    Int32(3 * Place[2]) \o CString(UserKey) \o CString(a.user)
    \o CString(DatabaseKey) \o CString(a.database) \o <<0>>

StartupBytes(a) == Int32(4 + Len(StartupBody(a))) \o StartupBody(a)

\* After an SSLRequest the client waits for the refusal.
SendStartup ==
    /\ client = "new" \/ (client = "ssl" /\ outbox = <<Code.N>>)
    /\ client' = "started"
    /\ asked' \in Startups
    /\ inbox' = StartupBytes(asked')
    /\ outbox' = <<>>
    /\ UNCHANGED <<sent, proxyVars>>

\* Requests may be sent before earlier ones are answered.
RequestBytes(type, sql) ==
    IF type = "Q" THEN <<Code.Q>> \o Int32(4 + Len(sql) + 1) \o CString(sql)
    ELSE <<Code.P>> \o Int32(4 + 1 + Len(sql) + 1 + 2) \o <<0>> \o CString(sql) \o Int16(0)

SendRequest ==
    /\ client = "started"
    /\ \E script \in Scripts :
          /\ IsStrictPrefix(sent, script)
          /\ LET request == script[Len(sent) + 1]
             IN  /\ inbox' = inbox \o RequestBytes(request.type, request.sql)
                 /\ sent' = Append(sent, request)
    /\ UNCHANGED <<client, asked, outbox, proxyVars>>

\* The client goes away: at once, with a Terminate, or in the middle of a Query.
Leave ==
    /\ client # "closed" /\ client' = "closed"
    /\ \/ UNCHANGED inbox
       \/ client = "started" /\ inbox' = inbox \o <<Code.X>> \o Int32(4)
       \/ /\ client = "started"
          /\ \E n \in {3, 6} : inbox' = inbox \o SubSeq(RequestBytes("Q", <<73, 78>>), 1, n)
    /\ UNCHANGED <<asked, sent, outbox, proxyVars>>
-----------------------------------------------------------------------------
(* handleClient. *)

sessionVars == <<got, inTransaction, txFailed>>

Return == phase' = "gone" /\ UNCHANGED <<params, sessionVars, outbox, replies>>

\* Steps 1 to 3: an SSLRequest is refused once, anything else is the startup message.
ReadStartup ==
    /\ phase \in {"startup", "sslRefused"}
    /\ LET r == readStartup(inbox)
           isSSL == Len(r.msg) = 8 /\ Unsigned(SubSeq(r.msg, 5, 8)) = SSLCode
       IN  \/ /\ r.is = "ok" /\ phase = "startup" /\ isSSL
              /\ phase' = "sslRefused" /\ inbox' = r.rest
              /\ outbox' = outbox \o <<Code.N>>
              /\ UNCHANGED <<params, sessionVars, replies>>
           \/ /\ r.is = "ok" /\ ~(phase = "startup" /\ isSSL)
              /\ phase' = "loop" /\ inbox' = r.rest
              /\ params' = parseStartupParams(r.msg)
              /\ Write(sendAuthOk)
              /\ UNCHANGED sessionVars
    /\ UNCHANGED clientVars

\* executeAndRelay: the messages it writes, and whether it returns an error. The
\* server refuses a statement, or fails it while its rows are read; rows.Err is only
\* looked at when there are columns.
Fails(r) == r.is = "refused" \/ (r.is = "failed" /\ r.fields # <<>>)

Relayed(r, readyStatus) ==
    (IF r.is = "refused" \/ r.fields = <<>> THEN <<>>
     ELSE <<<<"T", r.fields>>>> \o [i \in DOMAIN r.rows |-> <<"D", r.rows[i]>>])
    \o (IF Fails(r) THEN <<>>
        ELSE <<<<"C", IF r.tag = <<>> THEN SelectZero ELSE r.tag>>, <<"Z", readyStatus>>>>)

\* Mutant: the error is not followed by ReadyForQuery.
MutErrorOnly(errMsg, status) == <<<<"E", errMsg>>>>

\* What handleClient writes for an error.
ErrorReply(errMsg, status) == <<<<"E", errMsg>>, <<"Z", status>>>>

\* A Query message: route it, run it, relay the result.
TakeQuery(sql) ==
    LET route == Route(Reduced(sql), inTransaction, txFailed)
        readyStatus == IF route[1] THEN "T" ELSE "I"
    IN  \E r \in Results :
          LET failed == route[2] \/ (Fails(r) /\ route[1])
          IN  /\ inTransaction' = route[1] /\ txFailed' = failed
              /\ got' = Append(got, [type |-> "Q", sql |-> sql, useReplica |-> route[3]])
              /\ Write(Relayed(r, readyStatus) \o
                       (IF Fails(r) THEN ErrorReply(r.error, IF failed THEN "E" ELSE readyStatus)
                        ELSE <<>>))

\* One iteration of the message loop. Messages other than Query and Terminate are
\* answered with an error and the status 'I'.
ReadMessage ==
    /\ phase = "loop"
    /\ LET r == readRawMessage(inbox)
           type == r.msg[1]
       IN  /\ r.is = "ok"
           /\ inbox' = r.rest
           /\ \/ type = Code.X /\ Return
              \/ type = Code.Q /\ TakeQuery(extractSQL(r.msg)) /\ UNCHANGED <<phase, params>>
              \/ /\ type \notin {Code.X, Code.Q}
                 /\ got' = Append(got, [type |-> "P", sql |-> <<>>, useReplica |-> FALSE])
                 /\ Write(ErrorReply(Unsupported, "I"))
                 /\ UNCHANGED <<phase, params, inTransaction, txFailed>>
    /\ UNCHANGED clientVars

\* The client is gone before the message is all there, or its length is invalid.
ReadFails ==
    /\ phase # "gone"
    /\ LET r == IF phase = "loop" THEN readRawMessage(inbox) ELSE readStartup(inbox)
       IN  r.is = "invalid" \/ (r.is = "short" /\ client = "closed")
    /\ Return
    /\ UNCHANGED <<inbox, clientVars>>
-----------------------------------------------------------------------------
Next ==
    \/ SendSSLRequest \/ SendStartup \/ SendRequest \/ Leave
    \/ ReadStartup \/ ReadMessage \/ ReadFails

Spec == Init /\ [][Next]_vars
-----------------------------------------------------------------------------
(***************************************************************************)
(* External: how a client reads what it is sent, by the message formats of *)
(* PostgreSQL's protocol. A message, and in it a string, a column or a     *)
(* value, says where it ends and the next one begins; 0 is the size of one *)
(* that does not.                                                          *)
(***************************************************************************)
MessageSize ==
    [b \in Seq(Byte) |->
        LET len == Number(SubSeq(b, 2, 5)) IN IF Len(b) < 5 \/ len < 4 THEN 0 ELSE 1 + len]

StringSize == [b \in Seq(Byte) |-> IndexOf(b, {0})]

ColumnSize ==
    [b \in Seq(Byte) |-> LET nul == IndexOf(b, {0}) IN IF nul = 0 THEN 0 ELSE nul + SumOf(Widths)]

DatumSize ==
    [b \in Seq(Byte) |->
        LET len == Number(SubSeq(b, 1, 4))
        IN  IF Len(b) < 4 \/ len < -1 THEN 0 ELSE IF len = -1 THEN 4 ELSE 4 + len]

\* What is left of b behind the first n pieces.
Behind(size, b, n) ==
    Iterated([s \in Seq(Byte) |-> IF size[s] \in 1..Len(s) THEN From(s, size[s] + 1) ELSE <<>>], b, n)

Piece(size, b, i) == LET s == Behind(size, b, i - 1) IN SubSeq(s, 1, size[s])

\* b is n pieces and nothing else.
Cuts(size, b, n) ==
    /\ Behind(size, b, n) = <<>>
    /\ \A i \in 1..n : LET s == Behind(size, b, i - 1) IN size[s] \in 1..Len(s)

Offsets == <<0, 4, 6, 10, 12, 16>>

DecodeColumn(b) ==
    LET rest == From(b, IndexOf(b, {0}) + 1)
        num(k) == SubSeq(rest, Offsets[k] + 1, Offsets[k] + Widths[k])
    IN  [name |-> UpToNul(b),
         nums |-> [k \in 1..6 |-> IF Signed[k] THEN Number(num(k)) ELSE Unsigned(num(k))]]

DecodeDatum(b) == IF Number(SubSeq(b, 1, 4)) = -1 THEN {} ELSE {From(b, 5)}

\* An error is fields, the last of them empty; the client wants the one that starts with 'M'.
IsError(b, n, m) ==
    /\ Cuts(StringSize, b, n) /\ m \in 1..n /\ Piece(StringSize, b, m)[1] = Code.M
    /\ \A i \in 1..n : Piece(StringSize, b, i) = <<0>> <=> i = n

DecodeMessage(msg) ==
    LET type == msg[1]
        b == From(msg, 6)
        string(i) == UpToNul(Piece(StringSize, b, i))
        n == Number(SubSeq(b, 1, 2))
        parts == From(b, 3)
    IN  CASE type = Code.R /\ b = Int32(0) -> <<"R">>
          [] type = Code.K /\ Len(b) = 8 -> <<"K">>
          [] type = Code.S /\ Cuts(StringSize, b, 2) -> <<"S", string(1), string(2)>>
          [] type = Code.C /\ Cuts(StringSize, b, 1) -> <<"C", string(1)>>
          [] type = Code.Z /\ Len(b) = 1 -> <<"Z", CHOOSE s \in {"I", "T", "E"} : Code[s] = b[1]>>
          [] type = Code.E /\ (\E k, m \in 1..Len(b) : IsError(b, k, m)) ->
                <<"E", Tail(string(CHOOSE m \in 1..Len(b) : \E k \in 1..Len(b) : IsError(b, k, m)))>>
          [] type = Code.T /\ Cuts(ColumnSize, parts, n) ->
                <<"T", [i \in 1..n |-> DecodeColumn(Piece(ColumnSize, parts, i))]>>
          [] type = Code.D /\ Cuts(DatumSize, parts, n) ->
                <<"D", [i \in 1..n |-> DecodeDatum(Piece(DatumSize, parts, i))]>>
          [] OTHER -> <<"garbled">>
-----------------------------------------------------------------------------
(* Properties. *)

WireTypeOK ==
    /\ client \in {"new", "ssl", "started", "closed"}
    /\ phase \in {"startup", "sslRefused", "loop", "gone"}
    /\ inTransaction \in BOOLEAN /\ txFailed \in BOOLEAN
    /\ Range(inbox) \subseteq 0..255 /\ Range(outbox) \subseteq 0..255
    /\ Len(got) \in Nat

\* Requests that are sent one behind the other, while others are answered, are taken
\* in order and as they were sent, after the startup's user and database; one that
\* breaks off is not taken, and what is unread begins at the next message.
RequestsUnderstood ==
    /\ phase = "loop" => params = asked
    /\ Len(got) <= Len(sent)
    /\ \A i \in DOMAIN got : /\ got[i].type = sent[i].type
                            /\ got[i].type = "Q" => got[i].sql = sent[i].sql
    /\ phase = "loop" /\ client = "started" =>
          inbox = FlattenSeq([i \in 1..(Len(sent) - Len(got)) |->
                     RequestBytes(sent[Len(got) + i].type, sent[Len(got) + i].sql)])

\* proxy.go, "Wire protocol helpers": the length fields are right for empty strings,
\* NULLs, no rows and negative numbers, so that the client reads the very messages
\* that were written, whatever is written behind them.
RepliesUnderstood ==
    replies # <<>> =>
        /\ Cuts(MessageSize, outbox, Len(replies))
        /\ \A i \in DOMAIN replies : DecodeMessage(Piece(MessageSize, outbox, i)) = replies[i]

\* The client counts on one ReadyForQuery for each request, at the end of its
\* answer, be it refused, failed in the middle of its rows or unsupported.
InStep ==
    phase = "loop" => /\ Cardinality({i \in DOMAIN replies : replies[i][1] = "Z"}) = 1 + Len(got)
                      /\ Last(replies)[1] = "Z"

\* What PostgreSQL reads behind any blanks and comments, nested ones too, is the word of
\* a read, or a COPY with a " TO " anywhere in it, a COPY FROM too, or nothing at all.
BeginsAsRead(sql) ==
    \/ Lexed(sql).rest = <<>>
    \/ \E w \in DOMAIN Spelling :
          /\ Spelling[w] = LexedWord(sql)
          /\ \/ Upper[w] \in {"SELECT", "SHOW", "EXPLAIN", "SET", "RESET", "DISCARD"}
             \/ Upper[w] = "COPY" /\ HasTo(Lexed(sql).rest)

\* classifier.go, "we only need to be correct for writes": what goes to the replica
\* begins as a read, provided that no carriage return is without its line feed. An
\* unclosed comment is no statement: the server refuses it wherever it goes.
WritesReachPrimary ==
    \A i \in DOMAIN got :
        LET sql == got[i].sql
        IN  got[i].useReplica /\ Closed(sql) /\ LinesEndWithLF(sql) => BeginsAsRead(sql)

\* classifier.go, "anything that isn't obviously a read goes to the primary": the same
\* of every text, carriage returns included, which end a line comment at the server.
ReplicaGetsReads ==
    \A i \in DOMAIN got : got[i].useReplica /\ Closed(got[i].sql) => BeginsAsRead(got[i].sql)

\* "Strip leading whitespace and comments": the text that is left is the one the
\* server reads on from, and a BEGIN that the proxy sees is one that the server sees.
CommentsStripped ==
    \A i \in DOMAIN got :
        LET sql == got[i].sql
        IN  got[i].type = "Q" =>
               /\ Closed(sql) /\ LinesEndWithLF(sql) =>
                     TrimSpace(stripLeadingComments(sql)) = TrimSpace(Lexed(sql).rest)
               /\ \A w \in DOMAIN Spelling : FirstToken(Reduced(sql)) = w <=> firstToken(sql) = Spelling[w]
=============================================================================
