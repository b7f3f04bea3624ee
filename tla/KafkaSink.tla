----------------------------- MODULE KafkaSink -----------------------------
(***************************************************************************)
(* internal/sink/kafka.go: the topic and the key of a record, from the     *)
(* tuples that stream.go decodes. Kafka (external) keeps the records of    *)
(* one key in the order they were produced, and no other order; after      *)
(* compaction the last record of each key is left. ProduceSync returns     *)
(* when the record is acknowledged, so that Deliver is HandlerOk or        *)
(* HandlerError of module Stream.                                          *)
(***************************************************************************)
EXTENDS Stream

CONSTANTS
    Images,          \* per event, [row, values, unchanged]: which row of its table it
                     \* changes, the row's column values after it (before it for a
                     \* DELETE), and the TOASTed columns it leaves alone
    ReplicaIdentity, \* per table, the columns of its replica identity
    Null             \* the value of a NULL

\* What pgoutput sends: of a deleted row only the replica identity.
TupleOf(e) ==
    LET values == Images[e].values
        type(c) == CASE RowAt(e[1], e[2]).action = "DELETE" ->
                          (IF c \in ReplicaIdentity[TableOf(e[1], e[2])] THEN "t" ELSE "n")
                     [] c \in Images[e].unchanged -> "u"
                     [] OTHER -> "t"
    IN  [c \in DOMAIN values |-> [type |-> type(c), data |-> values[c]]]

\* decodeTuple: a NULL is a nil value, an unchanged TOASTed column has no entry.
decodeTuple(tuple) ==
    [c \in {d \in DOMAIN tuple : tuple[d].type # "u"} |->
        IF tuple[c].type = "n" THEN Null ELSE tuple[c].data]

\* Mutant: every record has a key of its own.
MutFallbackOnly(source, fallback) == fallback

\* buildKey, on the map it takes as its source: New, or Old when New is nil, as it
\* is for a DELETE only.
buildKey(source, fallback) ==
    IF "id" \in DOMAIN source THEN <<"id", source["id"]>> ELSE fallback

\* The topic and key of an event of the stream, and of a row of a snapshot, which
\* has all its columns and the LSN "snapshot", here 0.
Record(e) ==
    LET table == TableOf(e[1], e[2])
    IN  <<table, buildKey(decodeTuple(TupleOf(e)), table \o <<EventLSN(e[1], e[2])>>)>>

SnapshotRecord(e) ==
    LET table == TableOf(e[1], e[2])
    IN  <<table, buildKey(Images[e].values, table \o <<0>>)>>

\* Deliver: the record becomes the last one of its key in the log.
Produce(log, record, e) == {r \in log : r[1] # record} \cup {<<record, e>>}
=============================================================================
