----------------------------- MODULE Classifier -----------------------------
(***************************************************************************)
(* internal/proxy/classifier.go: ClassifyQuery and firstToken, over        *)
(* statements reduced to what they look at, and the routing decision of    *)
(* handleClient in proxy.go that rests on them.                            *)
(*   lead    what comes before the first word: "none", "space", "comment"  *)
(*   word    the first word as it is spelled, up to a blank or a "("; a    *)
(*           semicolon that follows it directly belongs to it; "" when     *)
(*           there is no text                                              *)
(*   to      whether the text holds " TO "                                 *)
(*   effect  what PostgreSQL does with the statement (external)            *)
(*   cols    whether its result has columns (external)                     *)
(***************************************************************************)
EXTENDS Integers

CONSTANTS Words,  \* the first words, in their spellings
          Upper   \* strings.ToUpper on Words

Leads == {"none", "space", "comment"}
Effects == {"begin", "commit", "rollback", "savepoint", "read", "write"}

Statement == [lead: Leads, word: Words, to: BOOLEAN, effect: Effects, cols: BOOLEAN]

ASSUME ClassifierAssumption == Upper \in [Words -> STRING]

\* stripLeadingComments and TrimSpace have removed the lead.
ClassifyQuery(s) ==
    LET firstWord == Upper[s.word]
    IN CASE firstWord = "" -> "READ"
         [] firstWord \in {"SELECT", "SHOW", "EXPLAIN", "SET", "RESET", "DISCARD"} -> "READ"
         [] firstWord \in {"BEGIN", "START", "COMMIT", "END", "ROLLBACK", "SAVEPOINT", "RELEASE"} -> "TXN"
         [] firstWord = "COPY" -> IF s.to THEN "READ" ELSE "WRITE"
         [] OTHER -> "WRITE"

\* firstToken of the text as the client sent it: a lead is not skipped.
FirstToken(s) == CASE s.lead = "none"    -> s.word
                   [] s.lead = "space"   -> ""
                   [] s.lead = "comment" -> "--"

\* Mutant: reads are tested for before the transaction is.
MutReadFirst(s, inTransaction, txFailed) ==
    CASE ClassifyQuery(s) = "TXN" ->
            <<FirstToken(s) \in {"BEGIN", "START", "begin", "start"}, FALSE, FALSE>>
      [] OTHER -> <<inTransaction, txFailed, ClassifyQuery(s) = "READ">>

\* The switch on the query's type: <<inTransaction, txFailed, useReplica>>.
Route(s, inTransaction, txFailed) ==
    CASE ClassifyQuery(s) = "TXN" ->
            <<FirstToken(s) \in {"BEGIN", "START", "begin", "start"}, FALSE, FALSE>>
      [] ClassifyQuery(s) # "TXN" /\ inTransaction -> <<TRUE, txFailed, FALSE>>
      [] OTHER -> <<FALSE, txFailed, ClassifyQuery(s) = "READ">>
=============================================================================
