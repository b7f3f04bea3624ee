------------------------------ MODULE MCProxy ------------------------------
(* Words and statements for the runs of module Proxy. *)
EXTENDS Proxy

MCWords == {"", "BEGIN", "begin", "ROLLBACK", "SELECT", "INSERT", "COPY"}
MCUpper == [w \in MCWords |-> IF w = "begin" THEN "BEGIN" ELSE w]

Stmt(w, e, cols) == [lead |-> "none", word |-> w, to |-> FALSE, effect |-> e, cols |-> cols]

Begin == Stmt("BEGIN", "begin", FALSE)
Rollback == Stmt("ROLLBACK", "rollback", FALSE)
Select == Stmt("SELECT", "read", TRUE)
Insert == Stmt("INSERT", "write", FALSE)
\* SELECT ... INTO creates a table: a write without result columns.
SelectInto == Stmt("SELECT", "write", FALSE)
\* SELECT ... FOR UPDATE has columns; a read-only server refuses to start it.
SelectForUpdate == Stmt("SELECT", "write", TRUE)
CopyTo == [Stmt("COPY", "read", FALSE) EXCEPT !.to = TRUE]

Small == {Begin, Rollback, Select, Insert}
Contended == {[Begin EXCEPT !.word = "begin"], Rollback, Select}
ReadsOnly == {Select, SelectInto, SelectForUpdate, CopyTo}

\* One client has three messages, enough for a transaction with a statement in it, and
\* the others have one.
ThreeAndOne == LET first == CHOOSE c \in Clients : TRUE IN [c \in Clients |-> IF c = first THEN 3 ELSE 1]
=============================================================================
