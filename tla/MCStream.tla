------------------------------ MODULE MCStream ------------------------------
(* Histories, names and filters for the runs of module Stream. *)
EXTENDS Stream

Act(l, n, tab, a) == [lsn |-> l, len |-> n, schema |-> "public", table |-> tab, action |-> a,
                      version |-> 1]
Ins(l, n, tab) == Act(l, n, tab, "INSERT")

\* A row behind an ALTER TABLE.
Altered(row) == [row EXCEPT !.version = 2]

\* Transactions one after the other, messages shorter than their WAL records; the table
\* Users is altered between two of its rows.
SerialTxns == <<
    [rows |-> <<Ins(10, 2, "Users"), Act(14, 3, "orders", "TRUNCATE")>>,
     commit |-> 22, end |-> 24],
    [rows |-> <<Ins(30, 2, "audit"), Act(33, 2, "Users", "UPDATE"), Altered(Ins(36, 2, "Users")),
                Act(39, 3, "orders", "DELETE")>>,
     commit |-> 44, end |-> 46]>>

\* One transaction whose only row decodes to more text than its WAL record holds.
WideRowTxns == <<
    [rows |-> <<Ins(10, 9, "Users")>>, commit |-> 14, end |-> 16],
    [rows |-> <<Ins(40, 2, "Users")>>, commit |-> 46, end |-> 48]>>

MCNames == {"public", "Users", "users", "orders", "audit"}
MCLower == [n \in MCNames |-> IF n = "Users" THEN "users" ELSE n]
MCUpper == [a \in {"insert", "DELETE", "TRUNCATE"} |-> IF a = "insert" THEN "INSERT" ELSE a]
MCTables == {<<"public", "Users">>, <<"public", "orders">>, <<"public", "audit">>}

\* --tables "users,,public.orders" --actions "insert,DELETE,,TRUNCATE": the table Users was
\* created with a quoted name, the publication by an operator.
MCFilter == NewFilter({<<"users">>, Blank, <<"public", "orders">>}, {"insert", "DELETE", "TRUNCATE", ""})
MCPublications == {MCTables}

NoFilter == NewFilter({}, {})
NoPublications == {}
NoSnapshots == {}
=============================================================================
