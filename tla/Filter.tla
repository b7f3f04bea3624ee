------------------------------- MODULE Filter -------------------------------
(***************************************************************************)
(* internal/cdc/filter.go: which change events reach the handler, and      *)
(* which tables the publication is created for.                            *)
(*                                                                         *)
(* A table name is the sequence of its identifiers: <<table>> or           *)
(* <<schema, table>>. Lower and Upper are strings.ToLower and              *)
(* strings.ToUpper on the identifiers that occur.                          *)
(***************************************************************************)
CONSTANTS Lower, Upper

\* What is left of an empty entry of a comma-separated list ("a,,b").
Blank == <<>>

Fold(name) == [k \in DOMAIN name |-> Lower[name[k]]]

\* NewFilter: entries are trimmed, empty ones are skipped, tables are folded to
\* lower case and actions to upper case.
NewFilter(tables, actions) ==
    [Tables  |-> {Fold(n) : n \in tables \ {Blank}},
     Actions |-> {Upper[a] : a \in {b \in actions : b # ""}}]

\* Filter.Match: an empty set of the filter lets everything pass.
Match(f, e) ==
    /\ f.Actions # {} => e.action \in f.Actions
    /\ f.Tables # {} => \/ Fold(<<e.table>>) \in f.Tables
                        \/ Fold(<<e.schema, e.table>>) \in f.Tables

\* Filter.TableList: the names used in CREATE PUBLICATION, {} for FOR ALL TABLES.
TableList(f) == f.Tables
=============================================================================
