------------------------------ MODULE Delivery ------------------------------
(***************************************************************************)
(* What the replication client promises its destination, whatever fails    *)
(* in between (docs/architecture.md, "Delivery Guarantees"): at least      *)
(* once, and in commit order. An event is a pair <<transaction, row>>.     *)
(* There is no process, session or message here: to deliver again what is  *)
(* delivered changes nothing.                                              *)
(***************************************************************************)
EXTENDS Integers

CONSTANTS
    Events,      \* the rows of the history
    CommitLSN(_) \* where the transaction of an event commits

VARIABLES
    committed,   \* the transactions up to this one have committed
    owed,        \* the events the destination must get
    delivered,   \* the events it has got
    released     \* the server may forget what commits before this position

vars == <<committed, owed, delivered, released>>

Before(e, f) == e[1] < f[1] \/ (e[1] = f[1] /\ e[2] < f[2])

\* Every owed event that commits before lsn is delivered.
Safe(lsn) == \A e \in owed : CommitLSN(e) < lsn => e \in delivered

Init ==
    /\ committed = 0
    /\ owed \subseteq Events
    /\ delivered = {}
    /\ released = 0

\* A transaction commits.
Append ==
    /\ committed' = committed + 1
    /\ UNCHANGED <<owed, delivered, released>>

\* Which tables are published is settled before anything is delivered or released.
Subscribe ==
    /\ delivered = {} /\ released = 0
    /\ owed' \subseteq Events
    /\ UNCHANGED <<committed, delivered, released>>

\* A committed event is delivered once the owed events before it are.
Deliver ==
    /\ \E e \in Events \ delivered :
          /\ delivered' = delivered \cup {e}
          /\ e[1] <= committed
          /\ \A f \in owed : Before(f, e) => f \in delivered
    /\ UNCHANGED <<committed, owed, released>>

\* The released position moves, in either direction, to where everything before it
\* is delivered. A subscription that starts later owes less.
Release ==
    /\ released' \in Nat \ {released}
    /\ owed' \subseteq owed
    /\ Safe(released)'
    /\ UNCHANGED <<committed, delivered>>

\* The debt begins later: what was skipped is no longer owed.
Forgo ==
    /\ owed' \subseteq owed
    /\ UNCHANGED <<committed, delivered, released>>

Next == Append \/ Subscribe \/ Deliver \/ Release \/ Forgo

Spec == Init /\ [][Next]_vars
=============================================================================
