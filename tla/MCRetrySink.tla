---------------------------- MODULE MCRetrySink ----------------------------
(* Values for the runs of module RetrySink. *)
EXTENDS RetrySink

MCEvents == {"e1", "e2"}
BothHandlers == {"propagate", "dlq"}
NoOrFourAttempts == {0, 4}
MCJitters == {50, 100, 149}
=============================================================================
