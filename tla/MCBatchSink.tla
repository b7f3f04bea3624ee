---------------------------- MODULE MCBatchSink ----------------------------
(* Values for the runs of module BatchSink. *)
EXTENDS BatchSink

OneCaller == {"stream"}
TwoCallers == {"c1", "c2"}
=============================================================================
