--------------------------- MODULE MCStallMonitor ---------------------------
(* StallMonitor with a threshold of two ticks and a channel of two messages. *)
EXTENDS StallMonitor

MCDepths == {0, 1, 2}
=============================================================================
