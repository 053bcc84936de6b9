--------------------------- MODULE MCSlotMonitor ----------------------------
(***************************************************************************)
(* SlotMonitor with a timeout of two ticks and a vector of two slots.      *)
(***************************************************************************)
EXTENDS SlotMonitor
=============================================================================
