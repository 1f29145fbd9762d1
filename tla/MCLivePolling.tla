--------------------------- MODULE MCLivePolling ---------------------------
(* Constants for checking LivePolling with TLC. *)
EXTENDS LivePolling

CONSTANTS i1, i2      \* two worker processes
=============================================================================
