--------------------------- MODULE MCDriftAlerts ---------------------------
(* Constants for checking DriftAlerts with TLC. *)
EXTENDS DriftAlerts

CONSTANTS i1, i2,     \* two worker processes
          v1, v2      \* two versions of the model
=============================================================================
