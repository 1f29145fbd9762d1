-------------------------- MODULE MCRetrainingQueue --------------------------
(* Constants for checking RetrainingQueue with TLC. *)
EXTENDS RetrainingQueue

CONSTANTS pre,       \* a model
          w1, w2,    \* two runs of the worker
          c1         \* a caller
=============================================================================
