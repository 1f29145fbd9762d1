--------------------------- MODULE MCModelSessions ---------------------------
(* Constants for checking ModelSessions with TLC. *)
EXTENDS ModelSessions

CONSTANTS r1, r2,    \* two request threads
          v1, v2     \* two versions to load
=============================================================================
