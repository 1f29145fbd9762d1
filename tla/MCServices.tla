----------------------------- MODULE MCServices -----------------------------
(* What the backend's own threads and timers must get done, side by side:   *)
(* the retraining queue, the sessions of loaded models and the prediction   *)
(* log.  Nothing is due in a part that has not begun, so the fairness of    *)
(* the others asks nothing of a behaviour.                                  *)
EXTENDS RetrainingQueue, ModelSessions, PredictionLog

CONSTANTS pre,                 \* a model
          w1, w2,              \* two runs of the Python worker
          c1,                  \* a caller
          r1, r2,              \* two request threads
          v1, v2,              \* two versions to load
          e1, e2, e3           \* three predictions

VARIABLE part

MCInit ==
    /\ part \in {"queue", "sessions", "log"}
    /\ Init /\ SessionInit /\ LogInit

MCNext ==
    /\ UNCHANGED part
    /\ \/ part = "queue" /\ Next /\ UNCHANGED <<sessionVars, logVars>>
       \/ part = "sessions" /\ SessionNext /\ UNCHANGED <<vars, logVars>>
       \/ part = "log" /\ LogNext /\ UNCHANGED <<vars, sessionVars>>

MCSpec ==
    /\ MCInit /\ [][MCNext]_<<vars, sessionVars, logVars, part>>
    /\ WorkerFairness /\ TimeFairness /\ WF_vars(Reap)
    /\ CloserFairness /\ LogFairness
=============================================================================
