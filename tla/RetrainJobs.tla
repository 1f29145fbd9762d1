----------------------------- MODULE RetrainJobs -----------------------------
(***************************************************************************)
(* What the retraining queue promises, whoever trains and however often: a *)
(* job ends once, as done, failed or cancelled, and a job that is done     *)
(* names a version that had been produced for the model it asked for.      *)
(*                                                                         *)
(* RetrainingQueue.tla, with its callers, workers, crashes and reaper,     *)
(* implements this specification; claims and requeues are stutters here.   *)
(***************************************************************************)
EXTENDS Naturals, Sequences

CONSTANT Models

VARIABLES jobs,          \* jobs[j] = [model, state, product]
          versions       \* versions[v]: the model that version v belongs to

vars == <<jobs, versions>>

Init == jobs = << >> /\ versions = << >>

Submit(m) ==
    /\ jobs' = Append(jobs, [model |-> m, state |-> "open", product |-> 0])
    /\ UNCHANGED versions

Produce(m) ==
    /\ versions' = Append(versions, m)
    /\ UNCHANGED jobs

End(j, state, v) ==
    /\ jobs[j].state = "open"
    /\ jobs' = [jobs EXCEPT ![j].state = state, ![j].product = v]
    /\ UNCHANGED versions

Finish(j) ==
    \/ \E v \in DOMAIN versions : versions[v] = jobs[j].model /\ End(j, "done", v)
    \/ \E state \in {"failed", "cancelled"} : End(j, state, 0)

Next ==
    \/ \E m \in Models : Submit(m) \/ Produce(m)
    \/ \E j \in DOMAIN jobs : Finish(j)

Spec == Init /\ [][Next]_vars
=============================================================================
