--------------------------- MODULE RetrainingQueue ---------------------------
(***************************************************************************)
(* The retraining queue: the table retraining_queue, the callers that      *)
(* enqueue (the monthly, drift and manual triggers), the Python workers    *)
(* that claim, train, register and report over HTTP, the admin who         *)
(* cancels, and the reaper that returns stale claims.                      *)
(*                                                                         *)
(* Each service method is one transaction and one action, except the claim *)
(* whose SELECT and UPDATE are two steps: the code relies on the UPDATE's  *)
(* WHERE clause for its atomicity, and so does the model.  A worker is one *)
(* run of run.py; an answer that is lost (the client times out after 30 s  *)
(* with an exception run.py does not catch) is the server's step followed  *)
(* by the worker's death.                                                  *)
(*                                                                         *)
(* Time appears as ages only: how long ago a row was enqueued, and whether *)
(* a claim is older than the reaper's threshold.                           *)
(***************************************************************************)
EXTENDS Naturals, Sequences, FiniteSets, SqliteCompare

CONSTANTS
    Models,           \* model names
    Workers,          \* concurrent runs of the Python worker
    Callers,          \* concurrent callers of an enqueue path
    Periods,          \* the days and months that name drift and monthly triggers
    MaxTriggers,      \* bound: rows of retraining_queue
    MaxCandidates     \* bound: versions registered by workers

ASSUME BoundsAssumption == MaxTriggers \in Nat /\ MaxCandidates \in Nat
ASSUME PeriodsAssumption == Periods \subseteq Nat \ {0}

VARIABLES
    queue,            \* retraining_queue: queue[e] is the row with id e
    candidates,       \* the versions the workers registered, by id
    caller,           \* caller[c]: the enqueue c is about to make
    worker            \* worker[w]: where the run w is

vars == <<queue, candidates, caller, worker>>

Statuses == {"queued", "running", "succeeded", "failed", "cancelled"}
Open == {"queued", "running"}
Types == {"manual", "drift", "scheduled"}
\* Ages of a row: 0 within the hour, 1 within the week, 2 older.
Ages == 0..2

TriggerRow == [model : Models, type : Types, period : Periods \union {0},
               status : Statuses, age : Ages, stale : BOOLEAN, product : Nat]
Candidate == [model : Models, label : Nat \ {0}, trigger : Nat \ {0}]

NoEnqueue == [type |-> "none"]
EnqueueCall == [type : Types, model : Models, period : Periods \union {0}]

Idle == [pc |-> "idle", row |-> 0, label |-> 0, product |-> 0]
WorkerState == [pc : {"idle", "claiming", "claimed", "training", "reporting"},
                row : Nat, label : Nat, product : Nat]

Rows == DOMAIN queue

-----------------------------------------------------------------------------
(* Enqueueing *)

\* The triggers that have an enqueue window look for an open row of the model
\* that is young enough: one hour for manual, seven days for drift.
Window == [manual |-> 0, drift |-> 1]

AlreadyQueuedRecently(m, type) ==
    \E e \in Rows :
        /\ queue[e].model = m
        /\ queue[e].status \in Open
        /\ queue[e].age <= Window[type]

\* UNIQUE(trigger_id): monthly and drift ids are made of type, period and model;
\* manual ids are fresh UUIDs (period 0).
KeyTaken(call) ==
    /\ call.period # 0
    /\ \E e \in Rows :
          /\ queue[e].model = call.model
          /\ queue[e].type = call.type
          /\ queue[e].period = call.period

\* The caller's check, a transaction of its own.  A manual request that finds a
\* recent row returns that row and ends; a drift evaluation skips the model.
Check(c, m, type, p) ==
    /\ caller[c] = NoEnqueue
    /\ Len(queue) < MaxTriggers
    /\ type = "manual" <=> p = 0
    /\ type # "scheduled" => ~AlreadyQueuedRecently(m, type)
    /\ caller' = [caller EXCEPT ![c] = [type |-> type, model |-> m, period |-> p]]
    /\ UNCHANGED <<queue, candidates, worker>>

\* The insert; a duplicate trigger id is swallowed by the caller.
Enqueue(c) ==
    LET call == caller[c]
    IN /\ call # NoEnqueue
       /\ Len(queue) < MaxTriggers
       /\ queue' = IF KeyTaken(call) THEN queue
                   ELSE Append(queue, [model |-> call.model, type |-> call.type,
                                       period |-> call.period, status |-> "queued",
                                       age |-> 0, stale |-> FALSE, product |-> 0])
       /\ caller' = [caller EXCEPT ![c] = NoEnqueue]
       /\ UNCHANGED <<candidates, worker>>

-----------------------------------------------------------------------------
(* The queue's other transactions *)

SetStatus(e, status) == [queue EXCEPT ![e].status = status]

\* DELETE /retrain/{id}: legal while the row is open.  The worker is not told.
Cancel(e) ==
    /\ queue[e].status \in Open
    /\ queue' = SetStatus(e, "cancelled")
    /\ UNCHANGED <<candidates, caller, worker>>

\* started_at <= cutoff: the claim wrote started_at with CURRENT_TIMESTAMP,
\* which is text; the cutoff is a bound java.sql.Timestamp.
StartedBeforeCutoff(e) == ColumnAtMostBound(queue[e].stale)

StaleClaims == {e \in Rows : queue[e].status = "running" /\ StartedBeforeCutoff(e)}

\* POST /retrain/reap-stale, every half hour.
Reap ==
    /\ queue' = [e \in Rows |->
                    IF e \in StaleClaims
                    THEN [queue[e] EXCEPT !.status = "queued", !.stale = FALSE]
                    ELSE queue[e]]
    /\ UNCHANGED <<candidates, caller, worker>>

\* Time goes by: an open row leaves a dedup window (nobody looks at the age of an
\* ended one), or a claim passes the threshold.
RowAges(e) ==
    /\ queue[e].status \in Open /\ queue[e].age < 2
    /\ queue' = [queue EXCEPT ![e].age = @ + 1]
    /\ UNCHANGED <<candidates, caller, worker>>

ClaimAges(e) ==
    /\ queue[e].status = "running"
    /\ ~queue[e].stale
    /\ queue' = [queue EXCEPT ![e].stale = TRUE]
    /\ UNCHANGED <<candidates, caller, worker>>

-----------------------------------------------------------------------------
(* The worker: one run of run.py *)

Set(w, state) == worker' = [worker EXCEPT ![w] = state]

Oldest(S) == CHOOSE e \in S : \A f \in S : e <= f

\* Fault: rows that another run already has are candidates again.
ClaimableOpen == {e \in Rows : queue[e].status \in Open}

Claimable == {e \in Rows : queue[e].status = "queued"}

\* POST /retrain/claim, the SELECT.  An empty queue ends the run.
ClaimSelect(w) ==
    /\ worker[w].pc = "idle"
    /\ Claimable # {}
    /\ Set(w, [Idle EXCEPT !.pc = "claiming", !.row = Oldest(Claimable)])
    /\ UNCHANGED <<queue, candidates, caller>>

\* Fault: the UPDATE names the row only.
ClaimAnyway(w) ==
    LET e == worker[w].row
    IN /\ worker[w].pc = "claiming"
       /\ queue' = [queue EXCEPT ![e].status = "running", ![e].stale = FALSE]
       /\ Set(w, [worker[w] EXCEPT !.pc = "claimed"])
       /\ UNCHANGED <<candidates, caller>>

\* The UPDATE ... WHERE status = 'queued'.  A lost race (no row updated, or
\* SQLITE_BUSY) answers 204 and ends the run.
ClaimUpdate(w) ==
    LET e == worker[w].row
    IN /\ worker[w].pc = "claiming"
       /\ IF queue[e].status = "queued"
          THEN /\ queue' = [queue EXCEPT ![e].status = "running", ![e].stale = FALSE]
               /\ Set(w, [worker[w] EXCEPT !.pc = "claimed"])
          ELSE /\ UNCHANGED queue
               /\ Set(w, Idle)
       /\ UNCHANGED <<candidates, caller>>

ModelOf(w) == queue[worker[w].row].model

Labels(m) == {candidates[v].label : v \in {x \in DOMAIN candidates : candidates[x].model = m}}

\* next_version_label: one more than the highest label registered so far.  It
\* is read before the training starts.
StartTraining(w) ==
    /\ worker[w].pc = "claimed"
    /\ \E label \in 1..MaxCandidates + 1 :
          /\ label = 1 \/ label - 1 \in Labels(ModelOf(w))
          /\ \A l \in Labels(ModelOf(w)) : l < label
          /\ Set(w, [worker[w] EXCEPT !.pc = "training", !.label = label])
    /\ UNCHANGED <<queue, candidates, caller>>

WithLabel(m, label) ==
    {v \in DOMAIN candidates : candidates[v].model = m /\ candidates[v].label = label}

\* The id that register() answers with: the new row's, or that of the row that
\* already has this name and version.
RegisteredId(m, label) ==
    CHOOSE v \in DOMAIN candidates' :
        candidates'[v].model = m /\ candidates'[v].label = label

\* The training is over and its version is registered.
RegisterCandidate(w) ==
    LET m == ModelOf(w)
        label == worker[w].label
    IN /\ worker[w].pc = "training"
       /\ IF WithLabel(m, label) # {}
          THEN UNCHANGED candidates
          ELSE /\ Len(candidates) < MaxCandidates
               /\ candidates' = Append(candidates, [model |-> m, label |-> label,
                                                    trigger |-> worker[w].row])
       /\ Set(w, [worker[w] EXCEPT !.pc = "reporting", !.product = RegisteredId(m, label)])
       /\ UNCHANGED <<queue, caller>>

\* The model has no trainer, the training raises, or the registry refuses.
TrainingFails(w) ==
    /\ worker[w].pc \in {"claimed", "training"}
    /\ Set(w, [worker[w] EXCEPT !.pc = "reporting"])
    /\ UNCHANGED <<queue, candidates, caller>>

\* Fault: the UPDATE of markComplete does not look at the status.
CompleteAnyRow(e, v) ==
    queue' = [queue EXCEPT ![e].status = IF v # 0 THEN "succeeded" ELSE "failed",
                           ![e].product = v]

\* completeSuccess (v is the product) or completeFailure (v is 0): a row that
\* is no longer running is refused with 409.
Complete(e, v) ==
    IF queue[e].status = "running"
    THEN queue' = [queue EXCEPT ![e].status = IF v # 0 THEN "succeeded" ELSE "failed",
                                ![e].product = v]
    ELSE UNCHANGED queue

\* POST /retrain/{id}/complete.  The run ends whatever the answer.
Report(w) ==
    /\ worker[w].pc = "reporting"
    /\ Complete(worker[w].row, worker[w].product)
    /\ Set(w, Idle)
    /\ UNCHANGED <<candidates, caller>>

\* The process is killed, or a call times out.  The timer starts a new run.  A
\* claim under way is the server's and is completed whether or not the run lives.
Die(w) ==
    /\ worker[w].pc \in {"claimed", "training", "reporting"}
    /\ Set(w, Idle)
    /\ UNCHANGED <<queue, candidates, caller>>

-----------------------------------------------------------------------------
Init ==
    /\ queue = << >>
    /\ candidates = << >>
    /\ caller = [c \in Callers |-> NoEnqueue]
    /\ worker = [w \in Workers |-> Idle]

CallerNext ==
    \E c \in Callers :
        \/ \E m \in Models, type \in Types, p \in Periods \union {0} : Check(c, m, type, p)
        \/ Enqueue(c)

RowNext == \E e \in Rows : Cancel(e) \/ RowAges(e) \/ ClaimAges(e)

WorkerNext ==
    \E w \in Workers :
        \/ ClaimSelect(w) \/ ClaimUpdate(w)
        \/ StartTraining(w) \/ RegisterCandidate(w) \/ TrainingFails(w)
        \/ Report(w) \/ Die(w)

Next == CallerNext \/ RowNext \/ Reap \/ WorkerNext

Spec == Init /\ [][Next]_vars

\* The worker and reaper timers keep firing, a training ends, time passes.
WorkerFairness ==
    \A w \in Workers :
        /\ WF_vars(ClaimSelect(w)) /\ WF_vars(ClaimUpdate(w))
        /\ WF_vars(StartTraining(w) \/ TrainingFails(w))
        /\ WF_vars(RegisterCandidate(w) \/ TrainingFails(w))
        /\ WF_vars(Report(w))
TimeFairness == \A e \in 1..MaxTriggers : WF_vars(e \in Rows /\ ClaimAges(e))
FairSpec == Spec /\ WorkerFairness /\ TimeFairness /\ WF_vars(Reap)

-----------------------------------------------------------------------------
(* Properties *)

TypeOK ==
    /\ queue \in Seq(TriggerRow)
    /\ candidates \in Seq(Candidate)
    /\ caller \in [Callers -> EnqueueCall \union {NoEnqueue}]
    /\ worker \in [Workers -> WorkerState]

HasStatus(e, S) == e \in Rows /\ queue[e].status \in S

Holds(w, e) == worker[w].row = e /\ worker[w].pc \in {"claimed", "training", "reporting"}

\* Two workers never train the same trigger, although both may have read it as
\* queued.  (It needs a reaper that takes no live worker's claim away.)
OneWorkerPerTrigger ==
    \A w, x \in Workers : \A e \in Rows : Holds(w, e) /\ Holds(x, e) => w = x

\* The queue implements RetrainJobs: an ended trigger stays as it ended.
Jobs == INSTANCE RetrainJobs WITH
    jobs <- [e \in Rows |->
                [model   |-> queue[e].model,
                 state   |-> IF queue[e].status \in Open THEN "open"
                             ELSE IF queue[e].status = "succeeded" THEN "done"
                             ELSE queue[e].status,
                 product |-> queue[e].product]],
    versions <- [v \in DOMAIN candidates |-> candidates[v].model]
ImplementsRetrainJobs == Jobs!Spec

\* A queued trigger is claimed or cancelled at last: claims are first come,
\* first served, and a lost race or a crash delays a trigger but never loses it.
QueuedIsServed ==
    \A e \in 1..MaxTriggers : HasStatus(e, {"queued"}) ~> HasStatus(e, Statuses \ {"queued"})

\* "so a crashed worker doesn't strand the trigger": a claim that nobody works
\* on does not stay running for ever.
StrandedClaimRecovers ==
    \A e \in 1..MaxTriggers :
        (HasStatus(e, {"running"}) /\ \A w \in Workers : ~Holds(w, e))
            ~> HasStatus(e, Statuses \ {"running"})

=============================================================================
