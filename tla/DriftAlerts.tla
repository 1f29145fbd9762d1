----------------------------- MODULE DriftAlerts -----------------------------
(***************************************************************************)
(* The calibration alert of one model: the nightly CalibrationJob that     *)
(* writes drift_metrics, the DriftAlertEvaluator that runs at 03:00 on     *)
(* every worker instance under the job lock of the day, and its history.   *)
(*                                                                         *)
(* Time is relative: day 0 is today, and a day has three parts, before, at *)
(* and after 03:00.  The evaluator's window of SustainDays times 24 hours  *)
(* therefore holds today's early rows, the whole days between, and the     *)
(* late rows of the day SustainDays ago.  Of each day the latest batch is  *)
(* kept, dailyCanonical reads no other, and whether it was a rerun.        *)
(***************************************************************************)
EXTENDS Naturals, FiniteSets, SqliteCompare

CONSTANTS
    Instances,     \* worker processes
    ServedVersions,  \* versions of the model
    SustainDays,   \* PAGE_LOOKBACK in days, and the number of days required
    MaxReruns      \* bound: days in the window with a batch out of schedule

ASSUME SustainAssumption == SustainDays \in Nat \ {0}
ASSUME RerunsAssumption == MaxReruns \in Nat

VARIABLES
    clock,         \* the part of the day
    champion,      \* the version at stage CHAMPION
    shadows,       \* the versions at stage SHADOW
    metrics,       \* metrics[d]: the latest calibration batch of d days ago
    locks,         \* rows of job_locks for today
    worker,        \* worker[i]: where the evaluation of instance i is
    sent,          \* how often the alert was sent today
    fired          \* age in days of the latest row of alert_history

alertVars == <<clock, champion, shadows, metrics, locks, worker, sent, fired>>

Clock == {"before", "at", "after"}
Days == 0..SustainDays
Reading == {"none", "over", "under"}
Batch == [late : BOOLEAN, rerun : BOOLEAN, value : [ServedVersions -> Reading]]
NoBatch == [late |-> FALSE, rerun |-> FALSE, value |-> [v \in ServedVersions |-> "none"]]

\* Ages of the last fire: 0 is today, 1 yesterday, 2 any earlier day, 3 never.
Never == 3
FiredAges == 0..Never
Running == {"running", "deciding", "sent"}
WorkerState == {"ready", "down", "done"} \union Running

Serving == {champion} \union shadows

-----------------------------------------------------------------------------
(* CalibrationJob and manual reruns *)

OutOfSchedule == {d \in Days : metrics[d].late \/ metrics[d].rerun}

\* runOnce writes one batch with a row for each serving version that has joined
\* predictions.  The scheduled run is at 02:30, an operator's rerun at any hour.
CalibrationBatch(value) ==
    /\ clock # "at"
    /\ clock = "after" \/ metrics[0] # NoBatch => Cardinality(OutOfSchedule) < MaxReruns
    /\ \A v \in ServedVersions \ Serving : value[v] = "none"
    /\ \E v \in ServedVersions : value[v] # "none"
    /\ metrics' = [metrics EXCEPT ![0] = [late  |-> clock = "after",
                                         rerun |-> metrics[0] # NoBatch,
                                         value |-> value]]
    /\ UNCHANGED <<clock, champion, shadows, locks, worker, sent, fired>>

-----------------------------------------------------------------------------
(* The evaluator *)

InWindow == {d \in Days : metrics[d] # NoBatch /\ (d = SustainDays => metrics[d].late)}

\* The canonical value of a day.  findRecent filters by model name only, and the
\* rows of a batch share computed_at: any version's row may be the one kept.
Canonical(d) == {metrics[d].value[v] : v \in ServedVersions} \ {"none"}

\* Fault (DEF-M3): each batch counts, so that a rerun day counts twice.
BatchesCounted == Cardinality(InWindow) + Cardinality({d \in InWindow : metrics[d].rerun})

DaysCounted == Cardinality(InWindow)

\* Can the evaluator find drift, or no drift, in these rows?
MayFindDrift == DaysCounted >= SustainDays /\ \A d \in InWindow : "over" \in Canonical(d)
MayFindNoDrift == DaysCounted < SustainDays \/ \E d \in InWindow : "under" \in Canonical(d)

\* firedWithin(24 h): yesterday's fire, a few seconds either side of 24 hours ago,
\* may be inside or outside the window.
FiredWithin ==
    IF fired = Never THEN {FALSE}
    ELSE {BoundAtMostColumn(inside) : inside \in IF fired = 1 THEN BOOLEAN ELSE {fired = 0}}

Step(i, from, to) == worker[i] = from /\ worker' = [worker EXCEPT ![i] = to]

\* Fault: a lock that exists already is acquired again.
AcquireTaken(i) ==
    /\ clock = "at"
    /\ Step(i, "ready", "running")
    /\ locks' = locks \union {"evaluator"}
    /\ UNCHANGED <<clock, champion, shadows, metrics, sent, fired>>

\* tryAcquire: the insert that wins the day's lock.
Acquire(i) ==
    /\ clock = "at"
    /\ "evaluator" \notin locks
    /\ Step(i, "ready", "running")
    /\ locks' = locks \union {"evaluator"}
    /\ UNCHANGED <<clock, champion, shadows, metrics, sent, fired>>

\* Another instance has the lock, or the registry database fails.
SkipDay(i) ==
    /\ clock = "at"
    /\ Step(i, "ready", "done")
    /\ UNCHANGED <<clock, champion, shadows, metrics, locks, sent, fired>>

\* The reads of evaluateCalibration, up to the decision to send.
FindDrift(i) ==
    /\ MayFindDrift
    /\ FALSE \in FiredWithin
    /\ Step(i, "running", "deciding")
    /\ UNCHANGED <<clock, champion, shadows, metrics, locks, sent, fired>>

FindNothing(i) ==
    /\ MayFindNoDrift
    /\ Step(i, "running", "done")
    /\ UNCHANGED <<clock, champion, shadows, metrics, locks, sent, fired>>

Suppress(i) ==
    /\ MayFindDrift
    /\ TRUE \in FiredWithin
    /\ Step(i, "running", "done")
    /\ UNCHANGED <<clock, champion, shadows, metrics, locks, sent, fired>>

\* discord.send, which swallows its own failures.
Send(i) ==
    /\ Step(i, "deciding", "sent")
    /\ sent' = sent + 1
    /\ UNCHANGED <<clock, champion, shadows, metrics, locks, fired>>

\* historyRepo.record: at most one row per key and day.
Record(i) ==
    /\ Step(i, "sent", "done")
    /\ fired' = 0
    /\ UNCHANGED <<clock, champion, shadows, metrics, locks, sent>>

Crash(i) ==
    /\ worker[i] # "down"
    /\ worker' = [worker EXCEPT ![i] = "down"]
    /\ UNCHANGED <<clock, champion, shadows, metrics, locks, sent, fired>>

\* A cron job whose hour has passed is not made up for.
Restart(i) ==
    /\ Step(i, "down", IF clock = "before" THEN "ready" ELSE "done")
    /\ UNCHANGED <<clock, champion, shadows, metrics, locks, sent, fired>>

-----------------------------------------------------------------------------
(* The surroundings *)

\* A shadow is promoted; the old champion is archived.
NewChampion(v) ==
    /\ v \in shadows
    /\ champion' = v
    /\ shadows' = shadows \ {v}
    /\ UNCHANGED <<clock, metrics, locks, worker, sent, fired>>

StartShadow(v) ==
    /\ v \notin Serving
    /\ shadows' = shadows \union {v}
    /\ UNCHANGED <<clock, champion, metrics, locks, worker, sent, fired>>

\* An evaluation takes far less than the rest of the day.
TimePasses ==
    /\ \A i \in Instances : worker[i] \notin Running
    /\ \/ clock = "before" /\ clock' = "at"
       \/ /\ clock = "at" /\ clock' = "after"
          /\ \A i \in Instances : worker[i] # "ready"
    /\ UNCHANGED <<champion, shadows, metrics, locks, worker, sent, fired>>

\* A batch that no window reads any more is forgotten.
Shifted(d) ==
    IF d = 0 \/ (d = SustainDays /\ ~metrics[d - 1].late) THEN NoBatch ELSE metrics[d - 1]

Midnight ==
    /\ clock = "after"
    /\ clock' = "before"
    /\ metrics' = [d \in Days |-> Shifted(d)]
    /\ locks' = {}
    /\ worker' = [i \in Instances |-> IF worker[i] = "down" THEN "down" ELSE "ready"]
    /\ sent' = 0
    /\ fired' = IF fired >= 2 THEN fired ELSE fired + 1
    /\ UNCHANGED <<champion, shadows>>

AlertInit ==
    /\ clock = "before"
    /\ champion \in ServedVersions
    /\ shadows = {}
    /\ metrics = [d \in Days |-> NoBatch]
    /\ locks = {}
    /\ worker = [i \in Instances |-> "ready"]
    /\ sent = 0
    /\ fired = Never

EvaluatorNext ==
    \E i \in Instances :
        \/ Acquire(i) \/ SkipDay(i) \/ FindDrift(i) \/ FindNothing(i) \/ Suppress(i)
        \/ Send(i) \/ Record(i) \/ Crash(i) \/ Restart(i)

AlertNext ==
    \/ \E value \in [ServedVersions -> Reading] : CalibrationBatch(value)
    \/ EvaluatorNext
    \/ \E v \in ServedVersions : NewChampion(v) \/ StartShadow(v)
    \/ TimePasses \/ Midnight

AlertSpec == AlertInit /\ [][AlertNext]_alertVars

-----------------------------------------------------------------------------
(* Properties *)

AlertTypeOK ==
    /\ clock \in Clock
    /\ champion \in ServedVersions /\ shadows \subseteq ServedVersions \ {champion}
    /\ metrics \in [Days -> Batch]
    /\ locks \subseteq {"evaluator"}
    /\ worker \in [Instances -> WorkerState]
    /\ sent \in Nat
    /\ fired \in FiredAges

\* However many instances run, crash and restart around the hour, and whatever
\* the history answers, an alert goes out at most once a day.
OneAlertPerDay == sent <= 1

\* An alert claims SustainDays days of drift: there were so many different days,
\* and the latest batch of none of them is free of drift.
AlertNeedsDays ==
    [][\A i \in Instances : FindDrift(i) =>
          /\ Cardinality({d \in Days : metrics[d] # NoBatch}) >= SustainDays
          /\ \A d \in 0..SustainDays - 1 :
                \E v \in ServedVersions : metrics[d] = NoBatch \/ metrics[d].value[v] = "over"]_alertVars

-----------------------------------------------------------------------------
(* Statements of the repository that the code does not keep *)

\* "each alert key is suppressed for 24h after fire": a suppressed alert has been
\* fired today or yesterday.
SuppressedOnlyForADay ==
    [][\A i \in Instances : Suppress(i) => fired \in {0, 1}]_alertVars

\* "PAGE: champion CALIBRATION_ERROR sustained": no page while the champion's own
\* reading of a day is under the threshold.
PageIsAboutChampion ==
    [][\A i \in Instances : FindDrift(i) =>
          \A d \in InWindow : metrics[d].value[champion] # "under"]_alertVars
=============================================================================
