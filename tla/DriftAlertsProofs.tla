-------------------------- MODULE DriftAlertsProofs --------------------------
(***************************************************************************)
(* Theorems about DriftAlerts, for any instances, versions and window: one *)
(* alert a day, and none without the days it claims.                       *)
(***************************************************************************)
EXTENDS DriftAlerts, FiniteSetTheorems, TLAPS

\* The lock of the day is taken before an evaluation starts and outlives it, so
\* the evaluations of a day are at most one, and the one send is its last act.
EvaluatorInv ==
    /\ \A i, j \in Instances : worker[i] \in Running /\ worker[j] \in Running => i = j
    /\ \A i \in Instances : worker[i] \in {"running", "deciding"} => sent = 0
    /\ locks = {} => sent = 0
    /\ locks = {} \/ clock # "at" => \A i \in Instances : worker[i] \notin Running

AlertInv == AlertTypeOK /\ EvaluatorInv /\ sent \in {0, 1}

\* A step of one worker.
LEMMA StepEffect ==
    ASSUME AlertTypeOK, NEW i \in Instances, NEW from, NEW to \in WorkerState, Step(i, from, to)
    PROVE  /\ worker[i] = from /\ worker'[i] = to
           /\ worker' \in [Instances -> WorkerState]
           /\ \A j \in Instances \ {i} : worker'[j] = worker[j]
    BY DEF AlertTypeOK, Step

LEMMA StatesAreDistinct ==
    /\ Running = {"running", "deciding", "sent"}
    /\ {"ready", "down", "done", "running", "deciding", "sent"} \subseteq WorkerState
    BY DEF Running, WorkerState

LEMMA EvaluatorStep == AlertInv /\ EvaluatorNext => AlertInv'
<1> SUFFICES ASSUME AlertInv, EvaluatorNext
             PROVE  AlertInv'
    OBVIOUS
<1> USE DEF AlertInv
<1>1. ASSUME NEW i \in Instances, NEW from, NEW to \in WorkerState, Step(i, from, to),
             UNCHANGED <<clock, champion, shadows, metrics, locks>>, fired' \in FiredAges,
             sent' = sent,
             to \in Running => from \in Running,
             to \in {"running", "deciding"} => from \in {"running", "deciding"}
      PROVE  AlertInv'
    <2>1. /\ worker[i] = from /\ worker'[i] = to
          /\ worker' \in [Instances -> WorkerState]
          /\ \A j \in Instances \ {i} : worker'[j] = worker[j]
        BY <1>1, StepEffect
    <2>2. AlertTypeOK'
        BY <1>1, <2>1 DEF AlertTypeOK
    <2>3. EvaluatorInv'
        BY <1>1, <2>1 DEF EvaluatorInv
    <2> QED
        BY <1>1, <2>2, <2>3
<1>2. fired \in FiredAges /\ 0 \in FiredAges
    BY DEF AlertTypeOK, FiredAges, Never
<1>3. ASSUME NEW i \in Instances, Acquire(i)
      PROVE  AlertInv'
    <2>1. /\ Step(i, "ready", "running") /\ locks = {} /\ locks' = {"evaluator"} /\ clock = "at"
          /\ UNCHANGED <<clock, champion, shadows, metrics, sent, fired>>
        BY <1>3 DEF Acquire, AlertTypeOK
    <2>2. /\ worker'[i] = "running" /\ worker' \in [Instances -> WorkerState]
          /\ \A j \in Instances \ {i} : worker'[j] = worker[j]
        BY <2>1, StepEffect, StatesAreDistinct
    <2>3. sent = 0 /\ \A j \in Instances : worker[j] \notin Running
        BY <2>1 DEF EvaluatorInv
    <2>4. AlertTypeOK'
        BY <2>1, <2>2 DEF AlertTypeOK
    <2>5. EvaluatorInv'
        BY <2>1, <2>2, <2>3, StatesAreDistinct DEF EvaluatorInv
    <2> QED
        BY <2>1, <2>4, <2>5
<1>4. ASSUME NEW i \in Instances, Send(i)
      PROVE  AlertInv'
    <2>1. /\ Step(i, "deciding", "sent") /\ sent' = sent + 1
          /\ UNCHANGED <<clock, champion, shadows, metrics, locks, fired>>
        BY <1>4 DEF Send
    <2>2. /\ worker[i] = "deciding" /\ worker'[i] = "sent" /\ worker' \in [Instances -> WorkerState]
          /\ \A j \in Instances \ {i} : worker'[j] = worker[j]
        BY <2>1, StepEffect, StatesAreDistinct
    <2>3. sent = 0 /\ sent' = 1 /\ locks # {} /\ clock = "at"
        BY <2>1, <2>2, StatesAreDistinct DEF EvaluatorInv
    <2>4. \A j \in Instances \ {i} : worker[j] \notin Running
        BY <2>2, StatesAreDistinct DEF EvaluatorInv
    <2>5. AlertTypeOK'
        BY <2>1, <2>2, <2>3 DEF AlertTypeOK
    <2>6. EvaluatorInv'
        BY <2>1, <2>2, <2>3, <2>4, StatesAreDistinct DEF EvaluatorInv
    <2> QED
        BY <2>3, <2>5, <2>6
<1>5. ASSUME NEW i \in Instances,
             SkipDay(i) \/ FindDrift(i) \/ FindNothing(i) \/ Suppress(i) \/ Record(i) \/ Restart(i)
      PROVE  AlertInv'
    <2>1. PICK from, to \in WorkerState :
             /\ Step(i, from, to)
             /\ to \in Running => from \in Running
             /\ to \in {"running", "deciding"} => from \in {"running", "deciding"}
        BY <1>5, StatesAreDistinct
        DEF SkipDay, FindDrift, FindNothing, Suppress, Record, Restart
    <2>2. /\ UNCHANGED <<clock, champion, shadows, metrics, locks, sent>>
          /\ fired' \in FiredAges
        BY <1>2, <1>5 DEF SkipDay, FindDrift, FindNothing, Suppress, Record, Restart
    <2> QED
        BY <1>1, <2>1, <2>2
<1>6. ASSUME NEW i \in Instances, Crash(i)
      PROVE  AlertInv'
    <2>1. Step(i, worker[i], "down") /\ UNCHANGED <<clock, champion, shadows, metrics, locks, sent, fired>>
        BY <1>6 DEF Crash, Step
    <2> QED
        BY <1>1, <1>2, <2>1, StatesAreDistinct
<1> QED
    BY <1>3, <1>4, <1>5, <1>6 DEF EvaluatorNext

LEMMA AlertStep == AlertInv /\ [AlertNext]_alertVars => AlertInv'
<1> SUFFICES ASSUME AlertInv, [AlertNext]_alertVars
             PROVE  AlertInv'
    OBVIOUS
<1>1. ASSUME NEW value \in [ServedVersions -> Reading], CalibrationBatch(value)
      PROVE  AlertInv'
    <2>1. /\ [late |-> clock = "after", rerun |-> metrics[0] # NoBatch, value |-> value] \in Batch
          /\ 0 \in Days
        BY SustainAssumption DEF Batch, Days
    <2>2. metrics' \in [Days -> Batch]
        BY <1>1, <2>1 DEF CalibrationBatch, AlertInv, AlertTypeOK
    <2> QED
        BY <1>1, <2>2 DEF CalibrationBatch, AlertInv, AlertTypeOK, EvaluatorInv
<1>2. ASSUME NEW v \in ServedVersions, NewChampion(v) \/ StartShadow(v)
      PROVE  AlertInv'
    <2>1. champion' \in ServedVersions /\ shadows' \subseteq ServedVersions \ {champion'}
        BY <1>2 DEF NewChampion, StartShadow, Serving, AlertInv, AlertTypeOK
    <2>2. UNCHANGED <<clock, metrics, locks, worker, sent, fired>>
        BY <1>2 DEF NewChampion, StartShadow
    <2> QED
        BY <2>1, <2>2 DEF AlertInv, AlertTypeOK, EvaluatorInv
<1>3. CASE TimePasses
    <2>1. clock' \in Clock /\ \A i \in Instances : worker[i] \notin Running
        BY <1>3 DEF TimePasses, Clock
    <2>2. UNCHANGED <<champion, shadows, metrics, locks, worker, sent, fired>>
        BY <1>3 DEF TimePasses
    <2> QED
        BY <2>1, <2>2 DEF AlertInv, AlertTypeOK, EvaluatorInv
<1>4. CASE Midnight
    <2>1. \A d \in Days : Shifted(d) \in Batch
        <3>1. NoBatch \in Batch
            BY DEF NoBatch, Batch, Reading
        <3>2. \A d \in Days : d # 0 => d - 1 \in Days
            BY SustainAssumption DEF Days
        <3> QED
            BY <3>1, <3>2 DEF Shifted, AlertInv, AlertTypeOK
    <2>2. metrics' \in [Days -> Batch]
        BY <1>4, <2>1 DEF Midnight
    <2>3. \A i \in Instances : worker'[i] \in {"down", "ready"}
        BY <1>4 DEF Midnight
    <2>4. worker' \in [Instances -> WorkerState]
        BY <1>4, StatesAreDistinct DEF Midnight
    <2>5. fired' \in FiredAges
        BY <1>4 DEF Midnight, AlertInv, AlertTypeOK, FiredAges, Never
    <2>6. AlertTypeOK'
        BY <1>4, <2>2, <2>4, <2>5 DEF Midnight, AlertInv, AlertTypeOK, Clock
    <2>7. EvaluatorInv'
        BY <1>4, <2>3, StatesAreDistinct DEF Midnight, EvaluatorInv
    <2> QED
        BY <1>4, <2>6, <2>7 DEF AlertInv, Midnight
<1>5. CASE UNCHANGED alertVars
    BY <1>5 DEF alertVars, AlertInv, AlertTypeOK, EvaluatorInv
<1> QED
    BY <1>1, <1>2, <1>3, <1>4, <1>5, EvaluatorStep DEF AlertNext

LEMMA AlertInvariant == AlertSpec => []AlertInv
<1>1. AlertInit => AlertInv
    <2> SUFFICES ASSUME AlertInit PROVE AlertInv
        OBVIOUS
    <2>1. AlertTypeOK
        BY StatesAreDistinct
        DEF AlertInit, AlertTypeOK, Clock, Batch, NoBatch, Reading, FiredAges, Never
    <2>2. EvaluatorInv
        BY StatesAreDistinct DEF AlertInit, EvaluatorInv
    <2> QED
        BY <2>1, <2>2 DEF AlertInit, AlertInv
<1> QED
    BY <1>1, AlertStep, PTL DEF AlertSpec

-----------------------------------------------------------------------------
\* Every variable stays in its type.
THEOREM AlertTypeCorrect == AlertSpec => []AlertTypeOK
<1>1. AlertInv => AlertTypeOK
    BY DEF AlertInv
<1> QED
    BY <1>1, AlertInvariant, PTL

\* However many instances evaluate, crash and restart around the hour, and
\* whatever alert_history answers, at most one alert is sent a day.
THEOREM AlertsOncePerDay == AlertSpec => []OneAlertPerDay
<1>1. AlertInv => OneAlertPerDay
    BY DEF AlertInv, OneAlertPerDay
<1> QED
    BY <1>1, AlertInvariant, PTL

\* An alert has the days it claims, reruns and midnights notwithstanding: so many
\* different days in the window, and none of the whole ones free of drift.
THEOREM AlertsHaveDays == AlertSpec => AlertNeedsDays
<1> DEFINE Claimed ==
        \A i \in Instances : FindDrift(i) =>
          /\ Cardinality({d \in Days : metrics[d] # NoBatch}) >= SustainDays
          /\ \A d \in 0..SustainDays - 1 :
                \E v \in ServedVersions : metrics[d] = NoBatch \/ metrics[d].value[v] = "over"
<1>1. AlertInv => Claimed
    <2> SUFFICES ASSUME AlertInv, MayFindDrift
                 PROVE  /\ Cardinality({d \in Days : metrics[d] # NoBatch}) >= SustainDays
                        /\ \A d \in 0..SustainDays - 1 :
                              \E v \in ServedVersions :
                                  metrics[d] = NoBatch \/ metrics[d].value[v] = "over"
        BY DEF FindDrift
    <2> DEFINE All == {d \in Days : metrics[d] # NoBatch}
    <2>1. IsFiniteSet(All) /\ InWindow \subseteq All
        <3>1. IsFiniteSet(Days)
            BY FS_Interval, SustainAssumption DEF Days
        <3> QED
            BY <3>1, FS_Subset DEF InWindow
    <2>2. /\ Cardinality(InWindow) <= Cardinality(All)
          /\ Cardinality(InWindow) \in Nat /\ Cardinality(All) \in Nat
        BY <2>1, FS_Subset, FS_CardinalityType
    <2>3. Cardinality(InWindow) >= SustainDays
        BY DEF MayFindDrift, DaysCounted
    <2>4. Cardinality(All) >= SustainDays
        BY <2>2, <2>3, SustainAssumption
    <2>5. ASSUME NEW d \in 0..SustainDays - 1, metrics[d] # NoBatch
          PROVE  \E v \in ServedVersions : metrics[d].value[v] = "over"
        <3>1. d \in InWindow
            BY <2>5, SustainAssumption DEF InWindow, Days
        <3> QED
            BY <3>1 DEF MayFindDrift, Canonical
    <2>6. champion \in ServedVersions
        BY DEF AlertInv, AlertTypeOK
    <2> QED
        BY <2>4, <2>5, <2>6
<1>2. AlertInv => [Claimed]_alertVars
    BY <1>1
<1> QED
    BY <1>2, AlertInvariant, PTL DEF AlertNeedsDays
=============================================================================
