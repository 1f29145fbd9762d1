# Verification of The Bullpen

TLA+ models of The Bullpen: the stateful core of its backend and the data, training and
release side of its Python code, the TLC runs that check them on small instances, and
theorems about them checked by TLAPS. The reference for every definition is the code in
`src/`; `PROJECT.json` maps each definition to the lines it translates, lists the hazards
the properties are for, and names at least one mutant per property: a plausible bug in
the mapped code under which TLC finds the property violated.

Paths below are relative to `src/backend/src/main/java/net/thebullpen/baseball/` for
Java and to `src/training/src/bullpen_training/` for Python, unless they start with
`src/`.

## 1. The system

The Bullpen predicts pitch and batted-ball outcomes of baseball games. One Java
(Spring) application runs under two profiles: `api` (HTTP) and `worker` (live polling
and the scheduled jobs), each possibly in more than one JVM. They share one SQLite file
(the registry: model versions, routing, experiments, retraining queue, leases, locks,
alert history) and one ClickHouse (pitches, predictions, drift metrics). Python command
lines load the pitches, build the training rows, train and export models, and talk to
the api over HTTP. Model bundles live on local disk and in R2 (S3).

| part | state | operations | hard behaviour | modules |
| --- | --- | --- | --- | --- |
| Model registry and experiments (`registry/`) | `model_versions`, `model_routing`, `experiment_results` | register, reset, promote, roll back, archive; start, finish, abort, import an experiment | several rows change together; gates read other rows and other models | `Registry`, `ServingContract` |
| Snapshot storage (`registry/SnapshotStorage`, `SnapshotRestoreService`, `R2ArchiveClient`) | a version's paths, its directory, its R2 objects | placement, retention sweep, champion push, restore | files do not roll back with the transaction; a crash between two steps | `Snapshots` |
| Retraining queue (`retraining/`, Python `retraining/run.py`) | `retraining_queue`, the worker's progress | enqueue, claim, complete, cancel, reap | two workers, lost answers, crashed workers | `RetrainingQueue`, `RetrainJobs` |
| Live polling (`ingest/`, `data/JobLeaseRepository`) | lease, schedule, per-game cursors, `pitches_live` | tick, poll a game, backfill, evict | takeovers, restarts, failing inserts, physics out of order | `LivePolling` |
| Drift and alerting (`drift/`) | `drift_metrics`, `alert_history`, `job_locks` | nightly batch, evaluation, dedup | two instances, a crash between sending and recording | `DriftAlerts` |
| Model loader (`ModelLoader`, `SessionGuard`) | caches of native sessions, in-flight counts | load, recheck, call, evict, retire, close | close under use, double close, a load during the shutdown | `ModelSessions` |
| Prediction logging (`AsyncPredictionLogger`) | bounded queue, counters | offer, drain, requeue, dead-letter, shutdown drain | overflow, lost answers, two flushers | `PredictionLog` |
| Ingest and weather (`ingest/`) | `raw_statcast`, `pitches`, `weather_observed`, `_schema_migrations` | pull by month, transform by year, migrate, backfill by game | kills between statements, commands side by side, data republished upstream | `Ingest`, `WeatherBackfill` |
| Feature folds and cross-validation (`features/`, `eval/cv_harness.py`, trainers) | `features`, `pitch_type_features`, a run's model and score | build a fold, materialize, load, fit, calibrate, score | builders and trainers overlap; stale rows of another range | `TrainingFolds` |
| Bundles and registration (`pitch/`, `pitch_type/`) | a version directory, contract, encodings, what the registry has | train, persist, export, restamp, check, register | files replaced one by one, read meanwhile | `Bundles` |
| Fold store (`pitch/fold_store.py`) | export directory, object store, fetched directory | export, upload, fetch, load | copies in any order, repeated exports | `FoldStore` |
| Promotion evidence (`eval/promotion/`) | season files, artifact, verdict | export or sample, evaluate, emit, import | tables rewritten during an evaluation; a verdict derived twice | `Promotion` |
| Batted-ball labels and flight (`battedball/retrodict`, `physics`, `parks`) | `bbip_retrodicted_labels` | label page by page; simulate and classify | paging over a table that changes; a flight read in two ways | `Retrodict`, `FlightOutcome` |
| Batted-ball training (`battedball/*/dataset.py`, `train.py`) | frames, the candidate | count, fill, split, fit, calibrate | count and fill by separate queries | `BattedBall` |
| Artifact files and the overnight run | model directories | train, calibrate, export, baseline, report, night | files rewritten in place; gates that read stale files | `ArtifactFiles` |
| Pitch-sequence research (`pitch_comparison/`) | pitch log, laid-out table, index, weights | load, split, index, fit, score | rows joined by position across splits | `PitchSequences` |
| Inference router and its routing cache, warm-up, rate limit, simulation, feature pipelines, HTTP, frontend, infrastructure | little or none | | | not modelled (section 6) |

How the parts interact. The ingest commands fill `pitches`; the weather backfill, the
label pipeline and the feature builders read it; trainers read labels and features, by
themselves or through the fold store, and fill a version directory. Evaluators turn
fitted models into evidence that the registry imports. The retraining worker claims a
trigger over HTTP, trains, and registers a version (`RegistryService.register`), whose
registration also places the bundle and sweeps old bundles to R2. An admin promotes; a
promotion passes a load gate, then moves the prior champion, the new champion and the
routing row in one transaction and pushes the bundle to R2. The router reads the routing
row and calls a session of the model loader; predictions are logged asynchronously to
ClickHouse; nightly jobs join them with the truth, write `drift_metrics`, and at 03:00
the evaluator pages or notifies. `DriftTrigger` closes the loop by enqueueing a
retraining. The live poller writes the pitches all this is measured on.

What makes each part correct, and so what its properties say:

- registry: the stage column and the routing row agree about who serves; nobody serves
  ungated, after retirement, or under another feature schema than its siblings; real
  traffic moves by a deliberate act only;
- snapshots: no bundle is ever lost, whatever fails and rolls back;
- retraining: a trigger is trained by one worker at a time, ends once, and a success
  names a version of its own model; nothing waits for ever;
- drift: a page goes out at most once a day and has the days of drift it claims;
- live polling: one poller, no pitch and no physics skipped for good;
- model loader: the native close happens once and not under a call that the drain bound
  still covers; what left the cache is closed; a fresh session is not dropped for a
  stale one;
- prediction log: an event is written or counted as lost, and leaves the queue;
- ingest: a pitch has one row, a recorded migration has run, a finished backfill has
  every game it saw;
- folds: no row's encoding, no fit and no calibrator has seen a label of the season it
  is scored on, whoever builds beside it;
- bundles: what a check passed is one training under one contract; no primary without
  its baseline; a training off the box reads one export;
- evidence: a verdict was earned, against a baseline measured on the same rows, and the
  registry cannot accept more than the numbers say;
- batted ball: a finished labelling left nothing out, frames hold each row once, a
  candidate is what its metadata says, the fused flight is the reference flight;
- artifacts: a directory with metadata is complete, the holdout stays unseen, the night
  gate judges the night's own files;
- sequences: a scored row was built from its pitcher's past and split by season.

## 2. The modules

Each module models one part; a service method, a SQL statement or a file operation is an
action, and anything another process can come between is two. Definitions whose comment
begins with "Fault" are the wrong variants the mutants use; no specification refers to
them.

### Registry, ServingContract

`Registry` keeps the three tables as sequences and a function: `mv[v]` is the row of
`model_versions` with id `v`, `routing[m]` the row of a model that has one, and
`experiments[e]`. A service method is one `@Transactional` unit on SQLite, which admits
one writer and fails a transaction whose reads were overtaken, so a method is one
action, and what makes it throw is the action's guard:

| action | code |
| --- | --- |
| `Register`, `RegisterWithBootstrap` | `RegistryService.register`, `registerWithBootstrap` |
| `Promote` | `promoteToChampionAtomically` with `assertPromotionCriteriaMet` and the routing upsert |
| `Dethrone` | a champion's `transitionStage` to SHADOW or ARCHIVED, which drops the routing row |
| `Move` | the other transitions, which clear the challenger slot |
| `SetChallenger`, `ClearChallenger`, `SetTrafficPct`, `SetMode` | `RoutingService` |
| `StartExperiment`, `FinishExperiment`, `ImportOfflineGate` | `ExperimentService`, `OfflineGateImportService` |
| `EvidenceAges` | 30 days pass since an experiment ended |

The triggers of V020/V021 and the unique index of V016 are not guards: the invariants
hold without them. `ServingContract` is the abstract promise, one version in service
per model and no way back for a retired one; `ImplementsServingContract` is the
refinement, with the routing row's champion as the version in service and ARCHIVED as
retired.

### RetrainingQueue, RetrainJobs, SqliteCompare

`queue` is the table, `caller` an enqueue between its duplicate check and its insert,
`worker` one run of `run.py` from the claim's SELECT to the report. The claim is two
steps, as in the code, whose only protection is the WHERE clause of its UPDATE. `Die`
can happen at every step, also after the server has done its part (a lost answer).
Time is ages: how old a row is for the duplicate windows, and whether a claim is older
than the reaper's threshold. `RetrainJobs` is the abstract promise: a job ends once,
and a job that is done names a version produced for its model.

`SqliteCompare` is how SQLite compares a `CURRENT_TIMESTAMP` column (text) with a bound
`java.sql.Timestamp` (an integer with sqlite-jdbc's default `date_class`): values of
different storage classes compare by class alone. `TimestampClass` chooses; the runs
use `"integer"`, what the application's data source produces. The comparison is the one
`ExperimentResultsRepository.java:38-44` explains and works round.

### Snapshots

One model. `row` is the committed table, `disk` and `remote` how much of a bundle (none,
partial, full) is in a version's directory and under its key prefix, `tx` the write
transaction under way. A transaction that touches files is a sequence of steps: file
effects happen at once, rows appear at `Commit`, and `UploadFails`, `DeleteFails`,
`PushFails` or `Abort` take back the rows only. `gates` are the promotions that passed
the load gate (`RegistryAdminController`) and whose transaction has not begun.

### DriftAlerts

One model's calibration alert. Time is relative (day 0 is today; a day has a part
before, at and after 03:00). `metrics[d]` is the latest batch of `d` days ago, a reading
per version; `locks` is `job_locks` for today; `worker[i]` where the evaluation of
instance `i` is: the lock, the decision, the message and the record are separate steps
and a crash can fall between any two. `fired` is the age of the newest row of
`alert_history`, compared through `SqliteCompare`.

### LivePolling

One game. `feed` is what MLB serves, `lease` the row of `job_leases`, `proc[i]` the maps
of `LivePollingService` in instance `i` (status, `lastCursorByGame`,
`battedBallWritten`) and where its poll is, `table` what `pitches_live` has of each
pitch. Tick, fetch, write and backfill are separate steps; a failing insert may have
been applied or not; a crash loses the maps and leaves the lease to age.
`TickOutlivesLease` says whether a tick can take longer than `leaseStaleSeconds`.

### ModelSessions

One of the loader's five caches. `sessions[s]` is the guard of the s-th session opened
(in-flight count, closing, how often the native close ran), `cache` the session under
each key, `loader` the closed flag and the place of the shutdown sweep, `request[r]`
where a request thread is between `getLive`'s check, the load, the recheck, the entry
into the guard, the call and the exit. A load is atomic per key (Caffeine computes under
its key's lock) and so is a `synchronized` block; eviction, the listener on its own
thread, a drain that gives up and the sweep interleave with all of it. A drain bound is
a closer that may stop waiting at any moment.

### PredictionLog

`pending` is the bounded queue with each event's failed attempts, `flush[a]` the
scheduled flusher and the thread that stops the bean, each with its batch in hand,
`gate` the backoff. A failed insert may have been applied; its events go back one by
one, or are dropped at a full queue, or dead-lettered at the last attempt. An insert may
fail every time, which is what a row that ClickHouse rejects does to its batches.

### Ingest, WeatherBackfill

`raw` is the MergeTree partitioned by month (a bag), `pitches` the ReplacingMergeTree
by (date, pitch), the pull and the transform their program counters. A month is a DROP
PARTITION and several INSERT chunks, each a step; a kill may fall between any two, and
the pull's and the transform's assertions decide the verdict. `Migrate` is both
commands' `apply_migrations`, statement by statement. `Republish` changes a pitch
upstream, its date too. `WeatherBackfill` composes with it: games found in `pitches`
and not in `weather_observed` are fetched, buffered and inserted in batches.

### TrainingFolds

Of a row the model keeps its season and the last season whose labels went into its
encoding; of a model, the seasons whose labels it has seen. `StartBuild`, `FitEncoding`,
`InsertSomeRows`, `InsertSeason` are the feature builders, which write a fold season by
season and may be started with different season bounds; `CVNext` has the trainers:
load train and validation rows, fit, fit the calibrator, load test rows, score, with
the leakage guards where the code calls them. They run side by side over the same tables.

### Bundles

A file is the number of the training it comes from, the contract the number of its edit,
a SHA-256 in the metadata the number of the file it was taken of. Trainers persist a
directory file by file, metadata last; exporters add the ONNX graph and, in the
pitch-type family, restamp the metadata they read before; a registration command
assembles a snapshot (pitch) or opens the gate and hashes file by file (pitch type), the
primary after its baseline. Everything may be killed between two files and runs beside
the others. `gated` remembers what the last passed check was about.

### FoldStore

A file is the number of the export that wrote it, which is also what its digest tells.
`box` writes the parts, the manifest last; uploads and fetches take files in any order;
the loader verifies a file's digest the first time it reads it and never again.

### Promotion

`labels` are the tables, a version of them per season and how many rows; `files` the
season files and which version they hold. Evaluators of eight families load a training,
a validation and a test season from the tables or the files, fit, measure any small
number per metric for both heads and write an artifact with the verdict the code
computes; `ImportGateAccepts` is what `OfflineGateImportService` derives again from the numbers.
`Relabel` rewrites a table while an evaluator is at work.

### Retrodict, BattedBall

`Retrodict`: a ball is a number in the order of the query, its rows for all parks one
label, of which is kept the run that wrote it and whether it knew the weather. The
pipeline pages with LIMIT and OFFSET over a table that is corrected meanwhile.
`BattedBall` adds the trainers: `CountSeason` then `LoadSeason` for the array loaders,
pages for LightGBM, then `Fit`, whose candidate remembers on which rows it was fitted
and calibrated. They compose over `labels`.

### FlightOutcome

The reference records a flight and walks it afterwards; the fused kernel keeps one
step and decides on the fly. `Step` extends both with any bounded step. Positions are
small integers and fractions pairs of them, so both computations are exact. The flight is a
straight one: off a straight line the two take the fence at different bearings, which
the source states.

### ArtifactFiles

`files` maps a directory and a name to what is in the file: the run that wrote it, its
span, what it was computed from. A command is one action at its start (what it reads and
decides) and one per file it writes, in the code's order; it may be killed between two.
`night` is `run_2c_overnight.sh`: stages through `tee`, `pipefail`, the gate test that is
skipped when there are no artifacts. `KillCommand` may leave a torn file. One operator
runs one command at a time.

### PitchSequences

A pitch is its place in the order of the query; a feature is the set of pitches it is
computed from, a weight its exponent of decay. One action per stage: load year by
year, prepare and split, index, train each of the four transformers epoch by epoch
(early stopping, the state restored), fit and score.

### Proof and MC modules

`*Proofs` hold the theorems of section 5: a proof module takes the components that
belong together, one section each.
`MCModels`, `MCServices`, `MCTrainingData` and `MCTrainingRelease` run parts that share
no state side by side: a variable `part` is chosen initially and only that part steps,
so that the run is the sum of its parts, not their product. The other `MC*` modules name
the model values of one module's configurations.

## 3. The runs

| run | states | parts and properties |
| --- | --- | --- |
| `models` | 1,588,107 | registry (`RoutedIffChampion`, `ChallengerIsShadow`, `ChampionEarned`, `OneLiveSchema`, `TrafficIsDeliberate`, refinement of `ServingContract`); snapshots (`BundleSafe`); alerts (`OneAlertPerDay`, `AlertNeedsDays`); artifacts (`HoldoutIsUnseen`, `OvernightGateIsFresh`, `MetadataIsLast`); sessions (`CloseIsExclusive`, `FreshIsKept`) |
| `services` | 326,349 | queue (`OneWorkerPerTrigger`, refinement of `RetrainJobs`, liveness `QueuedIsServed`); sessions (liveness `RemovedIsClosed`); log (`LossIsCounted`, liveness `QueueDrains`) |
| `live_polling` | 34,596 | `OnePoller`, `CursorCovered`, `PhysicsKept`, liveness `LiveGameKeepsUp`, `PhysicsKeepsUp` |
| `training_data` | 2,328,037 | ingest and weather (`OneRowPerPitch`, `TrackedIsApplied`, `BackfillIsComplete`); labels and training (`LabelledWhenDone`, `FramesAreExact`, `CandidateIsHonest`); flight (`FusedAgrees`) |
| `training_release` | 1,934,789 | folds (`EncodingIsBlind`, `HonestEvaluation`); bundles (`GatedIsOneTraining`, `PrimaryHasBaseline`); store (`TrainedOnOneExport`); evidence (`GateIsEarned`, `VerdictIsPaired`); sequences (`ScoreIsHonest`) |
| `retrain_reaper` | violation | a crashed worker's trigger stays running for ever |
| `snapshot_reset` | violation | a rolled back reset leaves a champion without its files |
| `drift_dedup` | violation | an alert that fired once is suppressed for ever |
| `drift_other_version` | violation | a shadow's readings page the champion |
| `live_last_poll` | violation | an insert that fails when the game has ended is not retried |
| `session_leak` | violation | a load that overlaps the shutdown is never closed |
| `temporal_weights` | violation | sample weights land on other rows than their own |

Bounds, and why they are enough for the questions asked:

- Registry: three versions are a serving one, its successor and a further challenger,
  which every interaction of the stage machine with the routing row needs; two models
  (a head and its baseline) and two schemas are the least in which a gate can read the
  wrong model or a schema differ.
- RetrainingQueue: two triggers, two workers and two candidates give every race of
  claims and a label that is taken.
- Snapshots: three versions with one kept locally make a sweep archive two, so that it
  can fail after the first.
- DriftAlerts: two instances, two versions and two sustained days; one batch out of
  schedule in the window. The code asks three days; the counting is the same.
- LivePolling: two instances, two pitches, both in play: the least in which physics can
  arrive out of order and one instance can carry a stale picture of the other's work.
- ModelSessions: two threads, two keys and a cache of one, so that each load evicts;
  three sessions in `models`, two where liveness is checked.
- PredictionLog: three events over a queue and a batch of two make the queue overflow
  while a batch is out; two attempts let an event be requeued and then dead-lettered.
- Ingest: two pitches of two games in two months, loaded in chunks of one: a month of two
  chunks can be torn, and a pitch can move between months. Two migrations of one statement
  suffice for two commands to interleave.
- Labels and training: four balls of two seasons in pages of two, one without a park;
  two runs, one correction.
- FlightOutcome: four steps of bounded reach over fences of two heights; the thresholds
  of distance, height and hang time lie inside the range such a flight can reach.
- Folds: six seasons and three folds, so that training, validation and test seasons of
  different folds overlap; two builds, possibly with different bounds.
- Bundles: two trainings and two contracts: old and new. FoldStore: one file of each
  kind and two exports, for the same reason.
- Promotion: all eight families; measures of two or three values around the bars.
- ArtifactFiles: three commands by hand beside a night, two parks.
- PitchSequences: seven pitches of two pitchers over five seasons, a window of two, two
  epochs.

`models` and `training_data` use symmetry, over processes and served versions and over
the pitches together with their games; neither checks liveness.

`CHECK_DEADLOCK FALSE` stands where bounded tables or finite work let the system come to
rest: all versions archived, all triggers ended, the bound of commands or trainings
reached. `live_polling` and the drift runs check deadlock.

Fairness. `WorkerFairness`, `TimeFairness` and `WF_vars(Reap)`: each worker step (the
timer starts a run again and again; a step is the training's success or its failure),
the passage of time and the reaper's schedule are weakly fair, crashes and cancels are
not. `CloserFairness`: the listener and the shutdown sweep, threads that only wait for a
bounded time, take their steps; requests owe nothing, and a native call may hang.
`LogFairness`: the flusher's schedule, the steps of a flush and of the shutdown, which is
bounded by attempts, and the end of the backoff. `LivePolling!FairSpec` has weak fairness
of restarts (systemd) and of the lease's age (the clock), and strong fairness of a tick
that finds the game due with a fresh schedule, of a fetch, of an insert and of a backfill
that succeed: calls may fail for as long as they like, but not every time.
`LiveGameKeepsUp` and `PhysicsKeepsUp` except a game that has ended or whose date has
passed; section 4 says why they must. In `services` nothing is enabled in a part that
was not chosen, so fairness of one part asks nothing of a behaviour of another.

## 4. What the code does that its text does not say

Each of these was met while modelling. The numbered ones are runs with
`expect: violation`.

1. `RetrainingQueueRepository.reapStaleClaims` compares a text column with an integer
   parameter: text is never at most an integer, so no claim is ever reaped, although
   the javadoc says it returns rows "so a crashed worker doesn't strand the trigger".
2. `AlertHistoryRepository.firedWithin` has the same comparison the other way round:
   always true, so an alert key that fired once never fires again
   (`DriftAlertEvaluator.java:48` says "suppressed for 24h").
3. `CalibrationJob` writes one row per champion and shadow version with one timestamp;
   `findRecent` and `dailyCanonical` do not tell versions apart.
4. A bootstrap reset archives the champion and may sweep it in the same transaction; if
   that rolls back, a CHAMPION row with a local path has no directory.
5. `pollGame` adopts COMPLETED before it writes the same feed's pitches; if that insert
   throws, the game is not polled again.
6. `ModelLoader.getLive` checks the closed flag and then loads; a load that overlaps
   `close()` is cached after the sweep and never closed (`ModelLoader.java:369-372`).
7. `transformer_v3.py:239` slices the temporal sample weights by batch position while the
   loader shuffles: the weights land on rows of other seasons.

The following were seen while modelling as well, and have no run of their own:

- Live polling. The lease is renewed once per tick; a tick over several games whose
  fetches are retried can outlive the 30 s. With `TickOutlivesLease = TRUE` TLC shows
  two pollers, and an insert of the slower one that replaces a complete row by one
  without physics (`JobLeaseRepository.java:10-12` calls the caller a "safe
  singleton"). At midnight Eastern the new schedule drops a game in progress, which is
  evicted (`LivePollingService.java:547`).
- Registry. A model may have several SHADOW rows (`RegistryService.java:404,427`) where
  `RegistryRepository.java:285-287` speaks of one. After all versions are archived a
  plain register may bring another schema (`RegistryRepository.java:235` against
  `RegistryService.java:165-166`). A failure of the latest experiment does not outweigh
  an earlier success (`ExperimentResultsRepository.java:54`).
- Retraining. A cancel between claim and registration is not polled
  (`retraining/run.py:108` against `RetrainingQueueService.java:131-132`). Two clicks
  on the manual trigger can both pass the check (`ManualTrigger.java:41`). Two
  overlapping runs can choose one version label; the later registration is answered
  with the existing row (`run.py:109-111`).
- Snapshots. A version on its way to SHADOW can be swept between the load gate
  (`api/admin/RegistryAdminController.java:186`) and its transaction, and then shadows
  without local files (`SnapshotStorage.java:43-44,147-148` say that a SHADOW is never
  archived). A push that fails throws inside the promotion's transaction and rolls it
  back (`RegistryService.java:574`), where the comment at `:557-559` says "the promotion
  is committed regardless". A rolled back sweep of several versions loses the local copy
  of those already deleted (`SnapshotStorage.java:177` against `:151-152`). An upload
  failure is an exception the sweep does not catch (`:178`, `R2ArchiveClient.java:87-89`).
  A restore lists a prefix without a closing slash, so `v1` also matches `v10`
  (`R2ArchiveClient.java:148` against
  `src/docs/runbooks/registry-snapshot-recovery.md:85-87`).
- Drift. Three distinct days within the window need not be consecutive when a rerun is
  late (`DriftAlertEvaluator.java:168`).
- Ingest. A pitch without a key gets a zero key, so all such pitches of a day replace one
  another in `pitches` (`Unkeyed` in `Ingest` stands for them; the run has none).
- Bundles. `pitch/export_pre_onnx.py:13` says the export "validates the model matches"
  the contract; it exports whatever booster is in the directory. `Bundles` shows contract
  and model of a pitch head drift apart when the contract is edited in between; the
  pitch-type gate, which hashes, does not let that pass. A killed save over an older
  version leaves a directory of two trainings that only the hashing gate notices.
- Evidence. The label `full` is a command-line option that nothing relates to the rows
  the evaluator loads (`eval/promotion/driver.py:689`). The import takes an absent
  `guardrails_observed` as none (`OfflineGateImportService.java:120`). The pitch-type
  gate compares cross-validated numbers of two heads whose runs need not have read the
  same build of the table.
- Holdout. `_eval_kind` (`battedball/eval/backfill_accuracy.py:239`) judges from the
  season span alone that a read is unseen, and describes the served files as trained on
  2015-2025; which seasons they were fitted and calibrated on is decided by the commands
  that wrote them. `pitch_comparison/config.py:11-16` asks a driver that accepts years
  to call `refuse_holdout`; `src/training/scripts/compare_all_pitch_models.py` and
  `compare_arsenal_models.py` accept them and do not.
- Overnight. `run_2c9_comparison.py` unpacks two values from `load_arrays`, which returns
  three (`battedball/mlp/dataset.py:650`). The gate test
  (`tests/battedball/mlp/test_outcome_calibration_gate.py:11-15`) reads a fixed
  directory and has no way to tell which run wrote its metrics; it is fresh because the
  night's own stages ran before it, which is `OvernightGateIsFresh`. A park without rows
  keeps its old directory, which the export then takes.
- Pitch sequences. `pitcher_avg_velo` (`pitch_comparison/sequence_data_v2.py:95`) averages
  over all rows of a pitcher in the table, test rows too. It is an average and not a
  label, and outside `ScoreIsHonest`.

These interleavings are real and have no property here: two processes of `ManualTrigger`
between check and insert (the queue model has the race, and one extra training is its
worst outcome); a cancel between claim and registration; the prefix without a closing
slash; a restore that stops half way (`SnapshotRestoreService` fails on the next); a
tick longer than the lease; midnight Eastern; an entry of the routing cache up to its
TTL old; park codes read once at the start of a pipeline; doubleheaders whose game ids
are not in order of play.

## 5. What is proved

The theorems hold for every value of the constants that the named assumptions admit,
with no bound on the state (the bounds of the counters are themselves constants). Each
argument is an inductive invariant; the lemmas show one group of actions at a time that
it is preserved.

`RegistryProofs`, from `TrafficAssumption` (traffic percentages are at most 100, 0 is
one of them):

- `TypeCorrect`: `Spec => []TypeOK`. `TypeOK` is inductive.
- `ServingConsistent` (`OneChampionPerModel`, `RoutedIffChampion`) and
  `ChallengersShadow` (`ChallengerIsShadow`). They are only inductive together (`ServingInv`): the routing row
  names the one champion the promotion must demote, and a stage change must know whether
  the version it moves is in the slot. `SetStageEffect` and `ArchiveWhereEffect` say once
  what a write of `model_versions` changes.
- `SchemaIsPinned` (`OneLiveSchema`) and `ChampionsAreEarned` (`ChampionEarned`). Lemmas
  say which rows an action keeps and which it adds; evidence is only ever added, so a
  champion that was earned stays so.
- `TrafficNeedsAnAct`: the action property `TrafficIsDeliberate`, from an invariant about
  the slot without a challenger.
- `RefinesServingContract`: every step of `Registry` is a step of `ServingContract` or a
  stutter, under the mapping of section 2.

`RetrainingQueueProofs`, from `BoundsAssumption`:

- `QueueTypeCorrect`, from `QueueInv`.
- `OneWorker`: `OneWorkerPerTrigger`, from `ClaimInv`, under
  `TimestampClass = "integer"`: no claim is ever reaped, so a worker that is training
  holds its row.
- `RefinesRetrainJobs`: the queue implements the abstract jobs, for either class.

`DriftAlertsProofs`, from `SustainAssumption`: `AlertTypeCorrect`; `AlertsOncePerDay`
(`OneAlertPerDay`), from `AlertInv`, in which an evaluation between lock and record owns
the lock; `AlertsHaveDays`, the action property `AlertNeedsDays`.

`LivePollingProofs`, from `PitchesAssumption`, `LeaseAssumption` and
`OwnersAssumption` (owner ids are UUIDs: no process is called "none" or "gone"):

- `TypeCorrect` and `CursorsCovered`, from `CursorInv`: what a process has behind it is
  in the table, the feed it holds is well formed, and while it backfills its cursor has
  reached the end of that feed. The last part is why the backfill's place after the new
  pitches matters.
- `SinglePoller`, from `LeaseHeld`: an instance in the middle of a tick owns the lease
  and the lease is not stale. It holds under `~TickOutlivesLease` only.
- `PhysicsIsKept`, from `PhysicsInv`: the physics in the table came from the feed, and
  an instance about to insert has fetched all of it. That, with one poller at a time,
  is why an insert of pitches never takes physics away.

`ModelFilesProofs` is about the files of models, of the backend and of the training box.
From `SizesAssumption`: `SnapshotTypeCorrect` and `BundlesAreSafe` (`BundleSafe`), from
`SnapshotInv`. `BundleSafe` alone is not inductive, since the table and the files change
at different steps of a transaction: `SafeInTx` says the same of the rows as the
transaction will commit them, `SweepOK` that what a sweep is about to delete is whole in
R2, `RestoreOK` what a restore may write over. From `ArtifactAssumption`:

- `HoldoutStaysUnseen` (`HoldoutIsUnseen`), from `HoldoutInv`: only the calibrations of a
  network have been fitted on the holdout, and a running command that is about it says so.
- `GateMeasuresThisNight` (`OvernightGateIsFresh`), from `NightOK` (the command that runs
  is the one of its stage) and `FreshInv` (what each stage behind the night has left, and
  what the one at work has already written).
- `MetadataClosesTheRun` (`MetadataIsLast`), from `OrderInv`, which relates what a command
  has written to what it still will, and `LastInv`: a `metadata.json` whose companions are
  not of its run has a newer one beside it. The park order must have no park twice.

`ServingProofs` is about what happens under the requests. `SessionTypeCorrect`,
`SessionsCloseOnce` (`CloseIsExclusive`), `CountsAreCalls` and `FreshStaysCached` (the
action property `FreshIsKept`) follow from `CacheAssumption` and `RequestsAssumption`
(finitely many threads) by `SessionInv`. Its core is that the in-flight count of a guard
is the number of threads inside it, which is why finiteness is assumed: zero then means
that nobody is inside. `LossesAreCounted` (`LossIsCounted`) follows from
`LogAssumption` by `QueuesOK` (an event is in one place of one queue) and `AccountsOK`
(the counters are the cardinality of what was offered and is neither underway nor
acknowledged).

`TrainingReleaseProofs` follows the fold tables to the registered model, and the pitch log
to the score of an experiment.

- `EncodingsAreBlind` (`EncodingIsBlind`) and `EvaluationIsHonest` (`HonestEvaluation`),
  from `FoldsAssumption`: `BuilderInv` says which encoding a builder at work carries,
  `TrainerInv` what the frames of a run, and then its model, have seen.
- `TrainsOnOneExport` (`TrainedOnOneExport`), from `FoldStoreAssumption`: manifests travel
  whole (`Uniform`), and a file a fetch has passed is the one its manifest lists.
- `GatesAreEarned` (`GateIsEarned`) and `VerdictsArePaired` (`VerdictIsPaired`), from
  `PromotionAssumption`: what an evaluator has loaded so far is paired between its heads, and
  an artifact on disk has kept that.
- `GatedBundlesAreWhole` (`GatedIsOneTraining`) and `PrimaryFollowsBaseline`
  (`PrimaryHasBaseline`), from `BundlesInv`, for any number of trainings, contracts and
  encodings and from no assumption about them. In the pitch-type family the metadata of
  the training that is now in the directory promises the files it was taken of, and
  metadata of an older one promises nothing (`Fits`); a writer changes one file at a time,
  and changes the first one, the booster, before any it has hashed (`WriteOne`). A check
  that finds every hash in place, although it reads file after file, has therefore read
  one training.
- `ScoresAreHonest` (`ScoreIsHonest`), from `SequencesAssumption` by `SeqInv`: the table is
  the three splits one after the other (`Laid`), the index is that of this table
  (`Numbered`), and the epoch kept is the first of the best so far (`BestSoFar`). The
  arithmetic of the index is in lemmas about finite sets of numbers: ranks leave no number
  out (`RankTaken`), so the slots of the rows are 0 to n - 1 and no two rows share one
  (`SlotsApart`, `FlatSlot`), and a slice of the index that ends before a row is the rows
  of its pitcher that come before it (`WindowIs`). `StreakIs` says that numbering the runs
  of equal pitch types, counting inside one and shifting back counts the pitches since the
  type last changed. Splits in the order of time make positions and pitches agree.

`TrainingDataProofs` follows a pitch from Statcast to a label.

- `MigrationsComeFirst` (`TrackedIsApplied`), from `IngestAssumption`: a command that
  migrates has run, or found recorded, all files before the one it is at (`Behind`).
- `PullsLeaveOneRow` (`OneRowPerPitch`), from the same assumption: Statcast serves a pitch once at a time, and what
  a pull still has to insert is apart from what it has inserted since it dropped the
  partition (`RowsInv`). The second half is counting: as many keys as pitches, which is
  all that the assertion of the transform compares, means that no pitch has two.
- `BackfillsLoseNothing` (`BackfillIsComplete`): every game set out for is stored, waits,
  is buffered or is missing. `IngestBesideBackfill`: the backfill disturbs neither of the
  former.
- `RunsLabelTheirStart` (`LabelledWhenDone`), from `RetrodictAssumption` by `PagingInv`: as long as no ball has left
  the stream, those of the start that rank below the offset are labelled or on the page at
  hand. That the ranks of a finite set are 0, 1, ... without a gap (`RankOnto`) is why a
  short page is the last one.
- `FramesStayExact` (`FramesAreExact`) and `CandidatesAreHonest` (`CandidateIsHonest`), from
  `SliceInv` and `FillInv`: the rows loaded so far are those of the seasons, or the pages,
  that are behind the loader, unless the table has been stirred.
- `KernelsAgree` (`FusedAgrees`), from `FlightAssumption`: until the ball lands, the
  registers of the kernel hold the last sample and the crossing of the first segment that
  reached the fence. On the step that lands the two differ: the record has a crossing that
  the kernel passes over. It is no higher than the fence, since one step drops a ball by
  less than that, and so changes nothing (`LowAtTheFence`, `DecideAlike`).

TLC checks every property named above in the runs of section 3.

Only model-checked: the liveness properties `QueuedIsServed`, `QueueDrains`,
`RemovedIsClosed`, `LiveGameKeepsUp` and `PhysicsKeepsUp`, since fairness and ENABLED are
beyond the prover. `PitchSequences` states its tables by position and rank
where the code filters and sorts, because what `SelectSeq` and `SortSeq` compute for a
sequence of any length needs induction over data, which no installed prover can
instantiate.

## 6. What is not modelled

- Floating point: feature pipelines, calibrators, simulation, PSI and calibration
  statistics, the physics integrators, networks and trees, metrics and plots. They have
  no state that interacts, and TLA+ has no floating point.
- The inference router and its routing cache: the router is stateless over a row that a
  JVM caches for 30 s, so it serves what `Registry` allowed at most that long ago. Warm-up
  runs once in one thread; the rate limiter is one synchronized method over real time.
- ClickHouse repositories and migrations of the backend, except the merge rules that
  matter (`pitches_live` in `LivePolling`, the tables of `Ingest`, `TrainingFolds` and
  `Retrodict`). Controllers validate and format. Frontend and infrastructure.
- Within the modelled parts: verdict arithmetic beyond comparisons, polling cadence,
  predictions and the matchup row in a poll, diffPatch (a faster fetch of the same feed),
  the feature-PSI notice (the evaluator's same steps per feature), parity fixtures, the
  register commands' HTTP client, value-range assertions of the ingest, the retired
  `retraining/batted_ball.py`, and of `pitch_comparison` the models, metrics, analysis,
  embeddings and hierarchical variants. Other scripts and shell wrappers call the
  modelled commands in sequence.
- The training commands are modelled under one assumption the code leaves to its users:
  in `ArtifactFiles` one operator runs one command at a time. The commands of `Ingest`,
  `TrainingFolds`, `Bundles`, `FoldStore`, `Promotion` and `Retrodict` do run side by side.

## 7. What could come next

1. `RoutingCache`: two JVMs' caches of the routing row (load, evict, expire) over the
   writes of `Registry`. Properties: an entry read before a commit and stored after the
   eviction lives no longer than the TTL; a retired version gets no request later.
2. `DriftAlerts` extended by the feature-PSI notice and `DriftTrigger`, which feeds
   `RetrainingQueue`.
