---------------------------- MODULE ArtifactFiles ----------------------------
(***************************************************************************)
(* The directories that batted-ball models live in.  Each is filled and    *)
(* read by commands of their own: a trainer, an exporter, the fit of the   *)
(* calibrators, the drift baseline, the parity fixtures, the accuracy      *)
(* report.  A command reads what it needs, computes, and writes one file   *)
(* after another in place; it may be killed between two files or in the    *)
(* middle of one.  run_2c_overnight.sh chains some of them.                *)
(*                                                                         *)
(* A behaviour is about the directories of one kind of model.  One         *)
(* operator runs one command at a time.                                    *)
(***************************************************************************)
EXTENDS Integers, Sequences, FiniteSets, SequencesExt

CONSTANTS Families,           \* the kinds of models looked at
          ParkOrder,          \* the parks, sorted
          MaxByHand           \* bound: commands and nights started by hand

ASSUME ArtifactAssumption ==
    /\ Families \subseteq {"network", "lightgbm", "miniature", "parks", "park_networks",
                         "regression"}
    /\ ParkOrder \in Seq(STRING) /\ Len(ParkOrder) > 0
    /\ \A i, j \in DOMAIN ParkOrder : i # j => ParkOrder[i] # ParkOrder[j]
    /\ MaxByHand \in Nat

\* A season of the training years, and the holdout year.
Training == 1
HOLDOUT_YEAR == 2
Spans == {{Training}, {Training, HOLDOUT_YEAR}, {HOLDOUT_YEAR}}

VARIABLES
    family,   \* the kind of model
    files,    \* [<<directory, name>> -> content], of the files that exist
    command,  \* the one that is running: [kind, run, seen, of, about, note, todo]
    runs,     \* commands started so far: it numbers what they write
    byHand,   \* what the operator has started, for the bound
    night     \* run_2c_overnight.sh: [stage, began, train, val, why]

artifactVars == <<family, files, command, runs, byHand, night>>

Parks == {ParkOrder[i] : i \in DOMAIN ParkOrder}
noCommand == [kind |-> "none", run |-> 0, seen |-> {}, of |-> {}, about |-> {}, note |-> "",
              todo |-> <<>>]
noNight == [stage |-> 0, began |-> 0, train |-> {}, val |-> {}, why |-> "none"]

ArtifactInit ==
    /\ family \in Families
    /\ files = <<>> /\ command = noCommand /\ runs = 0 /\ byHand = 0
    /\ night = noNight

Exists(f) == f \in DOMAIN files
\* json.loads, torch.load, onnxruntime: a file cut short cannot be read.
Readable(f) == Exists(f) /\ files[f].whole
AllReadable(fs) == \A f \in fs : Readable(f)
In(dir, names) == {<<dir, n>> : n \in names}

TouchesHoldout(seasons) == HOLDOUT_YEAR \in seasons

(***************************************************************************)
(* What each command writes, in order, and what it must be able to read.   *)
(***************************************************************************)
Into(dir, names) == [i \in DOMAIN names |-> <<dir, names[i]>>]

\* Of the parks asked for, each named once, those with rows, in order.
InOrder ==
    {asked \in SeqOf(Parks, Len(ParkOrder)) :
       \A i, j \in DOMAIN asked : i < j =>
          \E k, l \in DOMAIN ParkOrder :
             k < l /\ asked[i] = ParkOrder[k] /\ asked[j] = ParkOrder[l]}

\* The three files of each park, then metadata.json beside their directories.
PerPark(asked, names) ==
    [n \in 1 .. 3 * Len(asked) + 1 |->
       IF n > 3 * Len(asked) THEN <<"all", "metadata.json">>
       ELSE <<asked[1 + ((n - 1) \div 3)], names[1 + ((n - 1) % 3)]>>]

\* A fault for the mutants: the exporters write metadata.json too early.
ExportWritesMetadataFirst == <<"model.onnx", "metadata.json", "calibrator.json">>
ExportWrites == <<"model.onnx", "calibrator.json", "metadata.json">>

Writes(kind, asked) ==
    CASE kind = "train_network" -> Into("network", <<"model.pt", "model.onnx", "metadata.json">>)
      [] kind = "calibrate" -> Into("network", <<"calibrator.json", "calibration_metrics.json">>)
      [] kind = "train_lightgbm" -> Into("lightgbm", <<"model.txt", "calibrator.json", "metadata.json">>)
      [] kind = "export_lightgbm" -> Into("lightgbm", <<"model.onnx">>)
      [] kind = "compare" -> Into("eval", <<"comparison.json", "comparison.html">>)
      [] kind = "score" -> Into("eval", <<"accuracy.json", "accuracy.html">>)
      [] kind = "baseline" -> Into("network", <<"metadata.json">>)
      [] kind = "generate" -> Into("miniature", <<"model.onnx", "metadata.json", "calibrator.json">>)
      [] kind = "fixture" -> Into("contracts", <<"input.json", "expected.json">>)
      [] kind = "train_parks" -> PerPark(asked, <<"model.txt", "calibrator.json", "metadata.json">>)
      [] kind = "export_parks" -> Into("all", ExportWrites)
      [] kind = "train_park_networks" -> PerPark(asked, <<"model.pt", "model.onnx", "metadata.json">>)
      [] kind = "train_regression" ->
           Into("regression", <<"pipeline.joblib", "calibrator.json", "metadata.json">>)
      [] kind = "export_regression" -> Into("regression", ExportWrites)
      [] OTHER -> <<>>

\* The subdirectories with a booster: their names are the parks exported.
Boosted == {p \in Parks : Exists(<<p, "model.txt">>)}
FirstBoosted == ParkOrder[CHOOSE i \in DOMAIN ParkOrder :
                   ParkOrder[i] \in Boosted /\ \A j \in 1 .. i - 1 : ParkOrder[j] \notin Boosted]

\* OnnxMlpPredictor: the graph that is served, its scaler and its calibrators.
Served(dir) == In(dir, {"metadata.json", "calibrator.json", "model.onnx"})

Reads(kind) ==
    CASE kind \in {"calibrate", "compare"} -> In("network", {"metadata.json", "model.pt"})
      [] kind = "gate" -> In("network", {"calibration_metrics.json"})
      [] kind = "export_lightgbm" -> In("lightgbm", {"model.txt", "calibrator.json", "metadata.json"})
      [] kind \in {"score", "baseline"} -> Served("network")
      [] kind = "fixture" -> Served("miniature")
      [] kind = "export_parks" ->
           {<<p, "model.txt">> : p \in Boosted} \union {<<FirstBoosted, "metadata.json">>}
      [] kind = "export_regression" ->
           In("regression", {"pipeline.joblib", "calibrator.json", "metadata.json"})
      [] OTHER -> {}

\* load_lr_baseline_bundle reads the calibrators of the pooled form, which an
\* export has replaced by one per park.
Pooled == files[<<"regression", "calibrator.json">>].note = "pooled"

Loads(kind) ==
    /\ kind = "export_parks" => Boosted # {}
    /\ AllReadable(Reads(kind))
    /\ kind = "export_regression" => Pooled

\* What is read only when the writing has begun: _merge_calibrators.
LoadsFor(f) ==
    command.kind = "export_parks" /\ f = <<"all", "calibrator.json">>
      => AllReadable({<<p, "calibrator.json">> : p \in Boosted})

(***************************************************************************)
(* The rows of a season, and who refuses the holdout.                      *)
(***************************************************************************)
\* load_arrays returns the features, the labels and the carry.  The fit of the
\* calibrators unpacks the three, the comparison unpacks two.
LoadArrays == <<"features", "labels", "carry">>
Unpacked == [calibrate |-> 3, compare |-> 2]
Unpacks(kind) == kind \in DOMAIN Unpacked => Len(LoadArrays) = Unpacked[kind]

Trainers == {"train_network", "train_lightgbm", "train_parks", "train_park_networks",
             "train_regression"}

\* refuse_holdout in every trainer, _parse_seasons in the drift baseline, and
\* _refuse_holdout of the report unless the operator asks for the holdout.
Accepts(kind, seasons, allowed) ==
    (kind \in Trainers \union {"baseline"} \/ (kind = "score" /\ ~allowed))
      => ~TouchesHoldout(seasons)

\* A fault for the mutants: a span that reaches the holdout counts as unseen.
EvalKindByLast(seasons) == IF TouchesHoldout(seasons) THEN "unseen" ELSE "in_sample"
EvalKind(seasons) ==
    IF ~TouchesHoldout(seasons) THEN "in_sample"
    ELSE IF Training \in seasons THEN "mixed" ELSE "unseen"

(***************************************************************************)
(* What is in a file: the command that wrote it, the seasons that what it  *)
(* holds was fitted on, the runs it was derived from, the seasons it       *)
(* describes (feature_distributions of a metadata.json, the rows of a      *)
(* report), and what it says.                                              *)
(***************************************************************************)
SeenBy(fs) == UNION {files[f].seen : f \in fs}
RunsOf(fs) == {files[f].run : f \in fs}

Plain == [by |-> command.kind, run |-> command.run, seen |-> command.seen,
          of |-> command.of, about |-> {}, note |-> command.note, whole |-> TRUE]

\* A network describes its training rows natively; the drift baseline of an
\* older one is merged into a metadata.json that otherwise stays.
Content(f) ==
    CASE command.kind = "baseline" -> [files[f] EXCEPT !.about = command.about]
      [] command.kind = "score" -> [Plain EXCEPT !.about = command.about]
      [] command.kind = "train_network" /\ f[2] = "metadata.json" ->
           [Plain EXCEPT !.about = command.about]
      [] OTHER -> Plain

With(f, c) == [g \in DOMAIN files \union {f} |-> IF g = f THEN c ELSE files[g]]

(***************************************************************************)
(* A command.                                                              *)
(***************************************************************************)
\* The seasons a run fits on: boosters and the regression also on those their
\* calibrators and their stop are given; a network only reports its loss there.
Fitted(kind, span, val) ==
    IF kind \in {"train_network", "train_park_networks"} THEN span ELSE span \union val

\* An export, a report, holds what the model that it reads was fitted on.
Sees(kind, span, val) ==
    CASE kind \in {"export_lightgbm", "export_regression", "export_parks"} -> SeenBy(Reads(kind))
      [] kind = "score" -> SeenBy(In("network", {"metadata.json", "model.onnx"}))
      [] OTHER -> Fitted(kind, span, val)

\* The calibrators and the metrics are of the network they were measured on.
Derives(kind) == IF kind = "calibrate" THEN RunsOf(Reads(kind)) ELSE {}

\* The measured calibration, the form of the calibrators, the eval_kind.
Notes(kind, span) ==
    CASE kind = "calibrate" -> {"good", "poor"}
      [] kind = "train_regression" -> {"pooled"}
      [] kind = "score" -> {EvalKind(span)}
      [] OTHER -> {""}

Start(kind, span, val, asked) ==
    /\ Loads(kind) /\ Unpacks(kind)
    /\ runs' = runs + 1
    /\ \E note \in Notes(kind, span) :
          command' = [kind |-> kind, run |-> runs + 1, seen |-> Sees(kind, span, val),
                      of |-> Derives(kind), about |-> span, note |-> note,
                      todo |-> Writes(kind, asked)]

Idle == command = noCommand
NightRuns == night.stage > 0

\* Typed by the operator.  A command that refuses its arguments, misses a file
\* or raises before it writes leaves everything as it was: that is always so
\* for the comparison, which has no action.
ByHand(kind, span, val, asked, allowed) ==
    /\ Idle /\ ~NightRuns /\ byHand < MaxByHand
    /\ Accepts(kind, span \union val, allowed)
    /\ Start(kind, span, val, asked)
    /\ byHand' = byHand + 1
    /\ UNCHANGED <<family, files, night>>

TrainNetwork(span, val) ==
    family = "network" /\ ByHand("train_network", span, val, <<>>, FALSE)
FitCalibrators(span) == family = "network" /\ ByHand("calibrate", span, {}, <<>>, FALSE)
TrainLightGBM(span, val) ==
    family = "lightgbm" /\ ByHand("train_lightgbm", span, val, <<>>, FALSE)
ExportLightGBM == family = "lightgbm" /\ ByHand("export_lightgbm", {}, {}, <<>>, FALSE)
ScoreBackfill(span, allowed) == family = "network" /\ ByHand("score", span, {}, <<>>, allowed)
BackfillDistributions(span) == family = "network" /\ ByHand("baseline", span, {}, <<>>, FALSE)
GenerateMiniature == family = "miniature" /\ ByHand("generate", {}, {}, <<>>, FALSE)
ParityFixture == family = "miniature" /\ ByHand("fixture", {}, {}, <<>>, FALSE)

\* A park without rows is skipped: what an earlier command left in its directory
\* stays.
TrainParks(span, val, asked) ==
    family = "parks" /\ ByHand("train_parks", span, val, asked, FALSE)
ExportParks == family = "parks" /\ ByHand("export_parks", {}, {}, <<>>, FALSE)
TrainParkNetworks(span, val, asked) ==
    family = "park_networks" /\ ByHand("train_park_networks", span, val, asked, FALSE)
TrainRegression(span, val) ==
    family = "regression" /\ ByHand("train_regression", span, val, <<>>, FALSE)
ExportRegression == family = "regression" /\ ByHand("export_regression", {}, {}, <<>>, FALSE)

(***************************************************************************)
(* run_2c_overnight.sh: one stage after another, each a process.           *)
(***************************************************************************)
\* (The labels of the training seasons and of the validation season are one stage.)
NightStages == <<"retrodict", "train_network", "calibrate", "gate", "diagnostic",
            "train_lightgbm", "compare">>
GateStage == 4

\* A fault for the mutants: tee hides the exit code of a stage (no pipefail).
AfterStageUnseen(ok, why) ==
    IF night.stage = Len(NightStages) THEN noNight ELSE [night EXCEPT !.stage = @ + 1]

\* run: a stage that fails ends the night.
AfterStage(ok, why) ==
    IF ~ok THEN [noNight EXCEPT !.why = why]
    ELSE IF night.stage = Len(NightStages) THEN noNight
    ELSE [night EXCEPT !.stage = @ + 1]

\* SEASON_FROM, SEASON_TO and VAL_SEASON are taken from the environment.
StartNight(train, val) ==
    /\ family = "network" /\ Idle /\ ~NightRuns /\ byHand < MaxByHand
    /\ byHand' = byHand + 1
    /\ night' = [stage |-> 1, began |-> runs + 1, train |-> train, val |-> val, why |-> "none"]
    /\ UNCHANGED <<family, files, command, runs>>

NightStage == NightStages[night.stage]
StageSpan == IF NightStage \in Trainers THEN night.train ELSE night.val
StageRefuses == ~Accepts(NightStage, night.train \union night.val, FALSE)

StageStarts ==
    /\ NightRuns /\ Idle
    /\ Writes(NightStage, <<>>) # <<>> /\ ~StageRefuses
    /\ Start(NightStage, StageSpan, night.val, <<>>)
    /\ UNCHANGED <<family, files, byHand, night>>

\* test_production_model_passes_outcome_calibration_gate: skipped without a
\* model, and a skipped test passes.
GateSkips == ~(Exists(<<"network", "model.pt">>) /\ Exists(<<"network", "metadata.json">>))
GatePasses ==
    \/ GateSkips
    \/ /\ AllReadable(Reads("gate"))
       /\ files[<<"network", "calibration_metrics.json">>].note = "good"

\* The labels are made, the gate says yes; run_soft takes either answer.
StagePasses ==
    /\ NightRuns /\ Idle
    /\ NightStage \in {"retrodict", "gate", "diagnostic"}
    /\ NightStage = "gate" => GatePasses
    /\ night' = AfterStage(TRUE, "")
    /\ UNCHANGED <<family, files, command, runs, byHand>>

WhyItFails ==
    CASE NightStage = "retrodict" -> {"labels"}
      [] NightStage = "gate" -> IF GatePasses THEN {} ELSE {"gate"}
      [] NightStage = "diagnostic" -> {}
      [] OTHER -> IF StageRefuses THEN {"refused"}
                  ELSE IF ~Loads(NightStage) THEN {"missing"}
                  ELSE IF ~Unpacks(NightStage) THEN {"raised"} ELSE {}

StageFails ==
    /\ NightRuns /\ Idle
    /\ \E why \in WhyItFails : night' = AfterStage(FALSE, why)
    /\ UNCHANGED <<family, files, command, runs, byHand>>

(***************************************************************************)
(* The files of a command are written one by one, in place.                *)
(***************************************************************************)
Writing == command.todo # <<>>
Ends(ok, why) ==
    /\ command' = noCommand
    /\ night' = IF NightRuns THEN AfterStage(ok, why) ELSE night

WriteFile ==
    /\ Writing
    /\ LET f == Head(command.todo) IN LoadsFor(f) /\ files' = With(f, Content(f))
    /\ IF Len(command.todo) = 1 THEN Ends(TRUE, "")
       ELSE command' = [command EXCEPT !.todo = Tail(@)] /\ UNCHANGED night
    /\ UNCHANGED <<family, runs, byHand>>

\* _merge_calibrators misses the file of a park: the new graph stays.
MergeFails ==
    /\ Writing /\ ~LoadsFor(Head(command.todo))
    /\ Ends(FALSE, "missing")
    /\ UNCHANGED <<family, files, runs, byHand>>

\* Between two files or within one.
KillCommand ==
    /\ Writing
    /\ LET f == Head(command.todo)
       IN \/ UNCHANGED files
          \/ LoadsFor(f) /\ files' = With(f, [Content(f) EXCEPT !.whole = FALSE])
    /\ Ends(FALSE, "killed")
    /\ UNCHANGED <<family, runs, byHand>>

Validations == {{}, {Training}, {HOLDOUT_YEAR}}

ArtifactNext ==
    \/ \E span \in Spans :
          \/ \E val \in Validations :
                \/ TrainNetwork(span, val) \/ TrainLightGBM(span, val)
                \/ TrainRegression(span, val)
                \/ \E asked \in InOrder :
                      TrainParks(span, val, asked) \/ TrainParkNetworks(span, val, asked)
                \/ val # {} /\ StartNight(span, val)
          \/ FitCalibrators(span) \/ BackfillDistributions(span)
          \/ \E allowed \in BOOLEAN : ScoreBackfill(span, allowed)
    \/ ExportLightGBM \/ ExportParks \/ ExportRegression
    \/ GenerateMiniature \/ ParityFixture
    \/ StageStarts \/ StagePasses \/ StageFails
    \/ WriteFile \/ MergeFails \/ KillCommand

ArtifactSpec == ArtifactInit /\ [][ArtifactNext]_artifactVars

(***************************************************************************)
(* Properties.                                                             *)
(***************************************************************************)
\* Rule 13 (backfill_accuracy.py:240): a report stamped offline_holdout_unseen
\* is about rows that neither the network nor its scaler was fitted on, one
\* stamped in-sample is not about the holdout, and no drift baseline is made of
\* rows of the holdout - whatever was trained, merged and scored in between.
HoldoutIsUnseen ==
    \A f \in DOMAIN files :
       IF f[1] = "eval"
       THEN /\ files[f].note = "unseen" => files[f].seen \intersect files[f].about = {}
            /\ files[f].note = "in_sample" => ~TouchesHoldout(files[f].about)
       ELSE ~TouchesHoldout(files[f].about)

\* Decision [141]: a night past the gate goes on with a model that it trained
\* itself and that was measured, good, after it was trained.  Files of earlier
\* nights lie in the same directory.
OvernightGateIsFresh ==
    night.stage > GateStage =>
      LET model == In("network", {"model.pt", "metadata.json"})
          metrics == <<"network", "calibration_metrics.json">>
      IN /\ AllReadable(model \union {metrics})
         /\ files[metrics].note = "good"
         /\ files[metrics].of = RunsOf(model)
         /\ \A r \in RunsOf(model) : r >= night.began

\* What a run of a trainer or of an exporter leaves beside its metadata.json.
Companions(kind, dir) ==
    CASE kind \in {"train_network", "train_park_networks"} /\ dir # "all" ->
           {"model.pt", "model.onnx"}
      [] kind \in {"train_lightgbm", "train_parks"} /\ dir # "all" ->
           {"model.txt", "calibrator.json"}
      [] kind = "train_regression" -> {"pipeline.joblib", "calibrator.json"}
      [] kind \in {"export_parks", "export_regression"} -> {"model.onnx", "calibrator.json"}
      [] kind = "generate" -> {"model.onnx"}
      [] OTHER -> {}

\* A directory in which nothing is newer than its metadata.json is whole: the
\* model, the calibrators and the metadata are of one run, however many runs
\* before it were killed between two files or in the middle of one.
MetadataIsLast ==
    \A f \in DOMAIN files :
       f[2] = "metadata.json" =>
         LET beside == In(f[1], Companions(files[f].by, f[1]))
         IN (\A g \in beside \intersect DOMAIN files : files[g].run <= files[f].run)
              => \A g \in beside : Readable(g) /\ files[g].run = files[f].run
=============================================================================
