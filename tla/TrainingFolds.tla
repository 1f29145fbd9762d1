---------------------------- MODULE TrainingFolds ---------------------------
(***************************************************************************)
(* From clean pitches to a cross-validated model.  A feature builder       *)
(* writes the rows of each fold, season by season, with target encodings   *)
(* fitted on that fold's training seasons; materialize writes the          *)
(* pitch-type rows, which carry no encoding; a cross-validation run loads  *)
(* train, validation and test rows of each fold, fits, calibrates and      *)
(* scores.  The three are separate commands: they overlap, are killed and  *)
(* are run again, with other season bounds.                                *)
(*                                                                         *)
(* Values are left out; what is kept of a row is its season and the last   *)
(* season whose labels went into its encoding, and of a model the seasons  *)
(* whose labels it has seen.                                               *)
(***************************************************************************)
EXTENDS Integers, FiniteSets

CONSTANTS FirstSeason, LastSeason,   \* the corpus: 2015 .. 2025
          NumFolds,                  \* 4
          MaxYears,                  \* the --max-year a builder is started with
          Trainers,                  \* the trainers that are cross-validated
          MaxBuilds                  \* bound: builder starts

HoldoutYear == LastSeason + 1        \* HOLDOUT_YEAR, 2026
Seasons == FirstSeason .. LastSeason
FoldIds == 1 .. NumFolds

ASSUME FoldsAssumption ==
    /\ FirstSeason \in Nat \ {0} /\ LastSeason \in Nat /\ NumFolds \in Nat \ {0}
    /\ LastSeason - FirstSeason + 1 >= NumFolds + 2
    /\ MaxYears \subseteq FirstSeason .. LastSeason
    /\ Trainers \subseteq {"pitch_pre", "pitch_post", "pitch_lr", "pitch_type", "pitch_type_lr"}
    /\ MaxBuilds \in Nat

\* cv_harness.FOLDS: train through a season, validate on the next, test on
\* the one after; the last fold tests on the last season.
TestYear(f)     == LastSeason - NumFolds + f
ValYear(f)      == TestYear(f) - 1
TrainEndYear(f) == TestYear(f) - 2

FoldSpecAccepted(f) == TrainEndYear(f) < ValYear(f) /\ ValYear(f) < TestYear(f)

\* tier_1_2._default_folds_for: the same shape, anchored at --max-year, and
\* refused when the span leaves no validation season.
DefaultFolds(maxYear) ==
    IF maxYear - FirstSeason + 1 < NumFolds + 2 THEN <<>>
    ELSE [f \in FoldIds |-> LET test == maxYear - NumFolds + f IN
             [trainEnd |-> test - 2, testStart |-> test - 1, testEnd |-> test]]

\* FoldWindow.__post_init__.
WindowAccepted(w) == w.trainEnd < w.testStart

\* The first three read features, the other two pitch_type_features.
OnPitchTypes == {"pitch_type", "pitch_type_lr"}

\* A row: its season, and the last season its target encoding was fitted on
\* (noEncoding for a pitch-type row, which has none).
noEncoding == FirstSeason - 1
Row == [season : Seasons, encodedTo : noEncoding .. LastSeason]

VARIABLES
    features,    \* features FINAL: per fold and season, the kinds of rows there
    typeRows,    \* pitch_type_features: the seasons materialised
    build,       \* the builder: [pc, kind, maxYear, fold, season, encoding]
    builds,      \* builder starts so far, for the bound
    typing,      \* materialize: [pc, season]
    cv,          \* the run: [pc, trainer, fold, train, val, model]
    score        \* what the last fold's score rests on: [model, tested]

foldVars == <<features, typeRows, build, builds, typing, cv, score>>

buildIdle == [pc |-> "idle", kind |-> "tier_3", maxYear |-> LastSeason, fold |-> 1,
              season |-> FirstSeason, encoding |-> noEncoding]
typingIdle == [pc |-> "idle", season |-> FirstSeason, last |-> FirstSeason]
noModel == [labels |-> {}, stopped |-> {}, calibrated |-> {}, encodings |-> {}]
cvIdle == [pc |-> "idle", trainer |-> "none", fold |-> 1,
           train |-> {}, val |-> {}, model |-> noModel]
noScore == [model |-> noModel, tested |-> {}]

FoldsInit ==
    /\ features = [fs \in FoldIds \X Seasons |-> {}]
    /\ typeRows = {}
    /\ build = buildIdle
    /\ typing = typingIdle
    /\ cv = cvIdle
    /\ builds = 0
    /\ score = noScore

Model == [labels : SUBSET Seasons, stopped : SUBSET Seasons, calibrated : SUBSET Seasons,
          encodings : SUBSET (noEncoding .. LastSeason)]

BuildState == [pc : {"idle", "encode", "rows"}, kind : {"tier_3", "tier_1_2"},
               maxYear : MaxYears \union {LastSeason}, fold : FoldIds, season : Seasons,
               encoding : noEncoding .. LastSeason]

CVState == [pc : {"idle", "train", "val", "fit", "test"}, trainer : Trainers \union {"none"},
            fold : FoldIds, train : SUBSET Row, val : SUBSET Row, model : Model]

FoldsTypeOK ==
    /\ features \in [FoldIds \X Seasons -> SUBSET (noEncoding .. LastSeason)]
    /\ typeRows \subseteq Seasons
    /\ build \in BuildState
    /\ builds \in 0 .. MaxBuilds
    /\ typing \in [pc : {"idle", "rows"}, season : Seasons, last : Seasons]
    /\ cv \in CVState
    /\ score \in [model : Model, tested : SUBSET Row]

(***************************************************************************)
(* The feature builders.                                                   *)
(***************************************************************************)
StartBuild(kind, maxYear) ==
    /\ build.pc = "idle"
    /\ DefaultFolds(maxYear) # <<>>
    /\ \A f \in FoldIds : WindowAccepted(DefaultFolds(maxYear)[f])
    /\ builds < MaxBuilds
    /\ builds' = builds + 1
    /\ build' = [buildIdle EXCEPT !.pc = "encode", !.kind = kind, !.maxYear = maxYear]
    /\ UNCHANGED <<features, typeRows, typing, cv, score>>

Window == DefaultFolds(build.maxYear)[build.fold]

\* load_labeled_pitches of the training window, compute_te and compute_prior:
\* an encoding knows the labels through the window's last season, and an
\* entity it has not seen gets the prior of the same window.
ComputeTE(window) == window.trainEnd

\* apply_te, which encodes the rows of a season for one fold.
ApplyTE(encoding) == encoding

\* A fault for the mutants: the encoding is fitted through the test window.
FitEncodingOnAll ==
    /\ build.pc = "encode"
    /\ build' = [build EXCEPT !.pc = "rows", !.encoding = Window.testEnd,
                    !.season = IF build.kind = "tier_3" THEN FirstSeason ELSE Window.testStart]
    /\ UNCHANGED <<features, typeRows, builds, typing, cv, score>>

\* tier_3 then writes every season of the fold, tier_1_2 the last two.
FitEncoding ==
    /\ build.pc = "encode"
    /\ build' = [build EXCEPT !.pc = "rows", !.encoding = ComputeTE(Window),
                    !.season = IF build.kind = "tier_3" THEN FirstSeason ELSE Window.testStart]
    /\ UNCHANGED <<features, typeRows, builds, typing, cv, score>>

SeasonWritten ==
    CASE build.season < Window.testEnd -> [build EXCEPT !.season = @ + 1]
      [] build.season = Window.testEnd /\ build.fold < NumFolds ->
            [build EXCEPT !.pc = "encode", !.fold = @ + 1]
      [] OTHER -> buildIdle

\* insert_dataframe replaces rows key by key, so while a season is written,
\* and after a kill, rows of the last build stand beside rows of this one.
InsertSomeRows ==
    /\ build.pc = "rows"
    /\ features' = [features EXCEPT ![<<build.fold, build.season>>] = @ \union {ApplyTE(build.encoding)}]
    /\ UNCHANGED <<typeRows, build, builds, typing, cv, score>>

InsertSeason ==
    /\ build.pc = "rows"
    /\ features' = [features EXCEPT ![<<build.fold, build.season>>] = {ApplyTE(build.encoding)}]
    /\ build' = SeasonWritten
    /\ UNCHANGED <<typeRows, builds, typing, cv, score>>

KillBuild ==
    /\ build.pc # "idle"
    /\ build' = buildIdle
    /\ UNCHANGED <<features, typeRows, builds, typing, cv, score>>

BuildNext ==
    \/ \E kind \in {"tier_3", "tier_1_2"}, maxYear \in MaxYears : StartBuild(kind, maxYear)
    \/ FitEncoding
    \/ InsertSomeRows
    \/ InsertSeason
    \/ KillBuild

(***************************************************************************)
(* materialize: one season after the other, up to the last one before the  *)
(* holdout.                                                                *)
(***************************************************************************)

RefuseHoldout(first, last) == first < HoldoutYear /\ last < HoldoutYear

StartMaterialize(last) ==
    /\ typing.pc = "idle"
    /\ RefuseHoldout(FirstSeason, last)
    /\ typing' = [pc |-> "rows", season |-> FirstSeason, last |-> last]
    /\ UNCHANGED <<features, typeRows, build, builds, cv, score>>

MaterializeYear ==
    /\ typing.pc = "rows"
    /\ typeRows' = typeRows \union {typing.season}
    /\ typing' = IF typing.season < typing.last THEN [typing EXCEPT !.season = @ + 1]
                 ELSE typingIdle
    /\ UNCHANGED <<features, build, builds, cv, score>>

KillMaterialize ==
    /\ typing.pc # "idle"
    /\ typing' = typingIdle
    /\ UNCHANGED <<features, typeRows, build, builds, cv, score>>

MaterializeNext ==
    \/ \E last \in {LastSeason, HoldoutYear} : StartMaterialize(last)
    \/ MaterializeYear
    \/ KillMaterialize

(***************************************************************************)
(* The cross-validation run.                                               *)
(***************************************************************************)
\* The pre and post loaders: features FINAL of one fold, by date.
LoadPre(f, first, last) ==
    UNION {{[season |-> s, encodedTo |-> e] : e \in features[f, s]} : s \in first .. last}

\* The post loader adds the measured pitch, which no encoding touches.
LoadPost(f, first, last) == LoadPre(f, first, last)

\* The pitch-type loader goes by date alone and refuses the holdout; the rows
\* carry no encoding.
LoadPitchType(first, last) ==
    IF RefuseHoldout(first, last)
    THEN {[season |-> s, encodedTo |-> noEncoding] : s \in typeRows \intersect (first .. last)}
    ELSE {}

Load(trainer, f, first, last) ==
    CASE trainer \in OnPitchTypes  -> LoadPitchType(first, last)
      [] trainer = "pitch_post"    -> LoadPost(f, first, last)
      [] OTHER                     -> LoadPre(f, first, last)

StartCV(trainer) ==
    /\ cv.pc = "idle"
    /\ \A f \in FoldIds : FoldSpecAccepted(f)
    /\ trainer \in OnPitchTypes => typeRows # {}
    /\ cv' = [cvIdle EXCEPT !.pc = "train", !.trainer = trainer]
    /\ score' = noScore
    /\ UNCHANGED <<features, typeRows, build, builds, typing>>

LoadTrain ==
    /\ cv.pc = "train"
    /\ cv' = [cv EXCEPT !.pc = "val",
                        !.train = Load(cv.trainer, cv.fold, FirstSeason, TrainEndYear(cv.fold))]
    /\ UNCHANGED <<features, typeRows, build, builds, typing, score>>

\* A fault for the mutants: the calibrator is fitted on rows of the training
\* seasons and the test season.
LoadValAfterTest ==
    /\ cv.pc = "val"
    /\ cv' = [cv EXCEPT !.pc = "fit",
                        !.val = Load(cv.trainer, cv.fold, ValYear(cv.fold), TestYear(cv.fold))]
    /\ UNCHANGED <<features, typeRows, build, builds, typing, score>>

LoadVal ==
    /\ cv.pc = "val"
    /\ cv' = [cv EXCEPT !.pc = "fit",
                        !.val = Load(cv.trainer, cv.fold, ValYear(cv.fold), ValYear(cv.fold))]
    /\ UNCHANGED <<features, typeRows, build, builds, typing, score>>

Labels(rows) == {r.season : r \in rows}
Encodings(rows) == {r.encodedTo : r \in rows}

\* One isotonic curve per class, or one temperature, fitted on held-out rows.
FitIsotonic(val) == Labels(val)
FitTemperature(val) == Labels(val)

\* Trees are fitted on the training rows, stop growing on the validation rows
\* and are calibrated on them, class by class.
FitTrees(train, val) ==
    [labels |-> Labels(train), stopped |-> Labels(val), calibrated |-> FitIsotonic(val),
     encodings |-> Encodings(train \union val)]

\* The post head: the same, with the measured pitch among the features.
FitPostTrees(train, val) == FitTrees(train, val)

\* A regression sees a sample of the training rows and no validation row.
FitRegression(train, val) ==
    [labels |-> Labels(train), stopped |-> {}, calibrated |-> FitIsotonic(val),
     encodings |-> Encodings(train \union val)]

\* The pitch-type trees and regression are calibrated by one temperature.
FitPitchTypeTrees(train, val) == [FitTrees(train, val) EXCEPT !.calibrated = FitTemperature(val)]
FitPitchTypeRegression(train, val) ==
    [FitRegression(train, val) EXCEPT !.calibrated = FitTemperature(val)]

Fit(trainer, train, val) ==
    CASE trainer = "pitch_post"    -> FitPostTrees(train, val)
      [] trainer = "pitch_lr"      -> FitRegression(train, val)
      [] trainer = "pitch_type"    -> FitPitchTypeTrees(train, val)
      [] trainer = "pitch_type_lr" -> FitPitchTypeRegression(train, val)
      [] OTHER                     -> FitTrees(train, val)

\* No model can be fitted or calibrated on an empty frame.
ModelFactory ==
    /\ cv.pc = "fit"
    /\ cv' = IF cv.train = {} \/ cv.val = {} THEN cvIdle
             ELSE [cv EXCEPT !.pc = "test", !.model = Fit(cv.trainer, cv.train, cv.val),
                             !.train = {}, !.val = {}]
    /\ UNCHANGED <<features, typeRows, build, builds, typing, score>>

\* The test rows are loaded once the training frames are freed; a metric of
\* an empty frame fails the run.
ScoreFold ==
    /\ cv.pc = "test"
    /\ LET test == Load(cv.trainer, cv.fold, TestYear(cv.fold), TestYear(cv.fold)) IN
         IF test = {} THEN cv' = cvIdle /\ UNCHANGED score
         ELSE /\ score' = [model |-> cv.model, tested |-> test]
              /\ cv' = IF cv.fold = NumFolds THEN cvIdle
                       ELSE [cvIdle EXCEPT !.pc = "train", !.trainer = cv.trainer,
                                           !.fold = cv.fold + 1]
    /\ UNCHANGED <<features, typeRows, build, builds, typing>>

KillCV ==
    /\ cv.pc # "idle"
    /\ cv' = cvIdle
    /\ UNCHANGED <<features, typeRows, build, builds, typing, score>>

CVNext ==
    \/ \E trainer \in Trainers : StartCV(trainer)
    \/ LoadTrain
    \/ LoadVal
    \/ ModelFactory
    \/ ScoreFold
    \/ KillCV

FoldsNext == BuildNext \/ MaterializeNext \/ CVNext

FoldsSpec == FoldsInit /\ [][FoldsNext]_foldVars

(***************************************************************************)
(* Properties.                                                             *)
(***************************************************************************)
\* Whatever mix of builds a fold's rows come from, of either builder, with
\* any --max-year up to the last season, whole or killed half way, no row of
\* the fold carries an encoding that has seen a label of the fold's
\* validation or test season (target_encoding.py: fitted on the training
\* window only).
EncodingIsBlind ==
    \A f \in FoldIds, s \in Seasons : \A e \in features[f, s] : e <= TrainEndYear(f)

\* A score of a fold compares the model with a season of which nothing in
\* it, neither the trees, nor the calibrator, nor the encodings of its own
\* and of the test rows, has seen a label; and what the calibrator was fitted
\* on the trees were not (cv_harness.run with any of the loaders).
HonestEvaluation ==
    \A t \in score.tested :
        LET m == score.model IN
        /\ \A s \in m.labels \union m.stopped \union m.calibrated : s < t.season
        /\ \A e \in m.encodings \union {t.encodedTo} : e < t.season
        /\ \A s \in m.labels, c \in m.calibrated : s < c
=============================================================================
