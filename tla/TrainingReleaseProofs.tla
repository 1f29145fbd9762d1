------------------------ MODULE TrainingReleaseProofs -----------------------
(***************************************************************************)
(* Theorems about TrainingFolds, the bundles of the pitch models, the fold *)
(* store, the evidence for a promotion and the experiments on sequences.   *)
(***************************************************************************)
EXTENDS TrainingFolds, Bundles, FoldStore, Promotion, PitchSequences, FiniteSetTheorems, TLAPS

(***************************************************************************)
(* The folds.                                                              *)
(***************************************************************************)
\* A builder at work has a span that leaves every fold a training season, and
\* writes rows with the encoding of the fold's training window.
BuilderInv ==
    /\ build.pc # "idle" => build.maxYear - FirstSeason + 1 >= NumFolds + 2
    /\ build.pc = "rows" => /\ build.encoding = ComputeTE(Window)
                            /\ build.season <= Window.testEnd

\* Every season of a fold's windows is one of the corpus.
LEMMA FoldYears ==
    ASSUME NEW f \in FoldIds
    PROVE  /\ TrainEndYear(f) \in Seasons /\ ValYear(f) \in Seasons /\ TestYear(f) \in Seasons
           /\ TrainEndYear(f) < ValYear(f) /\ ValYear(f) < TestYear(f)
           /\ noEncoding < TrainEndYear(f)
BY FoldsAssumption DEF FoldIds, TrainEndYear, ValYear, TestYear, Seasons, noEncoding

\* A builder's windows end no later than the folds of the trainers.
LEMMA WindowYears ==
    ASSUME NEW y \in MaxYears \union {LastSeason}, NEW f \in FoldIds,
           y - FirstSeason + 1 >= NumFolds + 2
    PROVE  /\ DefaultFolds(y)[f].trainEnd = y - NumFolds + f - 2
           /\ DefaultFolds(y)[f].testStart = y - NumFolds + f - 1
           /\ DefaultFolds(y)[f].testEnd = y - NumFolds + f
           /\ DefaultFolds(y)[f].trainEnd \in Seasons
           /\ DefaultFolds(y)[f].testStart \in Seasons
           /\ DefaultFolds(y)[f].testEnd \in Seasons
           /\ DefaultFolds(y)[f].trainEnd <= TrainEndYear(f)
<1>1. y \in FirstSeason .. LastSeason
    BY FoldsAssumption
<1>2. DefaultFolds(y)[f] = [trainEnd |-> y - NumFolds + f - 2, testStart |-> y - NumFolds + f - 1,
                            testEnd |-> y - NumFolds + f]
    BY <1>1, FoldsAssumption DEF DefaultFolds, FoldIds
<1> QED
    BY <1>1, <1>2, FoldsAssumption DEF FoldIds, Seasons, TrainEndYear, TestYear

\* The builders keep their type and windows.
LEMMA BuildersKeep ==
    ASSUME FoldsTypeOK, BuilderInv, BuildNext
    PROVE  FoldsTypeOK' /\ BuilderInv'
<1>0. buildIdle \in BuildState /\ buildIdle.pc = "idle"
    BY FoldsAssumption DEF buildIdle, BuildState, FoldIds, Seasons, noEncoding
<1>1. /\ features \in [FoldIds \X Seasons -> SUBSET (noEncoding .. LastSeason)]
      /\ build \in BuildState /\ builds \in 0 .. MaxBuilds
    BY DEF FoldsTypeOK
<1>2. ASSUME features' \in [FoldIds \X Seasons -> SUBSET (noEncoding .. LastSeason)],
             build' \in BuildState, builds' \in 0 .. MaxBuilds,
             UNCHANGED <<typeRows, typing, cv, score>>
      PROVE  FoldsTypeOK'
    BY <1>2 DEF FoldsTypeOK
<1>3. ASSUME NEW kind \in {"tier_3", "tier_1_2"}, NEW maxYear \in MaxYears,
             StartBuild(kind, maxYear)
      PROVE  FoldsTypeOK' /\ BuilderInv'
    <2>1. maxYear - FirstSeason + 1 >= NumFolds + 2
        BY <1>3, FoldsAssumption DEF StartBuild, DefaultFolds
    <2>2. build' \in BuildState /\ build'.pc = "encode" /\ build'.maxYear = maxYear
        BY <1>0, <1>3 DEF StartBuild, buildIdle, BuildState
    <2>3. builds' \in 0 .. MaxBuilds
        BY <1>1, <1>3, FoldsAssumption DEF StartBuild
    <2> QED
        BY <1>1, <1>2, <1>3, <2>1, <2>2, <2>3 DEF StartBuild, BuilderInv
<1>4. ASSUME build.pc # "idle"
      PROVE  /\ Window.trainEnd \in noEncoding .. LastSeason
             /\ Window.testStart \in Seasons /\ Window.testEnd \in Seasons
             /\ Window.testStart <= Window.testEnd
             /\ FirstSeason \in Seasons /\ FirstSeason <= Window.testEnd
             /\ build.maxYear - FirstSeason + 1 >= NumFolds + 2
    <2>1. /\ build.maxYear \in MaxYears \union {LastSeason} /\ build.fold \in FoldIds
          /\ build.maxYear - FirstSeason + 1 >= NumFolds + 2
        BY <1>1, <1>4 DEF BuildState, BuilderInv
    <2>2. /\ Window.trainEnd \in Seasons /\ Window.testStart \in Seasons
          /\ Window.testEnd \in Seasons /\ Window.testStart + 1 = Window.testEnd
        <3>1. build.maxYear \in Int /\ build.fold \in Int
            <4>1. \A y \in MaxYears : y \in FirstSeason .. LastSeason
                BY FoldsAssumption
            <4>2. LastSeason \in Int /\ NumFolds \in Int
                BY FoldsAssumption
            <4>3. build.maxYear \in Int
                BY <2>1, <4>1, <4>2
            <4>4. build.fold \in Int
                BY <2>1, <4>2 DEF FoldIds
            <4> QED
                BY <4>3, <4>4
        <3> QED
            BY <2>1, <3>1, WindowYears, FoldsAssumption DEF Window
    <2> QED
        BY <2>1, <2>2, FoldsAssumption DEF Seasons, noEncoding
<1>5. ASSUME FitEncoding PROVE FoldsTypeOK' /\ BuilderInv'
    <2>1. /\ build' \in BuildState
          /\ build'.pc = "rows" /\ build'.maxYear = build.maxYear /\ build'.fold = build.fold
          /\ build'.encoding = Window.trainEnd /\ build'.season <= Window.testEnd
        BY <1>1, <1>4, <1>5 DEF FitEncoding, ComputeTE, BuildState
    <2>2. Window' = Window
        BY <2>1 DEF Window
    <2> QED
        BY <1>1, <1>2, <1>4, <1>5, <2>1, <2>2 DEF FitEncoding, BuilderInv, ComputeTE
<1>6. ASSUME InsertSomeRows PROVE FoldsTypeOK' /\ BuilderInv'
    <2>1. features' \in [FoldIds \X Seasons -> SUBSET (noEncoding .. LastSeason)]
        BY <1>1, <1>6 DEF InsertSomeRows, ApplyTE, BuildState
    <2> QED
        BY <1>1, <1>2, <1>6, <2>1 DEF InsertSomeRows, BuilderInv, Window
<1>7. ASSUME InsertSeason PROVE FoldsTypeOK' /\ BuilderInv'
    <2>1. features' \in [FoldIds \X Seasons -> SUBSET (noEncoding .. LastSeason)]
        BY <1>1, <1>7 DEF InsertSeason, ApplyTE, BuildState
    <2>2. build' \in BuildState /\ BuilderInv'
        <3>1. CASE build.season < Window.testEnd
            BY <1>1, <1>4, <1>7, <3>1, FoldsAssumption
            DEF InsertSeason, SeasonWritten, Seasons, BuilderInv, Window, BuildState
        <3>2. CASE build.season = Window.testEnd /\ build.fold < NumFolds
            <4>1. build' = [build EXCEPT !.pc = "encode", !.fold = @ + 1]
                BY <1>4, <1>7, <3>2 DEF InsertSeason, SeasonWritten, Seasons
            <4>2. build.fold + 1 \in FoldIds
                BY <1>1, <3>2, FoldsAssumption DEF FoldIds, BuildState
            <4> QED
                BY <1>1, <1>4, <1>7, <4>1, <4>2 DEF BuilderInv, BuildState, InsertSeason
        <3>3. CASE /\ ~(build.season < Window.testEnd)
                   /\ ~(build.season = Window.testEnd /\ build.fold < NumFolds)
            BY <1>0, <1>7, <3>3 DEF InsertSeason, SeasonWritten, BuilderInv
        <3> QED
            BY <3>1, <3>2, <3>3
    <2> QED
        BY <1>1, <1>2, <1>7, <2>1, <2>2 DEF InsertSeason
<1>8. ASSUME KillBuild PROVE FoldsTypeOK' /\ BuilderInv'
    BY <1>0, <1>1, <1>2, <1>8 DEF KillBuild, BuilderInv
<1> QED
    BY <1>3, <1>5, <1>6, <1>7, <1>8 DEF BuildNext

\* materialize writes seasons before the holdout only.
LEMMA MaterializeKeeps ==
    ASSUME FoldsTypeOK, MaterializeNext
    PROVE  FoldsTypeOK'
<1>1. typingIdle \in [pc : {"idle", "rows"}, season : Seasons, last : Seasons]
    BY FoldsAssumption DEF typingIdle, Seasons
<1>2. ASSUME NEW last \in {LastSeason, HoldoutYear}, StartMaterialize(last)
      PROVE  FoldsTypeOK'
    <2>1. last \in Seasons /\ FirstSeason \in Seasons
        BY <1>2, FoldsAssumption DEF StartMaterialize, RefuseHoldout, HoldoutYear, Seasons
    <2> QED
        BY <1>2, <2>1 DEF StartMaterialize, FoldsTypeOK
<1>3. ASSUME MaterializeYear PROVE FoldsTypeOK'
    <2>1. typing' \in [pc : {"idle", "rows"}, season : Seasons, last : Seasons]
        BY <1>1, <1>3, FoldsAssumption DEF MaterializeYear, FoldsTypeOK, Seasons
    <2> QED
        BY <1>3, <2>1 DEF MaterializeYear, FoldsTypeOK
<1>4. ASSUME KillMaterialize PROVE FoldsTypeOK'
    BY <1>1, <1>4 DEF KillMaterialize, FoldsTypeOK
<1> QED
    BY <1>2, <1>3, <1>4 DEF MaterializeNext

\* What a loader returns for a span of seasons before a fold's test season:
\* rows of that span, whose encodings know the training seasons only.
LEMMA LoadIsBlind ==
    ASSUME FoldsTypeOK, EncodingIsBlind, NEW who, NEW f \in FoldIds,
           NEW first \in Seasons, NEW last \in Seasons
    PROVE  /\ Load(who, f, first, last) \subseteq Row
           /\ \A r \in Load(who, f, first, last) :
                 r.season \in first .. last /\ r.encodedTo <= TrainEndYear(f)
<1>1. first .. last \subseteq Seasons
    BY FoldsAssumption DEF Seasons
<1>2. ASSUME NEW r \in LoadPre(f, first, last)
      PROVE  r \in Row /\ r.season \in first .. last /\ r.encodedTo <= TrainEndYear(f)
    <2>1. PICK s \in first .. last : r \in {[season |-> s, encodedTo |-> e] : e \in features[f, s]}
        BY <1>2 DEF LoadPre
    <2>2. PICK e \in features[f, s] : r = [season |-> s, encodedTo |-> e]
        BY <2>1
    <2>3. e \in noEncoding .. LastSeason /\ e <= TrainEndYear(f)
        BY <1>1, <2>1, <2>2 DEF FoldsTypeOK, EncodingIsBlind
    <2> QED
        BY <1>1, <2>1, <2>2, <2>3 DEF Row
<1>3. ASSUME NEW r \in LoadPitchType(first, last)
      PROVE  r \in Row /\ r.season \in first .. last /\ r.encodedTo <= TrainEndYear(f)
    <2>1. r.season \in first .. last /\ r = [season |-> r.season, encodedTo |-> noEncoding]
        BY <1>3 DEF LoadPitchType
    <2>2. noEncoding \in noEncoding .. LastSeason /\ noEncoding <= TrainEndYear(f)
        BY FoldYears, FoldsAssumption DEF noEncoding, Seasons
    <2> QED
        BY <1>1, <2>1, <2>2 DEF Row
<1> QED
    BY <1>2, <1>3 DEF Load, LoadPost

\* What a run holds at each of its steps, and what the model it has fitted knows.
TrainFrameOK ==
    \A r \in cv.train : r.season <= TrainEndYear(cv.fold) /\ r.encodedTo <= TrainEndYear(cv.fold)

ValFrameOK ==
    \A r \in cv.val : r.season = ValYear(cv.fold) /\ r.encodedTo <= TrainEndYear(cv.fold)

ModelOK(m, f) ==
    /\ \A s \in m.labels : s <= TrainEndYear(f)
    /\ \A s \in m.stopped \union m.calibrated : s = ValYear(f)
    /\ \A e \in m.encodings : e <= TrainEndYear(f)

TrainerInv ==
    /\ TrainFrameOK /\ ValFrameOK
    /\ cv.pc = "test" => ModelOK(cv.model, cv.fold)

\* A fit knows the labels of its frames and the encodings of their rows.
LEMMA FitKnowsItsFrames ==
    ASSUME NEW who, NEW train, NEW val, train \subseteq Row, val \subseteq Row,
           NEW m, m = Fit(who, train, val)
    PROVE  /\ m \in Model /\ m.labels = Labels(train) /\ m.stopped \subseteq Labels(val)
           /\ m.calibrated = Labels(val) /\ m.encodings = Encodings(train \union val)
<1>1. /\ Labels(train) \in SUBSET Seasons /\ Labels(val) \in SUBSET Seasons
      /\ Encodings(train \union val) \in SUBSET (noEncoding .. LastSeason)
    BY DEF Labels, Encodings, Row
<1> QED
    BY <1>1 DEF Fit, FitTrees, FitPostTrees, FitRegression, FitPitchTypeTrees,
        FitPitchTypeRegression, FitIsotonic, FitTemperature, Model

LEMMA EmptyRun ==
    /\ noModel \in Model /\ \A f \in FoldIds : ModelOK(noModel, f)
    /\ cvIdle \in CVState /\ cvIdle.pc = "idle" /\ cvIdle.fold = 1
    /\ cvIdle.train = {} /\ cvIdle.val = {}
    /\ noScore \in [model : Model, tested : SUBSET Row] /\ noScore.tested = {}
BY FoldsAssumption DEF noModel, Model, ModelOK, cvIdle, CVState, noScore, FoldIds

\* A run keeps its type and its frames apart, and a fold it scores is one
\* whose model knows no label of the test season.
LEMMA RunKeeps ==
    ASSUME FoldsTypeOK, EncodingIsBlind, TrainerInv, HonestEvaluation, CVNext
    PROVE  FoldsTypeOK' /\ TrainerInv' /\ HonestEvaluation'
<1>1. cv \in CVState /\ score \in [model : Model, tested : SUBSET Row] /\ cv.fold \in FoldIds
    BY DEF FoldsTypeOK, CVState
<1>2. ASSUME cv' \in CVState, score' \in [model : Model, tested : SUBSET Row],
             UNCHANGED <<features, typeRows, build, builds, typing>>
      PROVE  FoldsTypeOK'
    BY <1>2 DEF FoldsTypeOK
<1>3. ASSUME cv'.train = {}, cv'.val = {}, cv'.pc # "test" PROVE TrainerInv'
    BY <1>3 DEF TrainerInv, TrainFrameOK, ValFrameOK
<1>4. ASSUME UNCHANGED score PROVE HonestEvaluation'
    BY <1>4 DEF HonestEvaluation
<1>5. ASSUME NEW who \in Trainers, StartCV(who)
      PROVE  FoldsTypeOK' /\ TrainerInv' /\ HonestEvaluation'
    <2>1. cv' \in CVState /\ cv'.train = {} /\ cv'.val = {} /\ cv'.pc = "train"
        BY <1>5, EmptyRun DEF StartCV, CVState
    <2>2. score'.tested = {}
        BY <1>5, EmptyRun DEF StartCV
    <2> QED
        BY <1>2, <1>3, <1>5, <2>1, <2>2, EmptyRun DEF StartCV, HonestEvaluation
<1>6. ASSUME LoadTrain PROVE FoldsTypeOK' /\ TrainerInv' /\ HonestEvaluation'
    <2> DEFINE rows == Load(cv.trainer, cv.fold, FirstSeason, TrainEndYear(cv.fold))
    <2>1. FirstSeason \in Seasons /\ TrainEndYear(cv.fold) \in Seasons
        BY <1>1, FoldYears, FoldsAssumption DEF Seasons
    <2>2. /\ rows \subseteq Row
          /\ \A r \in rows : r.season <= TrainEndYear(cv.fold) /\ r.encodedTo <= TrainEndYear(cv.fold)
        BY <1>1, <2>1, LoadIsBlind
    <2>3. cv' = [cv EXCEPT !.pc = "val", !.train = rows]
        BY <1>6 DEF LoadTrain
    <2> HIDE DEF rows
    <2>4. cv' \in CVState /\ cv'.train = rows /\ cv'.val = cv.val /\ cv'.fold = cv.fold /\ cv'.pc = "val"
        BY <1>1, <2>2, <2>3 DEF CVState
    <2>5. TrainerInv'
        BY <2>2, <2>4 DEF TrainerInv, TrainFrameOK, ValFrameOK
    <2> QED
        BY <1>1, <1>2, <1>4, <1>6, <2>4, <2>5 DEF LoadTrain
<1>7. ASSUME LoadVal PROVE FoldsTypeOK' /\ TrainerInv' /\ HonestEvaluation'
    <2> DEFINE rows == Load(cv.trainer, cv.fold, ValYear(cv.fold), ValYear(cv.fold))
    <2>1. ValYear(cv.fold) \in Seasons
        BY <1>1, FoldYears
    <2>2. /\ rows \subseteq Row
          /\ \A r \in rows : r.season \in ValYear(cv.fold) .. ValYear(cv.fold)
                              /\ r.encodedTo <= TrainEndYear(cv.fold)
        BY <1>1, <2>1, LoadIsBlind
    <2>3. \A r \in rows : r.season = ValYear(cv.fold)
        BY <2>1, <2>2, FoldsAssumption DEF Seasons
    <2>4. cv' = [cv EXCEPT !.pc = "fit", !.val = rows]
        BY <1>7 DEF LoadVal
    <2> HIDE DEF rows
    <2>5. cv' \in CVState /\ cv'.train = cv.train /\ cv'.val = rows /\ cv'.fold = cv.fold /\ cv'.pc = "fit"
        BY <1>1, <2>2, <2>4 DEF CVState
    <2>6. TrainerInv'
        BY <2>2, <2>3, <2>5 DEF TrainerInv, TrainFrameOK, ValFrameOK
    <2> QED
        BY <1>1, <1>2, <1>4, <1>7, <2>5, <2>6 DEF LoadVal
<1>8. ASSUME ModelFactory PROVE FoldsTypeOK' /\ TrainerInv' /\ HonestEvaluation'
    <2>1. cv.train \subseteq Row /\ cv.val \subseteq Row
        BY <1>1 DEF CVState
    <2>2. PICK m : m = Fit(cv.trainer, cv.train, cv.val)
        OBVIOUS
    <2>3. /\ m \in Model /\ m.labels = Labels(cv.train) /\ m.stopped \subseteq Labels(cv.val)
          /\ m.calibrated = Labels(cv.val) /\ m.encodings = Encodings(cv.train \union cv.val)
        BY <2>1, <2>2, FitKnowsItsFrames
    <2>4. ModelOK(m, cv.fold)
        BY <2>3 DEF TrainerInv, TrainFrameOK, ValFrameOK, ModelOK, Labels, Encodings
    <2>5. cv' = cvIdle \/ cv' = [cv EXCEPT !.pc = "test", !.model = m, !.train = {}, !.val = {}]
        BY <1>8, <2>2 DEF ModelFactory
    <2>6. cv' \in CVState /\ TrainerInv'
        <3>1. CASE cv' = cvIdle
            BY <1>3, <3>1, EmptyRun
        <3>2. CASE cv' = [cv EXCEPT !.pc = "test", !.model = m, !.train = {}, !.val = {}]
            BY <1>1, <2>3, <2>4, <3>2 DEF CVState, TrainerInv, TrainFrameOK, ValFrameOK
        <3> QED
            BY <2>5, <3>1, <3>2
    <2> QED
        BY <1>1, <1>2, <1>4, <1>8, <2>6 DEF ModelFactory
<1>9. ASSUME ScoreFold PROVE FoldsTypeOK' /\ TrainerInv' /\ HonestEvaluation'
    <2> DEFINE test == Load(cv.trainer, cv.fold, TestYear(cv.fold), TestYear(cv.fold))
    <2>1. /\ TestYear(cv.fold) \in Seasons /\ ValYear(cv.fold) \in Seasons
          /\ TrainEndYear(cv.fold) < ValYear(cv.fold) /\ ValYear(cv.fold) < TestYear(cv.fold)
          /\ TrainEndYear(cv.fold) \in Seasons
        BY <1>1, FoldYears
    <2>2. /\ test \subseteq Row
          /\ \A r \in test : r.season \in TestYear(cv.fold) .. TestYear(cv.fold)
                              /\ r.encodedTo <= TrainEndYear(cv.fold)
        BY <1>1, <2>1, LoadIsBlind
    <2>3. \A r \in test : r.season = TestYear(cv.fold)
        BY <2>1, <2>2, FoldsAssumption DEF Seasons
    <2>4. CASE test = {}
        BY <1>1, <1>2, <1>3, <1>4, <1>9, <2>4, EmptyRun DEF ScoreFold
    <2>5. CASE test # {}
        <3>1. /\ score' = [model |-> cv.model, tested |-> test]
              /\ \/ cv' = cvIdle
                 \/ /\ cv.fold # NumFolds
                    /\ cv' = [cvIdle EXCEPT !.pc = "train", !.trainer = cv.trainer, !.fold = cv.fold + 1]
            BY <1>9, <2>5 DEF ScoreFold
        <3> HIDE DEF test
        <3>2. cv' \in CVState /\ cv'.train = {} /\ cv'.val = {} /\ cv'.pc # "test"
            <4>1. cv.fold # NumFolds => cv.fold + 1 \in FoldIds
                BY <1>1, FoldsAssumption DEF FoldIds
            <4> QED
                BY <1>1, <3>1, <4>1, EmptyRun DEF CVState
        <3>3. score' \in [model : Model, tested : SUBSET Row]
            BY <1>1, <2>2, <3>1 DEF CVState
        <3>4. ModelOK(cv.model, cv.fold)
            BY <1>9 DEF ScoreFold, TrainerInv
        <3>5. HonestEvaluation'
            <4> SUFFICES ASSUME NEW t \in test
                PROVE  /\ \A s \in cv.model.labels \union cv.model.stopped \union cv.model.calibrated :
                            s < t.season
                       /\ \A e \in cv.model.encodings \union {t.encodedTo} : e < t.season
                       /\ \A s \in cv.model.labels, c \in cv.model.calibrated : s < c
                BY <3>1 DEF HonestEvaluation
            <4>1. t.season = TestYear(cv.fold) /\ t.encodedTo <= TrainEndYear(cv.fold) /\ t \in Row
                BY <2>2, <2>3
            <4>2. cv.model \in Model
                BY <1>1 DEF CVState
            <4> QED
                BY <2>1, <3>4, <4>1, <4>2, FoldsAssumption
                DEF ModelOK, Model, Row, Seasons, noEncoding
        <3> QED
            BY <1>2, <1>3, <1>9, <3>2, <3>3, <3>5 DEF ScoreFold
    <2> QED
        BY <2>4, <2>5
<1>10. ASSUME KillCV PROVE FoldsTypeOK' /\ TrainerInv' /\ HonestEvaluation'
    BY <1>1, <1>2, <1>3, <1>4, <1>10, EmptyRun DEF KillCV
<1> QED
    BY <1>5, <1>6, <1>7, <1>8, <1>9, <1>10 DEF CVNext

FoldsInv == FoldsTypeOK /\ BuilderInv /\ TrainerInv /\ EncodingIsBlind /\ HonestEvaluation

\* An encoding that is written is the one of the fold's training window.
LEMMA BuildersAreBlind ==
    ASSUME FoldsTypeOK, BuilderInv, EncodingIsBlind, BuildNext
    PROVE  EncodingIsBlind'
<1>1. CASE UNCHANGED features
    BY <1>1 DEF EncodingIsBlind
<1>2. CASE InsertSomeRows \/ InsertSeason
    <2>1. build.maxYear \in MaxYears \union {LastSeason} /\ build.fold \in FoldIds
          /\ build.maxYear - FirstSeason + 1 >= NumFolds + 2
          /\ build.encoding = Window.trainEnd
        BY <1>2 DEF FoldsTypeOK, BuildState, BuilderInv, InsertSomeRows, InsertSeason, ComputeTE
    <2>2. build.encoding <= TrainEndYear(build.fold)
        BY <2>1, WindowYears DEF Window
    <2>3. ASSUME NEW f \in FoldIds, NEW s \in Seasons, NEW e \in features'[f, s]
          PROVE  e \in features[f, s] \/ (f = build.fold /\ e = build.encoding)
        <3>1. CASE f = build.fold /\ s = build.season
            <4>1. <<build.fold, build.season>> \in DOMAIN features
                BY <3>1 DEF FoldsTypeOK
            <4>2. \/ features'[f, s] = features[f, s] \union {build.encoding}
                  \/ features'[f, s] = {build.encoding}
                BY <1>2, <3>1, <4>1 DEF InsertSomeRows, InsertSeason, ApplyTE
            <4> QED
                BY <2>3, <3>1, <4>2
        <3>2. CASE ~(f = build.fold /\ s = build.season)
            BY <1>2, <2>3, <3>2 DEF FoldsTypeOK, InsertSomeRows, InsertSeason, ApplyTE
        <3> QED
            BY <3>1, <3>2
    <2> QED
        BY <2>2, <2>3 DEF EncodingIsBlind
<1> QED
    BY <1>1, <1>2 DEF BuildNext, StartBuild, FitEncoding, KillBuild

LEMMA FoldsInvHolds == FoldsSpec => []FoldsInv
<1>1. FoldsInit => FoldsInv
    <2> SUFFICES ASSUME FoldsInit PROVE FoldsInv
        OBVIOUS
    <2>1. build \in BuildState /\ build.pc = "idle"
        BY FoldsAssumption DEF FoldsInit, buildIdle, BuildState, FoldIds, Seasons, noEncoding
    <2>2. FoldsTypeOK
        BY <2>1, EmptyRun, FoldsAssumption DEF FoldsInit, FoldsTypeOK, typingIdle, Seasons
    <2>3. TrainerInv /\ HonestEvaluation
        BY EmptyRun DEF FoldsInit, TrainerInv, TrainFrameOK, ValFrameOK, HonestEvaluation
    <2>4. EncodingIsBlind
        BY DEF FoldsInit, EncodingIsBlind
    <2> QED
        BY <2>1, <2>2, <2>3, <2>4 DEF FoldsInv, BuilderInv
<1>2. FoldsInv /\ [FoldsNext]_foldVars => FoldsInv'
    <2> SUFFICES ASSUME FoldsInv, [FoldsNext]_foldVars PROVE FoldsInv'
        OBVIOUS
    <2>1. FoldsTypeOK /\ BuilderInv /\ TrainerInv /\ EncodingIsBlind /\ HonestEvaluation
        BY DEF FoldsInv
    <2>2. ASSUME UNCHANGED <<cv, score>> PROVE TrainerInv' /\ HonestEvaluation'
        BY <2>1, <2>2 DEF TrainerInv, TrainFrameOK, ValFrameOK, HonestEvaluation
    <2>3. ASSUME UNCHANGED <<build, features>> PROVE BuilderInv' /\ EncodingIsBlind'
        BY <2>1, <2>3 DEF BuilderInv, EncodingIsBlind, Window
    <2>4. CASE BuildNext
        <3>1. UNCHANGED <<cv, score>>
            BY <2>4 DEF BuildNext, StartBuild, FitEncoding, InsertSomeRows, InsertSeason, KillBuild
        <3> QED
            BY <2>1, <2>2, <2>4, <3>1, BuildersKeep, BuildersAreBlind DEF FoldsInv
    <2>5. CASE MaterializeNext
        <3>1. UNCHANGED <<cv, score, build, features>>
            BY <2>5 DEF MaterializeNext, StartMaterialize, MaterializeYear, KillMaterialize
        <3> QED
            BY <2>1, <2>2, <2>3, <2>5, <3>1, MaterializeKeeps DEF FoldsInv
    <2>6. CASE CVNext
        <3>1. UNCHANGED <<build, features>>
            BY <2>6 DEF CVNext, StartCV, LoadTrain, LoadVal, ModelFactory, ScoreFold, KillCV
        <3> QED
            BY <2>1, <2>3, <2>6, <3>1, RunKeeps DEF FoldsInv
    <2>7. CASE UNCHANGED foldVars
        BY <2>1, <2>2, <2>3, <2>7 DEF foldVars, FoldsInv, FoldsTypeOK
    <2> QED
        BY <2>4, <2>5, <2>6, <2>7 DEF FoldsNext
<1> QED
    BY <1>1, <1>2, PTL DEF FoldsSpec

\* No row of a fold carries an encoding that has seen a label of the fold's
\* validation or test season, whatever builds with whatever spans were started,
\* killed half way and written over one another.
THEOREM EncodingsAreBlind == FoldsSpec => []EncodingIsBlind
<1>1. FoldsInv => EncodingIsBlind
    BY DEF FoldsInv
<1> QED
    BY <1>1, FoldsInvHolds, PTL

\* Nothing in a model that is scored has seen a label of the season it is scored
\* on, and its calibrator was fitted on seasons after those of the fit, for any
\* number of folds and while the tables are built again.
THEOREM EvaluationIsHonest == FoldsSpec => []HonestEvaluation
<1>1. FoldsInv => HonestEvaluation
    BY DEF FoldsInv
<1> QED
    BY <1>1, FoldsInvHolds, PTL

(***************************************************************************)
(* The fold store.                                                         *)
(***************************************************************************)
Digests == [FoldFiles -> 0 .. MaxExports]
Manifest == [schema : 0 .. MaxSchemas, files : Digests]
Store == [files : Digests, manifest : Manifest]

StoreTypeOK ==
    /\ schema \in 1 .. MaxSchemas
    /\ box \in [pc : {"idle", "write"}, n : 0 .. MaxExports, left : SUBSET FoldFiles]
    /\ outDir \in Store /\ remote \in Store /\ foldsDir \in Store
    /\ fetch \in [pc : {"idle", "files", "done", "failed"}, left : SUBSET FoldFiles]
    /\ loader \in [pc : {"none", "open"}, manifest : Manifest, verified : SUBSET FoldFiles,
                   handed : Digests]

\* A manifest lists the digests of one export.
Uniform(manifest) == \A f, g \in FoldFiles : manifest.files[f] = manifest.files[g]

\* Manifests travel whole; the files a fetch has passed are those of the manifest
\* it follows; and what a loader has handed out is what its manifest lists.
StoreInv ==
    /\ Uniform(outDir.manifest) /\ Uniform(remote.manifest) /\ Uniform(foldsDir.manifest)
    /\ Uniform(loader.manifest)
    /\ fetch.pc \in {"files", "done"} =>
          \A f \in FoldFiles \ fetch.left : foldsDir.files[f] = foldsDir.manifest.files[f]
    /\ fetch.pc = "done" => fetch.left = {}
    /\ \A f \in loader.verified : loader.handed[f] = loader.manifest.files[f]

LEMMA EmptyStore ==
    /\ noManifest \in Manifest /\ noStore \in Store
    /\ Uniform(noManifest) /\ noStore.manifest = noManifest
    /\ noLoader \in [pc : {"none", "open"}, manifest : Manifest, verified : SUBSET FoldFiles,
                     handed : Digests]
    /\ noLoader.manifest = noManifest /\ noLoader.verified = {}
BY FoldStoreAssumption DEF noManifest, Manifest, Digests, nothing, noStore, Store, Uniform, noLoader

LEMMA StoreStarts == FoldStoreInit => StoreTypeOK /\ StoreInv
<1> SUFFICES ASSUME FoldStoreInit PROVE StoreTypeOK /\ StoreInv
    OBVIOUS
<1>1. StoreTypeOK
    BY EmptyStore, FoldStoreAssumption DEF FoldStoreInit, StoreTypeOK
<1>2. StoreInv
    BY EmptyStore DEF FoldStoreInit, StoreInv
<1> QED
    BY <1>1, <1>2

LEMMA StoreKeeps ==
    ASSUME StoreTypeOK, StoreInv, [FoldStoreNext]_storeVars
    PROVE  StoreTypeOK' /\ StoreInv'
<1> USE DEF StoreTypeOK
<1>1. ASSUME EditSchema PROVE StoreTypeOK' /\ StoreInv'
    BY <1>1, FoldStoreAssumption DEF EditSchema, StoreInv
<1>2. ASSUME StartFoldExport PROVE StoreTypeOK' /\ StoreInv'
    BY <1>2, FoldStoreAssumption DEF StartFoldExport, StoreInv
<1>3. ASSUME NEW f \in FoldFiles, WriteFoldFile(f) PROVE StoreTypeOK' /\ StoreInv'
    <2>1. outDir' \in Store /\ outDir'.manifest = outDir.manifest
        BY <1>3 DEF WriteFoldFile, Store, Digests
    <2> QED
        BY <1>3, <2>1 DEF WriteFoldFile, StoreInv
<1>4. ASSUME WriteManifest PROVE StoreTypeOK' /\ StoreInv'
    <2>1. outDir' \in Store /\ Uniform(outDir'.manifest)
        BY <1>4, FoldStoreAssumption DEF WriteManifest, Store, Manifest, Digests, Uniform
    <2> QED
        BY <1>4, <2>1 DEF WriteManifest, StoreInv, Uniform
<1>5. ASSUME KillFoldExport PROVE StoreTypeOK' /\ StoreInv'
    BY <1>5 DEF KillFoldExport, StoreInv
<1>6. ASSUME NEW f \in FoldFiles, UploadFile(f) PROVE StoreTypeOK' /\ StoreInv'
    <2>1. remote' \in Store /\ remote'.manifest = remote.manifest
        BY <1>6 DEF UploadFile, Store, Digests
    <2> QED
        BY <1>6, <2>1 DEF UploadFile, StoreInv
<1>7. ASSUME UploadManifest PROVE StoreTypeOK' /\ StoreInv'
    <2>1. remote' \in Store /\ remote'.manifest = outDir.manifest
        BY <1>7 DEF UploadManifest, Store
    <2> QED
        BY <1>7, <2>1 DEF UploadManifest, StoreInv, Uniform
<1>8. ASSUME FetchManifest PROVE StoreTypeOK' /\ StoreInv'
    <2>1. foldsDir' \in Store /\ foldsDir'.manifest = remote.manifest
        BY <1>8 DEF FetchManifest, Store
    <2> QED
        BY <1>8, <2>1 DEF FetchManifest, StoreInv, Uniform
<1>9. ASSUME NEW f \in FoldFiles, FetchFile(f) PROVE StoreTypeOK' /\ StoreInv'
    <2>1. /\ foldsDir' \in Store /\ foldsDir'.manifest = foldsDir.manifest
          /\ \A g \in FoldFiles \ {f} : foldsDir'.files[g] = foldsDir.files[g]
        BY <1>9 DEF FetchFile, AlreadyValid, Store, Digests
    <2>2. CASE fetch' = [pc |-> "failed", left |-> {}]
        BY <1>9, <2>1, <2>2 DEF FetchFile, StoreInv, Uniform
    <2>3. CASE fetch' # [pc |-> "failed", left |-> {}]
        <3>1. /\ fetch' = [pc |-> IF fetch.left = {f} THEN "done" ELSE "files",
                           left |-> fetch.left \ {f}]
              /\ foldsDir'.files[f] = foldsDir.manifest.files[f]
            BY <1>9, <2>3, FoldStoreAssumption DEF FetchFile, AlreadyValid, Store, Manifest, Digests
        <3>2. fetch.pc = "files" /\ UNCHANGED <<schema, box, outDir, remote, loader>>
            BY <1>9 DEF FetchFile
        <3> QED
            BY <2>1, <3>1, <3>2 DEF StoreInv, Uniform
    <2> QED
        BY <2>2, <2>3
<1>10. ASSUME KillFetch PROVE StoreTypeOK' /\ StoreInv'
    BY <1>10 DEF KillFetch, StoreInv
<1>11. ASSUME OpenLoader PROVE StoreTypeOK' /\ StoreInv'
    <2>1. /\ loader'.verified = {"mappings"} /\ loader'.manifest = foldsDir.manifest
          /\ loader'.handed["mappings"] = foldsDir.manifest.files["mappings"]
          /\ loader'.pc = "open" /\ loader'.handed \in Digests
        BY <1>11, FoldStoreAssumption DEF OpenLoader, ReadVerified, nothing, Digests, Store, Manifest
    <2>2. loader' \in [pc : {"none", "open"}, manifest : Manifest, verified : SUBSET FoldFiles,
                       handed : Digests]
        BY <1>11, <2>1, FoldStoreAssumption DEF OpenLoader, Store
    <2> QED
        BY <1>11, <2>1, <2>2 DEF OpenLoader, StoreInv, Uniform
<1>12. ASSUME NEW f \in FoldFiles, LoadSplit(f) PROVE StoreTypeOK' /\ StoreInv'
    <2>1. CASE loader' = noLoader
        BY <1>12, <2>1, EmptyStore DEF LoadSplit, StoreInv
    <2>2. CASE loader' # noLoader
        <3>1. /\ ReadVerified(loader.manifest, loader.verified, f)
              /\ loader' = [loader EXCEPT !.verified = @ \union {f},
                                          !.handed[f] = IF f \in loader.verified THEN @
                                                        ELSE foldsDir.files[f]]
            BY <1>12, <2>2 DEF LoadSplit
        <3>2. /\ loader' \in [pc : {"none", "open"}, manifest : Manifest,
                              verified : SUBSET FoldFiles, handed : Digests]
              /\ loader'.manifest = loader.manifest /\ loader'.verified = loader.verified \union {f}
              /\ \A g \in FoldFiles \ {f} : loader'.handed[g] = loader.handed[g]
              /\ loader'.handed[f] = IF f \in loader.verified THEN loader.handed[f]
                                     ELSE foldsDir.files[f]
            BY <3>1 DEF Store, Digests
        <3>3. loader'.handed[f] = loader.manifest.files[f]
            BY <3>1, <3>2 DEF ReadVerified, StoreInv
        <3> QED
            BY <1>12, <3>2, <3>3 DEF LoadSplit, StoreInv, Uniform
    <2> QED
        BY <2>1, <2>2
<1>13. ASSUME CloseLoader PROVE StoreTypeOK' /\ StoreInv'
    BY <1>13, EmptyStore DEF CloseLoader, StoreInv
<1>14. CASE UNCHANGED storeVars
    BY <1>14 DEF storeVars, StoreInv, Uniform
<1> QED
    BY <1>1, <1>2, <1>3, <1>4, <1>5, <1>6, <1>7, <1>8, <1>9, <1>10, <1>11, <1>12, <1>13, <1>14
    DEF FoldStoreNext

\* A fetch that ends well has the files of one export, and the frames a loader
\* hands out are of one export, for any number of exports, contract edits and
\* files, in whatever order objects are copied and fetched.
THEOREM TrainsOnOneExport == FoldStoreSpec => []TrainedOnOneExport
<1>1. StoreTypeOK /\ StoreInv => TrainedOnOneExport
    <2> SUFFICES ASSUME StoreTypeOK, StoreInv PROVE TrainedOnOneExport
        OBVIOUS
    <2>1. ASSUME fetch.pc = "done" PROVE foldsDir.files = foldsDir.manifest.files
        <3>1. \A f \in FoldFiles : foldsDir.files[f] = foldsDir.manifest.files[f]
            BY <2>1 DEF StoreInv
        <3>2. foldsDir.files \in Digests /\ foldsDir.manifest.files \in Digests
            BY DEF StoreTypeOK, Store, Manifest
        <3> QED
            BY <3>1, <3>2 DEF Digests
    <2>2. \A f, g \in loader.verified : loader.handed[f] = loader.handed[g]
        BY DEF StoreTypeOK, StoreInv, Uniform
    <2> QED
        BY <2>1, <2>2 DEF TrainedOnOneExport
<1> QED
    BY <1>1, StoreStarts, StoreKeeps, PTL DEF FoldStoreSpec

(***************************************************************************)
(* The evidence for a promotion.                                           *)
(***************************************************************************)
Rows == [gen : Nat, rows : Nat, real : BOOLEAN]
Slots == {"challenger", "baseline", "val", "carry", "challengerTest", "baselineTest"}
Frames == [Slots -> Rows]
Evaluation == [pc : {"idle", "generate", "load", "score"}, label : {"sample", "full"},
               step : Nat, got : Frames]

EvidenceTypeOK ==
    /\ evaluated \in Driver \union Boxed \union Bundled
    /\ labels \in [Slices -> Rows] /\ files \in [Slices -> Rows]
    /\ mirror \in [pc : {"idle", "export"}, slice : Slices]
    /\ eval \in Evaluation
    /\ eval.pc = "generate" => eval.step \in Slices
    /\ eval.pc = "load" => eval.step \in DOMAIN EvalLoads(evaluated)

\* What is given to both heads is given to both in one step.
Paired(kind, got) ==
    /\ kind \notin Bundled => got.challengerTest = got.baselineTest
    /\ kind \in Driver \union {"carry"} => got.challenger = got.baseline

\* An artifact that passed meets what is declared for its family, and its
\* numbers are those of the rows it names.
Earned(a) ==
    /\ PrimaryMet(a.measured, Criteria[a.family])
    /\ GuardrailsHold(a.measured, a.family, Criteria[a.family])
    /\ a.observed >= SampleSizeTarget
    /\ a.family \in {"carry", "v3"} => a.measured.carry
    /\ a.name # "pre_gate" => AbsoluteBarHolds(a.measured, a.family)

EvidenceInv ==
    /\ Paired(evaluated, eval.got)
    /\ evaluated \in Bundled => eval.pc = "idle"
    /\ EvidenceWritten =>
          /\ artifact.name = "pre" => /\ artifact.family = "pre"
                                      /\ artifact.measured \in Measurements("pre")
          /\ artifact.observed = artifact.got.challengerTest.rows
          /\ artifact.status = "passed" => Earned(artifact)
          /\ Paired(artifact.family, artifact.got)
          /\ artifact.family \in Bundled => artifact.got.challenger = artifact.got.baseline

LEMMA NoEvaluation ==
    /\ absent \in Rows /\ noSlots \in Frames
    /\ noSlots.challengerTest = noSlots.baselineTest /\ noSlots.challenger = noSlots.baseline
    /\ evalIdle \in Evaluation /\ evalIdle.got = noSlots /\ evalIdle.pc = "idle"
<1>1. absent \in Rows
    BY DEF absent, Rows
<1>2. noSlots \in Frames
    BY <1>1 DEF noSlots, Frames, Slots
<1> QED
    BY <1>1, <1>2 DEF noSlots, evalIdle, Evaluation

\* Each of the evaluators loads something into slots it has, both test frames in
\* one load, and both training frames unless the heads have queries of their own.
LEMMA LoadsArePaired ==
    ASSUME NEW f \in Driver \union Boxed \union Bundled
    PROVE  /\ Len(EvalLoads(f)) \in Nat \ {0} /\ DOMAIN EvalLoads(f) = 1 .. Len(EvalLoads(f))
           /\ \A i \in DOMAIN EvalLoads(f) :
                 LET load == EvalLoads(f)[i] IN
                 /\ load.slice \in Slices /\ load.slots \subseteq Slots
                 /\ "challengerTest" \in load.slots <=> "baselineTest" \in load.slots
                 /\ f \in Driver \union {"carry"} =>
                       ("challenger" \in load.slots <=> "baseline" \in load.slots)
<1> USE DEF Into, Slices, Slots, Train, Val, Test
<1>1. CASE f \in Driver
    <2>1. EvalLoads(f) = DriverLoads
        BY <1>1 DEF EvalLoads, Driver
    <2> QED
        BY <2>1 DEF DriverLoads
<1>2. CASE f = "faithful"
    <2>1. EvalLoads(f) = FaithfulLoads
        BY <1>2 DEF EvalLoads, Driver
    <2>2. f \notin Driver \union {"carry"}
        BY <1>2 DEF Driver
    <2> QED
        BY <2>1, <2>2 DEF FaithfulLoads
<1>3. CASE f = "carry"
    <2>1. EvalLoads(f) = CarryLoads
        BY <1>3 DEF EvalLoads, Driver
    <2> QED
        BY <1>3, <2>1 DEF CarryLoads
<1>4. CASE f \in {"v3", "pitch_type"}
    <2>1. EvalLoads(f) = VersionsLoads
        BY <1>4 DEF EvalLoads, Driver
    <2> QED
        BY <1>4, <2>1 DEF VersionsLoads, Driver
<1> QED
    BY <1>1, <1>2, <1>3, <1>4 DEF Boxed, Bundled

\* A verdict of passed is earned.
LEMMA StatusIsEarned ==
    ASSUME NEW m, NEW f, NEW n, Status(m, f, n)
    PROVE  /\ PrimaryMet(m, Criteria[f]) /\ GuardrailsHold(m, f, Criteria[f])
           /\ n >= SampleSizeTarget /\ (f \in {"carry", "v3"} => m.carry)
           /\ (f \notin {"carry", "v3"} => AbsoluteBarHolds(m, f))
BY DEF Status, CarryStatus, DriverStatus, EvaluateChallengerVsBaseline

\* The carry gate has no bar.
LEMMA NoBarForCarry ==
    ASSUME NEW m, NEW f \in {"carry", "v3"} PROVE AbsoluteBarHolds(m, f)
BY DEF AbsoluteBarHolds, Criteria, DeclaredCriteria

LEMMA EvidenceStarts == PromoInit => EvidenceTypeOK /\ EvidenceInv
<1> SUFFICES ASSUME PromoInit PROVE EvidenceTypeOK /\ EvidenceInv
    OBVIOUS
<1>1. EvidenceTypeOK
    BY NoEvaluation, PromotionAssumption
    DEF PromoInit, EvidenceTypeOK, Rows, mirrorIdle, Slices, Train
<1>2. EvidenceInv
    BY NoEvaluation DEF PromoInit, EvidenceInv, EvidenceWritten, noArtifact, Paired
<1> QED
    BY <1>1, <1>2

LEMMA EvaluationKeeps ==
    ASSUME EvidenceTypeOK, EvidenceInv, PromoNext, eval' # eval
    PROVE  eval' \in Evaluation /\ Paired(evaluated, eval'.got)
           /\ (eval'.pc = "generate" => eval'.step \in Slices)
           /\ (eval'.pc = "load" => eval'.step \in DOMAIN EvalLoads(evaluated))
           /\ (evaluated \in Bundled => eval'.pc = "idle")
<1>0. /\ eval \in Evaluation /\ evaluated \in Driver \union Boxed \union Bundled
      /\ 1 \in DOMAIN EvalLoads(evaluated)
    BY LoadsArePaired DEF EvidenceTypeOK
<1>1. CASE eval' = evalIdle
    BY <1>1, NoEvaluation DEF Paired
<1>2. CASE \/ \E label \in {"sample", "full"}, generate \in BOOLEAN : StartDriver(label, generate)
           \/ StartBoxed
    <2>1. PICK label \in {"sample", "full"}, pc \in {"generate", "load"} :
             eval' = [evalIdle EXCEPT !.pc = pc, !.label = label, !.step = 1]
        BY <1>2 DEF StartDriver, StartBoxed, Train
    <2>2. eval' \in Evaluation /\ eval'.got = noSlots /\ eval'.step = 1
        BY <2>1, NoEvaluation DEF Evaluation
    <2>3. evaluated \notin Bundled
        BY <1>2 DEF StartDriver, StartBoxed, Driver, Boxed, Bundled
    <2> QED
        BY <1>0, <2>2, <2>3, NoEvaluation DEF Paired, Slices
<1>3. CASE GenerateSlice
    <2>1. /\ eval.step \in Slices
          /\ eval' = IF eval.step = Test THEN [eval EXCEPT !.pc = "load", !.step = 1]
                     ELSE [eval EXCEPT !.step = @ + 1]
        BY <1>3 DEF GenerateSlice, EvidenceTypeOK
    <2>2. evaluated \notin Bundled
        BY <1>3 DEF EvidenceInv, GenerateSlice
    <2>3. eval.step + 1 \in Nat /\ (eval.step # Test => eval.step + 1 \in Slices) /\ eval.pc = "generate"
        BY <1>3, <2>1 DEF Slices, Test, GenerateSlice
    <2>4. eval' \in Evaluation /\ eval'.got = eval.got
          /\ (eval'.pc = "generate" => eval'.step \in Slices)
          /\ (eval'.pc = "load" => eval'.step = 1)
        BY <1>0, <2>1, <2>3 DEF Evaluation
    <2> QED
        BY <1>0, <2>2, <2>4 DEF EvidenceInv, Paired
<1>4. CASE LoadSlice /\ eval' # evalIdle
    <2> DEFINE load == EvalLoads(evaluated)[eval.step]
               rows == EvalSource(load.slice)
               got == [k \in DOMAIN eval.got |-> IF k \in load.slots THEN rows ELSE eval.got[k]]
    <2>1. eval.pc = "load" /\ eval.step \in DOMAIN EvalLoads(evaluated)
        BY <1>4 DEF LoadSlice, EvidenceTypeOK
    <2>2. /\ load.slice \in Slices
          /\ "challengerTest" \in load.slots <=> "baselineTest" \in load.slots
          /\ evaluated \in Driver \union {"carry"} =>
                ("challenger" \in load.slots <=> "baseline" \in load.slots)
        BY <1>0, <2>1, LoadsArePaired
    <2>3. rows \in Rows
        BY <2>2 DEF EvalSource, EvidenceTypeOK
    <2>4. got \in Frames
        BY <1>0, <2>3 DEF Evaluation, Frames
    <2>5. Paired(evaluated, got)
        BY <1>0, <2>2 DEF EvidenceInv, Paired, Evaluation, Frames, Slots
    <2>6. eval' = [eval EXCEPT !.step = @ + 1,
                               !.pc = IF eval.step = Len(EvalLoads(evaluated)) THEN "score" ELSE @,
                               !.got = got]
        BY <1>4 DEF LoadSlice
    <2> HIDE DEF got
    <2>0. eval.step + 1 \in Nat
        BY <1>0 DEF Evaluation
    <2>7. /\ eval'.got = got /\ eval' \in Evaluation /\ eval'.step = eval.step + 1
          /\ eval'.pc = IF eval.step = Len(EvalLoads(evaluated)) THEN "score" ELSE eval.pc
        BY <1>0, <2>0, <2>4, <2>6 DEF Evaluation
    <2>8. eval'.pc = "load" => eval'.step \in DOMAIN EvalLoads(evaluated)
        BY <1>0, <2>1, <2>7, LoadsArePaired
    <2>9. evaluated \notin Bundled
        BY <2>1 DEF EvidenceInv
    <2> QED
        BY <2>1, <2>5, <2>7, <2>8, <2>9
<1> QED
    BY <1>1, <1>2, <1>3, <1>4
    DEF PromoNext, Relabel, StartMirror, MirrorSlice, KillMirror, KillEvaluation, WriteArtifact,
        EmitPreGate, StartFitting, FitLast, WriteBundleMetadata, KillFitting, WriteBundleMetrics,
        EmitPitchTypeGate, evidence

LEMMA TablesKeep ==
    ASSUME EvidenceTypeOK, PromoNext
    PROVE  /\ evaluated' = evaluated
           /\ labels' \in [Slices -> Rows] /\ files' \in [Slices -> Rows]
           /\ mirror' \in [pc : {"idle", "export"}, slice : Slices]
<1> USE DEF EvidenceTypeOK
<1>1. ASSUME NEW s \in Slices, NEW n \in {SampleSizeTarget - 1, SampleSizeTarget}, Relabel(s, n)
      PROVE  labels' \in [Slices -> Rows] /\ UNCHANGED <<evaluated, files, mirror>>
    <2>1. n \in Nat
        BY PromotionAssumption
    <2> QED
        BY <1>1, <2>1 DEF Relabel, Rows
<1>2. ASSUME StartMirror \/ KillMirror
      PROVE  /\ mirror' \in [pc : {"idle", "export"}, slice : Slices]
             /\ UNCHANGED <<evaluated, labels, files>>
    BY <1>2 DEF StartMirror, KillMirror, mirrorIdle, Slices, Train
<1>3. ASSUME MirrorSlice
      PROVE  /\ mirror' \in [pc : {"idle", "export"}, slice : Slices]
             /\ files' \in [Slices -> Rows] /\ UNCHANGED <<evaluated, labels>>
    BY <1>3 DEF MirrorSlice, mirrorIdle, Slices, Train, Test
<1>4. ASSUME GenerateSlice
      PROVE  files' \in [Slices -> Rows] /\ UNCHANGED <<evaluated, labels, mirror>>
    BY <1>4, PromotionAssumption DEF GenerateSlice, Rows
<1>5. ASSUME ~(\E s \in Slices, n \in {SampleSizeTarget - 1, SampleSizeTarget} : Relabel(s, n)),
             ~StartMirror, ~KillMirror, ~MirrorSlice, ~GenerateSlice
      PROVE  UNCHANGED <<evaluated, labels, files, mirror>>
    BY <1>5
    DEF PromoNext, StartDriver, StartBoxed, LoadSlice, KillEvaluation, WriteArtifact, EmitPreGate,
        StartFitting, FitLast, WriteBundleMetadata, KillFitting, WriteBundleMetrics,
        EmitPitchTypeGate
<1> QED
    BY <1>1, <1>2, <1>3, <1>4, <1>5

\* What is written, whoever writes it, is earned and paired.
LEMMA ArtifactKeeps ==
    ASSUME EvidenceTypeOK, EvidenceInv, PromoNext, artifact' # artifact
    PROVE  /\ artifact'.name = "pre" => /\ artifact'.family = "pre"
                                        /\ artifact'.measured \in Measurements("pre")
           /\ artifact'.observed = artifact'.got.challengerTest.rows
           /\ artifact'.status = "passed" => Earned(artifact')
           /\ Paired(artifact'.family, artifact'.got)
           /\ artifact'.family \in Bundled => artifact'.got.challenger = artifact'.got.baseline
<1>1. ASSUME NEW m \in Measurements(evaluated), WriteArtifact(m)
      PROVE  /\ artifact'.name = evaluated /\ artifact'.family = evaluated
             /\ artifact'.measured = m /\ artifact'.got = eval.got
             /\ artifact'.observed = artifact'.got.challengerTest.rows
             /\ artifact'.status = "passed" => Earned(artifact')
    <2> DEFINE n == eval.got.challengerTest.rows
    <2>1. artifact' = Artifact(evaluated, evaluated, eval.label, eval.got, m, n)
        BY <1>1 DEF WriteArtifact
    <2>2. artifact'.status = "passed" => Status(m, evaluated, n)
        BY <2>1 DEF Artifact
    <2> HIDE DEF n
    <2>3. /\ artifact'.name = evaluated /\ artifact'.family = evaluated
          /\ artifact'.measured = m /\ artifact'.got = eval.got /\ artifact'.observed = n
        BY <2>1 DEF Artifact
    <2> QED
        BY <2>2, <2>3, StatusIsEarned, NoBarForCarry DEF Earned, n
<1>2. ASSUME EmitPreGate
      PROVE  /\ artifact'.name = "pre_gate" /\ artifact'.family = "pre" /\ artifact'.got = artifact.got
             /\ artifact'.observed = artifact.observed /\ artifact'.measured = artifact.measured
             /\ Earned(artifact')
    <2> DEFINE m == artifact.measured
    <2>1. /\ artifact.name = "pre" /\ artifact.family = "pre" /\ m \in Measurements("pre")
          /\ Delta(m, "ece") <= 0 /\ \A g \in Guards["pre"] : Delta(m, g) <= 0
          /\ artifact.observed >= SampleSizeTarget
        BY <1>2 DEF EmitPreGate, EvidenceInv, EvidenceWritten
    <2>2. /\ artifact'.name = "pre_gate" /\ artifact'.family = artifact.family
          /\ artifact'.measured = m /\ artifact'.observed = artifact.observed
          /\ artifact'.got = artifact.got
        BY <1>2 DEF EmitPreGate
    <2>3. Criteria["pre"] = [primary |-> "ece", threshold |-> -Bar, maxDelta |-> 0, bar |-> TRUE]
        BY DEF Criteria, DeclaredCriteria
    <2>4. m.challenger.ece \in Nat /\ m.baseline.ece \in Nat
        BY <2>1, PromotionAssumption DEF Measurements, Scores
    <2>5. PrimaryMet(m, Criteria["pre"])
        BY <2>1, <2>3, <2>4, PromotionAssumption DEF PrimaryMet, Delta
    <2>6. GuardrailsHold(m, "pre", Criteria["pre"])
        BY <2>1, <2>3 DEF GuardrailsHold
    <2> QED
        BY <2>1, <2>2, <2>5, <2>6 DEF Earned
<1>3. ASSUME EmitPitchTypeGate
      PROVE  /\ artifact'.name = "pitch_type" /\ artifact'.family = "pitch_type"
             /\ artifact'.got.challenger = artifact'.got.baseline
             /\ artifact'.observed = artifact'.got.challengerTest.rows
             /\ artifact'.status = "passed" => Earned(artifact')
    <2> DEFINE c == bundle["challenger"]
               b == bundle["baseline"]
               m == [challenger |-> c.score, baseline |-> b.score, retro |-> 0, carry |-> TRUE]
               got == [noSlots EXCEPT !.challenger = c.hash, !.baseline = b.hash,
                                      !.challengerTest = c.test, !.baselineTest = b.test]
    <2>1. c.hash = b.hash /\ artifact' = BuildGate
        BY <1>3 DEF EmitPitchTypeGate, AssertComparable
    <2>2. got.challenger = c.hash /\ got.baseline = b.hash /\ got.challengerTest = c.test
        BY DEF noSlots
    <2> HIDE DEF m, got
    <2>3. artifact' =
             [Artifact("pitch_type", "pitch_type", "full", got, m, c.test.rows) EXCEPT
                !.threshold = 0,
                !.passed = @ /\ Delta(m, "ece") <= 0 /\ AbsoluteBarHolds(m, "pitch_type"),
                !.status = IF Delta(m, "ece") <= 0 THEN @ ELSE "failed"]
        BY <2>1 DEF BuildGate, ReadBundle, m, got
    <2>4. /\ artifact'.name = "pitch_type" /\ artifact'.family = "pitch_type"
          /\ artifact'.measured = m /\ artifact'.got = got /\ artifact'.observed = c.test.rows
          /\ artifact'.status = "passed" => Status(m, "pitch_type", c.test.rows)
        BY <2>3 DEF Artifact
    <2> QED
        BY <2>1, <2>2, <2>4, StatusIsEarned DEF Earned
<1>4. CASE \E m \in Measurements(evaluated) : WriteArtifact(m)
    <2>1. /\ artifact'.family = evaluated /\ artifact'.name = evaluated /\ artifact'.got = eval.got
          /\ artifact'.measured \in Measurements(evaluated) /\ evaluated \notin Bundled
        BY <1>1, <1>4 DEF WriteArtifact, EvidenceInv
    <2>2. artifact'.observed = artifact'.got.challengerTest.rows
          /\ (artifact'.status = "passed" => Earned(artifact'))
        BY <1>1, <1>4
    <2> QED
        BY <2>1, <2>2 DEF EvidenceInv
<1>5. CASE EmitPreGate
    <2>1. /\ EvidenceWritten
          /\ Paired(artifact.family, artifact.got) /\ artifact.family = "pre"
          /\ artifact.observed = artifact.got.challengerTest.rows
        BY <1>5 DEF EmitPreGate, EvidenceInv, EvidenceWritten
    <2> QED
        BY <1>2, <1>5, <2>1 DEF Bundled
<1>6. CASE EmitPitchTypeGate
    <2>1. Paired("pitch_type", artifact'.got)
        BY DEF Paired, Bundled, Driver
    <2> QED
        BY <1>3, <1>6, <2>1
<1> QED
    BY <1>4, <1>5, <1>6
    DEF PromoNext, Relabel, StartMirror, MirrorSlice, KillMirror, StartDriver, StartBoxed,
        GenerateSlice, LoadSlice, KillEvaluation, StartFitting, FitLast, WriteBundleMetadata,
        KillFitting, WriteBundleMetrics, evidence

LEMMA EvidenceHolds == PromoSpec => [](EvidenceTypeOK /\ EvidenceInv)
<1>1. EvidenceTypeOK /\ EvidenceInv /\ [PromoNext]_promoVars => EvidenceTypeOK' /\ EvidenceInv'
    <2> SUFFICES ASSUME EvidenceTypeOK, EvidenceInv, [PromoNext]_promoVars
        PROVE  EvidenceTypeOK' /\ EvidenceInv'
        OBVIOUS
    <2>1. evaluated' = evaluated
        BY TablesKeep DEF promoVars
    <2>2. EvidenceTypeOK'
        <3>1. CASE UNCHANGED promoVars
            BY <3>1 DEF promoVars, evidence, EvidenceTypeOK
        <3>2. CASE PromoNext
            BY <2>1, <3>2, TablesKeep, EvaluationKeeps DEF EvidenceTypeOK
        <3> QED
            BY <3>1, <3>2
    <2>3. Paired(evaluated', eval'.got) /\ (evaluated' \in Bundled => eval'.pc = "idle")
        <3>1. CASE eval' = eval
            BY <2>1, <3>1 DEF EvidenceInv
        <3>2. CASE eval' # eval
            BY <2>1, <3>2, EvaluationKeeps DEF promoVars, evidence
        <3> QED
            BY <3>1, <3>2
    <2>4. CASE artifact' = artifact
        BY <2>2, <2>3, <2>4 DEF EvidenceInv, EvidenceWritten, Earned
    <2>5. CASE artifact' # artifact
        <3>1. PromoNext
            BY <2>5 DEF promoVars, evidence
        <3> QED
            BY <2>2, <2>3, <2>5, <3>1, ArtifactKeeps DEF EvidenceInv
    <2> QED
        BY <2>4, <2>5
<1> QED
    BY <1>1, EvidenceStarts, PTL DEF PromoSpec

\* What the import of a gate accepts meets every criterion declared for its
\* family, whatever was measured, relabelled, replaced or killed meanwhile.
THEOREM GatesAreEarned == PromoSpec => []GateIsEarned
<1>1. EvidenceTypeOK /\ EvidenceInv => GateIsEarned
    BY DEF EvidenceInv, Earned, GateIsEarned, ImportGateAccepts
<1> QED
    BY <1>1, EvidenceHolds, PTL

\* Both heads of an artifact that passed were scored on the same test rows and,
\* where they share a query, fitted on the same training rows.
THEOREM VerdictsArePaired == PromoSpec => []VerdictIsPaired
<1>1. EvidenceTypeOK /\ EvidenceInv => VerdictIsPaired
    BY DEF EvidenceInv, Paired, VerdictIsPaired
<1> QED
    BY <1>1, EvidenceHolds, PTL

-----------------------------------------------------------------------------
(***************************************************************************)
(* The bundles of the pitch models.                                        *)
(***************************************************************************)
MetaRec == [artifact : {"none", "model", "onnx"}, sha : Nat, kept : Nat,
            calibrator : Nat, data : Nat, contract : Nat]

LEMMA NoMetaType == noMeta \in MetaRec /\ noMeta.artifact = "none"
    BY DEF noMeta, MetaRec, noFile

-----------------------------------------------------------------------------
(* The registration command *)

Todos == {<< >>, <<"baseline", "primary">>, <<"primary">>, <<"baseline">>}

RegistrarRec ==
    [pc : {"idle", "next", "assemble", "gate", "hash", "post"}, todo : Todos,
     dry : BOOLEAN, baseline : BOOLEAN, meta : MetaRec, left : Seq(Files)]

\* A command that is past the check of the primary knows of a baseline, and a
\* command that posts knows of one in the registry.  Only the pitch-type family
\* gets as far as a post, and only the other two assemble snapshots.
RegistrarInv ==
    /\ registrar \in RegistrarRec
    /\ registrar.pc \in {"assemble", "gate", "hash", "post"} => registrar.todo # << >>
    /\ registrar.pc \in {"assemble", "gate"} => ~IsPitchType
    /\ ~IsPitchType => registrar.dry
    /\ registrar.pc \in {"hash", "post"} =>
          IsPitchType /\ (Head(registrar.todo) = "primary" => registrar.baseline)
    /\ registrar.baseline /\ ~registrar.dry => "baseline" \in registered
    /\ PrimaryHasBaseline

LEMMA TodoTail ==
    ASSUME NEW todo \in Todos, todo # << >>
    PROVE  Tail(todo) \in Todos /\ Head(todo) \in Heads
<1>1. CASE todo = <<"baseline", "primary">>
    <2>1. Head(todo) = "baseline" /\ Tail(todo) = <<"primary">>
        BY <1>1
    <2> QED
        BY <2>1 DEF Todos, Heads
<1>2. ASSUME NEW h \in Heads, todo = <<h>>
      PROVE  Tail(todo) \in Todos /\ Head(todo) \in Heads
    <2>1. Head(todo) = h /\ Tail(todo) = << >>
        BY <1>2
    <2> QED
        BY <2>1 DEF Todos
<1> QED
    BY <1>1, <1>2 DEF Todos, Heads

LEMMA IdleRegistrar ==
    /\ registrarIdle \in RegistrarRec
    /\ registrarIdle.pc = "idle" /\ registrarIdle.todo = << >> /\ registrarIdle.dry
    /\ ~registrarIdle.baseline /\ registrarIdle.left = << >>
    BY NoMetaType DEF registrarIdle, RegistrarRec, Todos

LEMMA RegistrarEnds ==
    ASSUME RegistrarInv, registrar' = registrarIdle, UNCHANGED <<family, registered>>
    PROVE  RegistrarInv'
    BY IdleRegistrar DEF RegistrarInv, IsPitchType, PrimaryHasBaseline

LEMMA RegistrarStep ==
    ASSUME RegistrarInv, IsPitchType => meta \in [Heads -> MetaRec], [Next]_vars
    PROVE  RegistrarInv'
<1> USE DEF RegistrarInv
<1>1. CASE UNCHANGED <<family, registrar, registered>>
    BY <1>1 DEF IsPitchType, PrimaryHasBaseline
<1>2. CASE registrar' = registrarIdle /\ UNCHANGED <<family, registered>>
    BY <1>2, RegistrarEnds
<1>3. CASE StartRegisterPitch
    <2>1. <<"baseline", "primary">> \in Todos
        BY DEF Todos
    <2> QED
        BY <1>3, <2>1, IdleRegistrar DEF StartRegisterPitch, RegistrarRec, IsPitchType, PrimaryHasBaseline
<1>4. CASE StartSnapshot /\ registrar' # registrarIdle
    <2>1. registrar' = [registrar EXCEPT !.pc = "assemble", !.left = InPitchSnapshot]
          /\ registrar.todo # << >> /\ ~IsPitchType /\ UNCHANGED <<family, registered>>
        BY <1>4 DEF StartSnapshot
    <2>2. InPitchSnapshot \in Seq(Files)
        BY DEF InPitchSnapshot, Files
    <2> QED
        BY <2>1, <2>2 DEF RegistrarRec, IsPitchType, PrimaryHasBaseline
<1>5. CASE CopyFile /\ registrar' # registrarIdle
    <2>1. /\ registrar' = [registrar EXCEPT !.left = Tail(registrar.left)]
          /\ registrar.pc = "assemble" /\ registrar.left # << >>
          /\ UNCHANGED <<family, registered>>
        BY <1>5 DEF CopyFile
    <2>2. Tail(registrar.left) \in Seq(Files)
        BY <2>1 DEF RegistrarRec
    <2> QED
        BY <2>1, <2>2 DEF RegistrarRec, IsPitchType, PrimaryHasBaseline
<1>6. CASE WriteSnapshotMetadata
    BY <1>6 DEF WriteSnapshotMetadata, RegistrarRec, IsPitchType, PrimaryHasBaseline
<1>7. CASE RunPitchGate /\ registrar' # registrarIdle
    <2>1. /\ registrar' = [registrar EXCEPT !.pc = "next", !.todo = Tail(registrar.todo),
                                            !.baseline = TRUE]
          /\ registrar.pc = "gate" /\ UNCHANGED <<family, registered>>
        BY <1>7 DEF RunPitchGate
    <2>2. Tail(registrar.todo) \in Todos
        BY <2>1, TodoTail DEF RegistrarRec
    <2> QED
        BY <2>1, <2>2 DEF RegistrarRec, IsPitchType, PrimaryHasBaseline
<1>8. ASSUME NEW models \in ModelOrders, NEW dry \in BOOLEAN, StartRegisterPitchType(models, dry)
      PROVE  RegistrarInv'
    <2>1. models \in Todos
        BY DEF ModelOrders, Todos
    <2>2. BaselineKnown(models, dry) \in BOOLEAN
          /\ (BaselineKnown(models, dry) /\ ~dry => "baseline" \in registered)
        BY DEF BaselineKnown
    <2>3. /\ registrar' = [registrarIdle EXCEPT !.pc = "next", !.todo = models, !.dry = dry,
                                                !.baseline = BaselineKnown(models, dry)]
          /\ IsPitchType /\ UNCHANGED <<family, registered>>
        BY <1>8 DEF StartRegisterPitchType
    <2> QED
        BY <2>1, <2>2, <2>3, IdleRegistrar DEF RegistrarRec, IsPitchType, PrimaryHasBaseline
<1>9. CASE OpenGate /\ registrar' # registrarIdle
    <2> DEFINE head == Head(registrar.todo)
    <2>1. /\ registrar' = [registrar EXCEPT !.pc = "hash", !.meta = meta[head],
                                            !.left = InPitchTypeGate]
          /\ registrar.todo # << >> /\ IsPitchType /\ UNCHANGED <<family, registered>>
          /\ head = "primary" => registrar.baseline
        BY <1>9 DEF OpenGate, GateAccepts
    <2>2. meta[head] \in MetaRec /\ InPitchTypeGate \in Seq(Files)
        BY <2>1, TodoTail DEF RegistrarRec, InPitchTypeGate, Files
    <2> QED
        BY <2>1, <2>2 DEF RegistrarRec, IsPitchType, PrimaryHasBaseline
<1>10. CASE HashFile /\ registrar' # registrarIdle
    <2>1. PICK left \in Seq(Files), pc \in {"hash", "post"} :
             registrar' = [registrar EXCEPT !.pc = pc, !.left = left]
        <3>1. CASE Len(registrar.left) > 1
            <4>1. Tail(registrar.left) \in Seq(Files)
                BY <3>1 DEF RegistrarRec
            <4>2. registrar' = [registrar EXCEPT !.pc = "hash", !.left = Tail(registrar.left)]
                BY <1>10, <3>1 DEF HashFile, RegistrarRec
            <4> QED
                BY <4>1, <4>2
        <3>2. CASE ~(Len(registrar.left) > 1)
            <4>1. registrar' = [registrar EXCEPT !.pc = "post", !.left = << >>]
                BY <1>10, <3>2 DEF HashFile
            <4>2. << >> \in Seq(Files)
                OBVIOUS
            <4> QED
                BY <4>1, <4>2
        <3> QED
            BY <3>1, <3>2
    <2>2. registrar.pc = "hash" /\ UNCHANGED <<family, registered>>
        BY <1>10 DEF HashFile
    <2> QED
        BY <2>1, <2>2 DEF RegistrarRec, IsPitchType, PrimaryHasBaseline
<1>11. CASE PostRegistration /\ registrar' # registrarIdle
    <2>1. /\ registrar' = [registrar EXCEPT !.pc = "next", !.todo = Tail(registrar.todo),
                                            !.baseline = TRUE]
          /\ registrar.pc = "post" /\ UNCHANGED family
        BY <1>11 DEF PostRegistration
    <2>2. Tail(registrar.todo) \in Todos /\ Head(registrar.todo) \in Heads
        BY <2>1, TodoTail DEF RegistrarRec
    <2>3. CASE registrar.dry
        BY <1>11, <2>1, <2>2, <2>3 DEF PostRegistration, RegistrarRec, IsPitchType, PrimaryHasBaseline
    <2>4. CASE ~registrar.dry
        <3>1. registered' = registered \union {Head(registrar.todo)}
            BY <1>11, <2>4 DEF PostRegistration
        <3>2. "baseline" \in registered'
            BY <2>1, <2>2, <2>4, <3>1 DEF Heads
        <3> QED
            BY <2>1, <2>2, <2>4, <3>2 DEF RegistrarRec, IsPitchType, PrimaryHasBaseline
    <2> QED
        BY <2>3, <2>4
<1>12. CASE PostRegistration /\ registrar' = registrarIdle
    <2>1. "primary" \in registered' => "baseline" \in registered'
        BY <1>12, IdleRegistrar DEF PostRegistration, PrimaryHasBaseline, RegistrarRec
    <2> QED
        BY <1>12, <2>1, IdleRegistrar DEF PostRegistration, IsPitchType, PrimaryHasBaseline
<1>13. \/ UNCHANGED <<family, registrar, registered>>
       \/ StartRegisterPitch \/ StartSnapshot \/ CopyFile \/ WriteSnapshotMetadata \/ RunPitchGate
       \/ \E models \in ModelOrders, dry \in BOOLEAN : StartRegisterPitchType(models, dry)
       \/ OpenGate \/ HashFile \/ PostRegistration \/ KillRegistration
    BY DEF Next, vars, registration, EditContract, SaveEncoding, PitchProduction,
           PitchTypeProduction, StartTraining, StartExport, TrainProduction, TrainAndPersist,
           TrainAndPersistLR, Fitted, PersistFile, GenerateCIArtifacts, KillTraining,
           ExportOnnx, ReadMetadata, RestampMetadata, KillExport
<1>14. StartSnapshot \/ CopyFile \/ RunPitchGate \/ OpenGate \/ HashFile \/ KillRegistration
          => UNCHANGED <<family, registered>>
    BY DEF StartSnapshot, CopyFile, RunPitchGate, OpenGate, HashFile, KillRegistration
<1>15. KillRegistration => registrar' = registrarIdle
    BY DEF KillRegistration
<1> QED
    BY <1>1, <1>2, <1>3, <1>4, <1>5, <1>6, <1>7, <1>8, <1>9, <1>10, <1>11, <1>12, <1>13,
       <1>14, <1>15
-----------------------------------------------------------------------------
(* The directories of the pitch-type family *)

\* The training of the model the metadata was stamped for.
Kept(m) == IF m.artifact = "onnx" THEN m.kept ELSE m.sha

\* Metadata of the model that lies in the directory promises the rest of it;
\* metadata of an older one promises nothing.
Fits(m, held) ==
    m.artifact # "none" =>
        /\ Kept(m) <= held.model
        /\ Kept(m) = held.model =>
              /\ held.calibrator = held.model /\ held.data = held.model
              /\ held.parkMap = held.model
              /\ m.artifact = "onnx" => held.onnx = held.model

DirInv ==
    /\ trainings \in Nat /\ contract \in Nat
    /\ dir \in [Heads -> [Files -> Nat]] /\ meta \in [Heads -> MetaRec]
    /\ \A h \in Heads : dir[h].model <= trainings /\ Fits(meta[h], dir[h])

\* What a training has still to write, with what it has written.
Unwritten(left, id, held) ==
    \/ left = PersistBundle /\ held.model < id
    \/ /\ held.model = id
       /\ \/ left = <<"calibrator", "contract", "parkMap", "data", "meta">>
          \/ /\ held.calibrator = id
             /\ \/ left = <<"contract", "parkMap", "data", "meta">>
                \/ left = <<"parkMap", "data", "meta">>
                \/ left = <<"data", "meta">> /\ held.parkMap = id
                \/ left = <<"meta">> /\ held.parkMap = id /\ held.data = id

TrainerRec == [pc : {"idle", "fit", "persist"}, head : Heads, id : Nat, columns : Nat,
               left : Seq(Files \union {"meta"})]

PersistInv ==
    /\ trainer \in TrainerRec
    /\ trainer.pc # "idle" =>
          trainer.id <= trainings /\ Unwritten(trainer.left, trainer.id, dir[trainer.head])

ExporterRec == [pc : {"idle", "convert", "restamp", "write"}, head : Heads, model : Nat,
                meta : MetaRec]

ExporterInv ==
    /\ exporter \in ExporterRec
    /\ exporter.pc # "idle" =>
          /\ exporter.model = dir[exporter.head].model
          /\ trainer.pc # "idle" => trainer.head # exporter.head
          /\ exporter.pc \in {"restamp", "write"} => dir[exporter.head].onnx = exporter.model
          /\ exporter.pc = "write" =>
                exporter.meta = meta[exporter.head] /\ exporter.meta.artifact # "none"

ArtifactInv == DirInv /\ PersistInv /\ ExporterInv

LEMMA FitsType ==
    ASSUME NEW held \in [Files -> Nat], NEW m \in MetaRec
    PROVE  /\ held.model \in Nat /\ held.calibrator \in Nat /\ held.data \in Nat
           /\ held.parkMap \in Nat /\ held.onnx \in Nat /\ Kept(m) \in Nat
    BY DEF Files, MetaRec, Kept

\* One file of a directory is written: a newer model, a file of the same
\* training as the model, or the contract.
WritesOne(old, new, file, v) ==
    /\ old \in [Files -> Nat] /\ new \in [Files -> Nat] /\ file \in Files /\ v \in Nat
    /\ new[file] = v
    /\ \A f \in Files : f # file => new[f] = old[f]
    /\ \/ file = "model" /\ old.model < v
       \/ file # "model" /\ v = old.model
       \/ file = "contract"

LEMMA WriteOne ==
    ASSUME NEW old, NEW new, NEW file, NEW v, WritesOne(old, new, file, v),
           NEW m \in MetaRec, Fits(m, old)
    PROVE  Fits(m, new)
<1>1. Kept(m) \in Nat /\ old \in [Files -> Nat] /\ new \in [Files -> Nat]
      /\ new[file] = v /\ \A f \in Files : f # file => new[f] = old[f]
    BY FitsType DEF WritesOne
<1>2. CASE file = "model" /\ old.model < v
    BY <1>1, <1>2, FitsType DEF Fits, Files
<1>3. CASE file # "model" /\ v = old.model
    BY <1>1, <1>3, FitsType DEF Fits, Files
<1>4. CASE file = "contract"
    BY <1>1, <1>4, FitsType DEF Fits, Files
<1> QED
    BY <1>2, <1>3, <1>4 DEF WritesOne


\* What any metadata promises of a directory, it promises after the step.
FitsLast == \A m \in MetaRec, h \in Heads : Fits(m, dir[h]) => Fits(m, dir[h]')

LEMMA TrainerWrites ==
    ASSUME ArtifactInv, trainer.pc = "persist",
           NEW file \in Files, NEW v \in Nat, NEW left \in Seq(Files \union {"meta"}),
           dir' = [dir EXCEPT ![trainer.head][file] = v],
           trainer' = [trainer EXCEPT !.left = left],
           \/ file = "model" /\ dir[trainer.head].model < v /\ v = trainer.id
           \/ file # "model" /\ v = dir[trainer.head].model
           \/ file = "contract",
           Unwritten(left, trainer.id, dir'[trainer.head]),
           UNCHANGED <<trainings, contract, meta, exporter>>
    PROVE  ArtifactInv' /\ FitsLast
<1>1. PICK head \in Heads : head = trainer.head
    BY DEF ArtifactInv, PersistInv, TrainerRec
<1>2. PICK after : after = dir'
    OBVIOUS
<1>3. /\ after \in [Heads -> [Files -> Nat]]
      /\ \A h \in Heads : h # head => after[h] = dir[h]
      /\ after[head][file] = v
      /\ \A f \in Files : f # file => after[head][f] = dir[head][f]
      /\ \A m \in MetaRec, h \in Heads : Fits(m, dir[h]) => Fits(m, after[h])
    <2>1. PICK dirs \in [Heads -> [Files -> Nat]] : dirs = dir
        BY DEF ArtifactInv, DirInv
    <2>3. after = [dirs EXCEPT ![head][file] = v]
        BY <1>1, <1>2, <2>1
    <2>2. \/ file = "model" /\ dirs[head].model < v
          \/ file # "model" /\ v = dirs[head].model
          \/ file = "contract"
        BY <1>1, <2>1
    <2>4. /\ after \in [Heads -> [Files -> Nat]]
          /\ \A h \in Heads : h # head => after[h] = dirs[h]
          /\ after[head][file] = v
          /\ \A f \in Files : f # file => after[head][f] = dirs[head][f]
        BY <2>3
    <2>5. WritesOne(dirs[head], after[head], file, v)
        BY <2>2, <2>4 DEF WritesOne
    <2>6. \A m \in MetaRec, h \in Heads : Fits(m, dirs[h]) => Fits(m, after[h])
        BY <2>4, <2>5, WriteOne
    <2> QED
        BY <2>1, <2>4, <2>6
<1>4. FitsLast
    BY <1>2, <1>3 DEF FitsLast
<1>5. trainer.id \in Nat /\ trainer.id <= trainings /\ "model" \in Files
    BY DEF ArtifactInv, PersistInv, TrainerRec, Files
<1>6. \A h \in Heads : after[h].model <= trainings
    <2>1. \A h \in Heads : dir[h].model <= trainings
        BY DEF ArtifactInv, DirInv
    <2>2. after[head].model <= trainings
        BY <1>1, <1>3, <1>5, <2>1
    <2> QED
        BY <1>3, <2>1, <2>2
<1>7. DirInv'
    BY <1>2, <1>3, <1>6 DEF ArtifactInv, DirInv
<1>8. PersistInv'
    <2>1. trainer' \in TrainerRec /\ trainer'.pc = "persist" /\ trainer'.left = left
          /\ trainer'.id = trainer.id /\ trainer'.head = trainer.head
        BY DEF ArtifactInv, PersistInv, TrainerRec
    <2>2. Unwritten(left, trainer'.id, dir'[trainer'.head])
        BY <2>1
    <2> QED
        BY <1>5, <2>1, <2>2 DEF PersistInv
<1>9. ExporterInv'
    <2>1. exporter.pc # "idle" => exporter.head \in Heads /\ exporter.head # head
        BY <1>1 DEF ArtifactInv, ExporterInv, ExporterRec
    <2>2. exporter.pc # "idle" => after[exporter.head] = dir[exporter.head]
        BY <1>3, <2>1
    <2>3. trainer'.head = head
        BY <1>1 DEF ArtifactInv, PersistInv, TrainerRec
    <2> QED
        BY <1>2, <2>1, <2>2, <2>3 DEF ArtifactInv, ExporterInv
<1> QED
    BY <1>4, <1>7, <1>8, <1>9 DEF ArtifactInv

LEMMA PersistStep ==
    ASSUME ArtifactInv, IsPitchType, PersistFile
    PROVE  ArtifactInv' /\ FitsLast
<1> DEFINE id == trainer.id
           held == dir[trainer.head]
           left == trainer.left
<1>1. /\ trainer.pc = "persist" /\ trainer.head \in Heads /\ id \in Nat /\ contract \in Nat
      /\ held \in [Files -> Nat] /\ Unwritten(left, id, held)
      /\ UNCHANGED <<trainings, contract, exporter>>
    BY DEF PersistFile, ArtifactInv, PersistInv, TrainerRec, DirInv
<1>2. ASSUME Head(left) # "meta"
      PROVE  /\ dir' = [dir EXCEPT ![trainer.head][Head(left)] = Written(Head(left), id, @)]
             /\ trainer' = [trainer EXCEPT !.left = Tail(left)] /\ meta' = meta
    BY <1>2 DEF PersistFile
<1>3. ASSUME NEW file \in {"model", "calibrator", "parkMap", "data"}
      PROVE  file \in Files /\ Written(file, id, held[file]) = id
    BY <1>3 DEF Written, Files
<1>4. CASE left = PersistBundle /\ held.model < id
    <2> DEFINE rest == <<"calibrator", "contract", "parkMap", "data", "meta">>
    <2>1. Head(left) = "model" /\ Tail(left) = rest /\ rest \in Seq(Files \union {"meta"})
        BY <1>4 DEF PersistBundle, Files
    <2>2. dir' = [dir EXCEPT ![trainer.head]["model"] = id]
          /\ trainer' = [trainer EXCEPT !.left = rest] /\ meta' = meta
        BY <1>1, <1>2, <1>3, <2>1 DEF DirInv, ArtifactInv
    <2>3. dir'[trainer.head].model = id
        BY <1>1, <1>3, <2>2 DEF DirInv, ArtifactInv
    <2>4. Unwritten(rest, id, dir'[trainer.head])
        BY <2>3 DEF Unwritten
    <2> QED
        BY <1>1, <1>3, <1>4, <2>1, <2>2, <2>4, TrainerWrites
<1>5. CASE held.model = id /\ left = <<"calibrator", "contract", "parkMap", "data", "meta">>
    <2> DEFINE rest == <<"contract", "parkMap", "data", "meta">>
    <2>1. Head(left) = "calibrator" /\ Tail(left) = rest /\ rest \in Seq(Files \union {"meta"})
        BY <1>5 DEF Files
    <2>2. dir' = [dir EXCEPT ![trainer.head]["calibrator"] = id]
          /\ trainer' = [trainer EXCEPT !.left = rest] /\ meta' = meta
        BY <1>1, <1>2, <1>3, <2>1 DEF DirInv, ArtifactInv
    <2>3. dir'[trainer.head].model = id /\ dir'[trainer.head].calibrator = id
        BY <1>1, <1>3, <1>5, <2>2 DEF DirInv, ArtifactInv
    <2>4. Unwritten(rest, id, dir'[trainer.head])
        BY <2>3 DEF Unwritten
    <2> QED
        BY <1>1, <1>3, <1>5, <2>1, <2>2, <2>4, TrainerWrites
<1>6. CASE /\ held.model = id /\ held.calibrator = id
           /\ left = <<"contract", "parkMap", "data", "meta">>
    <2> DEFINE rest == <<"parkMap", "data", "meta">>
    <2>1. Head(left) = "contract" /\ Tail(left) = rest /\ rest \in Seq(Files \union {"meta"})
          /\ "contract" \in Files /\ Written("contract", id, held["contract"]) = contract
        BY <1>6 DEF Files, Written
    <2>2. dir' = [dir EXCEPT ![trainer.head]["contract"] = contract]
          /\ trainer' = [trainer EXCEPT !.left = rest] /\ meta' = meta
        BY <1>1, <1>2, <2>1 DEF DirInv, ArtifactInv
    <2>3. dir'[trainer.head].model = id /\ dir'[trainer.head].calibrator = id
        BY <1>1, <1>3, <1>6, <2>1, <2>2 DEF DirInv, ArtifactInv
    <2>4. Unwritten(rest, id, dir'[trainer.head])
        BY <2>3 DEF Unwritten
    <2> QED
        BY <1>1, <1>6, <2>1, <2>2, <2>4, TrainerWrites
<1>7. CASE /\ held.model = id /\ held.calibrator = id
           /\ left = <<"parkMap", "data", "meta">>
    <2> DEFINE rest == <<"data", "meta">>
    <2>1. Head(left) = "parkMap" /\ Tail(left) = rest /\ rest \in Seq(Files \union {"meta"})
        BY <1>7 DEF Files
    <2>2. dir' = [dir EXCEPT ![trainer.head]["parkMap"] = id]
          /\ trainer' = [trainer EXCEPT !.left = rest] /\ meta' = meta
        BY <1>1, <1>2, <1>3, <2>1 DEF DirInv, ArtifactInv
    <2>3. dir'[trainer.head].model = id /\ dir'[trainer.head].calibrator = id
          /\ dir'[trainer.head].parkMap = id
        BY <1>1, <1>3, <1>7, <2>2 DEF DirInv, ArtifactInv
    <2>4. Unwritten(rest, id, dir'[trainer.head])
        BY <2>3 DEF Unwritten
    <2> QED
        BY <1>1, <1>3, <1>7, <2>1, <2>2, <2>4, TrainerWrites
<1>8. CASE /\ held.model = id /\ held.calibrator = id /\ held.parkMap = id
           /\ left = <<"data", "meta">>
    <2> DEFINE rest == <<"meta">>
    <2>1. Head(left) = "data" /\ Tail(left) = rest /\ rest \in Seq(Files \union {"meta"})
        BY <1>8 DEF Files
    <2>2. dir' = [dir EXCEPT ![trainer.head]["data"] = id]
          /\ trainer' = [trainer EXCEPT !.left = rest] /\ meta' = meta
        BY <1>1, <1>2, <1>3, <2>1 DEF DirInv, ArtifactInv
    <2>3. dir'[trainer.head].model = id /\ dir'[trainer.head].calibrator = id
          /\ dir'[trainer.head].parkMap = id /\ dir'[trainer.head].data = id
        BY <1>1, <1>3, <1>8, <2>2 DEF DirInv, ArtifactInv
    <2>4. Unwritten(rest, id, dir'[trainer.head])
        BY <2>3 DEF Unwritten
    <2> QED
        BY <1>1, <1>3, <1>8, <2>1, <2>2, <2>4, TrainerWrites
<1>9. CASE /\ held.model = id /\ held.calibrator = id /\ held.parkMap = id /\ held.data = id
           /\ left = <<"meta">>
    <2> DEFINE stamp == WriteMetadata(held)
    <2>1. Head(left) = "meta"
        BY <1>9
    <2>2. meta' = [meta EXCEPT ![trainer.head] = stamp] /\ trainer' = trainerIdle /\ dir' = dir
        BY <2>1 DEF PersistFile
    <2>3. stamp \in MetaRec /\ Fits(stamp, held)
        BY <1>1, <1>9, FitsType DEF WriteMetadata, MetaRec, Fits, Kept, noFile, Files
    <2>4. DirInv' /\ FitsLast
        BY <1>1, <2>2, <2>3 DEF ArtifactInv, DirInv, FitsLast
    <2>5. PersistInv'
        BY <2>2 DEF PersistInv, TrainerRec, trainerIdle, Heads
    <2>6. ExporterInv'
        BY <1>1, <2>2 DEF ArtifactInv, DirInv, ExporterInv, ExporterRec, trainerIdle
    <2> QED
        BY <2>4, <2>5, <2>6 DEF ArtifactInv
<1> QED
    BY <1>1, <1>4, <1>5, <1>6, <1>7, <1>8, <1>9 DEF Unwritten

LEMMA ArtifactStep ==
    ASSUME ArtifactInv, IsPitchType, [Next]_vars
    PROVE  ArtifactInv' /\ FitsLast
<1>1. CASE UNCHANGED <<contract, trainings, dir, meta, trainer, exporter>>
    BY <1>1 DEF ArtifactInv, DirInv, PersistInv, ExporterInv, FitsLast
<1>2. CASE EditContract
    BY <1>2 DEF EditContract, writers, ArtifactInv, DirInv, PersistInv, ExporterInv, FitsLast
<1>3. ASSUME NEW head \in Heads, StartTraining(head)
      PROVE  ArtifactInv' /\ FitsLast
    <2>6. PersistOrder(head) = PersistBundle
        BY DEF PersistOrder, IsPitchType
    <2>1. /\ trainings' = trainings + 1
          /\ trainer' = [pc |-> "fit", head |-> head, id |-> trainings + 1, columns |-> contract,
                         left |-> PersistBundle]
          /\ UNCHANGED <<contract, dir, meta, exporter>>
          /\ exporter.pc # "idle" => exporter.head # head
        BY <1>3, <2>6 DEF StartTraining, artifacts
    <2>2. PersistBundle \in Seq(Files \union {"meta"})
        BY DEF PersistBundle, Files
    <2>3. DirInv' /\ FitsLast
        <3>1. trainings \in Nat /\ trainings' \in Nat
            BY <2>1 DEF ArtifactInv, DirInv
        <3>2. ASSUME NEW h \in Heads
              PROVE  dir[h].model <= trainings'
            <4>1. dir[h] \in [Files -> Nat] /\ dir[h].model <= trainings
                BY DEF ArtifactInv, DirInv
            <4>2. dir[h].model \in Nat
                BY <4>1 DEF Files
            <4> QED
                BY <2>1, <3>1, <4>1, <4>2
        <3> QED
            BY <2>1, <3>1, <3>2 DEF ArtifactInv, DirInv, FitsLast
    <2>4. PersistInv'
        <3>1. dir[head] \in [Files -> Nat] /\ dir[head].model <= trainings
            BY DEF ArtifactInv, DirInv
        <3>2. dir[head].model \in Nat /\ trainings \in Nat /\ contract \in Nat
            BY <3>1 DEF Files, ArtifactInv, DirInv
        <3>3. trainer'.left = PersistBundle /\ trainer'.id = trainings + 1 /\ trainer'.head = head
              /\ trainer' \in TrainerRec
            BY <2>1, <2>2, <3>2 DEF TrainerRec
        <3>4. dir'[trainer'.head].model < trainings + 1
            BY <2>1, <3>1, <3>2, <3>3
        <3> QED
            BY <2>1, <3>2, <3>3, <3>4 DEF PersistInv, Unwritten
    <2>5. ExporterInv'
        BY <2>1 DEF ArtifactInv, ExporterInv
    <2> QED
        BY <2>3, <2>4, <2>5 DEF ArtifactInv
<1>4. CASE trainer.pc = "fit" /\ Fitted
    <2>1. /\ trainer' = [trainer EXCEPT !.pc = "persist"]
          /\ UNCHANGED <<contract, trainings, dir, meta, exporter>>
        BY <1>4 DEF Fitted
    <2> QED
        BY <1>4, <2>1 DEF ArtifactInv, DirInv, PersistInv, TrainerRec, ExporterInv, FitsLast
<1>5. CASE PersistFile
    BY <1>5, PersistStep
<1>6. CASE KillTraining
    <2>1. trainer' = trainerIdle /\ UNCHANGED <<contract, trainings, dir, meta, exporter>>
        BY <1>6 DEF KillTraining, artifacts
    <2> QED
        BY <2>1 DEF ArtifactInv, DirInv, PersistInv, TrainerRec, trainerIdle, ExporterInv,
                    FitsLast, Heads
<1>7. ASSUME NEW head \in Heads, StartExport(head)
      PROVE  ArtifactInv' /\ FitsLast
    <2>1. /\ exporter' = [pc |-> "convert", head |-> head, model |-> dir[head].model, meta |-> noMeta]
          /\ trainer.pc # "idle" => trainer.head # head
          /\ UNCHANGED <<contract, trainings, dir, meta, trainer>>
        BY <1>7 DEF StartExport, artifacts, exporterIdle
    <2>2. dir[head].model \in Nat
        BY DEF ArtifactInv, DirInv, Files
    <2> QED
        BY <2>1, <2>2, NoMetaType
        DEF ArtifactInv, DirInv, PersistInv, ExporterInv, ExporterRec, FitsLast
<1>8. CASE exporter' = exporterIdle /\ UNCHANGED <<contract, trainings, dir, meta, trainer>>
    BY <1>8, NoMetaType
    DEF ArtifactInv, DirInv, PersistInv, ExporterInv, ExporterRec, exporterIdle, FitsLast, Heads
<1>9. CASE ExportOnnx /\ exporter' # exporterIdle
    <2>1. PICK head \in Heads : head = exporter.head
        BY DEF ArtifactInv, ExporterInv, ExporterRec
    <2>2. PICK model \in Nat : model = exporter.model
        BY DEF ArtifactInv, ExporterInv, ExporterRec
    <2>3. /\ exporter.pc = "convert" /\ exporter' = [exporter EXCEPT !.pc = "restamp"]
          /\ dir' = [dir EXCEPT ![head]["onnx"] = model]
          /\ UNCHANGED <<contract, trainings, meta, trainer>>
        BY <1>9, <2>1, <2>2 DEF ExportOnnx
    <2>4. model = dir[head].model /\ (trainer.pc # "idle" => trainer.head # head)
        BY <2>1, <2>2, <2>3 DEF ArtifactInv, ExporterInv
    <2>5. PICK after : after = dir'
        OBVIOUS
    <2>6. /\ after \in [Heads -> [Files -> Nat]]
          /\ \A h \in Heads : h # head => after[h] = dir[h]
          /\ after[head]["onnx"] = model
          /\ \A f \in Files : f # "onnx" => after[head][f] = dir[head][f]
        BY <2>3, <2>5 DEF ArtifactInv, DirInv, Files
    <2>7. WritesOne(dir[head], after[head], "onnx", model)
        BY <2>4, <2>6 DEF WritesOne, ArtifactInv, DirInv, Files
    <2>8. FitsLast
        BY <2>5, <2>6, <2>7, WriteOne DEF FitsLast
    <2>9. \A h \in Heads : after[h].model = dir[h].model
        BY <2>6 DEF Files
    <2>10. DirInv'
        BY <2>3, <2>5, <2>6, <2>8, <2>9 DEF ArtifactInv, DirInv, FitsLast
    <2>11. PersistInv'
        <3>1. trainer.pc # "idle" => dir'[trainer.head] = dir[trainer.head]
            BY <2>4, <2>5, <2>6 DEF ArtifactInv, PersistInv, TrainerRec
        <3> QED
            BY <2>3, <3>1 DEF ArtifactInv, PersistInv
    <2>12. ExporterInv'
        <3>1. /\ exporter' \in ExporterRec /\ exporter'.pc = "restamp" /\ exporter'.head = head
              /\ exporter'.model = model
            BY <2>1, <2>2, <2>3 DEF ArtifactInv, ExporterInv, ExporterRec
        <3>2. dir'[head].model = model /\ dir'[head].onnx = model
            BY <2>4, <2>5, <2>6, <2>9
        <3>3. dir'[exporter'.head].model = model /\ dir'[exporter'.head].onnx = model
            BY <3>1, <3>2
        <3> QED
            BY <2>3, <2>4, <3>1, <3>3 DEF ExporterInv
    <2> QED
        BY <2>8, <2>10, <2>11, <2>12 DEF ArtifactInv
<1>10. CASE ReadMetadata /\ exporter' # exporterIdle
    <2>1. PICK stamp \in MetaRec : stamp = meta[exporter.head]
        BY DEF ArtifactInv, DirInv, ExporterInv, ExporterRec
    <2>2. /\ exporter.pc = "restamp" /\ stamp.artifact # "none"
          /\ exporter' = [exporter EXCEPT !.pc = "write", !.meta = stamp]
          /\ UNCHANGED <<contract, trainings, dir, meta, trainer>>
        BY <1>10, <2>1 DEF ReadMetadata, artifacts
    <2>3. /\ exporter' \in ExporterRec /\ exporter'.pc = "write" /\ exporter'.meta = stamp
          /\ exporter'.head = exporter.head /\ exporter'.model = exporter.model
        BY <2>2 DEF ArtifactInv, ExporterInv, ExporterRec
    <2> QED
        BY <2>1, <2>2, <2>3 DEF ArtifactInv, DirInv, PersistInv, ExporterInv, FitsLast
<1>11. CASE RestampMetadata
    <2>1. PICK head \in Heads, model \in Nat, old \in MetaRec :
             head = exporter.head /\ model = exporter.model /\ old = exporter.meta
        BY DEF ArtifactInv, ExporterInv, ExporterRec
    <2>2. PICK stamp : stamp = Restamped(old, model)
        OBVIOUS
    <2>3. /\ exporter.pc = "write" /\ meta' = [meta EXCEPT ![head] = stamp]
          /\ exporter' = exporterIdle /\ UNCHANGED <<contract, trainings, dir, trainer>>
        BY <1>11, <2>1, <2>2 DEF RestampMetadata
    <2>4. /\ old = meta[head] /\ old.artifact # "none"
          /\ dir[head].model = model /\ dir[head].onnx = model
        BY <2>1, <2>3 DEF ArtifactInv, ExporterInv
    <2>5. /\ stamp \in MetaRec /\ stamp.artifact = "onnx" /\ stamp.kept = Kept(old)
        BY <2>2 DEF Restamped, MetaRec, Kept
    <2>6. Fits(old, dir[head])
        BY <2>4 DEF ArtifactInv, DirInv
    <2>7. Fits(stamp, dir[head])
        BY <2>4, <2>5, <2>6 DEF Fits, Kept
    <2>8. DirInv' /\ FitsLast
        BY <2>3, <2>5, <2>7 DEF ArtifactInv, DirInv, FitsLast
    <2>9. PersistInv' /\ ExporterInv'
        BY <2>3, NoMetaType
        DEF ArtifactInv, PersistInv, ExporterInv, ExporterRec, exporterIdle, Heads
    <2> QED
        BY <2>8, <2>9 DEF ArtifactInv
<1>12. \/ UNCHANGED <<contract, trainings, dir, meta, trainer, exporter>>
       \/ EditContract
       \/ \E head \in Heads : StartTraining(head) \/ StartExport(head)
       \/ (trainer.pc = "fit" /\ Fitted) \/ PersistFile \/ KillTraining
       \/ ExportOnnx \/ ReadMetadata \/ RestampMetadata \/ KillExport
    BY DEF Next, vars, artifacts, writers, SaveEncoding, PitchProduction, PitchTypeProduction,
           TrainProduction, TrainAndPersist, TrainAndPersistLR, GenerateCIArtifacts,
           StartRegisterPitch, StartSnapshot, CopyFile, WriteSnapshotMetadata, RunPitchGate,
           StartRegisterPitchType, OpenGate, HashFile, PostRegistration, KillRegistration
<1>13. KillExport \/ ((ExportOnnx \/ ReadMetadata) /\ exporter' = exporterIdle)
          => exporter' = exporterIdle /\ UNCHANGED <<contract, trainings, dir, meta, trainer>>
    <2>1. CASE ExportOnnx /\ exporter' = exporterIdle
        <3>1. [exporter EXCEPT !.pc = "restamp"] # exporterIdle
            BY DEF ArtifactInv, ExporterInv, ExporterRec, exporterIdle
        <3>2. dir' = dir
            BY <2>1, <3>1 DEF ExportOnnx
        <3> QED
            BY <2>1, <3>2 DEF ExportOnnx
    <2> QED
        BY <2>1 DEF KillExport, ReadMetadata, artifacts
<1> QED
    BY <1>1, <1>2, <1>3, <1>4, <1>5, <1>6, <1>7, <1>8, <1>9, <1>10, <1>11, <1>12, <1>13
-----------------------------------------------------------------------------
(* The check *)

\* A check in progress holds metadata that fits the directory, whatever was
\* written since it was read, and still has the model to hash.
CheckInv ==
    registrar.pc = "hash" =>
        /\ registrar.meta.artifact = "onnx"
        /\ Fits(registrar.meta, dir[Head(registrar.todo)])
        /\ registrar.left \in {InPitchTypeGate, <<"calibrator", "data", "model">>,
                               <<"data", "model">>, <<"model">>}

BundlesInv == RegistrarInv /\ (IsPitchType => ArtifactInv /\ CheckInv) /\ GatedIsOneTraining

LEMMA CheckStep ==
    ASSUME BundlesInv, IsPitchType, ArtifactInv', FitsLast, [Next]_vars
    PROVE  CheckInv'
<1>1. CASE registrar'.pc = "hash" /\ registrar' = registrar
    <2>1. registrar.meta \in MetaRec /\ Head(registrar.todo) \in Heads
        BY <1>1, TodoTail DEF BundlesInv, RegistrarInv, RegistrarRec
    <2>2. PICK m \in MetaRec, h \in Heads : m = registrar.meta /\ h = Head(registrar.todo)
        BY <2>1
    <2>3. Fits(m, dir[h])'
        BY <1>1, <2>2 DEF BundlesInv, CheckInv, FitsLast
    <2> QED
        BY <1>1, <2>2, <2>3 DEF BundlesInv, CheckInv
<1>2. CASE OpenGate /\ registrar'.pc = "hash"
    <2>1. registrar' # registrarIdle
        BY <1>2 DEF registrarIdle
    <2>2. PICK h : h = Head(registrar.todo)
        OBVIOUS
    <2>3. /\ registrar' = [registrar EXCEPT !.pc = "hash", !.meta = meta[h], !.left = InPitchTypeGate]
          /\ registrar.todo # << >> /\ meta[h].artifact = "onnx" /\ dir' = dir
        BY <1>2, <2>1, <2>2 DEF OpenGate, GateAccepts, artifacts
    <2>4. h \in Heads /\ registrar \in RegistrarRec
        BY <2>2, <2>3, TodoTail DEF BundlesInv, RegistrarInv, RegistrarRec
    <2>5. Fits(meta[h], dir[h])
        BY <2>4 DEF BundlesInv, ArtifactInv, DirInv
    <2>6. /\ registrar'.meta = meta[h] /\ registrar'.left = InPitchTypeGate
          /\ registrar'.todo = registrar.todo
        BY <2>3, <2>4 DEF RegistrarRec
    <2> QED
        BY <2>2, <2>3, <2>5, <2>6 DEF CheckInv
<1>3. CASE HashFile /\ registrar'.pc = "hash"
    <2>1. /\ registrar' = [registrar EXCEPT !.left = Tail(registrar.left)]
          /\ Len(registrar.left) > 1 /\ registrar.pc = "hash" /\ dir' = dir
        <3>1. registrar' # registrarIdle /\ registrar.pc = "hash" /\ dir' = dir
            BY <1>3, IdleRegistrar DEF HashFile, artifacts
        <3>2. Len(registrar.left) > 1
            <4>1. registrar' # [registrar EXCEPT !.pc = "post", !.left = << >>]
                BY <1>3 DEF BundlesInv, RegistrarInv, RegistrarRec
            <4> QED
                BY <1>3, <3>1, <4>1 DEF HashFile
        <3> QED
            BY <1>3, <3>1, <3>2 DEF HashFile
    <2>2. Tail(registrar.left) \in {<<"calibrator", "data", "model">>, <<"data", "model">>, <<"model">>}
        <3>1. CASE registrar.left = InPitchTypeGate
            BY <3>1 DEF InPitchTypeGate
        <3>2. CASE registrar.left = <<"calibrator", "data", "model">>
            BY <3>2
        <3>3. CASE registrar.left = <<"data", "model">>
            BY <3>3
        <3>4. registrar.left # <<"model">>
            <4> SUFFICES ASSUME registrar.left = <<"model">> PROVE FALSE
                OBVIOUS
            <4>1. Len(registrar.left) = 1
                OBVIOUS
            <4> QED
                BY <2>1, <4>1
        <3> QED
            BY <2>1, <3>1, <3>2, <3>3, <3>4 DEF BundlesInv, CheckInv
    <2>3. /\ registrar'.meta = registrar.meta /\ registrar'.left = Tail(registrar.left)
          /\ registrar'.todo = registrar.todo
        BY <2>1 DEF BundlesInv, RegistrarInv, RegistrarRec
    <2> QED
        BY <2>1, <2>2, <2>3 DEF BundlesInv, CheckInv
<1>4. \/ registrar' = registrar \/ OpenGate \/ HashFile \/ registrar'.pc # "hash"
    <2>1. registrar \in RegistrarRec /\ registrarIdle.pc = "idle"
        BY DEF BundlesInv, RegistrarInv, registrarIdle
    <2>2. StartRegisterPitch \/ StartSnapshot \/ CopyFile \/ WriteSnapshotMetadata \/ RunPitchGate
             => FALSE
        BY DEF BundlesInv, RegistrarInv, StartRegisterPitch, StartSnapshot, CopyFile,
               WriteSnapshotMetadata, RunPitchGate
    <2>3. ASSUME NEW models \in ModelOrders, NEW dry \in BOOLEAN, StartRegisterPitchType(models, dry)
          PROVE  registrar'.pc # "hash"
        BY <2>3, IdleRegistrar DEF StartRegisterPitchType, RegistrarRec
    <2>4. PostRegistration \/ KillRegistration => registrar'.pc # "hash"
        BY <2>1 DEF PostRegistration, KillRegistration, RegistrarRec
    <2> QED
        BY <2>2, <2>3, <2>4
        DEF Next, vars, registration, EditContract, SaveEncoding, PitchProduction,
            PitchTypeProduction, StartTraining, StartExport, TrainProduction, TrainAndPersist,
            TrainAndPersistLR, Fitted, PersistFile, GenerateCIArtifacts, KillTraining,
            ExportOnnx, ReadMetadata, RestampMetadata, KillExport
<1> QED
    BY <1>1, <1>2, <1>3, <1>4 DEF CheckInv

LEMMA GatedStep ==
    ASSUME BundlesInv, [Next]_vars
    PROVE  GatedIsOneTraining'
<1>1. CASE HashFile /\ gated' # gated
    <2>1. IsPitchType /\ registrar.pc = "hash" /\ registrar.meta \in MetaRec
        BY <1>1 DEF HashFile, BundlesInv, RegistrarInv, RegistrarRec
    <2>2. PICK head, m : head = Head(registrar.todo) /\ m = registrar.meta
        OBVIOUS
    <2>3. head \in Heads
        BY <2>1, <2>2, TodoTail DEF BundlesInv, RegistrarInv, RegistrarRec
    <2>4. PICK held \in [Files -> Nat] : held = dir[head]
        BY <2>1, <2>3 DEF BundlesInv, ArtifactInv, DirInv
    <2>5. /\ gated' = [head |-> head, files |-> held]
          /\ ~(Len(registrar.left) > 1) /\ AssertSha256(head, Head(registrar.left))
        BY <1>1, <2>2, <2>4 DEF HashFile
    <2>6. registrar.left = <<"model">>
        <3>1. Len(InPitchTypeGate) > 1
            BY DEF InPitchTypeGate
        <3>2. Len(<<"calibrator", "data", "model">>) > 1 /\ Len(<<"data", "model">>) > 1
            OBVIOUS
        <3> QED
            BY <2>1, <2>5, <3>1, <3>2 DEF BundlesInv, CheckInv
    <2>7. held.model = m.kept
        <3>1. Head(registrar.left) = "model"
            BY <2>6
        <3> QED
            BY <2>2, <2>4, <2>5, <3>1 DEF AssertSha256, Declared
    <2>8. m.artifact = "onnx" /\ Fits(m, held)
        BY <2>1, <2>2, <2>4 DEF BundlesInv, CheckInv
    <2>9. \A f \in {"onnx", "calibrator", "data", "parkMap"} : held[f] = held.model
        BY <2>7, <2>8 DEF Fits, Kept
    <2>10. gated'.files = held
        BY <2>5
    <2> QED
        BY <2>9, <2>10 DEF GatedIsOneTraining
<1>2. CASE RunPitchGate
    <2>1. ~IsPitchType /\ family' = family
        BY <1>2 DEF RunPitchGate, BundlesInv, RegistrarInv
    <2> QED
        BY <2>1 DEF GatedIsOneTraining, IsPitchType
<1>3. CASE UNCHANGED <<family, gated>>
    BY <1>3 DEF BundlesInv, GatedIsOneTraining, IsPitchType
<1>4. HashFile \/ RunPitchGate \/ UNCHANGED <<family, gated>>
    BY DEF Next, vars, registration, EditContract, SaveEncoding, PitchProduction,
           PitchTypeProduction, StartTraining, StartExport, TrainProduction, TrainAndPersist,
           TrainAndPersistLR, Fitted, PersistFile, GenerateCIArtifacts, KillTraining,
           ExportOnnx, ReadMetadata, RestampMetadata, KillExport, StartRegisterPitch,
           StartSnapshot, CopyFile, WriteSnapshotMetadata, StartRegisterPitchType, OpenGate,
           PostRegistration, KillRegistration
<1>5. HashFile => family' = family
    BY DEF HashFile
<1> QED
    BY <1>1, <1>2, <1>3, <1>4, <1>5

LEMMA BundlesInit == Init => BundlesInv
<1> SUFFICES ASSUME Init PROVE BundlesInv
    OBVIOUS
<1>1. RegistrarInv
    BY IdleRegistrar DEF Init, RegistrarInv, PrimaryHasBaseline
<1>2. DirInv
    BY NoMetaType DEF Init, DirInv, noFiles, noFile, Files, Fits
<1>3. PersistInv /\ ExporterInv
    BY NoMetaType DEF Init, PersistInv, TrainerRec, trainerIdle, ExporterInv, ExporterRec,
                      exporterIdle, Heads
<1>4. CheckInv /\ GatedIsOneTraining
    BY IdleRegistrar DEF Init, CheckInv, GatedIsOneTraining, nothingGated
<1> QED
    BY <1>1, <1>2, <1>3, <1>4 DEF BundlesInv, ArtifactInv

LEMMA BundlesStep == BundlesInv /\ [Next]_vars => BundlesInv'
<1> SUFFICES ASSUME BundlesInv, [Next]_vars PROVE BundlesInv'
    OBVIOUS
<1>1. RegistrarInv'
    BY RegistrarStep DEF BundlesInv, ArtifactInv, DirInv
<1>2. IsPitchType' = IsPitchType
    BY DEF IsPitchType, Next, vars, registration, EditContract, SaveEncoding, PitchProduction,
           PitchTypeProduction, StartTraining, StartExport, TrainProduction, TrainAndPersist,
           TrainAndPersistLR, Fitted, PersistFile, GenerateCIArtifacts, KillTraining,
           ExportOnnx, ReadMetadata, RestampMetadata, KillExport, StartRegisterPitch,
           StartSnapshot, CopyFile, WriteSnapshotMetadata, RunPitchGate, StartRegisterPitchType,
           OpenGate, HashFile, PostRegistration, KillRegistration
<1>3. IsPitchType => ArtifactInv' /\ FitsLast
    BY ArtifactStep DEF BundlesInv
<1>4. IsPitchType => CheckInv'
    BY <1>3, CheckStep
<1> QED
    BY <1>1, <1>2, <1>3, <1>4, GatedStep DEF BundlesInv

LEMMA BundlesInvariant == BundlesSpec => []BundlesInv
<1> QED
    BY BundlesInit, BundlesStep, PTL DEF BundlesSpec

-----------------------------------------------------------------------------
(* Theorems *)

\* Whatever a check of a pitch-type directory passes is of one training: graph,
\* model, calibrator, held-out rows and park mapping (register_gate.run_gate).
THEOREM GatedBundlesAreWhole == BundlesSpec => []GatedIsOneTraining
<1>1. BundlesInv => GatedIsOneTraining
    BY DEF BundlesInv
<1> QED
    BY <1>1, BundlesInvariant, PTL

\* No primary pitch-type model is registered without its baseline
\* (register_pitch_type.main).
THEOREM PrimaryFollowsBaseline == BundlesSpec => []PrimaryHasBaseline
<1>1. BundlesInv => PrimaryHasBaseline
    BY DEF BundlesInv, RegistrarInv
<1> QED
    BY <1>1, BundlesInvariant, PTL

(***************************************************************************)
(* The experiments on pitch sequences.  First, finite sets of numbers: the *)
(* ranks in one leave no number out, so that it can be put in order, and   *)
(* there is one way to.                                                    *)
(***************************************************************************)
Rank(S, x) == Cardinality({y \in S : y < x})

LEMMA LeastPlace ==
    ASSUME NEW S \in SUBSET Nat, S # {} PROVE \E x \in S : \A y \in S : x <= y
<1>1. PICK x \in S : \A y \in S : ~(<<y, x>> \in OpToRel(<, Nat))
    BY NatLessThanWellFounded, WFMin
<1>2. \A y \in S : ~(y < x)
    BY <1>1 DEF OpToRel
<1> QED
    BY <1>2

Bounded(S) == /\ S \in SUBSET Nat /\ IsFiniteSet(S) /\ Cardinality(S) \in Nat
              /\ \E n \in Nat : \A x \in S : x <= n

LEMMA BoundedByRange ==
    ASSUME NEW n \in Nat, NEW S \in SUBSET (0 .. n) PROVE Bounded(S)
<1>1. IsFiniteSet(0 .. n)
    BY FS_Interval
<1>2. IsFiniteSet(S)
    BY <1>1, FS_Subset
<1>3. Cardinality(S) \in Nat
    BY <1>2, FS_CardinalityType
<1>4. \A x \in S : x \in Nat /\ x <= n
    OBVIOUS
<1> QED
    BY <1>2, <1>3, <1>4 DEF Bounded

LEMMA BoundedPart ==
    ASSUME NEW S, Bounded(S), NEW T \in SUBSET S
    PROVE  /\ Bounded(T) /\ Cardinality(T) <= Cardinality(S)
           /\ Cardinality(T) = Cardinality(S) => T = S
<1>1. IsFiniteSet(T) /\ Cardinality(T) <= Cardinality(S) /\ (Cardinality(S) = Cardinality(T) => S = T)
    BY FS_Subset DEF Bounded
<1>2. Cardinality(T) \in Nat
    BY <1>1, FS_CardinalityType
<1> QED
    BY <1>1, <1>2 DEF Bounded

LEMMA BoundedNext ==
    ASSUME NEW S, Bounded(S), NEW x, x \notin S
    PROVE  Cardinality(S \union {x}) = Cardinality(S) + 1
BY FS_AddElement DEF Bounded

LEMMA LastPlace ==
    ASSUME NEW S, Bounded(S), S # {} PROVE \E x \in S : \A y \in S : y <= x
<1>1. PICK n \in Nat : \A x \in S : x <= n
    BY DEF Bounded
<1> DEFINE T == {d \in Nat : n - d \in S}
<1>2. ASSUME NEW x \in S PROVE x \in Int /\ n - x \in T
    <2>1. x \in Int /\ x <= n
        BY <1>1 DEF Bounded
    <2>2. n - (n - x) = x /\ n - x \in Nat
        BY <2>1
    <2> QED
        BY <2>1, <2>2
<1>3. T \in SUBSET Nat /\ T # {}
    BY <1>2
<1>4. PICK d \in T : \A e \in T : d <= e
    BY <1>3, LeastPlace
<1>5. d \in Int /\ n - d \in S
    OBVIOUS
<1>6. ASSUME NEW y \in S PROVE y <= n - d
    <2>1. d <= n - y /\ y \in Int
        BY <1>2, <1>4
    <2> HIDE DEF T
    <2> QED
        BY <1>5, <2>1
<1> QED
    BY <1>5, <1>6

\* A member of a set that is below another has the lower rank.
LEMMA RankBelow ==
    ASSUME NEW S, Bounded(S), NEW x \in S
    PROVE  /\ Rank(S, x) \in Nat /\ Rank(S, x) < Cardinality(S) /\ x \in Nat
           /\ \A y \in S : y < x <=> Rank(S, y) < Rank(S, x)
<1> DEFINE below(y) == {z \in S : z < y}
<1>1. \A y \in S : y \in Int
    BY DEF Bounded
<1>2. ASSUME NEW y \in S
      PROVE  /\ Rank(S, y) \in Nat /\ Cardinality(below(y) \union {y}) = Rank(S, y) + 1
             /\ below(y) \union {y} \in SUBSET S
    <2>1. below(y) \in SUBSET S /\ y \notin below(y)
        BY <1>1
    <2>2. Bounded(below(y))
        BY <2>1, BoundedPart
    <2>3. Cardinality(below(y) \union {y}) = Cardinality(below(y)) + 1
        BY <2>1, <2>2, BoundedNext
    <2> QED
        BY <2>1, <2>2, <2>3 DEF Rank, Bounded
<1>3. Rank(S, x) < Cardinality(S)
    <2>1. Rank(S, x) + 1 <= Cardinality(S)
        BY <1>2, BoundedPart
    <2>2. Rank(S, x) \in Nat /\ Cardinality(S) \in Nat
        BY <1>2 DEF Bounded
    <2> QED
        BY <2>1, <2>2
<1>4. ASSUME NEW y \in S, NEW z \in S, y < z PROVE Rank(S, y) < Rank(S, z)
    <2>1. below(y) \union {y} \in SUBSET below(z) /\ below(z) \in SUBSET S
        BY <1>1, <1>4
    <2>2. Bounded(below(z))
        BY <2>1, BoundedPart
    <2>3. Cardinality(below(y) \union {y}) <= Cardinality(below(z))
        BY <2>1, <2>2, BoundedPart
    <2>4. Rank(S, y) + 1 <= Rank(S, z)
        BY <1>2, <2>3 DEF Rank
    <2>5. Rank(S, y) \in Nat /\ Rank(S, z) \in Nat
        BY <1>2
    <2> QED
        BY <2>4, <2>5
<1>5. ASSUME NEW y \in S, Rank(S, y) < Rank(S, x) PROVE y < x
    <2>1. Rank(S, y) \in Nat /\ Rank(S, x) \in Nat
        BY <1>2
    <2>2. ~(x < y) /\ x # y
        BY <1>4, <1>5, <2>1
    <2> QED
        BY <1>1, <2>2
<1>6. x \in Nat
    BY DEF Bounded
<1> QED
    BY <1>2, <1>3, <1>4, <1>5, <1>6

LEMMA RankTaken ==
    ASSUME NEW S, Bounded(S), NEW k \in Nat, k < Cardinality(S)
    PROVE  \E x \in S : Rank(S, x) = k
<1>1. ASSUME NEW T \in SUBSET S, NEW d \in T, \A e \in T : e <= d, \A e \in S : e < d => e \in T
      PROVE  Cardinality(T) = Rank(S, d) + 1
    <2>1. \A e \in S : e \in Int
        BY DEF Bounded
    <2>2. T = {e \in S : e < d} \union {d} /\ d \notin {e \in S : e < d}
        BY <1>1, <2>1
    <2>3. Bounded({e \in S : e < d})
        BY BoundedPart
    <2> QED
        BY <2>2, <2>3, BoundedNext DEF Rank
<1> DEFINE W == {x \in S : k <= Rank(S, x)}
<1>2. W # {}
    <2>1. S # {}
        BY FS_EmptySet
    <2>2. PICK d \in S : \A e \in S : e <= d
        BY <2>1, LastPlace
    <2>3. Cardinality(S) = Rank(S, d) + 1
        BY <1>1, <2>2
    <2>4. Rank(S, d) \in Nat
        BY RankBelow
    <2>5. k <= Rank(S, d)
        BY <2>3, <2>4
    <2> QED
        BY <2>5
<1>3. PICK c \in W : \A d \in W : c <= d
    <2>1. W \in SUBSET Nat
        BY DEF Bounded
    <2> QED
        BY <1>2, <2>1, LeastPlace
<1>4. c \in S /\ k <= Rank(S, c) /\ Rank(S, c) \in Nat /\ c \in Nat
    BY RankBelow
<1>5. SUFFICES ASSUME k < Rank(S, c) PROVE FALSE
    BY <1>4
<1> DEFINE D == {d \in S : d < c}
<1>6. D \in SUBSET S /\ D # {}
    BY <1>5, FS_EmptySet DEF Rank
<1>7. Bounded(D)
    BY <1>6, BoundedPart
<1>8. PICK d \in D : \A e \in D : e <= d
    BY <1>6, <1>7, LastPlace
<1>9. d \in S /\ d < c /\ Rank(S, d) \in Nat /\ d \in Nat
    BY RankBelow
<1>10. Cardinality(D) = Rank(S, d) + 1
    <2>1. \A e \in S : e < d => e \in D
        BY <1>4, <1>9 DEF Bounded
    <2> QED
        BY <1>1, <1>6, <1>8, <2>1
<1>11. k <= Rank(S, d)
    BY <1>5, <1>9, <1>10 DEF Rank
<1>12. d \in W
    BY <1>9, <1>11
<1> QED
    BY <1>3, <1>4, <1>9, <1>12

(***************************************************************************)
(* Tables: sequences of pitches in the order of the query.                 *)
(***************************************************************************)
Table(s) ==
    /\ s \in Seq(Pitches)
    /\ \A i, j \in 1 .. Len(s) : i < j => s[i] < s[j]

LEMMA TableFacts ==
    ASSUME NEW s, Table(s)
    PROVE  /\ Len(s) \in Nat /\ DOMAIN s = 1 .. Len(s) /\ s \in [1 .. Len(s) -> Pitches]
           /\ Range(s) = {s[i] : i \in 1 .. Len(s)} /\ Range(s) \in SUBSET Pitches
           /\ \A i \in 1 .. Len(s) : s[i] \in Pitches /\ s[i] \in Range(s)
           /\ \A i, j \in 1 .. Len(s) : (i < j <=> s[i] < s[j]) /\ (i = j <=> s[i] = s[j])
<1>1. Len(s) \in Nat /\ DOMAIN s = 1 .. Len(s) /\ s \in [1 .. Len(s) -> Pitches]
    BY DEF Table
<1>2. Range(s) = {s[i] : i \in 1 .. Len(s)}
    BY <1>1 DEF Range
<1>3. \A i \in 1 .. Len(s) : s[i] \in Pitches
    BY <1>1
<1>4. \A i \in Pitches : i \in Int
    BY SequencesAssumption DEF SequencesAssumption, Pitches
<1>5. ASSUME NEW i \in 1 .. Len(s), NEW j \in 1 .. Len(s)
      PROVE  (i < j <=> s[i] < s[j]) /\ (i = j <=> s[i] = s[j])
    <2>1. s[i] \in Int /\ s[j] \in Int /\ i \in Int /\ j \in Int
        BY <1>1, <1>3, <1>4
    <2>2. (i < j => s[i] < s[j]) /\ (j < i => s[j] < s[i])
        BY DEF Table
    <2> QED
        BY <2>1, <2>2
<1> QED
    BY <1>1, <1>2, <1>3, <1>5

LEMMA PitchFacts ==
    /\ \A S \in SUBSET Pitches : Bounded(S)
    /\ \A i \in Pitches : i \in Nat /\ SeasonOf[i] \in Nat
    /\ \A i, j \in Pitches : SeasonOf[i] < SeasonOf[j] => i < j
<1>1. PICK n \in Nat : Pitches = 1 .. n /\ SeasonOf \in [1 .. n -> Nat]
    BY SequencesAssumption DEF SequencesAssumption, Pitches
<1>2. ASSUME NEW S \in SUBSET Pitches PROVE Bounded(S)
    <2>1. S \in SUBSET (0 .. n)
        BY <1>1
    <2> QED
        BY <2>1, BoundedByRange
<1>3. ASSUME NEW i \in Pitches, NEW j \in Pitches, SeasonOf[i] < SeasonOf[j] PROVE i < j
    <2>1. j <= i => SeasonOf[j] <= SeasonOf[i]
        <3>1. j < i => SeasonOf[j] <= SeasonOf[i]
            BY SequencesAssumption DEF SequencesAssumption
        <3> QED
            BY <1>1, <3>1
    <2>2. i \in Int /\ j \in Int /\ SeasonOf[i] \in Int /\ SeasonOf[j] \in Int
        BY <1>1
    <2> QED
        BY <1>3, <2>1, <2>2
<1> QED
    BY <1>1, <1>2, <1>3

LEMMA PlacesBounded ==
    ASSUME NEW n \in Nat, NEW S \in SUBSET (1 .. n) PROVE Bounded(S)
<1>1. S \in SUBSET (0 .. n)
    OBVIOUS
<1> QED
    BY <1>1, BoundedByRange

LEMMA ArrangedFacts ==
    ASSUME NEW S, Bounded(S)
    PROVE  /\ Arranged(S) \in [1 .. Cardinality(S) -> S] /\ Cardinality(S) \in Nat
           /\ Arranged(S) \in Seq(S) /\ Len(Arranged(S)) = Cardinality(S)
           /\ \A k, l \in 1 .. Cardinality(S) : k < l => Arranged(S)[k] < Arranged(S)[l]
           /\ \A x \in S : \E k \in 1 .. Cardinality(S) : Arranged(S)[k] = x
<1> DEFINE c == Cardinality(S)
           a == Arranged(S)
<1>1. c \in Nat /\ \A x \in S : x \in Int /\ Rank(S, x) \in Nat /\ Rank(S, x) < c
    <2>1. c \in Nat /\ \A x \in S : x \in Int
        BY DEF Bounded
    <2>2. \A x \in S : Rank(S, x) \in Nat /\ Rank(S, x) < c
        BY RankBelow
    <2> QED
        BY <2>1, <2>2
<1>2. a = [k \in 1 .. c |-> CHOOSE x \in S : Rank(S, x) = k - 1]
    BY DEF Arranged, Rank
<1> HIDE DEF a, c
<1>3. ASSUME NEW k \in 1 .. c PROVE a[k] \in S /\ Rank(S, a[k]) = k - 1
    <2>1. k - 1 \in Nat /\ k - 1 < c
        BY <1>1
    <2>2. \E x \in S : Rank(S, x) = k - 1
        BY <2>1, RankTaken DEF c
    <2> QED
        BY <1>2, <2>2
<1>4. a \in [1 .. c -> S]
    BY <1>2, <1>3
<1>5. a \in Seq(S) /\ Len(a) = c
    BY <1>1, <1>4
<1>6. ASSUME NEW k \in 1 .. c, NEW l \in 1 .. c, k < l PROVE a[k] < a[l]
    <2>1. Rank(S, a[k]) < Rank(S, a[l])
        BY <1>1, <1>3, <1>6
    <2> QED
        BY <1>3, <2>1, RankBelow
<1>7. ASSUME NEW x \in S PROVE \E k \in 1 .. c : a[k] = x
    <2>1. PICK k \in 1 .. c : Rank(S, x) = k - 1
        <3>1. Rank(S, x) + 1 \in 1 .. c /\ (Rank(S, x) + 1) - 1 = Rank(S, x)
            BY <1>1
        <3> QED
            BY <3>1
    <2>2. Rank(S, a[k]) = Rank(S, x) /\ a[k] \in S
        BY <1>3, <2>1
    <2>3. ~(a[k] < x) /\ ~(x < a[k])
        BY <2>2, RankBelow, <1>1
    <2>4. a[k] = x
        BY <1>1, <2>2, <2>3
    <2> QED
        BY <2>4
<1> QED
    BY <1>1, <1>4, <1>5, <1>6, <1>7 DEF a, c

LEMMA RowsInFacts ==
    ASSUME NEW s, Table(s), NEW P
    PROVE  /\ Table(RowsIn(s, P))
           /\ Range(RowsIn(s, P)) = {i \in Range(s) : i \in P}
<1> DEFINE n == Len(s)
           S == {p \in 1 .. n : s[p] \in P}
           c == Cardinality(S)
           a == Arranged(S)
           w == RowsIn(s, P)
<1>1. n \in Nat /\ DOMAIN s = 1 .. n /\ Range(s) = {s[p] : p \in 1 .. n}
      /\ \A p \in 1 .. n : s[p] \in Pitches
    BY TableFacts
<1>2. Bounded(S)
    <2>1. S \in SUBSET (1 .. n)
        OBVIOUS
    <2> HIDE DEF S, n
    <2> QED
        BY <1>1, <2>1, PlacesBounded
<1>3. /\ a \in [1 .. c -> S] /\ c \in Nat
      /\ \A k, l \in 1 .. c : k < l => a[k] < a[l]
      /\ \A p \in S : \E k \in 1 .. c : a[k] = p
    BY <1>2, ArrangedFacts
<1>4. w = [k \in 1 .. c |-> s[a[k]]]
    BY <1>1, <1>3 DEF RowsIn
<1>5. \A p \in S : p \in 1 .. n /\ s[p] \in P
    OBVIOUS
<1>6. \A p \in 1 .. n : s[p] \in P => p \in S
    OBVIOUS
<1>7. \A p, q \in 1 .. n : p < q => s[p] < s[q]
    BY DEF Table
<1> HIDE DEF S, c, a, n, w
<1>8. \A k \in 1 .. c : a[k] \in 1 .. n /\ w[k] = s[a[k]] /\ w[k] \in Pitches /\ w[k] \in P
    BY <1>1, <1>3, <1>4, <1>5
<1>9. w \in Seq(Pitches) /\ Len(w) = c /\ DOMAIN w = 1 .. c
    BY <1>3, <1>4, <1>8
<1>10. Table(w)
    <2>1. ASSUME NEW k \in 1 .. c, NEW l \in 1 .. c, k < l PROVE w[k] < w[l]
        <3>1. a[k] < a[l] /\ a[k] \in 1 .. n /\ a[l] \in 1 .. n
            BY <1>3, <1>8, <2>1
        <3>2. s[a[k]] < s[a[l]]
            BY <1>7, <3>1
        <3> QED
            BY <1>8, <3>2
    <2> QED
        BY <1>9, <2>1 DEF Table
<1>11. Range(w) = {w[k] : k \in 1 .. c}
    BY <1>9 DEF Range
<1>12. ASSUME NEW i \in Range(w) PROVE i \in Range(s) /\ i \in P
    BY <1>1, <1>8, <1>11
<1>13. ASSUME NEW i \in Range(s), i \in P PROVE i \in Range(w)
    <2>1. PICK p \in 1 .. n : s[p] = i
        BY <1>1
    <2>2. PICK k \in 1 .. c : a[k] = p
        BY <1>3, <1>6, <1>13, <2>1
    <2>3. w[k] = i
        BY <1>8, <2>1, <2>2
    <2> QED
        BY <1>11, <2>3
<1> QED
    BY <1>10, <1>12, <1>13 DEF w

LEMMA ImageSize ==
    ASSUME NEW S, IsFiniteSet(S), NEW f, \A x, y \in S : f[x] = f[y] => x = y
    PROVE  IsFiniteSet({f[x] : x \in S}) /\ Cardinality({f[x] : x \in S}) = Cardinality(S)
<1> DEFINE g == [x \in S |-> f[x]]
           T == {f[x] : x \in S}
<1>1. g \in Surjection(S, T) /\ g \in Injection(S, T)
    BY DEF Surjection, Injection, IsInjective
<1> HIDE DEF g, T
<1>2. IsFiniteSet(T) /\ (Cardinality(T) = Cardinality(S) <=> g \in Injection(S, T))
    BY <1>1, FS_Surjection
<1> QED
    BY <1>1, <1>2 DEF T

\* In a table a pitch has as many before it as its place says.
LEMMA TableRanks ==
    ASSUME NEW s, Table(s), NEW k \in 1 .. Len(s) + 1, NEW S,
           S = {s[j] : j \in 1 .. k - 1}
    PROVE  Cardinality(S) = k - 1
<1>1. Len(s) \in Nat /\ k \in Nat /\ k >= 1
    BY TableFacts
<1>2. IsFiniteSet(1 .. k - 1) /\ Cardinality(1 .. k - 1) = k - 1
    <2>1. k - 1 \in Int /\ (~(1 > k - 1) \/ k - 1 = 0)
        BY <1>1
    <2>2. 1 \in Int /\ k - 1 \in Int /\ (k - 1) - 1 + 1 = k - 1
        BY <1>1
    <2>3. /\ IsFiniteSet(1 .. k - 1)
          /\ Cardinality(1 .. k - 1) = IF 1 > k - 1 THEN 0 ELSE (k - 1) - 1 + 1
        BY <2>2, FS_Interval
    <2> QED
        BY <2>1, <2>2, <2>3
<1>3. \A i, j \in 1 .. k - 1 : s[i] = s[j] => i = j
    <2>1. \A i \in 1 .. k - 1 : i \in 1 .. Len(s)
        BY <1>1
    <2> QED
        BY <2>1, TableFacts
<1> QED
    <2> DEFINE D == 1 .. k - 1
    <2>1. IsFiniteSet(D) /\ \A i, j \in D : s[i] = s[j] => i = j
        BY <1>2, <1>3
    <2>2. S = {s[j] : j \in D}
        OBVIOUS
    <2>3. Cardinality(D) = k - 1
        BY <1>2
    <2> HIDE DEF D
    <2>4. Cardinality({s[j] : j \in D}) = Cardinality(D)
        BY <2>1, ImageSize
    <2> QED
        BY <2>2, <2>3, <2>4

\* There is one table of a set of pitches.
LEMMA OneOrder ==
    ASSUME NEW s, Table(s), NEW t, Table(t), Range(s) = Range(t) PROVE s = t
<1>1. ASSUME NEW u, Table(u)
      PROVE  /\ Len(u) = Cardinality(Range(u))
             /\ \A k \in 1 .. Len(u) : Rank(Range(u), u[k]) = k - 1
    <2>1. /\ Len(u) \in Nat /\ Range(u) = {u[j] : j \in 1 .. Len(u)}
          /\ \A i, j \in 1 .. Len(u) : i < j <=> u[i] < u[j]
        BY <1>1, TableFacts
    <2>2. Cardinality(Range(u)) = Len(u)
        <3>1. Len(u) + 1 \in 1 .. Len(u) + 1 /\ (Len(u) + 1) - 1 = Len(u)
            BY <2>1
        <3> QED
            BY <1>1, <2>1, <3>1, TableRanks
    <2>3. ASSUME NEW k \in 1 .. Len(u) PROVE Rank(Range(u), u[k]) = k - 1
        <3>1. {y \in Range(u) : y < u[k]} = {u[j] : j \in 1 .. k - 1}
            <4>1. \A j \in 1 .. Len(u) : j < k <=> j \in 1 .. k - 1
                BY <2>1
            <4>2. \A j \in 1 .. k - 1 : j \in 1 .. Len(u)
                BY <2>1
            <4> QED
                BY <2>1, <4>1, <4>2
        <3>2. k \in 1 .. Len(u) + 1
            BY <2>1
        <3> QED
            BY <1>1, <3>1, <3>2, TableRanks DEF Rank
    <2> QED
        BY <2>2, <2>3
<1>2. Len(s) = Len(t)
    BY <1>1
<1>3. ASSUME NEW k \in 1 .. Len(s) PROVE s[k] = t[k]
    <2> DEFINE R == Range(s)
    <2>1. s[k] \in R /\ t[k] \in R /\ R \in SUBSET Pitches
        BY <1>2, TableFacts
    <2>2. Rank(R, s[k]) = k - 1 /\ Rank(R, t[k]) = k - 1
        BY <1>1, <1>2
    <2> HIDE DEF R
    <2>3. Bounded(R) /\ k - 1 \in Int
        BY <2>1, PitchFacts, TableFacts
    <2>4. s[k] \in Nat /\ t[k] \in Nat /\ ~(s[k] < t[k]) /\ ~(t[k] < s[k])
        BY <2>1, <2>2, <2>3, RankBelow
    <2> QED
        BY <2>4
<1>4. s \in [1 .. Len(s) -> Pitches] /\ t \in [1 .. Len(s) -> Pitches]
    BY <1>2, TableFacts
<1> QED
    BY <1>3, <1>4

LEMMA TablesJoin ==
    ASSUME NEW s, Table(s), NEW t, Table(t), \A i \in Range(s), j \in Range(t) : i < j
    PROVE  Table(s \o t) /\ Range(s \o t) = Range(s) \union Range(t)
<1> DEFINE w == s \o t
<1>1. /\ Len(s) \in Nat /\ Len(t) \in Nat
      /\ Range(s) = {s[i] : i \in 1 .. Len(s)} /\ Range(t) = {t[i] : i \in 1 .. Len(t)}
    BY TableFacts
<1>2. s \in Seq(Pitches) /\ t \in Seq(Pitches)
    BY DEF Table
<1>3. /\ w \in Seq(Pitches) /\ Len(w) = Len(s) + Len(t)
      /\ \A i \in 1 .. Len(s) : w[i] = s[i]
      /\ \A i \in 1 .. Len(t) : w[Len(s) + i] = t[i]
    BY <1>2
<1> HIDE DEF w
<1>4. \A i \in 1 .. Len(w) : i \in 1 .. Len(s) \/ (i - Len(s) \in 1 .. Len(t) /\ Len(s) + (i - Len(s)) = i)
    BY <1>1, <1>3
<1>5. /\ \A i \in 1 .. Len(s) : i \in 1 .. Len(w)
      /\ \A i \in 1 .. Len(t) : Len(s) + i \in 1 .. Len(w)
    BY <1>1, <1>3
<1>6. Range(w) = {w[i] : i \in 1 .. Len(w)}
    BY <1>3 DEF Range
<1>7. Range(w) = Range(s) \union Range(t)
    <2>1. ASSUME NEW i \in 1 .. Len(w) PROVE w[i] \in Range(s) \union Range(t)
        <3>1. CASE i \in 1 .. Len(s)
            BY <1>1, <1>3, <3>1
        <3>2. CASE i - Len(s) \in 1 .. Len(t) /\ Len(s) + (i - Len(s)) = i
            <4>1. w[i] = t[i - Len(s)]
                BY <1>3, <3>2
            <4> QED
                BY <1>1, <3>2, <4>1
        <3> QED
            BY <1>4, <3>1, <3>2
    <2>2. \A x \in Range(s) : x \in Range(w)
        BY <1>1, <1>3, <1>5, <1>6
    <2>3. \A x \in Range(t) : x \in Range(w)
        BY <1>1, <1>3, <1>5, <1>6
    <2> QED
        BY <1>6, <2>1, <2>2, <2>3
<1>8. ASSUME NEW i \in 1 .. Len(w), NEW j \in 1 .. Len(w), i < j PROVE w[i] < w[j]
    <2>1. CASE j \in 1 .. Len(s)
        <3>1. i \in 1 .. Len(s)
            BY <1>1, <1>8, <2>1
        <3> QED
            BY <1>3, <1>8, <2>1, <3>1 DEF Table
    <2>2. CASE i \in 1 .. Len(s) /\ j - Len(s) \in 1 .. Len(t) /\ Len(s) + (j - Len(s)) = j
        <3>1. w[j] = t[j - Len(s)] /\ w[i] = s[i]
            BY <1>3, <2>2
        <3>2. w[i] \in Range(s) /\ w[j] \in Range(t)
            BY <1>1, <2>2, <3>1
        <3> QED
            BY <3>2
    <2>3. CASE /\ i - Len(s) \in 1 .. Len(t) /\ Len(s) + (i - Len(s)) = i
               /\ j - Len(s) \in 1 .. Len(t) /\ Len(s) + (j - Len(s)) = j
        <3>1. w[i] = t[i - Len(s)] /\ w[j] = t[j - Len(s)]
            BY <1>3, <2>3
        <3>2. i - Len(s) < j - Len(s)
            BY <1>1, <1>3, <1>8
        <3> QED
            BY <2>3, <3>1, <3>2 DEF Table
    <2> QED
        BY <1>4, <2>1, <2>2, <2>3
<1> QED
    BY <1>3, <1>7, <1>8 DEF Table, w

LEMMA TableBegins ==
    ASSUME NEW s, Table(s), NEW n \in Nat, n <= Len(s)
    PROVE  Table(SubSeq(s, 1, n)) /\ Range(SubSeq(s, 1, n)) \in SUBSET Range(s)
<1> DEFINE w == SubSeq(s, 1, n)
<1>1. Len(s) \in Nat /\ s \in Seq(Pitches) /\ Range(s) = {s[i] : i \in 1 .. Len(s)}
    BY TableFacts DEF Table
<1>2. w \in Seq(Pitches) /\ Len(w) = n /\ DOMAIN w = 1 .. n /\ \A i \in 1 .. n : w[i] = s[i]
    BY <1>1
<1>3. \A i \in 1 .. n : i \in 1 .. Len(s)
    BY <1>1
<1> HIDE DEF w
<1>4. Table(w)
    BY <1>2, <1>3 DEF Table
<1>5. Range(w) \in SUBSET Range(s)
    BY <1>1, <1>2, <1>3 DEF Range
<1> QED
    BY <1>4, <1>5 DEF w

(***************************************************************************)
(* The index of a table.                                                   *)
(***************************************************************************)
Thrower(s, p) == pitchLog.pitcher[s[p]]
Own(s, p)     == {q \in 1 .. p - 1 : SamePitcher(s[q], s[p])}
Lower(s, p)   == {q \in 1 .. Len(s) : Thrower(s, q) < Thrower(s, p)}

LEMMA OwnFacts ==
    ASSUME NEW s, Table(s), pitchLog \in Logs, NEW p \in 1 .. Len(s)
    PROVE  /\ Len(s) \in Nat /\ p \in Nat /\ Thrower(s, p) \in Nat
           /\ Own(s, p) \in SUBSET (1 .. Len(s)) /\ Bounded(Own(s, p))
           /\ Lower(s, p) \in SUBSET (1 .. Len(s)) /\ Bounded(Lower(s, p))
           /\ \A q \in 1 .. Len(s) : /\ q \in Nat /\ Thrower(s, q) \in Nat
                                     /\ q \in Lower(s, p) <=> Thrower(s, q) < Thrower(s, p)
                                     /\ q \in Own(s, p) <=> q < p /\ Thrower(s, q) = Thrower(s, p)
           /\ RowToPos(s, p) = Cardinality(Own(s, p)) /\ RowToPos(s, p) \in Nat
<1>1. Len(s) \in Nat /\ p \in Nat /\ \A q \in 1 .. Len(s) : q \in Nat /\ s[q] \in Pitches
    BY TableFacts
<1>2. pitchLog.pitcher \in [Pitches -> Nat]
    BY SequencesAssumption DEF SequencesAssumption
<1>3. \A q \in 1 .. Len(s) : Thrower(s, q) \in Nat
    BY <1>1, <1>2 DEF Thrower
<1>4. ASSUME NEW q \in 1 .. Len(s)
      PROVE q \in Own(s, p) <=> q < p /\ Thrower(s, q) = Thrower(s, p)
    <2>1. q \in 1 .. p - 1 <=> q < p
        BY <1>1
    <2> QED
        BY <2>1 DEF Own, SamePitcher, Thrower
<1>5. Own(s, p) \in SUBSET (1 .. Len(s)) /\ Lower(s, p) \in SUBSET (1 .. Len(s))
    <2>1. \A q \in 1 .. p - 1 : q \in 1 .. Len(s)
        BY <1>1
    <2> QED
        BY <2>1 DEF Own, Lower
<1>6. Bounded(Own(s, p)) /\ Bounded(Lower(s, p))
    BY <1>1, <1>5, PlacesBounded
<1>7. RowToPos(s, p) = Cardinality(Own(s, p)) /\ RowToPos(s, p) \in Nat
    BY <1>6 DEF RowToPos, Own, Bounded
<1> QED
    BY <1>1, <1>3, <1>4, <1>5, <1>6, <1>7 DEF Lower

\* A slot is the number of rows ahead: those of lower pitchers and the
\* pitcher's own before.
LEMMA SlotCounts ==
    ASSUME NEW s, Table(s), pitchLog \in Logs, NEW p \in 1 .. Len(s)
    PROVE  /\ StartOf(s)[Thrower(s, p)] = Cardinality(Lower(s, p)) /\ Cardinality(Lower(s, p)) \in Nat
           /\ Slot(s, p) = Cardinality(Lower(s, p)) + RowToPos(s, p)
           /\ Slot(s, p) = Cardinality(Lower(s, p) \union Own(s, p)) /\ Slot(s, p) \in Nat
<1>1. s[p] \in Range(s) /\ DOMAIN s = 1 .. Len(s)
    BY TableFacts
<1>2. StartOf(s)[Thrower(s, p)] = Cardinality(Lower(s, p))
    BY <1>1 DEF StartOf, Thrower, Lower
<1>3. Lower(s, p) \intersect Own(s, p) = {}
    BY OwnFacts
<1>4. /\ IsFiniteSet(Lower(s, p)) /\ IsFiniteSet(Own(s, p))
      /\ Cardinality(Lower(s, p)) \in Nat /\ Cardinality(Own(s, p)) \in Nat
    BY OwnFacts DEF Bounded
<1>5. Cardinality(Lower(s, p) \union Own(s, p)) = Cardinality(Lower(s, p)) + Cardinality(Own(s, p)) - 0
    BY <1>3, <1>4, FS_Union, FS_EmptySet
<1>6. RowToPos(s, p) = Cardinality(Own(s, p))
    BY OwnFacts
<1> QED
    BY <1>2, <1>4, <1>5, <1>6 DEF Slot, Thrower

LEMMA SlotsApart ==
    ASSUME NEW s, Table(s), pitchLog \in Logs, NEW p \in 1 .. Len(s)
    PROVE  /\ Slot(s, p) + 1 \in 1 .. Len(s)
           /\ \A q \in 1 .. Len(s) : Slot(s, q) = Slot(s, p) => q = p
<1> DEFINE Ahead(q) == Lower(s, q) \union Own(s, q)
<1>1. ASSUME NEW q \in 1 .. Len(s)
      PROVE  /\ Ahead(q) \in SUBSET (1 .. Len(s)) /\ Bounded(Ahead(q)) /\ q \notin Ahead(q)
             /\ Slot(s, q) = Cardinality(Ahead(q)) /\ Slot(s, q) \in Nat
             /\ Cardinality(Ahead(q) \union {q}) = Slot(s, q) + 1
    <2>1. Ahead(q) \in SUBSET (1 .. Len(s)) /\ q \notin Ahead(q)
        BY OwnFacts
    <2>2. Bounded(Ahead(q))
        BY <2>1, PlacesBounded, OwnFacts
    <2>3. Slot(s, q) = Cardinality(Ahead(q)) /\ Slot(s, q) \in Nat
        BY SlotCounts
    <2> HIDE DEF Ahead
    <2> QED
        BY <2>1, <2>2, <2>3, BoundedNext
<1>2. ASSUME NEW q \in 1 .. Len(s), NEW r \in 1 .. Len(s), q \in Ahead(r)
      PROVE  Slot(s, q) < Slot(s, r)
    <2>1. Ahead(q) \union {q} \in SUBSET Ahead(r)
        BY <1>2, OwnFacts
    <2>2. Cardinality(Ahead(q) \union {q}) <= Cardinality(Ahead(r))
        BY <1>1, <2>1, BoundedPart
    <2>3. Slot(s, q) + 1 <= Slot(s, r) /\ Slot(s, q) \in Nat /\ Slot(s, r) \in Nat
        BY <1>1, <2>2
    <2> QED
        BY <2>3
<1>3. ASSUME NEW q \in 1 .. Len(s), q # p PROVE q \in Ahead(p) \/ p \in Ahead(q)
    BY <1>3, OwnFacts
<1> HIDE DEF Ahead
<1>4. Slot(s, p) + 1 \in 1 .. Len(s)
    <2>1. Ahead(p) \union {p} \in SUBSET (1 .. Len(s)) /\ Bounded(1 .. Len(s)) /\ Len(s) \in Nat
        BY <1>1, PlacesBounded, OwnFacts
    <2>2. Cardinality(1 .. Len(s)) = Len(s)
        <3>1. Cardinality(1 .. Len(s)) = IF 1 > Len(s) THEN 0 ELSE Len(s) - 1 + 1
            BY <2>1, FS_Interval
        <3> QED
            BY <2>1, <3>1
    <2>3. Slot(s, p) + 1 <= Len(s)
        BY <1>1, <2>1, <2>2, BoundedPart
    <2>4. Slot(s, p) \in Nat
        BY <1>1
    <2> QED
        BY <2>1, <2>3, <2>4
<1>5. ASSUME NEW q \in 1 .. Len(s), Slot(s, q) = Slot(s, p) PROVE q = p
    <2>1. Slot(s, q) \in Nat
        BY <1>1
    <2> QED
        BY <1>2, <1>3, <1>5, <2>1
<1> QED
    BY <1>4, <1>5

\* The index holds every row in its slot.
LEMMA FlatSlot ==
    ASSUME NEW s, Table(s), pitchLog \in Logs, NEW p \in 1 .. Len(s)
    PROVE  FlatIndices(s)[Slot(s, p) + 1] = p
<1>1. DOMAIN s = 1 .. Len(s)
    BY TableFacts
<1>2. Slot(s, p) + 1 \in 1 .. Len(s) /\ (Slot(s, p) + 1) - 1 = Slot(s, p)
    <2>1. Slot(s, p) \in Nat
        BY SlotCounts
    <2> QED
        BY <2>1, SlotsApart
<1>3. FlatIndices(s)[Slot(s, p) + 1] = CHOOSE q \in 1 .. Len(s) : Slot(s, q) = Slot(s, p)
    BY <1>1, <1>2 DEF FlatIndices
<1> QED
    BY <1>3, SlotsApart

\* The place of an own row of an earlier place among the own rows.
LEMMA OwnRanks ==
    ASSUME NEW s, Table(s), pitchLog \in Logs, NEW p \in 1 .. Len(s), NEW q \in Own(s, p)
    PROVE  /\ q \in 1 .. Len(s) /\ Rank(Own(s, p), q) = RowToPos(s, q)
           /\ Slot(s, q) = Cardinality(Lower(s, p)) + Rank(Own(s, p), q)
<1>1. q \in 1 .. Len(s) /\ q < p /\ Thrower(s, q) = Thrower(s, p)
    BY OwnFacts
<1>2. \A r \in 1 .. Len(s) : r \in Own(s, q) <=> r \in Own(s, p) /\ r < q
    <2>1. \A r \in 1 .. Len(s) : r \in Own(s, q) <=> r < q /\ Thrower(s, r) = Thrower(s, q)
        BY <1>1, OwnFacts
    <2>2. \A r \in 1 .. Len(s) : r \in Own(s, p) <=> r < p /\ Thrower(s, r) = Thrower(s, p)
        BY OwnFacts
    <2>3. \A r \in 1 .. Len(s) : r \in Nat
        BY OwnFacts
    <2> QED
        BY <1>1, <2>1, <2>2, <2>3
<1>3. Own(s, q) = {r \in Own(s, p) : r < q}
    <2>1. Own(s, p) \in SUBSET (1 .. Len(s)) /\ Own(s, q) \in SUBSET (1 .. Len(s))
        BY <1>1, OwnFacts
    <2> QED
        BY <1>2, <2>1
<1>4. Rank(Own(s, p), q) = RowToPos(s, q)
    BY <1>1, <1>3, OwnFacts DEF Rank
<1>5. Lower(s, q) = Lower(s, p)
    BY <1>1 DEF Lower
<1> QED
    BY <1>1, <1>4, <1>5, SlotCounts

LEMMA SliceIs ==
    ASSUME NEW S, NEW s \in Seq(S), NEW a \in Nat, NEW m \in Nat, a + m <= Len(s)
    PROVE  /\ DOMAIN SubSeq(s, a + 1, a + m) = 1 .. m
           /\ \A k \in 1 .. m : SubSeq(s, a + 1, a + m)[k] = s[a + k]
    OBVIOUS

\* The window of a row: its pitcher's rows before it, from the first on.
LEMMA WindowIs ==
    ASSUME Table(exp.full), pitchLog \in Logs, NEW p \in 1 .. Len(exp.full),
           exp.flat = FlatIndices(exp.full), exp.start = StartOf(exp.full)
    PROVE  \E first \in Nat :
             /\ first = IF RowToPos(exp.full, p) < SeqWindow THEN 0 ELSE RowToPos(exp.full, p) - SeqWindow
             /\ Range(SequenceRows(p)) = {q \in Own(exp.full, p) : first <= Rank(Own(exp.full, p), q)}
             /\ Cardinality(Range(SequenceRows(p))) = RowToPos(exp.full, p) - first
<1> DEFINE s == exp.full
           pos == RowToPos(s, p)
           start == Cardinality(Lower(s, p))
           first == IF pos < SeqWindow THEN 0 ELSE pos - SeqWindow
           own == Own(s, p)
           flat == FlatIndices(s)
<1>1. pos \in Nat /\ start \in Nat /\ SeqWindow \in Nat \ {0} /\ first \in Nat /\ first <= pos
    <2>1. pos \in Nat
        BY OwnFacts
    <2>2. start \in Nat
        BY SlotCounts
    <2>3. SeqWindow \in Nat \ {0}
        BY SequencesAssumption DEF SequencesAssumption
    <2> HIDE DEF pos, start
    <2> QED
        BY <2>1, <2>2, <2>3
<1>2. Max({0, pos - SeqWindow}) = first
    <2>1. first \in {0, pos - SeqWindow} /\ \A y \in {0, pos - SeqWindow} : y <= first
        BY <1>1
    <2>2. \A x \in {0, pos - SeqWindow} : (\A y \in {0, pos - SeqWindow} : y <= x) => x = first
        BY <1>1
    <2> QED
        BY <1>1, <2>1, <2>2 DEF Max
<1>3. SequenceRows(p) = SubSeq(flat, start + first + 1, start + pos)
    BY <1>2, SlotCounts DEF SequenceRows, Thrower
<1>4. /\ Bounded(own) /\ Cardinality(own) = pos /\ Len(s) \in Nat
      /\ \A q \in own : Rank(own, q) \in Nat /\ Rank(own, q) < pos
    BY OwnFacts, RankBelow
<1>5. ASSUME NEW q \in own PROVE flat[start + Rank(own, q) + 1] = q
    <2>1. q \in 1 .. Len(s) /\ Slot(s, q) = start + Rank(own, q)
        BY OwnRanks
    <2> QED
        BY <2>1, FlatSlot
<1>6. flat \in [1 .. Len(s) -> {flat[k] : k \in 1 .. Len(s)}]
    BY TableFacts DEF FlatIndices
<1>7. start + pos \in 1 .. Len(s) \/ start + pos = 0
    <2>1. Slot(s, p) = start + pos /\ Slot(s, p) + 1 \in 1 .. Len(s)
        BY SlotCounts, SlotsApart
    <2> QED
        BY <1>1, <1>4, <2>1
<1> HIDE DEF s, pos, start, first, own, flat
<1> DEFINE w == SubSeq(flat, start + first + 1, start + pos)
<1>8. /\ DOMAIN w = 1 .. pos - first
      /\ \A k \in 1 .. pos - first : w[k] = flat[start + (first + k - 1) + 1]
    <2>1. flat \in Seq({flat[k] : k \in 1 .. Len(s)}) /\ Len(flat) = Len(s)
        BY <1>4, <1>6
    <2>2. PICK a \in Nat, m \in Nat : a = start + first /\ m = pos - first
        <3>1. start + first \in Nat /\ pos - first \in Nat
            BY <1>1
        <3> QED
            BY <3>1
    <2>3. a + m = start + pos /\ a + m <= Len(flat)
        BY <1>1, <1>4, <1>7, <2>1, <2>2
    <2>4. start + first + 1 = a + 1 /\ start + pos = a + m
        BY <2>2, <2>3
    <2>5. w = SubSeq(flat, a + 1, a + m)
        BY <2>4
    <2>6. \A k \in 1 .. m : a + k = start + (first + k - 1) + 1
        BY <1>1, <2>2
    <2> HIDE DEF w
    <2>7. DOMAIN w = 1 .. m /\ \A k \in 1 .. m : w[k] = flat[a + k]
        <3>1. /\ DOMAIN SubSeq(flat, a + 1, a + m) = 1 .. m
              /\ \A k \in 1 .. m : SubSeq(flat, a + 1, a + m)[k] = flat[a + k]
            BY <2>1, <2>3, SliceIs
        <3> QED
            BY <2>5, <3>1
    <2> QED
        BY <2>2, <2>6, <2>7
<1>9. ASSUME NEW k \in 1 .. pos - first PROVE w[k] \in own /\ Rank(own, w[k]) = first + k - 1
    <2>1. first + k - 1 \in Nat /\ first + k - 1 < pos
        BY <1>1
    <2>2. PICK q \in own : Rank(own, q) = first + k - 1
        BY <1>4, <2>1, RankTaken
    <2> QED
        BY <1>5, <1>8, <2>2
<1>10. Range(w) = {w[k] : k \in 1 .. pos - first}
    BY <1>8 DEF Range
<1> HIDE DEF w
<1>11. Range(w) = {q \in own : first <= Rank(own, q)}
    <2>1. ASSUME NEW k \in 1 .. pos - first PROVE w[k] \in own /\ first <= Rank(own, w[k])
        BY <1>1, <1>9
    <2>2. ASSUME NEW q \in own, first <= Rank(own, q) PROVE q \in Range(w)
        <3>1. Rank(own, q) \in Nat /\ Rank(own, q) < pos
            BY <1>4
        <3>2. Rank(own, q) - first + 1 \in 1 .. pos - first
              /\ first + (Rank(own, q) - first + 1) - 1 = Rank(own, q)
            BY <1>1, <2>2, <3>1
        <3>3. w[Rank(own, q) - first + 1] = flat[start + Rank(own, q) + 1]
            <4>1. PICK k \in 1 .. pos - first : k = Rank(own, q) - first + 1
                BY <3>2
            <4>2. w[k] = flat[start + (first + k - 1) + 1] /\ first + k - 1 = Rank(own, q)
                BY <1>8, <3>2, <4>1
            <4> QED
                BY <4>1, <4>2
        <3> QED
            BY <1>5, <1>10, <3>2, <3>3
    <2> QED
        BY <1>10, <2>1, <2>2
<1>12. Cardinality(Range(w)) = pos - first
    <2> DEFINE D == 1 .. pos - first
    <2>1. IsFiniteSet(D) /\ Cardinality(D) = pos - first
        <3>1. pos - first \in Nat
            BY <1>1
        <3>2. PICK m \in Nat : m = pos - first
            BY <3>1
        <3>3. IsFiniteSet(1 .. m) /\ Cardinality(1 .. m) = IF 1 > m THEN 0 ELSE m - 1 + 1
            BY FS_Interval
        <3>4. IsFiniteSet(1 .. m) /\ Cardinality(1 .. m) = m
            BY <3>3
        <3> QED
            BY <3>2, <3>4
    <2>2. ASSUME NEW i \in D, NEW j \in D, w[i] = w[j] PROVE i = j
        <3>1. first + i - 1 = first + j - 1
            BY <1>9, <2>2
        <3> QED
            BY <1>1, <3>1
    <2>3. Range(w) = {w[k] : k \in D}
        BY <1>10
    <2> HIDE DEF D
    <2> QED
        BY <2>1, <2>2, <2>3, ImageSize
<1> QED
    BY <1>1, <1>3, <1>11, <1>12 DEF s, pos, start, first, own, flat, w

\* The window, the profile and the count of a row are of what its pitcher had
\* thrown before it.
LEMMA IndexIsPast ==
    ASSUME Table(exp.full), pitchLog \in Logs,
           exp.flat = FlatIndices(exp.full), exp.start = StartOf(exp.full)
    PROVE  WindowsArePast /\ ProfilesArePast
<1> DEFINE n == Len(exp.full)
           full(q) == exp.full[q]
<1>1. n \in Nat /\ DOMAIN exp.full = 1 .. n
    BY TableFacts
<1> SUFFICES ASSUME NEW p \in 1 .. n
             PROVE  LET seen == {full(q) : q \in Range(SequenceRows(p))} IN
                    /\ seen \subseteq Earlier(p)
                    /\ Cardinality(seen) = Min({SeqWindow, Cardinality(Earlier(p))})
                    /\ \A i \in seen, j \in Earlier(p) \ seen : j < i
                    /\ LiveGameRows(p) \subseteq seen
                    /\ ProfileOf(p) = Earlier(p)
                    /\ CumPitchCount(p) = Cardinality(Earlier(p))
    BY <1>1 DEF WindowsArePast, ProfilesArePast, IsRookie
<1> DEFINE own == Own(exp.full, p)
           pos == RowToPos(exp.full, p)
           win == Range(SequenceRows(p))
           seen == {full(q) : q \in win}
<1>2. /\ own \in SUBSET (1 .. n) /\ Bounded(own) /\ Cardinality(own) = pos /\ pos \in Nat
    BY OwnFacts
<1>3. PICK first \in Nat :
          /\ first = IF pos < SeqWindow THEN 0 ELSE pos - SeqWindow
          /\ win = {q \in own : first <= Rank(own, q)} /\ Cardinality(win) = pos - first
    BY WindowIs
<1>4. \A i, j \in 1 .. n : (i < j <=> full(i) < full(j)) /\ (full(i) = full(j) => i = j)
    BY TableFacts
<1>5. Earlier(p) = {full(q) : q \in own}
    <2>1. Range(exp.full) = {full(q) : q \in 1 .. n}
        BY TableFacts
    <2>2. \A q \in 1 .. n : q \in own <=> full(q) < full(p) /\ SamePitcher(full(q), full(p))
        <3>1. \A q \in 1 .. n : q \in own <=> q < p /\ Thrower(exp.full, q) = Thrower(exp.full, p)
            BY OwnFacts
        <3> QED
            BY <1>4, <3>1 DEF SamePitcher, Thrower
    <2>3. \A i \in Earlier(p) : i \in {full(q) : q \in own}
        BY <2>1, <2>2 DEF Earlier
    <2>4. \A q \in own : full(q) \in Earlier(p)
        BY <1>2, <2>1, <2>2 DEF Earlier
    <2> QED
        BY <2>3, <2>4
<1>6. ASSUME NEW S \in SUBSET own PROVE Cardinality({full(q) : q \in S}) = Cardinality(S)
    <2>1. IsFiniteSet(S)
        BY <1>2, BoundedPart DEF Bounded
    <2>2. \A x, y \in S : exp.full[x] = exp.full[y] => x = y
        BY <1>2, <1>4
    <2> QED
        BY <2>1, <2>2, ImageSize
<1>7. Cardinality(Earlier(p)) = pos /\ Cardinality(seen) = pos - first
    BY <1>2, <1>3, <1>5, <1>6
<1>8. CumPitchCount(p) = pos /\ ProfileOf(p) = Earlier(p)
    <2>1. CumPitchCount(p) = Cardinality(own)
        BY DEF CumPitchCount, Own
    <2>2. PriorRows(p) = own
        <3>1. \A q \in 1 .. p : q # p <=> q \in 1 .. p - 1
            BY <1>1
        <3>2. \A q \in 1 .. p - 1 : q \in 1 .. p
            BY <1>1
        <3> QED
            BY <3>1, <3>2 DEF PriorRows, Own
    <2> QED
        BY <1>2, <1>5, <2>1, <2>2 DEF ProfileOf
<1>9. seen \subseteq Earlier(p)
    BY <1>3, <1>5
<1>10. Cardinality(seen) = Min({SeqWindow, Cardinality(Earlier(p))})
    <2>1. SeqWindow \in Nat \ {0}
        BY SequencesAssumption DEF SequencesAssumption
    <2>2. PICK m \in Nat : m = pos /\ first = IF m < SeqWindow THEN 0 ELSE m - SeqWindow
        BY <1>2, <1>3
    <2>3. m - first \in {SeqWindow, m} /\ \A y \in {SeqWindow, m} : m - first <= y
        BY <2>1, <2>2
    <2>4. \A x \in {SeqWindow, m} : (\A y \in {SeqWindow, m} : x <= y) => x = m - first
        BY <2>1, <2>2
    <2>5. Min({SeqWindow, m}) = m - first
        BY <2>3, <2>4 DEF Min
    <2> QED
        BY <1>7, <2>2, <2>5
<1>11. ASSUME NEW i \in seen, NEW j \in Earlier(p) \ seen PROVE j < i
    <2>1. PICK q \in win : i = full(q)
        OBVIOUS
    <2>2. PICK r \in own : j = full(r) /\ r \notin win
        BY <1>5
    <2>3. q \in own /\ first <= Rank(own, q) /\ ~(first <= Rank(own, r))
        BY <1>3, <2>2
    <2>4. Rank(own, q) \in Nat /\ Rank(own, r) \in Nat
        BY <1>2, <2>3, RankBelow
    <2>5. Rank(own, r) < Rank(own, q)
        BY <2>3, <2>4
    <2>6. r < q
        BY <1>2, <2>3, <2>5, RankBelow
    <2> QED
        BY <1>2, <1>4, <2>1, <2>2, <2>3, <2>6
<1>12. LiveGameRows(p) \subseteq seen
    BY DEF LiveGameRows
<1> QED
    BY <1>7, <1>8, <1>9, <1>10, <1>11, <1>12

(***************************************************************************)
(* The streaks.                                                            *)
(***************************************************************************)
GameBefore(s, p) == {q \in 1 .. p - 1 : SameGame(s[p], s[q])}

LEMMA GameFacts ==
    ASSUME NEW s, s \in Seq(Pitches), NEW p \in 1 .. Len(s)
    PROVE  /\ Len(s) \in Nat /\ p \in Nat /\ Bounded(GameBefore(s, p))
           /\ GameBefore(s, p) \in SUBSET (1 .. Len(s))
           /\ \A q \in 1 .. Len(s) : q \in GameBefore(s, p) <=> q < p /\ SameGame(s[p], s[q])
           /\ Shifted(s, p) = 0 <=> GameBefore(s, p) = {}
           /\ GameBefore(s, p) # {} => /\ Shifted(s, p) \in GameBefore(s, p)
                                       /\ \A q \in GameBefore(s, p) : q <= Shifted(s, p)
<1> DEFINE B == GameBefore(s, p)
<1>1. Len(s) \in Nat /\ p \in Nat /\ \A q \in 1 .. Len(s) : q \in 1 .. p - 1 <=> q < p
    OBVIOUS
<1>2. B \in SUBSET (1 .. Len(s))
    BY <1>1 DEF GameBefore
<1>3. Bounded(B)
    BY <1>1, <1>2, PlacesBounded
<1>4. Shifted(s, p) = IF B = {} THEN 0 ELSE CHOOSE x \in B : \A y \in B : x >= y
    BY DEF Shifted, GameBefore, none, Max
<1>5. \A q \in 1 .. Len(s) : q \in B <=> q < p /\ SameGame(s[p], s[q])
    BY <1>1 DEF GameBefore
<1> HIDE DEF B
<1>6. ASSUME B # {} PROVE Shifted(s, p) \in B /\ \A q \in B : q <= Shifted(s, p)
    <2>1. PICK x \in B : \A y \in B : y <= x
        BY <1>3, <1>6, LastPlace
    <2>2. \A y \in B : x >= y
        BY <2>1
    <2>3. Shifted(s, p) \in B /\ \A q \in B : Shifted(s, p) >= q
        BY <1>4, <1>6, <2>2
    <2> QED
        BY <2>3
<1>7. Shifted(s, p) = 0 <=> B = {}
    <2>1. \A q \in B : q # 0
        BY <1>1, <1>2
    <2> QED
        BY <1>4, <1>6, <2>1
<1> QED
    BY <1>1, <1>2, <1>3, <1>5, <1>6, <1>7 DEF B

LEMMA StreakIs ==
    ASSUME NEW s, s \in Seq(Pitches), NEW p \in 1 .. Len(s)
    PROVE  Repeat(s, p) =
               Cardinality({q \in GameBefore(s, p) : \A r \in GameBefore(s, p) :
                                r > q => pitchLog.type[s[r]] = pitchLog.type[s[q]]})
<1> DEFINE B == GameBefore(s, p)
           typeAt(q) == pitchLog.type[s[q]]
           run == {q \in B : \A r \in B : r > q => typeAt(r) = typeAt(q)}
<1>1. CASE B = {}
    <2>1. Repeat(s, p) = 0
        BY <1>1, GameFacts DEF Repeat, none
    <2>2. run = {}
        BY <1>1
    <2> QED
        BY <2>1, <2>2, FS_EmptySet
<1>2. CASE B # {}
    <2> DEFINE last == Shifted(s, p)
    <2>1. /\ last \in B /\ (\A q \in B : q <= last) /\ last # 0
          /\ B \in SUBSET (1 .. Len(s)) /\ Bounded(B) /\ \A q \in B : q \in Nat
        BY <1>2, GameFacts DEF Bounded
    <2>2. ASSUME NEW q \in B
          PROVE  /\ GameBefore(s, q) = {r \in B : r < q}
                 /\ UpTo(s, q) = {r \in B : r <= q}
        <3>1. q \in 1 .. Len(s) /\ q \in Nat /\ q < p /\ SameGame(s[p], s[q]) /\ p \in Nat
            BY <2>1, GameFacts
        <3>2. /\ GameBefore(s, q) \in SUBSET (1 .. Len(s))
              /\ \A r \in 1 .. Len(s) : r \in GameBefore(s, q) <=> r < q /\ SameGame(s[q], s[r])
              /\ \A r \in 1 .. Len(s) : r \in B <=> r < p /\ SameGame(s[p], s[r])
            BY <3>1, GameFacts
        <3>3. \A r : SameGame(s[q], s[r]) <=> SameGame(s[p], s[r])
            BY <3>1 DEF SameGame, SamePitcher
        <3>4. GameBefore(s, q) = {r \in B : r < q}
            BY <2>1, <3>1, <3>2, <3>3
        <3>5. UpTo(s, q) = {r \in B : r <= q}
            <4>1. \A r \in 1 .. q : r \in 1 .. Len(s) /\ r < p /\ r <= q
                BY <3>1
            <4>2. \A r \in B : r <= q => r \in 1 .. q
                BY <2>1, <3>1
            <4>3. UpTo(s, q) = {r \in 1 .. q : SameGame(s[p], s[r])}
                BY <3>3 DEF UpTo
            <4> QED
                BY <2>1, <3>2, <4>1, <4>2, <4>3
        <3> QED
            BY <3>4, <3>5
    <2> DEFINE new(q) == {r \in B : r <= q /\ IsNewRun(s, r)}
    <2>3. ASSUME NEW q \in B PROVE BlockId(s, q) = Cardinality(new(q)) /\ new(q) \in SUBSET new(last)
        <3>1. {r \in UpTo(s, q) : IsNewRun(s, r)} = new(q)
            BY <2>2
        <3> QED
            BY <2>1, <3>1 DEF BlockId
    <2>4. Bounded(new(last))
        BY <2>1, BoundedPart
    <2>5. ASSUME NEW q \in B
          PROVE  BlockId(s, q) = BlockId(s, last) <=> \A r \in B : r > q => ~IsNewRun(s, r)
        <3>1. BlockId(s, q) = BlockId(s, last) <=> new(q) = new(last)
            BY <2>1, <2>3, <2>4, BoundedPart
        <3>2. new(q) = new(last) <=> \A r \in B : r > q => ~IsNewRun(s, r)
            BY <2>1
        <3> QED
            BY <3>1, <3>2
    <2>6. ASSUME NEW q \in B, NEW r \in B, r > q
          PROVE  /\ Shifted(s, r) \in B /\ q <= Shifted(s, r) /\ Shifted(s, r) < r
                 /\ IsNewRun(s, r) <=> typeAt(r) # typeAt(Shifted(s, r))
        <3>1. GameBefore(s, r) = {x \in B : x < r} /\ r \in 1 .. Len(s)
            BY <2>1, <2>2
        <3>2. q \in GameBefore(s, r)
            BY <2>1, <2>6, <3>1
        <3>3. Shifted(s, r) \in GameBefore(s, r) /\ q <= Shifted(s, r) /\ Shifted(s, r) # 0
            BY <3>1, <3>2, GameFacts
        <3> QED
            BY <3>1, <3>3 DEF IsNewRun, none
    <2>7. ASSUME NEW q \in B
          PROVE  (\A r \in B : r > q => ~IsNewRun(s, r)) <=> (\A r \in B : r > q => typeAt(r) = typeAt(q))
        <3>1. ASSUME \A r \in B : r > q => typeAt(r) = typeAt(q), NEW r \in B, r > q
              PROVE  ~IsNewRun(s, r)
            <4>1. Shifted(s, r) = q \/ Shifted(s, r) > q
                BY <2>1, <2>6, <3>1
            <4> QED
                BY <2>6, <3>1, <4>1
        <3>2. ASSUME \A r \in B : r > q => ~IsNewRun(s, r), NEW x \in B, x > q, typeAt(x) # typeAt(q)
              PROVE  FALSE
            <4> DEFINE bad == {r \in B : r > q /\ typeAt(r) # typeAt(q)}
            <4>1. bad \in SUBSET Nat /\ bad # {}
                BY <2>1, <3>2
            <4>2. PICK r \in bad : \A y \in bad : r <= y
                BY <4>1, LeastPlace
            <4>3. /\ Shifted(s, r) \in B /\ q <= Shifted(s, r) /\ Shifted(s, r) < r
                  /\ typeAt(r) = typeAt(Shifted(s, r))
                BY <2>6, <3>2
            <4>4. Shifted(s, r) \notin bad
                BY <2>1, <4>2, <4>3
            <4>5. typeAt(Shifted(s, r)) = typeAt(q)
                BY <2>1, <4>3, <4>4
            <4> QED
                BY <4>3, <4>5
        <3> QED
            BY <3>1, <3>2
    <2>8. {q \in UpTo(s, last) : BlockId(s, q) = BlockId(s, last)} = run
        <3>1. UpTo(s, last) = B
            BY <2>1, <2>2
        <3> QED
            BY <2>5, <2>7, <3>1
    <2> QED
        BY <2>1, <2>8 DEF Repeat, RunLength, none
<1> QED
    BY <1>1, <1>2

LEMMA StreaksHold == Table(exp.frame) => StreaksArePast
<1> DEFINE before(p) == {q \in 1 .. p - 1 : SameGame(exp.frame[q], exp.frame[p])}
           run(B) == {q \in B : \A r \in B :
                          r > q => pitchLog.type[exp.frame[r]] = pitchLog.type[exp.frame[q]]}
<1> SUFFICES ASSUME Table(exp.frame), NEW p \in DOMAIN exp.frame
             PROVE  Repeat(exp.frame, p) = Cardinality(run(before(p)))
    BY Zenon DEF StreaksArePast
<1>3. p \in 1 .. Len(exp.frame)
    BY TableFacts
<1>1. before(p) = GameBefore(exp.frame, p)
    BY DEF GameBefore, SameGame, SamePitcher
<1>2. Repeat(exp.frame, p) = Cardinality(run(GameBefore(exp.frame, p)))
    BY <1>3, StreakIs DEF Table
<1> HIDE DEF before, run
<1> QED
    BY <1>1, <1>2

(***************************************************************************)
(* The experiment.                                                         *)
(***************************************************************************)
ExpFields == {"pc", "driver", "req", "limit", "year", "rows", "frame", "full", "flat", "start",
              "losses", "kept", "waited", "weighted"}

Ordered == (\A s \in exp.req.train : s < exp.req.val) /\ exp.req.val < exp.req.test

SeqTypes ==
    /\ pitchLog \in Logs /\ DOMAIN exp = ExpFields
    /\ exp.req \in [from : Nat, to : Nat, train : SUBSET Nat, val : Int, test : Int]
    /\ exp.limit \in Nat /\ exp.year \in Nat /\ exp.losses \in Seq(Nat)

\* What is loaded is of the years behind.
Loaded ==
    /\ Table(exp.rows) /\ \A i \in Range(exp.rows) : SeasonOf[i] < exp.year
    /\ exp.pc = "idle" => exp.rows = <<>>

Laid ==
    exp.pc \in {"index", "train", "fit", "scored"} =>
        /\ Table(exp.frame)
        /\ exp.full = TrainRows \o ValRows \o TestRows

Numbered ==
    exp.pc \in {"train", "fit", "scored"} =>
        exp.flat = FlatIndices(exp.full) /\ exp.start = StartOf(exp.full)

\* The epoch kept is the first of the best so far.
BestSoFar ==
    /\ exp.pc \in {"idle", "load", "prepare", "index"} => exp.losses = <<>>
    /\ exp.pc \in {"fit", "scored"} => exp.losses # <<>>
    /\ Ordered /\ exp.losses # <<>> => BestEpochIsKept

SeqInv == SeqTypes /\ Loaded /\ Laid /\ Numbered /\ BestSoFar

LEMMA EmptyTable == Table(<<>>) /\ Range(<<>>) = {}
BY DEF Table, Range

LEMMA ArrangedTable ==
    ASSUME NEW S \in SUBSET Pitches PROVE Table(Arranged(S)) /\ Range(Arranged(S)) = S
<1> DEFINE c == Cardinality(S)
           a == Arranged(S)
<1>1. /\ a \in [1 .. c -> S] /\ c \in Nat /\ a \in Seq(S) /\ Len(a) = c
      /\ \A k, l \in 1 .. c : k < l => a[k] < a[l]
      /\ \A x \in S : \E k \in 1 .. c : a[k] = x
    BY ArrangedFacts, PitchFacts
<1> HIDE DEF a, c
<1>2. a \in [1 .. c -> Pitches]
    BY <1>1
<1>3. a \in Seq(Pitches)
    BY <1>1, <1>2
<1>4. Table(a)
    BY <1>1, <1>3 DEF Table
<1>5. Range(a) = S
    BY <1>1 DEF Range
<1> QED
    BY <1>4, <1>5 DEF a

LEMMA YearIsTable ==
    ASSUME NEW year \in Nat, NEW limit \in Int, limit # noLimit => limit > 0
    PROVE  /\ Table(YearQuery(year, limit))
           /\ \A i \in Range(YearQuery(year, limit)) : SeasonOf[i] = year
<1> DEFINE rows == Arranged({i \in Pitches : SeasonOf[i] = year})
<1>1. Table(rows) /\ Range(rows) = {i \in Pitches : SeasonOf[i] = year}
    BY ArrangedTable
<1>2. YearQuery(year, limit) = IF limit = noLimit \/ Len(rows) <= limit THEN rows ELSE SubSeq(rows, 1, limit)
    BY DEF YearQuery
<1> HIDE DEF rows
<1>3. CASE limit = noLimit \/ Len(rows) <= limit
    BY <1>1, <1>2, <1>3
<1>4. CASE ~(limit = noLimit \/ Len(rows) <= limit)
    <2>1. limit \in Nat /\ limit <= Len(rows)
        BY <1>1, <1>4, TableFacts
    <2> QED
        BY <1>1, <1>2, <1>4, <2>1, TableBegins
<1> QED
    BY <1>3, <1>4

LEMMA YearsInTable ==
    ASSUME NEW rows, Table(rows), NEW years
    PROVE  /\ Table(OfYears(rows, years))
           /\ Range(OfYears(rows, years)) = {i \in Range(rows) : SeasonOf[i] \in years}
<1>1. Range(rows) \in SUBSET Pitches
    BY TableFacts
<1> QED
    BY <1>1, RowsInFacts DEF OfYears

\* When the years of the splits follow each other, so do their rows.
LEMMA FullIsTable ==
    ASSUME SeqTypes, Table(exp.frame), exp.full = TrainRows \o ValRows \o TestRows, Ordered
    PROVE  /\ Table(exp.full)
           /\ Range(exp.full) = Range(TrainRows) \union Range(ValRows) \union Range(TestRows)
<1>1. /\ Table(TrainRows) /\ \A i \in Range(TrainRows) : i \in Pitches /\ SeasonOf[i] \in exp.req.train
      /\ Table(ValRows) /\ \A i \in Range(ValRows) : i \in Pitches /\ SeasonOf[i] = exp.req.val
      /\ Table(TestRows) /\ \A i \in Range(TestRows) : i \in Pitches /\ SeasonOf[i] = exp.req.test
    <2>1. Range(exp.frame) \in SUBSET Pitches
        BY TableFacts
    <2> QED
        BY <2>1, YearsInTable DEF TrainRows, ValRows, TestRows
<1>2. /\ exp.req.val \in Int /\ exp.req.test \in Int /\ exp.req.train \in SUBSET Nat
      /\ \A i \in Pitches : SeasonOf[i] \in Nat
    BY PitchFacts DEF SeqTypes
<1>3. \A i \in Range(TrainRows), j \in Range(ValRows) : i < j
    BY <1>1, PitchFacts DEF Ordered
<1>4. \A i \in Range(TrainRows) \union Range(ValRows), j \in Range(TestRows) : i < j
    <2>1. ASSUME NEW i \in Range(TrainRows) \union Range(ValRows), NEW j \in Range(TestRows)
          PROVE  SeasonOf[i] < SeasonOf[j]
        BY <1>1, <1>2 DEF Ordered
    <2> QED
        BY <1>1, <2>1, PitchFacts
<1>5. /\ Table(TrainRows \o ValRows)
      /\ Range(TrainRows \o ValRows) = Range(TrainRows) \union Range(ValRows)
    BY <1>1, <1>3, TablesJoin
<1> QED
    BY <1>1, <1>4, <1>5, TablesJoin

\* The rows of the whole table at the positions of some years.
LEMMA EmbeddingsOf ==
    ASSUME Table(exp.full), NEW years
    PROVE  Embeddings(Positions(years)) = OfYears(exp.full, years)
<1>1. \A p \in DOMAIN exp.full : exp.full[p] \in Pitches
    BY TableFacts
<1>2. {p \in DOMAIN exp.full : exp.full[p] \in {i \in Pitches : SeasonOf[i] \in years}}
        = {p \in DOMAIN exp.full : SeasonOf[exp.full[p]] \in years}
    BY <1>1
<1> QED
    BY <1>2 DEF Embeddings, Positions, OfYears, RowsIn

LEMMA DesignsAgree ==
    ASSUME SeqTypes, Table(exp.frame), exp.full = TrainRows \o ValRows \o TestRows, Ordered
    PROVE  \A d \in Designs : d[1] = d[2]
<1>1. ASSUME NEW years, years \in {exp.req.train, {exp.req.val}, {exp.req.test}}
      PROVE  Embeddings(Positions(years)) = OfYears(exp.frame, years)
    <2>1. /\ Table(exp.full)
          /\ Range(exp.full) = Range(TrainRows) \union Range(ValRows) \union Range(TestRows)
        BY FullIsTable
    <2>2. /\ Range(TrainRows) = {i \in Range(exp.frame) : SeasonOf[i] \in exp.req.train}
          /\ Range(ValRows) = {i \in Range(exp.frame) : SeasonOf[i] \in {exp.req.val}}
          /\ Range(TestRows) = {i \in Range(exp.frame) : SeasonOf[i] \in {exp.req.test}}
        BY YearsInTable DEF TrainRows, ValRows, TestRows
    <2>3. {i \in Range(exp.full) : SeasonOf[i] \in years} = {i \in Range(exp.frame) : SeasonOf[i] \in years}
        BY <1>1, <2>1, <2>2
    <2>4. OfYears(exp.full, years) = OfYears(exp.frame, years)
        <3>1. /\ Table(OfYears(exp.full, years))
              /\ Range(OfYears(exp.full, years)) = {i \in Range(exp.full) : SeasonOf[i] \in years}
            BY <2>1, YearsInTable
        <3>2. /\ Table(OfYears(exp.frame, years))
              /\ Range(OfYears(exp.frame, years)) = {i \in Range(exp.frame) : SeasonOf[i] \in years}
            BY YearsInTable
        <3> QED
            BY <2>3, <3>1, <3>2, OneOrder
    <2> QED
        BY <2>1, <2>4, EmbeddingsOf
<1>2. /\ Embeddings(TrainIdx) = TrainRows /\ Embeddings(ValIdx) = ValRows
      /\ Embeddings(TestIdx) = TestRows
    BY <1>1 DEF TrainIdx, ValIdx, TestIdx, TrainRows, ValRows, TestRows
<1> QED
    BY <1>2 DEF Designs

LEMMA StatisticsArePast ==
    ASSUME SeqTypes, Table(exp.frame), Ordered
    PROVE  \A i \in Range(exp.full) : \A j \in StatisticsOf(i) : SeasonOf[j] < exp.req.val
<1>1. \A j \in TrainMask : SeasonOf[j] < exp.req.val
    BY YearsInTable DEF TrainMask, TrainRows, Ordered
<1>2. ASSUME NEW i PROVE StatisticsOf(i) \subseteq TrainMask
    BY DEF StatisticsOf, CareerStats, Biomech, ArsenalFeatures, ArsenalStats, PrototypeClusters
<1> QED
    BY <1>1, <1>2

LEMMA SeqInvIsHonest == SeqInv => ScoreIsHonest
<1> SUFFICES ASSUME SeqInv, exp.pc = "scored", Ordered
             PROVE  /\ WindowsArePast /\ StreaksArePast /\ ProfilesArePast
                    /\ \A i \in Range(exp.full) : \A j \in StatisticsOf(i) : SeasonOf[j] < exp.req.val
                    /\ \A d \in Designs : d[1] = d[2]
                    /\ BestEpochIsKept
    BY DEF ScoreIsHonest, Ordered
<1>1. /\ SeqTypes /\ pitchLog \in Logs /\ Table(exp.frame)
      /\ exp.full = TrainRows \o ValRows \o TestRows
      /\ exp.flat = FlatIndices(exp.full) /\ exp.start = StartOf(exp.full)
      /\ BestEpochIsKept
    BY DEF SeqInv, SeqTypes, Laid, Numbered, BestSoFar
<1> QED
    BY <1>1, FullIsTable, IndexIsPast, StreaksHold, StatisticsArePast, DesignsAgree

Request == [from : Nat, to : Nat, train : SUBSET Nat, val : Int, test : Int]

\* What is asked for on a command line or by default is a request.
LEMMA DefaultIsTyped == DefaultRequest \in Request
<1> DEFINE test == CHOOSE s \in LogSeasons : Cardinality({t \in LogSeasons : t > s}) = 1
<1>1. test \in LogSeasons
    BY SequencesAssumption DEF SequencesAssumption
<1>2. test \in Nat
    BY <1>1, PitchFacts DEF LogSeasons
<1>3. DefaultRequest = [from |-> 1, to |-> test, train |-> 1 .. test - 2, val |-> test - 1, test |-> test]
    BY DEF DefaultRequest
<1> HIDE DEF test
<1>4. 1 .. test - 2 \in SUBSET Nat /\ test - 1 \in Int /\ test \in Int
    BY <1>2
<1> QED
    BY <1>2, <1>3, <1>4 DEF Request

LEMMA RequestsAreTyped ==
    ASSUME NEW r \in Requests PROVE SplitAsked(r) \in Request /\ SpanAsked(r) \in Request
<1>1. r \in [from : Nat, to : Nat, train : SUBSET Nat, val : Nat, test : Nat]
    BY SequencesAssumption DEF SequencesAssumption
<1>2. DefaultRequest.val \in Int /\ DefaultRequest.test \in Int
    BY DefaultIsTyped DEF Request
<1>3. \A x, y : (r.from .. r.to) \ {x, y} \in SUBSET Nat
    BY <1>1
<1>4. SplitAsked(r) \in Request
    BY <1>1, <1>3 DEF SplitAsked, Request
<1>5. SpanAsked(r) \in Request
    BY <1>1, <1>2, <1>3 DEF SpanAsked, Request
<1> QED
    BY <1>4, <1>5

LEMMA SeqStarts == SeqInit => SeqInv
<1> SUFFICES ASSUME SeqInit PROVE SeqInv
    OBVIOUS
<1>1. /\ pitchLog \in Logs /\ DOMAIN exp = ExpFields /\ exp.pc = "idle" /\ exp.req = DefaultRequest
      /\ exp.limit = 0 /\ exp.year = 0 /\ exp.rows = <<>> /\ exp.losses = <<>>
    BY DEF SeqInit, ExpFields, noLimit
<1>2. SeqTypes
    BY <1>1, DefaultIsTyped DEF SeqTypes, Request
<1>3. Loaded
    BY <1>1, EmptyTable DEF Loaded
<1> QED
    BY <1>1, <1>2, <1>3 DEF SeqInv, Laid, Numbered, BestSoFar

\* What the invariant says of the rows is said of these fields.
LEMMA SameTable ==
    ASSUME UNCHANGED pitchLog, exp'.full = exp.full, exp'.frame = exp.frame, exp'.req = exp.req
    PROVE  /\ TrainRows' = TrainRows /\ ValRows' = ValRows /\ TestRows' = TestRows
           /\ ValIdx' = ValIdx /\ Ordered' = Ordered
           /\ FlatIndices(exp.full)' = FlatIndices(exp.full) /\ StartOf(exp.full)' = StartOf(exp.full)
BY DEF TrainRows, ValRows, TestRows, ValIdx, Positions, Ordered, FlatIndices, StartOf, Slot, RowToPos,
       SamePitcher

LEMMA StartKeeps == SeqInv /\ StartExperiment => SeqInv'
<1> SUFFICES ASSUME SeqInv, StartExperiment PROVE SeqInv'
    OBVIOUS
<1>1. PICK driver, req : req \in Request /\ Asks(driver, req)
    BY RequestsAreTyped, DefaultIsTyped DEF StartExperiment
<1>2. PICK limit \in Limits :
          exp' = [exp EXCEPT !.pc = "load", !.driver = driver, !.req = req, !.limit = limit,
                             !.year = req.from]
    BY <1>1 DEF Asks
<1>3. /\ DOMAIN exp' = ExpFields /\ exp'.pc = "load" /\ exp'.req = req /\ exp'.limit = limit
      /\ exp'.year = req.from /\ exp'.rows = exp.rows /\ exp'.losses = exp.losses
    BY <1>2 DEF SeqInv, SeqTypes, ExpFields
<1>4. exp.pc = "idle" /\ UNCHANGED pitchLog
    BY DEF StartExperiment
<1>5. SeqTypes'
    <2>1. limit \in Nat
        BY SequencesAssumption DEF SequencesAssumption
    <2> QED
        BY <1>1, <1>3, <1>4, <2>1 DEF SeqInv, SeqTypes, Request
<1>6. Loaded'
    BY <1>3, <1>4, EmptyTable DEF SeqInv, Loaded
<1>7. BestSoFar'
    BY <1>3, <1>4 DEF SeqInv, BestSoFar
<1> QED
    BY <1>3, <1>5, <1>6, <1>7 DEF SeqInv, Laid, Numbered

LEMMA LoadKeeps == SeqInv /\ (LoadPitchData \/ LoadEnrichedData) => SeqInv'
<1> SUFFICES ASSUME SeqInv, LoadPitchData \/ LoadEnrichedData PROVE SeqInv'
    OBVIOUS
<1> DEFINE queried == YearQuery(exp.year, Remaining)
<1>1. exp.pc = "load" /\ UNCHANGED pitchLog /\ LoadNextYear(queried)
    BY DEF LoadPitchData, LoadEnrichedData, EnrichedYearQuery
<1>2. /\ SeqTypes /\ DOMAIN exp = ExpFields /\ exp.limit \in Nat /\ exp.year \in Nat
      /\ Table(exp.rows) /\ \A i \in Range(exp.rows) : SeasonOf[i] < exp.year
      /\ exp.losses = <<>>
    BY <1>1 DEF SeqInv, SeqTypes, Loaded, BestSoFar
<1>3. CASE exp' = [exp EXCEPT !.pc = "prepare"]
    <2>1. /\ DOMAIN exp' = ExpFields /\ exp'.pc = "prepare" /\ exp'.req = exp.req
          /\ exp'.limit = exp.limit /\ exp'.year = exp.year /\ exp'.rows = exp.rows
          /\ exp'.losses = exp.losses
        BY <1>2, <1>3 DEF ExpFields
    <2> QED
        BY <1>1, <1>2, <2>1 DEF SeqInv, SeqTypes, Loaded, Laid, Numbered, BestSoFar
<1>4. CASE /\ ~(exp.limit # noLimit /\ Remaining <= 0)
           /\ exp' = [exp EXCEPT !.year = @ + 1, !.rows = @ \o queried]
    <2>1. /\ DOMAIN exp' = ExpFields /\ exp'.pc = "load" /\ exp'.req = exp.req
          /\ exp'.limit = exp.limit /\ exp'.year = exp.year + 1 /\ exp'.rows = exp.rows \o queried
          /\ exp'.losses = exp.losses
        BY <1>1, <1>2, <1>4 DEF ExpFields
    <2>2. Remaining \in Int /\ (Remaining # noLimit => Remaining > 0)
        BY <1>2, <1>4, TableFacts DEF Remaining, noLimit
    <2>3. Table(queried) /\ \A i \in Range(queried) : SeasonOf[i] = exp.year
        BY <1>2, <2>2, YearIsTable
    <2> HIDE DEF queried
    <2>4. \A i \in Range(exp.rows), j \in Range(queried) : i \in Pitches /\ j \in Pitches /\ i < j
        BY <1>2, <2>3, TableFacts, PitchFacts
    <2>5. Table(exp.rows \o queried) /\ Range(exp.rows \o queried) = Range(exp.rows) \union Range(queried)
        BY <1>2, <2>3, <2>4, TablesJoin
    <2>6. \A i \in Range(exp.rows \o queried) : SeasonOf[i] < exp.year + 1
        <3>1. \A i \in Range(exp.rows) : i \in Pitches
            BY <1>2, TableFacts
        <3> QED
            BY <1>2, <2>3, <2>5, <3>1, PitchFacts
    <2>7. SeqTypes'
        BY <1>1, <1>2, <2>1 DEF SeqTypes
    <2>8. Loaded'
        BY <2>1, <2>5, <2>6 DEF Loaded
    <2> QED
        BY <1>2, <2>1, <2>7, <2>8 DEF SeqInv, Laid, Numbered, BestSoFar
<1> QED
    BY <1>1, <1>3, <1>4 DEF LoadNextYear

\* A run that ends early promises nothing more.
LEMMA StopKeeps ==
    ASSUME SeqInv, Stop, UNCHANGED pitchLog PROVE SeqInv'
<1>1. /\ DOMAIN exp' = ExpFields /\ exp'.pc = "stopped" /\ exp'.req = exp.req /\ exp'.limit = exp.limit
      /\ exp'.year = exp.year /\ exp'.rows = exp.rows /\ exp'.losses = exp.losses
      /\ exp'.full = exp.full /\ exp'.frame = exp.frame /\ exp'.kept = exp.kept
    BY DEF Stop, SeqInv, SeqTypes, ExpFields
<1>2. SeqTypes' /\ Loaded'
    BY <1>1 DEF SeqInv, SeqTypes, Loaded
<1>3. BestSoFar'
    BY <1>1, SameTable DEF SeqInv, BestSoFar, BestEpochIsKept
<1> QED
    BY <1>1, <1>2, <1>3 DEF SeqInv, Laid, Numbered

LEMMA PrepareKeeps == SeqInv /\ (PrepareDatasets \/ PrepareEnrichedDatasets) => SeqInv'
<1> SUFFICES ASSUME SeqInv, PrepareDatasets \/ PrepareEnrichedDatasets PROVE SeqInv'
    OBVIOUS
<1>1. exp.pc = "prepare" /\ UNCHANGED pitchLog /\ Prepare(exp.rows)
    BY DEF PrepareDatasets, PrepareEnrichedDatasets
<1>2. CASE Stop
    BY <1>1, <1>2, StopKeeps
<1> DEFINE frame == MapOutcomes(exp.rows)
           full == OfYears(frame, exp.req.train) \o OfYears(frame, {exp.req.val})
                     \o OfYears(frame, {exp.req.test})
<1>3. CASE exp' = [exp EXCEPT !.pc = "index", !.frame = frame, !.full = full]
    <2>1. /\ DOMAIN exp' = ExpFields /\ exp'.pc = "index" /\ exp'.req = exp.req
          /\ exp'.limit = exp.limit /\ exp'.year = exp.year /\ exp'.rows = exp.rows
          /\ exp'.losses = exp.losses /\ exp'.frame = frame /\ exp'.full = full
        BY <1>3 DEF SeqInv, SeqTypes, ExpFields
    <2>2. Table(frame)
        BY RowsInFacts DEF SeqInv, Loaded, MapOutcomes
    <2>3. /\ TrainRows' = OfYears(frame, exp.req.train) /\ ValRows' = OfYears(frame, {exp.req.val})
          /\ TestRows' = OfYears(frame, {exp.req.test})
        BY <2>1 DEF TrainRows, ValRows, TestRows
    <2>4. Laid'
        BY <2>1, <2>2, <2>3 DEF Laid
    <2>5. SeqTypes' /\ Loaded'
        BY <1>1, <2>1 DEF SeqInv, SeqTypes, Loaded
    <2>6. BestSoFar'
        BY <1>1, <2>1 DEF SeqInv, BestSoFar
    <2> QED
        BY <2>1, <2>4, <2>5, <2>6 DEF SeqInv, Numbered
<1> QED
    BY <1>1, <1>2, <1>3 DEF Prepare

LEMMA IndexKeeps == SeqInv /\ (BuildIndex \/ BuildEnrichedIndex) => SeqInv'
<1> SUFFICES ASSUME SeqInv, BuildIndex \/ BuildEnrichedIndex PROVE SeqInv'
    OBVIOUS
<1>1. exp.pc = "index" /\ UNCHANGED pitchLog /\ Indexed
    BY DEF BuildIndex, BuildEnrichedIndex
<1>2. /\ DOMAIN exp' = ExpFields /\ exp'.pc = "train" /\ exp'.req = exp.req /\ exp'.limit = exp.limit
      /\ exp'.year = exp.year /\ exp'.rows = exp.rows /\ exp'.losses = exp.losses
      /\ exp'.frame = exp.frame /\ exp'.full = exp.full
      /\ exp'.flat = FlatIndices(exp.full) /\ exp'.start = StartOf(exp.full)
    BY <1>1 DEF Indexed, SeqInv, SeqTypes, ExpFields
<1>3. SeqTypes' /\ Loaded'
    BY <1>1, <1>2 DEF SeqInv, SeqTypes, Loaded
<1>4. Laid' /\ Numbered'
    BY <1>1, <1>2, SameTable DEF SeqInv, Laid, Numbered
<1>5. BestSoFar'
    BY <1>1, <1>2 DEF SeqInv, BestSoFar
<1> QED
    BY <1>3, <1>4, <1>5 DEF SeqInv

\* One epoch: the best of those before and this one, the first if there are two.
LEMMA EpochKeeps ==
    ASSUME SeqInv, exp.pc = "train", UNCHANGED pitchLog,
           NEW hasVal, Ordered /\ ValIdx # <<>> => hasVal,
           NEW loss \in Nat, NEW weighted, AfterEpoch(hasVal, loss, weighted)
    PROVE  SeqInv'
<1> DEFINE n == Len(exp.losses) + 1
           better == hasVal /\ \A k \in DOMAIN exp.losses : loss < exp.losses[k]
<1>1. /\ DOMAIN exp' = ExpFields /\ exp'.pc \in {"train", "fit"} /\ exp'.req = exp.req
      /\ exp'.limit = exp.limit /\ exp'.year = exp.year /\ exp'.rows = exp.rows
      /\ exp'.frame = exp.frame /\ exp'.full = exp.full /\ exp'.flat = exp.flat /\ exp'.start = exp.start
      /\ exp'.losses = Append(exp.losses, loss) /\ exp'.kept = IF better THEN n ELSE exp.kept
    BY DEF AfterEpoch, SeqInv, SeqTypes, ExpFields
<1>2. exp.losses \in Seq(Nat)
    BY DEF SeqInv, SeqTypes
<1> DEFINE longer == Append(exp.losses, loss)
<1>3. /\ longer \in Seq(Nat) /\ Len(longer) = n /\ Len(exp.losses) \in Nat /\ longer[n] = loss
      /\ DOMAIN exp.losses = 1 .. n - 1 /\ DOMAIN longer = 1 .. n
      /\ \A k \in 1 .. n - 1 : longer[k] = exp.losses[k] /\ exp.losses[k] \in Nat
    BY <1>2
<1>4. n \in Nat /\ n \in 1 .. n /\ longer # <<>>
      /\ (\A k \in 1 .. n : k # n => k \in 1 .. n - 1 /\ k < n)
      /\ (\A k \in 1 .. n - 1 : k \in 1 .. n /\ k # n)
      /\ (\A k \in 1 .. n : k \in Nat /\ longer[k] \in Nat)
    <2>1. n \in Nat /\ n >= 1
        BY <1>3
    <2> HIDE DEF n, longer
    <2> QED
        BY <1>3, <2>1
<1>5. /\ exp'.losses \in Seq(Nat) /\ exp'.losses # <<>> /\ DOMAIN exp'.losses = 1 .. n
      /\ exp'.losses[n] = loss /\ n \in 1 .. n
      /\ \A k \in 1 .. n : k # n => k \in DOMAIN exp.losses /\ exp'.losses[k] = exp.losses[k] /\ k < n
      /\ \A k \in DOMAIN exp.losses : k \in 1 .. n /\ k # n /\ exp.losses[k] \in Nat
      /\ \A k \in 1 .. n : k \in Nat /\ exp'.losses[k] \in Nat
    <2>1. exp'.losses = longer
        BY <1>1
    <2> HIDE DEF n, longer
    <2> QED
        BY <1>3, <1>4, <2>1
<1>6. SeqTypes' /\ Loaded'
    BY <1>1, <1>5 DEF SeqInv, SeqTypes, Loaded
<1>7. Laid' /\ Numbered'
    BY <1>1, SameTable DEF SeqInv, Laid, Numbered
<1>8. ASSUME Ordered, ValIdx # <<>>
      PROVE  /\ exp'.kept \in DOMAIN exp'.losses
             /\ \A k \in DOMAIN exp'.losses :
                   /\ exp'.losses[exp'.kept] <= exp'.losses[k]
                   /\ k < exp'.kept => exp'.losses[exp'.kept] < exp'.losses[k]
    <2>1. CASE better
        <3>1. exp'.kept = n /\ \A k \in DOMAIN exp.losses : loss < exp.losses[k]
            BY <1>1, <2>1
        <3> HIDE DEF n, better
        <3> QED
            BY <1>5, <3>1
    <2>2. CASE ~better
        <3>1. PICK i \in DOMAIN exp.losses : ~(loss < exp.losses[i])
            BY <1>8, <2>2
        <3>2. exp.losses # <<>>
            BY <3>1
        <3>3. /\ exp.kept \in DOMAIN exp.losses
              /\ \A k \in DOMAIN exp.losses :
                    /\ exp.losses[exp.kept] <= exp.losses[k]
                    /\ k < exp.kept => exp.losses[exp.kept] < exp.losses[k]
            BY <1>8, <3>2 DEF SeqInv, BestSoFar, BestEpochIsKept
        <3>4. exp'.kept = exp.kept
            BY <1>1, <2>2
        <3> HIDE DEF n, better
        <3>5. exp'.kept \in 1 .. n /\ exp'.losses[exp'.kept] = exp.losses[exp.kept]
              /\ exp'.kept < n /\ exp.losses[exp.kept] <= loss
            BY <1>5, <3>1, <3>3, <3>4
        <3>6. ASSUME NEW k \in 1 .. n
              PROVE  /\ exp'.losses[exp'.kept] <= exp'.losses[k]
                     /\ k < exp'.kept => exp'.losses[exp'.kept] < exp'.losses[k]
            <4>1. CASE k = n
                <5>1. exp'.losses[k] = loss /\ ~(k < exp'.kept)
                    BY <1>5, <3>5, <4>1
                <5> QED
                    BY <3>5, <5>1
            <4>2. CASE k # n
                <5>1. k \in DOMAIN exp.losses /\ exp'.losses[k] = exp.losses[k]
                    BY <1>5, <4>2
                <5>2. /\ exp.losses[exp.kept] <= exp.losses[k]
                      /\ k < exp.kept => exp.losses[exp.kept] < exp.losses[k]
                    BY <3>3, <5>1
                <5> QED
                    BY <3>4, <3>5, <5>1, <5>2
            <4> QED
                BY <4>1, <4>2
        <3> QED
            BY <1>5, <3>5, <3>6
    <2> QED
        BY <2>1, <2>2
<1>9. BestSoFar'
    <2>1. Ordered' = Ordered /\ ValIdx' = ValIdx
        BY <1>1, SameTable
    <2> QED
        BY <1>1, <1>5, <1>8, <2>1 DEF BestSoFar, BestEpochIsKept
<1> QED
    BY <1>6, <1>7, <1>9 DEF SeqInv

LEMMA TrainKeeps ==
    SeqInv /\ (TrainTransformer \/ TrainTransformerV2 \/ TrainCatcherTransformer \/ TrainTransformerV3)
      => SeqInv'
<1> SUFFICES ASSUME SeqInv, \/ TrainTransformer \/ TrainTransformerV2
                            \/ TrainCatcherTransformer \/ TrainTransformerV3
             PROVE  SeqInv'
    OBVIOUS
<1>1. exp.pc = "train" /\ UNCHANGED pitchLog
    BY DEF TrainTransformer, TrainTransformerV2, TrainCatcherTransformer, TrainTransformerV3
<1>2. ValLosses \subseteq Nat
    BY SequencesAssumption DEF SequencesAssumption, ValLosses
<1>3. CASE TrainTransformer
    <2>1. PICK loss \in ValLosses : AfterEpoch(ValIdx # <<>> /\ {exp.req.val} # exp.req.train, loss, {})
        BY <1>3 DEF TrainTransformer
    <2>2. Ordered => {exp.req.val} # exp.req.train
        <3>1. exp.req.val \in Int
            BY DEF SeqInv, SeqTypes
        <3> QED
            BY <3>1 DEF Ordered
    <2> QED
        BY <1>1, <1>2, <2>1, <2>2, EpochKeeps
<1>4. CASE TrainTransformerV2 \/ TrainCatcherTransformer
    <2>1. PICK loss \in ValLosses : AfterEpoch(TRUE, loss, {})
        BY <1>4 DEF TrainTransformerV2, TrainCatcherTransformer
    <2> QED
        BY <1>1, <1>2, <2>1, EpochKeeps
<1>5. CASE TrainTransformerV3
    <2>1. PICK weighted : \E loss \in ValLosses : AfterEpoch(TRUE, loss, weighted)
        BY <1>5 DEF TrainTransformerV3
    <2>2. PICK loss \in ValLosses : AfterEpoch(TRUE, loss, weighted)
        BY <2>1
    <2> QED
        BY <1>1, <1>2, <2>2, EpochKeeps
<1> QED
    BY <1>3, <1>4, <1>5

LEMMA FitKeeps == SeqInv /\ FitAndScore => SeqInv'
<1> SUFFICES ASSUME SeqInv, FitAndScore PROVE SeqInv'
    OBVIOUS
<1>1. exp.pc = "fit" /\ UNCHANGED pitchLog
    BY DEF FitAndScore
<1>2. CASE Stop
    BY <1>1, <1>2, StopKeeps
<1>3. CASE exp' = [exp EXCEPT !.pc = "scored"]
    <2>1. /\ DOMAIN exp' = ExpFields /\ exp'.pc = "scored" /\ exp'.req = exp.req
          /\ exp'.limit = exp.limit /\ exp'.year = exp.year /\ exp'.rows = exp.rows
          /\ exp'.losses = exp.losses /\ exp'.frame = exp.frame /\ exp'.full = exp.full
          /\ exp'.flat = exp.flat /\ exp'.start = exp.start /\ exp'.kept = exp.kept
        BY <1>3 DEF SeqInv, SeqTypes, ExpFields
    <2>2. SeqTypes' /\ Loaded'
        BY <1>1, <2>1 DEF SeqInv, SeqTypes, Loaded
    <2>3. Laid' /\ Numbered'
        BY <1>1, <2>1, SameTable DEF SeqInv, Laid, Numbered
    <2>4. BestSoFar'
        BY <1>1, <2>1, SameTable DEF SeqInv, BestSoFar, BestEpochIsKept
    <2> QED
        BY <2>2, <2>3, <2>4 DEF SeqInv
<1> QED
    BY <1>2, <1>3 DEF FitAndScore

LEMMA SeqIdles == SeqInv /\ UNCHANGED seqVars => SeqInv'
BY SameTable DEF seqVars, SeqInv, SeqTypes, Loaded, Laid, Numbered, BestSoFar, BestEpochIsKept

\* For any log and any split whose years follow each other: a score is of rows
\* made of the past, each beside its own embedding, and of the best epoch
\* (pitch_comparison).
THEOREM ScoresAreHonest == SeqSpec => []ScoreIsHonest
<1>1. SeqInit => SeqInv
    BY SeqStarts
<1>2. SeqInv /\ [SeqNext]_seqVars => SeqInv'
    BY StartKeeps, LoadKeeps, PrepareKeeps, IndexKeeps, TrainKeeps, FitKeeps, SeqIdles DEF SeqNext
<1>3. SeqInv => ScoreIsHonest
    BY SeqInvIsHonest
<1> QED
    BY <1>1, <1>2, <1>3, PTL DEF SeqSpec
=============================================================================
