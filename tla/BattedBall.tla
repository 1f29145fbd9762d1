----------------------------- MODULE BattedBall ----------------------------
(***************************************************************************)
(* The batted-ball trainers and the loaders they read the labels with,     *)
(* beside a pipeline that writes them and a table that is corrected.       *)
(* load_arrays counts season by season, allocates, and then queries season *)
(* by season; the LightGBM loader pages through one park with LIMIT and    *)
(* OFFSET; each trainer loads its training rows and then its validation    *)
(* rows, from whatever is in the table at that moment.                     *)
(*                                                                         *)
(* One park stands for each: the trainers of one model per park do the     *)
(* same for one park after the other.                                      *)
(***************************************************************************)
EXTENDS Retrodict, Sequences

CONSTANTS ChunkRows,           \* chunk_rows of the LightGBM loader
          MaxTrainings         \* bound

Seasons == {Season[b] : b \in Balls}
noSeason == 0                  \* no --val-season
zeroRow == 0                   \* a row of the allocated array never written

ASSUME BattedBallAssumption == ChunkRows \in Nat \ {0} /\ MaxTrainings \in Nat

\* The retrain of battedball_outcome and the command line of the same
\* network; one network per park; one LightGBM per park, one for all parks,
\* and the pooled regression.
Kinds == {"outcome", "mlp", "mlp_park", "lgbm_park", "lgbm", "lr"}
BySeason == {"outcome", "mlp"}
Counted  == BySeason \union {"mlp_park"}      \* count, allocate, fill
Paged    == {"lgbm_park", "lr"}

VARIABLES
    job,        \* the trainer: what it was asked, where it is, what it loaded
    trainings,  \* trainers started, for the bound
    candidate   \* the last model: what it was fitted and calibrated on

trainVars == <<job, trainings, candidate>>

jobIdle == [pc |-> "idle", kind |-> "outcome", first |-> 0, last |-> 0, val |-> noSeason,
            slice |-> "train", season |-> 0, counted |-> 0, offset |-> 0, rows |-> <<>>,
            train |-> <<>>, expect |-> {}, stirred |-> FALSE]
noCandidate == [kind |-> "none", rows |-> <<>>, val |-> <<>>, scaled |-> {}, calibrated |-> {},
                expect |-> {}, stirred |-> FALSE]

TrainInit == job = jobIdle /\ trainings = 0 /\ candidate = noCandidate

(***************************************************************************)
(* What a query joins: a measured ball in play, whatever it was scored,    *)
(* with its labels.  Every loader has a query of its own.                  *)
(***************************************************************************)
Joined(seasons) ==
    {b \in Balls : event[b] # "absent" /\ labels[b] # noLabel /\ Season[b] \in seasons}

InOrder(S) == [i \in 1 .. Cardinality(S) |-> CHOOSE b \in S : RankIn(b, S) = i - 1]

QueryJoined(season)          == InOrder(Joined({season}))
QueryCount(season)           == Cardinality(Joined({season}))
QueryParkBips(first, last)   == InOrder(Joined(first .. last))
QueryParkCount(first, last)  == Cardinality(Joined(first .. last))
QueryJoinedForLgbm(first, last) == InOrder(Joined(first .. last))
QueryParkBipsJson(first, last, limit, offset) ==
    LET all == InOrder(Joined(first .. last)) IN
    SubSeq(all, offset + 1, IF offset + limit < Len(all) THEN offset + limit ELSE Len(all))

SeasonsOf(rows) == {Season[rows[i]] : i \in {j \in DOMAIN rows : rows[j] # zeroRow}}

(***************************************************************************)
(* Starting a trainer.                                                     *)
(***************************************************************************)
\* refuse_holdout, of all of them; the table here ends before the holdout.
\* retrain_battedball_outcome takes the validation season out of the range;
\* the regression has to have one, the others take it or leave it.
SplitAccepted(kind, first, last, val) ==
    /\ first <= last
    /\ kind = "outcome" => first < val /\ val <= last
    /\ kind = "lr" => val # noSeason

\* A fault for the mutants: the validation season is trained on too.
TrainLastAsked(kind, last, val) == last

\* The seasons of the training rows: up to the validation season in the
\* retrain, as they were asked for in the rest.
TrainLast(kind, last, val) == IF kind = "outcome" THEN val - 1 ELSE last

FirstPc(kind) == IF kind \in Counted THEN "count" ELSE IF kind \in Paged THEN "page" ELSE "query"

StartTraining(kind, first, last, val) ==
    /\ job.pc = "idle" /\ trainings < MaxTrainings
    /\ SplitAccepted(kind, first, last, val)
    /\ trainings' = trainings + 1
    /\ job' = [jobIdle EXCEPT !.pc = FirstPc(kind), !.kind = kind, !.first = first,
                              !.last = TrainLast(kind, last, val), !.val = val, !.season = first,
                              !.expect = Joined(first .. TrainLast(kind, last, val))]
    /\ UNCHANGED candidate

Fail == job' = jobIdle

\* A frame is complete: the validation rows are next, or the fit.
SliceLoaded(rows) ==
    CASE job.slice = "train" /\ rows = <<>> -> Fail
      [] job.slice = "train" /\ rows # <<>> /\ job.val # noSeason ->
            job' = [job EXCEPT !.pc = FirstPc(job.kind), !.slice = "val", !.first = job.val,
                               !.last = job.val, !.season = job.val, !.counted = 0,
                               !.offset = 0, !.rows = <<>>, !.train = rows]
      [] job.slice = "train" /\ rows # <<>> /\ job.val = noSeason ->
            job' = [job EXCEPT !.pc = "fit", !.rows = <<>>, !.train = rows]
      [] OTHER -> job' = [job EXCEPT !.pc = "fit", !.rows = rows]

(***************************************************************************)
(* load_arrays, season by season.                                          *)
(***************************************************************************)
NextSeason(pc) ==
    IF job.season < job.last THEN [job EXCEPT !.season = @ + 1]
    ELSE [job EXCEPT !.pc = pc, !.season = job.first]

CountSeason ==
    /\ job.pc = "count" /\ job.kind \in BySeason
    /\ job' = [NextSeason("load") EXCEPT !.counted = @ + QueryCount(job.season)]
    /\ UNCHANGED <<trainings, candidate>>

\* A fault for the mutants: the rows allocated and never written stay.
TrimmedNever(rows) == rows \o [i \in 1 .. job.counted - Len(rows) |-> zeroRow]

\* Fewer rows than counted: the arrays are cut to what was written.
Trimmed(rows) == SubSeq(rows, 1, Len(rows))

\* More rows than were counted do not fit the arrays: IndexError.
LoadSeason ==
    /\ job.pc = "load" /\ job.kind \in BySeason
    /\ LET rows == job.rows \o QueryJoined(job.season) IN
         CASE Len(rows) > job.counted -> Fail
           [] Len(rows) <= job.counted /\ job.season < job.last ->
                job' = [job EXCEPT !.rows = rows, !.season = @ + 1]
           [] OTHER -> SliceLoaded(Trimmed(rows))
    /\ UNCHANGED <<trainings, candidate>>

(***************************************************************************)
(* load_park_arrays, load_park_lgbm_dataset and load_lgbm_dataset, which   *)
(* ask for all the seasons of a park at once.                              *)
(***************************************************************************)
CountPark ==
    /\ job.pc = "count" /\ job.kind = "mlp_park"
    /\ job' = [job EXCEPT !.pc = "load", !.counted = QueryParkCount(job.first, job.last)]
    /\ UNCHANGED <<trainings, candidate>>

LoadParkArrays ==
    /\ job.pc = "load" /\ job.kind = "mlp_park"
    /\ LET rows == QueryParkBips(job.first, job.last) IN
         IF Len(rows) > job.counted THEN Fail ELSE SliceLoaded(Trimmed(rows))
    /\ UNCHANGED <<trainings, candidate>>

NextOffset(n) == job.offset + n

LoadParkPage ==
    /\ job.pc = "page"
    /\ LET page == QueryParkBipsJson(job.first, job.last, ChunkRows, job.offset)
           rows == job.rows \o page IN
         IF Len(page) < ChunkRows THEN SliceLoaded(rows)
         ELSE job' = [job EXCEPT !.rows = rows, !.offset = NextOffset(Len(page))]
    /\ UNCHANGED <<trainings, candidate>>

LoadLgbmDataset ==
    /\ job.pc = "query"
    /\ SliceLoaded(QueryJoinedForLgbm(job.first, job.last))
    /\ UNCHANGED <<trainings, candidate>>

(***************************************************************************)
(* Fitting.  A fit is the seasons its scaler and its calibrator saw, or    *)
(* fails.                                                                  *)
(***************************************************************************)
failed == [scaled |-> {}, calibrated |-> {}, ok |-> FALSE]

\* FeatureScaler.fit, on the training rows.
ScalerFit(rows) == SeasonsOf(rows)

\* fit_per_park_calibrators needs two rows.
CalibratorsFit(rows) == IF Len(rows) >= 2 THEN SeasonsOf(rows) ELSE {}

FitOutcome ==
    IF CalibratorsFit(job.rows) = {} THEN failed
    ELSE [scaled |-> ScalerFit(job.train), calibrated |-> CalibratorsFit(job.rows), ok |-> TRUE]

\* The command lines of the networks write no calibrator.
FitNetwork     == [scaled |-> ScalerFit(job.train), calibrated |-> {}, ok |-> TRUE]
FitParkNetwork == [scaled |-> ScalerFit(job.train), calibrated |-> {}, ok |-> TRUE]

\* A LightGBM is calibrated on its validation rows or, without any, on the
\* rows it was fitted on; of one park or of all.
FitParkLightGBM ==
    [scaled |-> {}, ok |-> TRUE,
     calibrated |-> IF job.rows # <<>> THEN SeasonsOf(job.rows) ELSE SeasonsOf(job.train)]
FitLightGBM == FitParkLightGBM

\* The regression: no rows in either slice is an error.
FitRegression ==
    IF job.rows = <<>> THEN failed
    ELSE [scaled |-> ScalerFit(job.train), calibrated |-> SeasonsOf(job.rows), ok |-> TRUE]

Fitted ==
    CASE job.kind = "outcome"   -> FitOutcome
      [] job.kind = "mlp"       -> FitNetwork
      [] job.kind = "mlp_park"  -> FitParkNetwork
      [] job.kind = "lgbm_park" -> FitParkLightGBM
      [] job.kind = "lgbm"      -> FitLightGBM
      [] OTHER                  -> FitRegression

Fit ==
    /\ job.pc = "fit"
    /\ IF Fitted.ok
       THEN candidate' = [kind |-> job.kind, rows |-> job.train, val |-> job.rows,
                          scaled |-> Fitted.scaled, calibrated |-> Fitted.calibrated,
                          expect |-> job.expect, stirred |-> job.stirred]
       ELSE UNCHANGED candidate
    /\ job' = jobIdle
    /\ UNCHANGED trainings

KillTraining ==
    /\ job.pc # "idle"
    /\ job' = jobIdle
    /\ UNCHANGED <<trainings, candidate>>

TrainNext ==
    \/ \E kind \in Kinds, first, last \in Seasons, val \in Seasons \union {noSeason} :
          StartTraining(kind, first, last, val)
    \/ CountSeason
    \/ LoadSeason
    \/ CountPark
    \/ LoadParkArrays
    \/ LoadParkPage
    \/ LoadLgbmDataset
    \/ Fit
    \/ KillTraining

\* What happens to the tables while a trainer reads them.
Outside ==
    /\ TableNext \/ PipelineNext
    /\ job' = [job EXCEPT !.stirred = @ \/ (job.pc # "idle" /\ Joined(Seasons)' # Joined(Seasons))]
    /\ UNCHANGED <<trainings, candidate>>

BattedBallInit == RetroInit /\ TrainInit
BattedBallNext == Outside \/ (TrainNext /\ UNCHANGED retroVars)
BattedBallSpec == BattedBallInit /\ [][BattedBallNext]_<<retroVars, trainVars>>

(***************************************************************************)
(* Properties.                                                             *)
(***************************************************************************)
Twice(rows) == \E i, j \in DOMAIN rows : i # j /\ rows[i] = rows[j]

\* Count, load and page are separate queries of tables that change.  No model
\* is fitted or calibrated on a row that was allocated and never written, nor,
\* unless it pages, on a ball twice; and if the joined tables did not change
\* while it loaded, it has each ball of its seasons exactly once.
FramesAreExact ==
    LET c == candidate IN
    /\ \A rows \in {c.rows, c.val} :
          /\ \A i \in DOMAIN rows : rows[i] # zeroRow
          /\ c.kind \notin Paged => ~Twice(rows)
    /\ ~c.stirred => {c.rows[i] : i \in DOMAIN c.rows} = c.expect /\ ~Twice(c.rows)

\* A candidate the retraining worker may register for battedball_outcome is
\* calibrated, on seasons after every season it was fitted and scaled on.
CandidateIsHonest ==
    candidate.kind = "outcome" =>
        /\ Len(candidate.val) >= 2
        /\ \A s \in SeasonsOf(candidate.rows) \union candidate.scaled,
              c \in candidate.calibrated : s < c
=============================================================================
