--------------------------- MODULE PitchSequences --------------------------
(***************************************************************************)
(* The pitch-type experiments of pitch_comparison: the pitch log is loaded *)
(* year by year, split by season, and laid out as one table of training,   *)
(* validation and test rows; a transformer reads the SeqWindow pitches of  *)
(* the same pitcher before a row through an index of that table, and a     *)
(* booster is fitted on its embeddings beside the tabular features.        *)
(*                                                                         *)
(* A pitch is its place in the order of the query.  A feature stands for   *)
(* the pitches it is computed from, a weight for its exponent of decay, a  *)
(* loss for a small number.                                                *)
(***************************************************************************)
EXTENDS Integers, FiniteSets, SequencesExt

CONSTANTS SeasonOf, GameOf,       \* of the pitches, in the order of the query
          Logs,                   \* what else the log may say of them
          Requests,               \* spans and splits given on a command line
          Limits,                 \* --limit, noLimit without
          SeqWindow, BatchSize,     \* seq_window, transformer_batch_size
          MaxEpochs, Patience,    \* transformer_epochs, epochs without progress
          RookiePitches, EstablishedPitches, CareerPitches,  \* thresholds
          Losses

Pitches == DOMAIN SeasonOf
LogSeasons == {SeasonOf[i] : i \in Pitches}
noLimit == 0

\* The query orders the pitches by season, and DefaultRequest has a test season:
\* the one before the last, which is the holdout.
ASSUME SequencesAssumption ==
    /\ SeasonOf \in Seq(Nat) /\ GameOf \in [Pitches -> Nat]
    /\ \A i, j \in Pitches : i < j => SeasonOf[i] <= SeasonOf[j]
    /\ \E s \in LogSeasons : Cardinality({t \in LogSeasons : t > s}) = 1
    /\ \A log \in Logs : log.pitcher \in [Pitches -> Nat]
    /\ Requests \subseteq [from : Nat, to : Nat, train : SUBSET Nat, val : Nat, test : Nat]
    /\ {SeqWindow, BatchSize, MaxEpochs, Patience} \subseteq Nat \ {0}
    /\ Limits \subseteq Nat /\ Losses \subseteq Nat

\* A set of numbers in increasing order, and the rows of a table that are of P,
\* in the order of the table.
Arranged(S) ==
    [k \in 1 .. Cardinality(S) |-> CHOOSE x \in S : Cardinality({y \in S : y < x}) = k - 1]
RowsIn(rows, P) ==
    LET at == Arranged({p \in DOMAIN rows : rows[p] \in P}) IN [k \in DOMAIN at |-> rows[at[k]]]

VARIABLES
    pitchLog,   \* pitcher, type and whether the outcome is one of OUTCOME_CLASSES
    exp         \* the experiment: what was asked, where it is, what it holds

seqVars == <<pitchLog, exp>>

(***************************************************************************)
(* The drivers: the loader they call, the transformer they train, and the  *)
(* blocks their design matrix is stacked from.                             *)
(***************************************************************************)
CompareAll          == [loader |-> "base", model |-> "v1", streak |-> FALSE, blocks |-> {"embedding", "base"}]
CompareArsenal      == [loader |-> "base", model |-> "v1", streak |-> FALSE, blocks |-> {"embedding", "base", "arsenal"}]
PitchResearch       == [loader |-> "base", model |-> "v2", streak |-> FALSE, blocks |-> {"embedding", "base"}]
V3Experiment        == [loader |-> "base", model |-> "v3", streak |-> FALSE, blocks |-> {"embedding", "base"}]
EnrichedExperiment  == [loader |-> "enriched", model |-> "v2", streak |-> FALSE, blocks |-> {"embedding", "base", "context"}]
CombinedExperiment  == [loader |-> "enriched", model |-> "catcher", streak |-> FALSE, blocks |-> {"embedding", "base", "context"}]
CatcherExperiment   == [loader |-> "enriched", model |-> "catcher", streak |-> FALSE, blocks |-> {"embedding"}]
FinalExperiments    == [loader |-> "enriched", model |-> "catcher", streak |-> TRUE,
                        blocks |-> {"embedding", "base", "context", "streak", "prototype"}]

\* The years of ExperimentConfig: every season but the last two trains; the
\* season after the test season is the holdout.
DefaultRequest ==
    LET test == CHOOSE s \in LogSeasons : Cardinality({t \in LogSeasons : t > s}) = 1 IN
    [from |-> 1, to |-> test, train |-> 1 .. test - 2, val |-> test - 1, test |-> test]

\* Two drivers take the span, and one of them the split, from the command line.
SplitAsked(r) == [r EXCEPT !.train = IF @ # {} THEN @ ELSE (r.from .. r.to) \ {r.val, r.test}]
SpanAsked(r)  == [r EXCEPT !.train = (r.from .. r.to) \ {DefaultRequest.val, DefaultRequest.test},
                           !.val = DefaultRequest.val, !.test = DefaultRequest.test]

SeqInit ==
    /\ pitchLog \in Logs
    /\ exp = [pc |-> "idle", driver |-> CompareAll, req |-> DefaultRequest, limit |-> noLimit,
              year |-> 0, rows |-> <<>>, frame |-> <<>>, full |-> <<>>, flat |-> <<>>, start |-> <<>>,
              losses |-> <<>>, kept |-> 0, waited |-> 0, weighted |-> {}]

Asks(driver, req) ==
    \E limit \in Limits :
        exp' = [exp EXCEPT !.pc = "load", !.driver = driver, !.req = req, !.limit = limit, !.year = req.from]

StartExperiment ==
    /\ exp.pc = "idle"
    /\ \/ \E r \in Requests : Asks(CompareAll, SplitAsked(r)) \/ Asks(CompareArsenal, SpanAsked(r))
       \/ \E driver \in {PitchResearch, V3Experiment, EnrichedExperiment, CombinedExperiment,
                         CatcherExperiment, FinalExperiments} : Asks(driver, DefaultRequest)
    /\ UNCHANGED pitchLog

Stop == exp' = [exp EXCEPT !.pc = "stopped"]

(***************************************************************************)
(* Loading: year by year, the limit taken off what is still wanted.        *)
(***************************************************************************)
YearQuery(year, limit) ==
    LET rows == Arranged({i \in Pitches : SeasonOf[i] = year}) IN
    IF limit = noLimit \/ Len(rows) <= limit THEN rows ELSE SubSeq(rows, 1, limit)
EnrichedYearQuery(year, limit) == YearQuery(year, limit)

Remaining == IF exp.limit = noLimit THEN noLimit ELSE exp.limit - Len(exp.rows)

LoadNextYear(queried) ==
    exp' = IF exp.year > exp.req.to \/ (exp.limit # noLimit /\ Remaining <= 0)
           THEN [exp EXCEPT !.pc = "prepare"]
           ELSE [exp EXCEPT !.year = @ + 1, !.rows = @ \o queried]

LoadPitchData ==
    /\ exp.pc = "load" /\ exp.driver.loader = "base"
    /\ LoadNextYear(YearQuery(exp.year, Remaining))
    /\ UNCHANGED pitchLog

LoadEnrichedData ==
    /\ exp.pc = "load" /\ exp.driver.loader = "enriched"
    /\ LoadNextYear(EnrichedYearQuery(exp.year, Remaining))
    /\ UNCHANGED pitchLog

(***************************************************************************)
(* The splits.  A frame is a sequence of pitches; the rows of a split are  *)
(* those whose season is in its years.                                     *)
(***************************************************************************)
OfYears(rows, years) == RowsIn(rows, {i \in Pitches : SeasonOf[i] \in years})
TrainRows == OfYears(exp.frame, exp.req.train)
ValRows   == OfYears(exp.frame, {exp.req.val})
TestRows  == OfYears(exp.frame, {exp.req.test})

MapOutcomes(rows) == RowsIn(rows, {i \in Pitches : pitchLog.known[i]})

\* Without a test row a driver says so and ends; without a training row the
\* means that fill the gaps are not numbers and the fit fails.
Prepare(rows) ==
    LET frame == MapOutcomes(rows)
        train == OfYears(frame, exp.req.train)
        test  == OfYears(frame, {exp.req.test}) IN
    IF train = <<>> \/ test = <<>> THEN Stop
    ELSE exp' = [exp EXCEPT !.pc = "index", !.frame = frame,
                            !.full = train \o OfYears(frame, {exp.req.val}) \o test]

PrepareDatasets ==
    /\ exp.pc = "prepare" /\ exp.driver.loader = "base"
    /\ Prepare(exp.rows)
    /\ UNCHANGED pitchLog

PrepareEnrichedDatasets ==
    /\ exp.pc = "prepare" /\ exp.driver.loader = "enriched"
    /\ Prepare(exp.rows)
    /\ UNCHANGED pitchLog

SamePitcher(i, j) == pitchLog.pitcher[i] = pitchLog.pitcher[j]
SameGame(i, j)    == SamePitcher(i, j) /\ GameOf[i] = GameOf[j]

(***************************************************************************)
(* _add_streak_features: shifts and running sums within (pitcher, game),   *)
(* in the order of the frame.                                              *)
(***************************************************************************)
none == 0

\* groupby(...).shift(1): the row before, of the same pitcher and game.
Shifted(rows, p) ==
    LET before == {q \in 1 .. p - 1 : SameGame(rows[p], rows[q])} IN
    IF before = {} THEN none ELSE Max(before)

IsNewRun(rows, p) ==
    LET q == Shifted(rows, p) IN q = none \/ pitchLog.type[rows[p]] # pitchLog.type[rows[q]]

UpTo(rows, p)    == {q \in 1 .. p : SameGame(rows[p], rows[q])}
BlockId(rows, p) == Cardinality({q \in UpTo(rows, p) : IsNewRun(rows, q)})
RunLength(rows, p) == Cardinality({q \in UpTo(rows, p) : BlockId(rows, q) = BlockId(rows, p)})

\* repeat_pitch_type: the run that ended on the pitch before.
Repeat(rows, p) == LET q == Shifted(rows, p) IN IF q = none THEN 0 ELSE RunLength(rows, q)

(***************************************************************************)
(* Statistics: each stands for the pitches it is computed from.            *)
(***************************************************************************)
TrainMask == Range(TrainRows)

\* Of a pitcher the training rows do not know, the mean of all of them.
CareerStats(i) ==
    LET own == {j \in TrainMask : SamePitcher(i, j)} IN IF own = {} THEN TrainMask ELSE own
Biomech(i) == CareerStats(i)

\* Below the minimum a pitcher has no profile, and the global mix is the prior.
ArsenalStats(i) ==
    LET own == {j \in TrainMask : SamePitcher(i, j)} IN
    IF Cardinality(own) < CareerPitches THEN {} ELSE own
ArsenalFeatures(i) == IF ArsenalStats(i) = {} THEN TrainMask ELSE ArsenalStats(i)

\* The archetypes, from the pitchers with enough training rows.
PrototypeClusters ==
    {j \in TrainMask : Cardinality({k \in TrainMask : SamePitcher(j, k)}) >= EstablishedPitches}

StatisticsOf(i) ==
    (IF "base" \in exp.driver.blocks THEN CareerStats(i) ELSE {})
      \union (IF "context" \in exp.driver.blocks THEN Biomech(i) ELSE {})
      \union (IF "arsenal" \in exp.driver.blocks THEN ArsenalFeatures(i) ELSE {})
      \union (IF "prototype" \in exp.driver.blocks THEN PrototypeClusters ELSE {})

(***************************************************************************)
(* The index: the rows of the whole table, pitcher by pitcher.  Positions  *)
(* count from 1, offsets from 0.                                           *)
(***************************************************************************)
StartOf(rows) ==
    [a \in {pitchLog.pitcher[i] : i \in Range(rows)} |->
        Cardinality({p \in DOMAIN rows : pitchLog.pitcher[rows[p]] < a})]
RowToPos(rows, p) == Cardinality({q \in 1 .. p - 1 : SamePitcher(rows[q], rows[p])})

\* The k-th row of a pitcher is written k places after the pitcher's start.
Slot(rows, p) == StartOf(rows)[pitchLog.pitcher[rows[p]]] + RowToPos(rows, p)
FlatIndices(rows) == [n \in DOMAIN rows |-> CHOOSE p \in DOMAIN rows : Slot(rows, p) = n - 1]

Indexed == exp' = [exp EXCEPT !.pc = "train", !.flat = FlatIndices(exp.full), !.start = StartOf(exp.full)]

BuildIndex ==
    /\ exp.pc = "index" /\ exp.driver.model # "v3"
    /\ Indexed
    /\ UNCHANGED pitchLog

BuildEnrichedIndex ==
    /\ exp.pc = "index" /\ exp.driver.model = "v3"
    /\ Indexed
    /\ UNCHANGED pitchLog

\* A fault for the mutants: the window ends on the row itself.
SequenceRowsThrough(p) ==
    LET start == exp.start[pitchLog.pitcher[exp.full[p]]]
        pos   == RowToPos(exp.full, p) IN
    SubSeq(exp.flat, start + Max({0, pos - SeqWindow}) + 1, start + pos + 1)

\* get_sequence_rows: up to SeqWindow rows before this one.
SequenceRows(p) ==
    LET start == exp.start[pitchLog.pitcher[exp.full[p]]]
        pos   == RowToPos(exp.full, p) IN
    SubSeq(exp.flat, start + Max({0, pos - SeqWindow}) + 1, start + pos)

\* The live features of TransformerV3: the pitches of the window thrown in this game.
LiveGameRows(p) == {i \in {exp.full[q] : q \in Range(SequenceRows(p))} : GameOf[i] = GameOf[exp.full[p]]}

\* Rookies: how many rows of the pitcher come before, and which rows the
\* expanding means are of: the running sum less the row itself.
CumPitchCount(p) == Cardinality({q \in 1 .. p - 1 : SamePitcher(exp.full[q], exp.full[p])})
PriorRows(p) == {q \in 1 .. p : SamePitcher(exp.full[q], exp.full[p])} \ {p}
IsRookie(p)  == CumPitchCount(p) < RookiePitches
ProfileOf(p) == {exp.full[q] : q \in PriorRows(p)}

(***************************************************************************)
(* Training.  The loader shuffles the training rows every epoch and cuts   *)
(* them into batches; the epoch with the best validation loss is kept.     *)
(***************************************************************************)
Positions(years) == Arranged({p \in DOMAIN exp.full : SeasonOf[exp.full[p]] \in years})
TrainIdx == Positions(exp.req.train)
ValIdx   == Positions({exp.req.val})
TestIdx  == Positions({exp.req.test})

\* _compute_temporal_weights, in the order of the table: decay ** years ago.
TemporalWeights ==
    LET newest == Max({SeasonOf[exp.full[p]] : p \in Range(TrainIdx)}) IN
    [k \in DOMAIN TrainIdx |-> SeasonOf[exp.full[TrainIdx[k]]] - newest]

\* Batch b of an order takes the weights from b * transformer_batch_size on.
WeightsApplied(order) ==
    {LET b == (k - 1) \div BatchSize
         inBatch == (k - 1) % BatchSize IN
     <<exp.full[TrainIdx[order[k]]], TemporalWeights[b * BatchSize + inBatch + 1]>> : k \in DOMAIN order}

\* One epoch of the loop all trainers share: patience counts epochs without a
\* better loss.  Without any better one the weights of the last epoch stay.
AfterEpoch(hasVal, loss, weighted) ==
    LET n      == Len(exp.losses) + 1
        better == hasVal /\ \A k \in DOMAIN exp.losses : loss < exp.losses[k]
        waited == IF better THEN 0 ELSE exp.waited + 1 IN
    exp' = [exp EXCEPT !.losses = Append(@, loss), !.waited = waited, !.weighted = @ \union weighted,
                       !.kept = IF better THEN n ELSE @,
                       !.pc = IF n = MaxEpochs \/ (hasVal /\ waited >= Patience) THEN "fit" ELSE @]

\* A sum over no batches is 0.
ValLosses == IF ValIdx = <<>> THEN {0} ELSE Losses

TrainTransformer ==
    /\ exp.pc = "train" /\ exp.driver.model = "v1"
    /\ \E loss \in ValLosses : AfterEpoch(ValIdx # <<>> /\ {exp.req.val} # exp.req.train, loss, {})
    /\ UNCHANGED pitchLog

TrainTransformerV2 ==
    /\ exp.pc = "train" /\ exp.driver.model = "v2"
    /\ \E loss \in ValLosses : AfterEpoch(TRUE, loss, {})
    /\ UNCHANGED pitchLog

TrainCatcherTransformer ==
    /\ exp.pc = "train" /\ exp.driver.model = "catcher"
    /\ \E loss \in ValLosses : AfterEpoch(TRUE, loss, {})
    /\ UNCHANGED pitchLog

TrainTransformerV3 ==
    /\ exp.pc = "train" /\ exp.driver.model = "v3"
    /\ \E loss \in ValLosses, order \in SetToSeqs(DOMAIN TrainIdx) :
          AfterEpoch(TRUE, loss, WeightsApplied(order))
    /\ UNCHANGED pitchLog

(***************************************************************************)
(* Stacking.  The embeddings of a split are extracted at its positions in  *)
(* the whole table, and set beside the rows of its own frame.              *)
(***************************************************************************)
Embeddings(idx) == [k \in DOMAIN idx |-> exp.full[idx[k]]]
Designs == {<<Embeddings(TrainIdx), TrainRows>>, <<Embeddings(ValIdx), ValRows>>,
            <<Embeddings(TestIdx), TestRows>>}

\* hstack wants as many rows on both sides, and a booster a validation row.
FitAndScore ==
    /\ exp.pc = "fit"
    /\ IF (\E d \in Designs : Len(d[1]) # Len(d[2])) \/ (ValIdx = <<>> /\ "base" \in exp.driver.blocks)
       THEN Stop
       ELSE exp' = [exp EXCEPT !.pc = "scored"]
    /\ UNCHANGED pitchLog

SeqNext ==
    \/ StartExperiment
    \/ LoadPitchData
    \/ LoadEnrichedData
    \/ PrepareDatasets
    \/ PrepareEnrichedDatasets
    \/ BuildIndex
    \/ BuildEnrichedIndex
    \/ TrainTransformer
    \/ TrainTransformerV2
    \/ TrainCatcherTransformer
    \/ TrainTransformerV3
    \/ FitAndScore

SeqSpec == SeqInit /\ [][SeqNext]_seqVars

(***************************************************************************)
(* Properties.                                                             *)
(***************************************************************************)
Earlier(p) == {i \in Range(exp.full) : i < exp.full[p] /\ SamePitcher(i, exp.full[p])}

WindowsArePast ==
    \A p \in DOMAIN exp.full :
        LET seen == {exp.full[q] : q \in Range(SequenceRows(p))} IN
        /\ seen \subseteq Earlier(p)
        /\ Cardinality(seen) = Min({SeqWindow, Cardinality(Earlier(p))})
        /\ \A i \in seen, j \in Earlier(p) \ seen : j < i
        /\ LiveGameRows(p) \subseteq Earlier(p)

StreaksArePast ==
    exp.driver.streak =>
        \A p \in DOMAIN exp.frame :
            LET before == {q \in 1 .. p - 1 : SameGame(exp.frame[q], exp.frame[p])}
                typeAt(q) == pitchLog.type[exp.frame[q]] IN
            Repeat(exp.frame, p) =
                Cardinality({q \in before : \A r \in before : r > q => typeAt(r) = typeAt(q)})

ProfilesArePast ==
    \A p \in DOMAIN exp.full :
        ProfileOf(p) = Earlier(p) /\ (IsRookie(p) <=> Cardinality(Earlier(p)) < RookiePitches)

BestEpochIsKept ==
    ValIdx # <<>> =>
        /\ exp.kept \in DOMAIN exp.losses
        /\ \A k \in DOMAIN exp.losses :
              exp.losses[exp.kept] <= exp.losses[k] /\ (k < exp.kept => exp.losses[exp.kept] < exp.losses[k])

\* A score is of a design in which every row is made of the past: the window,
\* the streak and the profile of a row are exactly the pitches the pitcher had
\* thrown before it, the statistics are of training seasons, the embedding set
\* beside a row is its own, and the model is of its best epoch.  Stated for
\* splits whose training seasons come before the validation season and that
\* before the test season, which two drivers leave to the command line.
ScoreIsHonest ==
    exp.pc = "scored" /\ (\A s \in exp.req.train : s < exp.req.val) /\ exp.req.val < exp.req.test =>
        /\ WindowsArePast /\ StreaksArePast /\ ProfilesArePast
        /\ \A i \in Range(exp.full) : \A j \in StatisticsOf(i) : SeasonOf[j] < exp.req.val
        /\ \A d \in Designs : d[1] = d[2]
        /\ BestEpochIsKept

\* "Temporal sample weighting (recent seasons weighted higher)": of the weights
\* TransformerV3 has applied, a pitch of a later season has the higher one.
RecentSeasonsWeighHigher ==
    \A w, x \in exp.weighted : SeasonOf[w[1]] < SeasonOf[x[1]] => w[2] < x[2]
=============================================================================
