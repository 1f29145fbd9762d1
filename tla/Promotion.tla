----------------------------- MODULE Promotion -----------------------------
(***************************************************************************)
(* The evidence for a promotion.  Seasons of labelled rows are exported    *)
(* to one file each, or a sample of them is generated; an evaluator loads  *)
(* a training, a validation and a test season, from the files or from the  *)
(* tables, fits the challenger and the baseline, measures both and writes  *)
(* an artifact with a verdict.  The registry imports an artifact after     *)
(* deriving again the part of the verdict that its numbers allow.  Tables  *)
(* are rewritten and files replaced while an evaluator runs.               *)
(*                                                                         *)
(* A behaviour is about one family of models.  A measure is a small number *)
(* for each metric, lower being better; what a fit measures is any value.  *)
(***************************************************************************)
EXTENDS Integers, Sequences

CONSTANTS EvaluatedFamilies,          \* the evaluators looked at
          Brier, Loss, Ece,  \* what a measure can be, of each metric
          Bar,               \* the absolute bar on the calibration error
          SampleSizeTarget,  \* sample_size_target
          MaxRelabels, MaxEvaluations, MaxFittings  \* bounds

Driver == {"pre", "post", "lr", "mlp"}       \* promotion/driver.py
Boxed  == {"faithful", "carry", "v3"}        \* straight from the tables
Bundled == {"pitch_type"}                    \* from two trained bundles

ASSUME PromotionAssumption ==
    /\ EvaluatedFamilies \subseteq Driver \union Boxed \union Bundled
    /\ Brier \subseteq Nat /\ Loss \subseteq Nat /\ Ece \subseteq Nat
    /\ Bar \in Nat \ {0} /\ SampleSizeTarget \in Nat \ {0}
    /\ MaxRelabels \in Nat /\ MaxEvaluations \in Nat /\ MaxFittings \in Nat

\* The three slices of the final fold.
Train == 1
Val == 2
Test == 3
Slices == 1 .. 3
BundleHeads == {"challenger", "baseline"}

VARIABLES
    evaluated,  \* the family
    labels,     \* the tables: [Slices -> rows], a version of them and how many
    relabels,   \* rewrites of the tables, for the bound
    files,      \* year=*.parquet under the root
    dirMade,    \* the directory of the dataset exists
    mirror,   \* export_batted_ball_full: [pc, slice]
    eval,       \* an evaluator: [pc, label, step, got]
    evals,      \* evaluators started, for the bound
    bundle,     \* of each head: metrics.json and metadata.json
    fitting,    \* the training of a bundle: [pc, head, cv, test]
    fittings,   \* such trainings, for the bound
    artifact    \* the last one written

evidence == <<eval, evals, artifact>>
promoVars == <<evaluated, labels, relabels, files, dirMade, mirror, evidence,
               bundle, fitting, fittings>>

absent == [gen |-> 0, rows |-> 0, real |-> FALSE]
noSlots == [challenger |-> absent, baseline |-> absent, val |-> absent, carry |-> absent,
            challengerTest |-> absent, baselineTest |-> absent]
evalIdle == [pc |-> "idle", label |-> "sample", step |-> 0, got |-> noSlots]
noMetrics == [brier |-> 0, loss |-> 0, ece |-> 0]
noBundle == [test |-> absent, score |-> noMetrics, hash |-> absent]
noArtifact == [name |-> "none", status |-> "failed"]
mirrorIdle == [pc |-> "idle", slice |-> Train]
fittingIdle == [pc |-> "idle", head |-> "baseline", cv |-> absent, test |-> absent]

PromoInit ==
    /\ evaluated \in EvaluatedFamilies
    /\ labels = [s \in Slices |-> [gen |-> 1, rows |-> SampleSizeTarget, real |-> TRUE]]
    /\ relabels = 0 /\ files = [s \in Slices |-> absent] /\ dirMade = FALSE
    /\ mirror = mirrorIdle /\ eval = evalIdle /\ evals = 0
    /\ bundle = [h \in BundleHeads |-> noBundle] /\ fitting = fittingIdle /\ fittings = 0
    /\ artifact = noArtifact

(***************************************************************************)
(* What is declared before anything is measured.                           *)
(***************************************************************************)
\* PromotionCriteria: the primary metric, the margin asked for, what a
\* guardrail may lose, and whether the absolute bar applies.  A margin below
\* zero asks only that the challenger is not much worse.
DeclaredCriteria(primary, threshold, maxDelta, bar) ==
    [primary |-> primary, threshold |-> threshold, maxDelta |-> maxDelta, bar |-> bar]

Criteria ==
    [pre        |-> DeclaredCriteria("ece", -Bar, 0, TRUE),
     post       |-> DeclaredCriteria("brier", 1, 1, TRUE),
     pitch_type |-> DeclaredCriteria("ece", -Bar, 0, TRUE),
     lr         |-> DeclaredCriteria("brier", 1, 0, TRUE),
     mlp        |-> DeclaredCriteria("brier", 1, 1, TRUE),
     faithful   |-> DeclaredCriteria("brier", 1, 1, TRUE),
     carry      |-> DeclaredCriteria("brier", -1, 1, FALSE),
     v3         |-> DeclaredCriteria("brier", -1, 1, FALSE)]

\* The guardrails are on the log loss and on one of the others.
Guards == [f \in Driver \union Boxed \union Bundled |->
             CASE f = "pre" -> {"brier", "loss"}
               [] f \in {"lr", "pitch_type"} -> {"loss"}
               [] OTHER -> {"loss", "ece"}]

\* The families whose test rows carry the distribution of the simulator.
WithRetro == {"mlp", "faithful"}

(***************************************************************************)
(* The tables and the files.                                               *)
(***************************************************************************)
\* The pipeline labels the season again, and may gain or lose rows.
Relabel(s, n) ==
    /\ relabels < MaxRelabels
    /\ relabels' = relabels + 1
    /\ labels' = [labels EXCEPT ![s] = [gen |-> labels[s].gen + 1, rows |-> n, real |-> TRUE]]
    /\ UNCHANGED <<evaluated, files, dirMade, mirror, evidence, bundle, fitting, fittings>>

StartMirror ==
    /\ evaluated = "mlp" /\ mirror.pc = "idle"
    /\ mirror' = [pc |-> "export", slice |-> Train]
    /\ dirMade' = TRUE
    /\ UNCHANGED <<evaluated, labels, relabels, files, evidence, bundle, fitting, fittings>>

\* build_year_query and rows_to_frame: a season to its file.
MirrorSlice ==
    /\ mirror.pc = "export"
    /\ files' = [files EXCEPT ![mirror.slice] = labels[mirror.slice]]
    /\ mirror' = IF mirror.slice = Test THEN mirrorIdle
                   ELSE [mirror EXCEPT !.slice = @ + 1]
    /\ UNCHANGED <<evaluated, labels, relabels, dirMade, evidence, bundle, fitting, fittings>>

KillMirror ==
    /\ mirror.pc # "idle"
    /\ mirror' = mirrorIdle
    /\ UNCHANGED <<evaluated, labels, relabels, files, dirMade, evidence, bundle, fitting, fittings>>

(***************************************************************************)
(* An evaluator.                                                           *)
(***************************************************************************)
Into(slots, s) == [slots |-> slots, slice |-> s]

\* A fault for the mutants: each head is given test rows of its own.
EvalLoadsApart(f) ==
    <<Into({"challenger", "baseline"}, Train), Into({"val"}, Val),
      Into({"challengerTest"}, Test), Into({"baselineTest"}, Test)>>

DriverLoads == <<Into({"challenger", "baseline"}, Train), Into({"val"}, Val),
                 Into({"challengerTest", "baselineTest"}, Test)>>

\* The challenger is trained on labels of all parks, the regression on those
\* of the home park, a query of its own; the carry gate trains a third model.
FaithfulLoads == <<Into({"carry"}, Train), Into({"challenger"}, Train),
                   Into({"challengerTest", "baselineTest"}, Test), Into({"baseline"}, Train)>>

CarryLoads == <<Into({"carry"}, Train), Into({"challenger", "baseline"}, Train),
                Into({"challengerTest", "baselineTest"}, Test)>>

\* Two bundles already fitted are compared.
VersionsLoads == <<Into({"challengerTest", "baselineTest"}, Test)>>

\* What it loads, in order, and which of its frames that becomes.
EvalLoads(f) ==
    CASE f \in Driver    -> DriverLoads
      [] f = "faithful"  -> FaithfulLoads
      [] f = "carry"     -> CarryLoads
      [] OTHER           -> VersionsLoads

\* main of the driver generates a sample when there is no directory.
StartDriver(label, generate) ==
    /\ evaluated \in Driver
    /\ eval.pc = "idle" /\ evals < MaxEvaluations
    /\ evals' = evals + 1
    /\ IF generate /\ ~dirMade
       THEN /\ eval' = [evalIdle EXCEPT !.pc = "generate", !.label = label, !.step = Train]
            /\ dirMade' = TRUE
       ELSE /\ eval' = [evalIdle EXCEPT !.pc = "load", !.label = label, !.step = 1]
            /\ UNCHANGED dirMade
    /\ UNCHANGED <<evaluated, labels, relabels, files, mirror, bundle, fitting, fittings, artifact>>

StartBoxed ==
    /\ evaluated \in Boxed
    /\ eval.pc = "idle" /\ evals < MaxEvaluations
    /\ evals' = evals + 1
    /\ eval' = [evalIdle EXCEPT !.pc = "load", !.label = "full", !.step = 1]
    /\ UNCHANGED <<evaluated, labels, relabels, files, dirMade, mirror, bundle, fitting, fittings,
                   artifact>>

\* generate_sample_dataset, a season at a time; the sample never changes.
GenerateSlice ==
    /\ eval.pc = "generate"
    /\ files' = [files EXCEPT ![eval.step] = [gen |-> 0, rows |-> SampleSizeTarget, real |-> FALSE]]
    /\ eval' = IF eval.step = Test THEN [eval EXCEPT !.pc = "load", !.step = 1]
               ELSE [eval EXCEPT !.step = @ + 1]
    /\ UNCHANGED <<evaluated, labels, relabels, dirMade, mirror, evals, bundle, fitting, fittings,
                   artifact>>

EvalSource(s) == IF evaluated \in Driver THEN files[s] ELSE labels[s]

\* ParquetSampleLoader refuses a season without a file.
LoadSlice ==
    /\ eval.pc = "load"
    /\ LET load == EvalLoads(evaluated)[eval.step]
           rows == EvalSource(load.slice) IN
         eval' = IF rows = absent THEN evalIdle
                 ELSE [eval EXCEPT !.step = @ + 1,
                                   !.pc = IF eval.step = Len(EvalLoads(evaluated)) THEN "score" ELSE @,
                                   !.got = [k \in DOMAIN @ |-> IF k \in load.slots THEN rows
                                                               ELSE @[k]]]
    /\ UNCHANGED <<evaluated, labels, relabels, files, dirMade, mirror, evals, bundle, fitting,
                   fittings, artifact>>

(***************************************************************************)
(* The verdict.  m holds what was measured: the scores of both heads on    *)
(* the test rows, the calibration error of the challenger against the      *)
(* simulator, the carry head.                                              *)
(***************************************************************************)
Delta(m, metric) == m.challenger[metric] - m.baseline[metric]
PrimaryMet(m, c) == m.challenger[c.primary] + c.threshold <= m.baseline[c.primary]
GuardrailsHold(m, f, c) == \A g \in Guards[f] : Delta(m, g) <= c.maxDelta

EvaluateChallengerVsBaseline(m, f) ==
    GuardrailsHold(m, f, Criteria[f]) /\ PrimaryMet(m, Criteria[f])

\* The bar is on the error against the simulator where it is known.
AbsoluteBarHolds(m, f) ==
    Criteria[f].bar => (IF f \in WithRetro THEN m.retro ELSE m.challenger.ece) < Bar

\* A fault for the mutants: a supplementary check is recorded, not counted.
StatusWithoutBar(m, f, n) ==
    EvaluateChallengerVsBaseline(m, f) /\ n >= SampleSizeTarget /\ (f \in {"carry", "v3"} => m.carry)

DriverStatus(m, f, n) ==
    EvaluateChallengerVsBaseline(m, f) /\ n >= SampleSizeTarget /\ AbsoluteBarHolds(m, f)

\* No bar, but the carry gate.
CarryStatus(m, f, n) ==
    EvaluateChallengerVsBaseline(m, f) /\ n >= SampleSizeTarget /\ m.carry

Status(m, f, n) ==
    IF f \in {"carry", "v3"} THEN CarryStatus(m, f, n) ELSE DriverStatus(m, f, n)

Artifact(name, f, label, got, m, n) ==
    [name |-> name, family |-> f, label |-> label, got |-> got, measured |-> m,
     observed |-> n, threshold |-> Criteria[f].threshold, maxDelta |-> Criteria[f].maxDelta,
     passed |-> EvaluateChallengerVsBaseline(m, f), sampleMet |-> n >= SampleSizeTarget,
     status |-> IF Status(m, f, n) THEN "passed" ELSE "failed"]

Scores == [brier : Brier, loss : Loss, ece : Ece]

CarryGateResult(f) == IF f \in Boxed THEN BOOLEAN ELSE {TRUE}

Measurements(f) ==
    [challenger : Scores, baseline : Scores,
     retro : IF f \in WithRetro THEN Ece ELSE {0},
     carry : CarryGateResult(f)]

\* The file is named for the model and its label.
WriteArtifact(m) ==
    /\ eval.pc = "score"
    /\ m \in Measurements(evaluated)
    /\ artifact' = Artifact(evaluated, evaluated, eval.label, eval.got, m, eval.got.challengerTest.rows)
    /\ eval' = evalIdle
    /\ UNCHANGED <<evaluated, labels, relabels, files, dirMade, mirror, evals, bundle, fitting,
                   fittings>>

KillEvaluation ==
    /\ eval.pc # "idle"
    /\ eval' = evalIdle
    /\ UNCHANGED <<evaluated, labels, relabels, files, dirMade, mirror, evals, bundle, fitting,
                   fittings, artifact>>

\* emit_pre_promotion_gate: from the scorecard of the full run, with a margin
\* of zero, and a pass asserted; the bar is recorded and not counted.
EmitPreGate ==
    /\ artifact.name = "pre" /\ artifact.label = "full"
    /\ Delta(artifact.measured, "ece") <= 0
    /\ \A g \in Guards["pre"] : Delta(artifact.measured, g) <= 0
    /\ artifact.observed >= SampleSizeTarget
    /\ artifact' = [artifact EXCEPT !.name = "pre_gate", !.threshold = 0, !.maxDelta = 0,
                                    !.passed = TRUE, !.sampleMet = TRUE, !.status = "passed"]
    /\ UNCHANGED <<evaluated, labels, relabels, files, dirMade, mirror, eval, evals, bundle,
                   fitting, fittings>>

(***************************************************************************)
(* The pitch-type gate reads two bundles, each trained by a command of its *)
(* own: cross-validation, the last fit, metadata.json, metrics.json.       *)
(***************************************************************************)
StartFitting(h) ==
    /\ evaluated \in Bundled /\ fitting.pc = "idle" /\ fittings < MaxFittings
    /\ fittings' = fittings + 1
    /\ fitting' = [pc |-> "fit", head |-> h, cv |-> labels[Test], test |-> absent]
    /\ UNCHANGED <<evaluated, labels, relabels, files, dirMade, mirror, evidence, bundle>>

FitLast ==
    /\ fitting.pc = "fit"
    /\ fitting' = [fitting EXCEPT !.pc = "meta", !.test = labels[Test]]
    /\ UNCHANGED <<evaluated, labels, relabels, files, dirMade, mirror, evidence, bundle, fittings>>

\* training_data_hash is a hash of the test rows of the last fit.
WriteBundleMetadata ==
    /\ fitting.pc = "meta"
    /\ bundle' = [bundle EXCEPT ![fitting.head].hash = fitting.test]
    /\ fitting' = [fitting EXCEPT !.pc = "metrics"]
    /\ UNCHANGED <<evaluated, labels, relabels, files, dirMade, mirror, evidence, fittings>>

WriteBundleMetrics(score) ==
    /\ fitting.pc = "metrics"
    /\ bundle' = [bundle EXCEPT ![fitting.head].test = fitting.cv, ![fitting.head].score = score]
    /\ fitting' = fittingIdle
    /\ UNCHANGED <<evaluated, labels, relabels, files, dirMade, mirror, evidence, fittings>>

KillFitting ==
    /\ fitting.pc # "idle"
    /\ fitting' = fittingIdle
    /\ UNCHANGED <<evaluated, labels, relabels, files, dirMade, mirror, evidence, bundle, fittings>>

AssertComparable(c, b) == c.test.rows = b.test.rows /\ c.hash = b.hash

\* The imported margin is zero, tighter than the declared one.
ReadBundle(h) == bundle[h]
BuildGate ==
    LET c == ReadBundle("challenger")
        b == ReadBundle("baseline")
        m == [challenger |-> c.score, baseline |-> b.score, retro |-> 0, carry |-> TRUE]
        a == Artifact("pitch_type", "pitch_type", "full",
                      [noSlots EXCEPT !.challenger = c.hash, !.baseline = b.hash,
                                      !.challengerTest = c.test, !.baselineTest = b.test],
                      m, c.test.rows)
    IN [a EXCEPT !.threshold = 0,
                 !.passed = @ /\ Delta(m, "ece") <= 0 /\ AbsoluteBarHolds(m, "pitch_type"),
                 !.status = IF Delta(m, "ece") <= 0 THEN @ ELSE "failed"]

\* assert_importable refuses to write a gate that failed.
EmitPitchTypeGate ==
    /\ evaluated \in Bundled
    /\ \A h \in BundleHeads : bundle[h].test # absent /\ bundle[h].hash # absent
    /\ AssertComparable(bundle["challenger"], bundle["baseline"])
    /\ BuildGate.status = "passed"
    /\ artifact' = BuildGate
    /\ UNCHANGED <<evaluated, labels, relabels, files, dirMade, mirror, eval, evals, bundle,
                   fitting, fittings>>

PromoNext ==
    \/ \E s \in Slices, n \in {SampleSizeTarget - 1, SampleSizeTarget} : Relabel(s, n)
    \/ StartMirror \/ MirrorSlice \/ KillMirror
    \/ \E label \in {"sample", "full"}, generate \in BOOLEAN : StartDriver(label, generate)
    \/ StartBoxed
    \/ GenerateSlice \/ LoadSlice \/ KillEvaluation
    \/ \E m \in Measurements(evaluated) : WriteArtifact(m)
    \/ EmitPreGate
    \/ \E h \in BundleHeads : StartFitting(h)
    \/ FitLast \/ WriteBundleMetadata \/ KillFitting
    \/ \E score \in Scores : WriteBundleMetrics(score)
    \/ EmitPitchTypeGate

PromoSpec == PromoInit /\ [][PromoNext]_promoVars

(***************************************************************************)
(* The import.  importGate derives the pass again from the numbers of the  *)
(* artifact, which do not include an absolute bar, and asks that the       *)
(* declared one agrees.                                                    *)
(***************************************************************************)
CarryGate(a) == IF a.family \in {"carry", "v3"} THEN a.measured.carry ELSE TRUE

ImportGateAccepts(a) ==
    LET c == [Criteria[a.family] EXCEPT !.threshold = a.threshold, !.maxDelta = a.maxDelta] IN
    /\ PrimaryMet(a.measured, c) /\ GuardrailsHold(a.measured, a.family, c) /\ CarryGate(a)
    /\ a.status = "passed" /\ a.passed /\ a.sampleMet
    /\ a.observed >= SampleSizeTarget

(***************************************************************************)
(* Properties.                                                             *)
(***************************************************************************)
EvidenceWritten == artifact.name # "none"

\* The import can check a part of the verdict only.  Whatever it accepts meets
\* every criterion declared for its family: the primary, the guardrails, the
\* number of rows really scored, the carry gate and, but for the gate of the
\* pre-pitch head, which says that it leaves it out, the absolute bar.
GateIsEarned ==
    EvidenceWritten /\ ImportGateAccepts(artifact) =>
        LET m == artifact.measured
            f == artifact.family IN
        /\ PrimaryMet(m, Criteria[f]) /\ GuardrailsHold(m, f, Criteria[f])
        /\ artifact.got.challengerTest.rows >= SampleSizeTarget
        /\ f \in {"carry", "v3"} => m.carry
        /\ artifact.name # "pre_gate" => AbsoluteBarHolds(m, f)

\* Tables are relabelled and files replaced while evidence is collected.  The
\* two heads of an artifact that passed were nevertheless scored on the same
\* test rows and, unless the heads come from queries or bundles of their own,
\* fitted on the same training rows.  Two bundles are compared by the hash of
\* the rows of their last fit, so for them it holds if the cross-validation
\* that is scored saw those rows.
VerdictIsPaired ==
    EvidenceWritten /\ artifact.status = "passed" =>
        LET got == artifact.got IN
        /\ artifact.family \notin Bundled => got.challengerTest = got.baselineTest
        /\ artifact.family \in Driver \union {"carry"} => got.challenger = got.baseline
        /\ artifact.family \in Bundled /\ got.challengerTest = got.challenger
              /\ got.baselineTest = got.baseline => got.challengerTest = got.baselineTest
=============================================================================
