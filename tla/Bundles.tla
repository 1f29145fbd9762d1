------------------------------- MODULE Bundles ------------------------------
(***************************************************************************)
(* The artifact directory of a model version: a training run fills it file *)
(* by file, an export adds the ONNX graph and, for the pitch-type family,  *)
(* stamps the metadata again; a registration command checks a directory    *)
(* file by file, the primary model after its baseline, and posts it.  The  *)
(* commands are run again, are killed between any two files, and the check *)
(* runs beside the commands that write.                                    *)
(*                                                                         *)
(* A file is the number of the training it comes from (0: there is none),  *)
(* the contract the number of its edit, the encodings the number of their  *)
(* build.  A SHA-256 in the metadata is the number of the file it was      *)
(* taken of, a schema hash the number of the contract.                     *)
(***************************************************************************)
EXTENDS Integers, Sequences, SequencesExt

CONSTANTS Families,       \* the families a run may be about
          MaxTrainings, MaxContracts, MaxEncodings     \* bounds

ASSUME BundlesAssumption ==
    /\ Families \subseteq {"pitch_pre", "pitch_post", "pitch_type"}
    /\ MaxTrainings \in Nat /\ MaxContracts \in Nat \ {0} /\ MaxEncodings \in Nat

Heads == {"primary", "baseline"}
Files == {"model", "calibrator", "contract", "parkMap", "typeMap", "te", "data", "onnx"}
noFile == 0
noFiles == [f \in Files |-> noFile]

VARIABLES
    family,      \* the family at hand; fixed
    contract,    \* contracts/feature_pipeline*.json and the columns in the code
    encodings,   \* training/artifacts/encodings, pitcher and batter
    trainings,   \* trainings so far
    dir,         \* <head>/<version>: its files
    meta,        \* its metadata.json
    trainer,     \* a training command: [pc, head, id, columns, left]
    exporter,    \* an export command: [pc, head, model, meta]
    registrar,   \* a registration command
    snap,        \* the snapshot directory it assembles
    snapMeta,    \* and the metadata of that
    registered,  \* the registry: heads that have a row of the version
    columns,     \* the contract the model of each training was trained under
    gated        \* what the last passed check was about, at that moment

vars == <<family, contract, encodings, trainings, dir, meta, trainer, exporter, registrar,
          snap, snapMeta, registered, columns, gated>>
writers == <<trainer, exporter>>
artifacts == <<dir, meta, columns>>
registration == <<registrar, snap, snapMeta, registered, gated>>

noMeta == [artifact |-> "none", sha |-> noFile, kept |-> noFile, calibrator |-> noFile,
           data |-> noFile, contract |-> noFile]
trainerIdle == [pc |-> "idle", head |-> "primary", id |-> 0, columns |-> 1, left |-> <<>>]
exporterIdle == [pc |-> "idle", head |-> "primary", model |-> 0, meta |-> noMeta]
registrarIdle == [pc |-> "idle", todo |-> <<>>, dry |-> TRUE, baseline |-> FALSE,
                  meta |-> noMeta, left |-> <<>>]
nothingGated == [head |-> "none", files |-> noFiles]

Init ==
    /\ family \in Families
    /\ contract = 1 /\ encodings = 0 /\ trainings = 0
    /\ dir = [h \in Heads |-> noFiles] /\ meta = [h \in Heads |-> noMeta]
    /\ trainer = trainerIdle /\ exporter = exporterIdle /\ registrar = registrarIdle
    /\ snap = noFiles /\ snapMeta = noMeta
    /\ registered = {} /\ gated = nothingGated
    /\ columns = [t \in 1 .. MaxTrainings |-> 0]

FileRange == 0 .. MaxTrainings + MaxContracts + MaxEncodings
MetaRecord == [artifact : {"none", "model", "onnx"}, sha : FileRange, kept : FileRange,
               calibrator : FileRange, data : FileRange, contract : 0 .. MaxContracts]

TypeOK ==
    /\ contract \in 1 .. MaxContracts /\ encodings \in 0 .. MaxEncodings
    /\ trainings \in 0 .. MaxTrainings
    /\ dir \in [Heads -> [Files -> FileRange]] /\ meta \in [Heads -> MetaRecord]
    /\ trainer.pc \in {"idle", "fit", "persist"} /\ trainer.id \in 0 .. MaxTrainings
    /\ exporter.pc \in {"idle", "convert", "restamp", "write"}
    /\ exporter.meta.artifact = "none" => exporter.pc # "write"
    /\ registrar.pc \in {"idle", "next", "assemble", "gate", "hash", "post"}
    /\ registrar.meta \in MetaRecord
    /\ snapMeta \in MetaRecord /\ registered \subseteq Heads
    /\ gated.head \in Heads \union {"none"}
    /\ \A h \in Heads : meta[h].artifact = "onnx" => meta[h].sha # noFile

IsPitchType == family = "pitch_type"

(***************************************************************************)
(* The repository and the encodings.                                       *)
(***************************************************************************)
\* A commit edits the contract, its schema_hash and the columns in the code;
\* the exporters refuse any other edit.  The columns are put in another order:
\* with one more or fewer the rows of an old bundle cannot be scored.
EditContract ==
    /\ contract < MaxContracts
    /\ contract' = contract + 1
    /\ UNCHANGED <<family, encodings, trainings, dir, meta, columns, writers, registration>>

\* A feature builder replaces the encodings of the production fold.
SaveEncoding ==
    /\ ~IsPitchType /\ encodings < MaxEncodings
    /\ encodings' = encodings + 1
    /\ UNCHANGED <<family, contract, trainings, artifacts, writers, registration>>

(***************************************************************************)
(* Training: main of production fits and then writes the directory in      *)
(* order, whatever is in it.                                               *)
(***************************************************************************)
WriteLookups == <<"parkMap", "typeMap", "te">>
PersistLightGBM == <<"model", "calibrator", "contract">> \o WriteLookups \o <<"data", "meta">>
PersistLR == <<"model", "calibrator", "contract">> \o WriteLookups \o <<"data", "meta">>

\* A fault for the mutants: the lookups are written before the model.
PersistBundleLookupsFirst == <<"parkMap", "model", "calibrator", "contract", "data", "meta">>

PersistBundle == <<"model", "calibrator", "contract", "parkMap", "data", "meta">>

PersistOrder(head) ==
    IF IsPitchType THEN PersistBundle
    ELSE IF head = "primary" THEN PersistLightGBM ELSE PersistLR

\* _write_metadata hashes the files that lie in the directory at that moment.
WriteMetadata(files) ==
    [artifact |-> "model", sha |-> files.model, kept |-> noFile,
     calibrator |-> files.calibrator, data |-> files.data, contract |-> contract]

\* What a step of persist leaves of one file: a lookup of another pipeline is
\* not written, encodings that were never built are skipped.
Written(file, id, old) ==
    CASE file = "contract"                            -> contract
      [] file = "te"                                  -> IF encodings = 0 THEN old ELSE encodings
      [] file = "typeMap" /\ family # "pitch_post"    -> old
      [] OTHER                                        -> id

\* The commands that write one directory are run one after the other.
StartTraining(head) ==
    /\ trainer.pc = "idle" /\ trainings < MaxTrainings
    /\ exporter.pc # "idle" => exporter.head # head
    /\ trainings' = trainings + 1
    /\ trainer' = [pc |-> "fit", head |-> head, id |-> trainings + 1, columns |-> contract,
                   left |-> PersistOrder(head)]
    /\ UNCHANGED <<family, contract, encodings, artifacts, exporter, registration>>

PitchProduction(head) == ~IsPitchType /\ StartTraining(head)
PitchTypeProduction(head) == IsPitchType /\ StartTraining(head)

\* The columns are those the command started with.
Fitted ==
    /\ columns' = [columns EXCEPT ![trainer.id] = trainer.columns]
    /\ trainer' = [trainer EXCEPT !.pc = "persist"]
    /\ UNCHANGED <<family, contract, encodings, trainings, dir, meta, exporter, registration>>

TrainProduction == trainer.pc = "fit" /\ ~IsPitchType /\ Fitted

\* The pitch-type head: with the baselines of drift, which refuse an empty
\* training slice; its regression without.
TrainAndPersist == trainer.pc = "fit" /\ IsPitchType /\ trainer.head = "primary" /\ Fitted
TrainAndPersistLR == trainer.pc = "fit" /\ IsPitchType /\ trainer.head = "baseline" /\ Fitted

\* One file more; the metadata last.
PersistFile ==
    /\ trainer.pc = "persist"
    /\ LET file == Head(trainer.left)  head == trainer.head IN
         IF file = "meta"
         THEN /\ meta' = [meta EXCEPT ![head] = WriteMetadata(dir[head])]
              /\ trainer' = trainerIdle
              /\ UNCHANGED dir
         ELSE /\ dir' = [dir EXCEPT ![head][file] = Written(file, trainer.id, @)]
              /\ trainer' = [trainer EXCEPT !.left = Tail(@)]
              /\ UNCHANGED meta
    /\ UNCHANGED <<family, contract, encodings, trainings, columns, exporter, registration>>

\* generate_ci_artifacts fills the directory of a pitch head from made-up
\* rows: model, data, graph, calibrator, lookups; no contract, no metadata.
GenerateCIArtifacts ==
    /\ trainer.pc = "idle" /\ exporter.pc = "idle" /\ ~IsPitchType /\ trainings < MaxTrainings
    /\ trainings' = trainings + 1
    /\ columns' = [columns EXCEPT ![trainings + 1] = contract]
    /\ dir' = [dir EXCEPT !["primary"] =
                 [f \in Files |-> IF f = "contract" \/ (f = "typeMap" /\ family # "pitch_post")
                                  THEN @[f] ELSE trainings + 1]]
    /\ UNCHANGED <<family, contract, encodings, meta, writers, registration>>

KillTraining ==
    /\ trainer.pc # "idle"
    /\ trainer' = trainerIdle
    /\ UNCHANGED <<family, contract, encodings, trainings, artifacts, exporter, registration>>

(***************************************************************************)
(* Export.                                                                 *)
(***************************************************************************)
\* What each exporter loads: a booster, a booster with the post columns, or a
\* regression, whose class order it checks.
ExportsBooster(head) == head = "primary" /\ family # "pitch_post" /\ dir[head].model # noFile
ExportsPostBooster(head) == head = "primary" /\ family = "pitch_post" /\ dir[head].model # noFile
ExportsRegression(head) == head = "baseline" /\ dir[head].model # noFile

StartExport(head) ==
    /\ exporter.pc = "idle"
    /\ ExportsBooster(head) \/ ExportsPostBooster(head) \/ ExportsRegression(head)
    /\ trainer.pc # "idle" => trainer.head # head
    /\ exporter' = [exporterIdle EXCEPT !.pc = "convert", !.head = head, !.model = dir[head].model]
    /\ UNCHANGED <<family, contract, encodings, trainings, artifacts, trainer, registration>>

\* The graph is compared with the model in memory on rows of the directory,
\* whichever training they are of, and saved.
ExportOnnx ==
    /\ exporter.pc = "convert"
    /\ IF dir[exporter.head].data = noFile
       THEN exporter' = exporterIdle /\ UNCHANGED dir
       ELSE /\ dir' = [dir EXCEPT ![exporter.head].onnx = exporter.model]
            /\ exporter' = IF IsPitchType THEN [exporter EXCEPT !.pc = "restamp"]
                           ELSE exporterIdle
    /\ UNCHANGED <<family, contract, encodings, trainings, meta, columns, trainer, registration>>

\* _restamp_metadata_artifact, its read and its write.
ReadMetadata ==
    /\ exporter.pc = "restamp"
    /\ exporter' = IF meta[exporter.head].artifact = "none" THEN exporterIdle
                   ELSE [exporter EXCEPT !.pc = "write", !.meta = meta[exporter.head]]
    /\ UNCHANGED <<family, contract, encodings, trainings, artifacts, trainer, registration>>

Restamped(m, onnx) ==
    [m EXCEPT !.kept = IF m.artifact = "onnx" THEN @ ELSE m.sha,
              !.artifact = "onnx", !.sha = onnx]

RestampMetadata ==
    /\ exporter.pc = "write"
    /\ meta' = [meta EXCEPT ![exporter.head] = Restamped(exporter.meta, exporter.model)]
    /\ exporter' = exporterIdle
    /\ UNCHANGED <<family, contract, encodings, trainings, dir, columns, trainer, registration>>

KillExport ==
    /\ exporter.pc # "idle"
    /\ exporter' = exporterIdle
    /\ UNCHANGED <<family, contract, encodings, trainings, artifacts, trainer, registration>>

(***************************************************************************)
(* Registration of a pitch head: the files are copied into a snapshot      *)
(* directory of the command's own, beside the contract of the repository   *)
(* and new metadata, and that directory is checked.  Nothing is posted.    *)
(***************************************************************************)
InPitchSnapshot == <<"onnx", "calibrator", "contract", "te", "parkMap", "typeMap", "data">>

\* _artifact_inputs: what must be there before the copy begins.
RequiredArtifacts(head) ==
    \A f \in {"onnx", "calibrator", "contract", "data"} : dir[head][f] # noFile

StartRegisterPitch ==
    /\ ~IsPitchType /\ registrar.pc = "idle"
    /\ registrar' = [registrarIdle EXCEPT !.pc = "next", !.todo = <<"baseline", "primary">>]
    /\ UNCHANGED <<family, contract, encodings, trainings, artifacts, writers, snap, snapMeta,
                   registered, gated>>

StartSnapshot ==
    /\ ~IsPitchType /\ registrar.pc = "next"
    /\ registrar' = IF registrar.todo # <<>> /\ RequiredArtifacts(Head(registrar.todo))
                    THEN [registrar EXCEPT !.pc = "assemble", !.left = InPitchSnapshot]
                    ELSE registrarIdle
    /\ snap' = noFiles /\ snapMeta' = noMeta
    /\ UNCHANGED <<family, contract, encodings, trainings, artifacts, writers, registered, gated>>

\* _require: a missing lookup ends the command; only a post head has a
\* pitch-type mapping.
CopyFile ==
    /\ registrar.pc = "assemble" /\ registrar.left # <<>>
    /\ LET file == Head(registrar.left)  source == dir[Head(registrar.todo)] IN
         CASE file = "contract" ->
                /\ snap' = [snap EXCEPT !.contract = contract]
                /\ registrar' = [registrar EXCEPT !.left = Tail(@)]
           [] file = "typeMap" /\ ~(family = "pitch_post" /\ Head(registrar.todo) = "primary") ->
                registrar' = [registrar EXCEPT !.left = Tail(@)] /\ UNCHANGED snap
           [] OTHER ->
                IF source[file] = noFile THEN registrar' = registrarIdle /\ UNCHANGED snap
                ELSE /\ snap' = [snap EXCEPT ![file] = source[file]]
                     /\ registrar' = [registrar EXCEPT !.left = Tail(@)]
    /\ UNCHANGED <<family, contract, encodings, trainings, artifacts, writers, snapMeta,
                   registered, gated>>

WriteSnapshotMetadata ==
    /\ registrar.pc = "assemble" /\ registrar.left = <<>>
    /\ snapMeta' = [artifact |-> "onnx", sha |-> snap.onnx, kept |-> noFile,
                    calibrator |-> snap.calibrator, data |-> snap.data, contract |-> contract]
    /\ registrar' = [registrar EXCEPT !.pc = "gate"]
    /\ UNCHANGED <<family, contract, encodings, trainings, artifacts, writers, snap,
                   registered, gated>>

\* run_gate of a pitch head: contract and metadata agree with the repository,
\* the files are there, the baseline came first.
PitchGateAccepts(head) ==
    /\ snap.contract = contract /\ snapMeta.contract = snap.contract
    /\ \A f \in {"calibrator", "te", "parkMap", "onnx"} : snap[f] # noFile
    /\ family = "pitch_post" /\ head = "primary" => snap.typeMap # noFile
    /\ head = "primary" => registrar.baseline

RunPitchGate ==
    /\ registrar.pc = "gate"
    /\ LET head == Head(registrar.todo) IN
         IF PitchGateAccepts(head)
         THEN /\ registrar' = [registrar EXCEPT !.pc = "next", !.todo = Tail(@), !.baseline = TRUE]
              /\ gated' = [head |-> head, files |-> snap]
         ELSE registrar' = registrarIdle /\ UNCHANGED gated
    /\ UNCHANGED <<family, contract, encodings, trainings, artifacts, writers, snap, snapMeta,
                   registered>>

(***************************************************************************)
(* Registration of the pitch-type family: the directory itself is checked  *)
(* and posted, the baseline first.                                         *)
(***************************************************************************)
\* A fault for the mutants: the dry run's assumption is made for every run.
BaselineAssumed(models, dry) == models = <<"primary">>

\* --models primary: the registry is asked for the baseline; a dry run assumes it.
BaselineKnown(models, dry) == models = <<"primary">> /\ (dry \/ "baseline" \in registered)

StartRegisterPitchType(models, dry) ==
    /\ IsPitchType /\ registrar.pc = "idle"
    /\ registrar' = [registrarIdle EXCEPT !.pc = "next", !.todo = models, !.dry = dry,
                                          !.baseline = BaselineKnown(models, dry)]
    /\ UNCHANGED <<family, contract, encodings, trainings, artifacts, writers, snap, snapMeta,
                   registered, gated>>

InPitchTypeGate == <<"onnx", "calibrator", "data", "model">>

\* The checks of run_gate before the first digest.
ModelKindAccepted(m) == m.artifact # "none"
ContractAccepted(head, m) ==
    dir[head].contract # noFile /\ dir[head].contract = contract /\ m.contract = contract
LookupsPresent(head) == dir[head].parkMap # noFile
CalibratorAccepted(head) == dir[head].calibrator # noFile

GateAccepts(head, m) ==
    /\ ModelKindAccepted(m)
    /\ head = "primary" => registrar.baseline
    /\ ContractAccepted(head, m) /\ LookupsPresent(head) /\ CalibratorAccepted(head)
    /\ m.artifact = "onnx"

OpenGate ==
    /\ IsPitchType /\ registrar.pc = "next"
    /\ IF registrar.todo # <<>> /\ GateAccepts(Head(registrar.todo), meta[Head(registrar.todo)])
       THEN registrar' = [registrar EXCEPT !.pc = "hash", !.meta = meta[Head(registrar.todo)],
                                           !.left = InPitchTypeGate]
       ELSE registrar' = registrarIdle
    /\ UNCHANGED <<family, contract, encodings, trainings, artifacts, writers, snap, snapMeta,
                   registered, gated>>

\* The digest the metadata declares of a file.
Declared(m, file) ==
    CASE file = "onnx" -> m.sha [] file = "calibrator" -> m.calibrator
      [] file = "data" -> m.data [] OTHER -> m.kept

\* _assert_sha256: the declared digest is required and must be the file's.
AssertSha256(head, file) ==
    Declared(registrar.meta, file) # noFile /\ dir[head][file] = Declared(registrar.meta, file)

\* The graph scores two rows as distributions and is of the head's own family,
\* as every graph an exporter saved does and is.
ProbeOnnx(head) == dir[head].onnx # noFile

HashFile ==
    /\ registrar.pc = "hash"
    /\ LET head == Head(registrar.todo)  file == Head(registrar.left) IN
         IF ~AssertSha256(head, file) \/ ~ProbeOnnx(head)
         THEN registrar' = registrarIdle /\ UNCHANGED gated
         ELSE IF Len(registrar.left) > 1
         THEN registrar' = [registrar EXCEPT !.left = Tail(@)] /\ UNCHANGED gated
         ELSE /\ registrar' = [registrar EXCEPT !.pc = "post", !.left = <<>>]
              /\ gated' = [head |-> head, files |-> dir[head]]
    /\ UNCHANGED <<family, contract, encodings, trainings, artifacts, writers, snap, snapMeta,
                   registered>>

\* A dry run goes on; otherwise the row is posted, and the registry refuses
\* a version it has.
PostRegistration ==
    /\ registrar.pc = "post"
    /\ LET head == Head(registrar.todo) IN
         IF registrar.dry
         THEN /\ registrar' = [registrar EXCEPT !.pc = "next", !.todo = Tail(@), !.baseline = TRUE]
              /\ UNCHANGED registered
         ELSE IF head \in registered THEN registrar' = registrarIdle /\ UNCHANGED registered
         ELSE /\ registered' = registered \union {head}
              /\ registrar' = [registrar EXCEPT !.pc = "next", !.todo = Tail(@), !.baseline = TRUE]
    /\ UNCHANGED <<family, contract, encodings, trainings, artifacts, writers, snap, snapMeta, gated>>

\* The command is killed, or the request fails.
KillRegistration ==
    /\ registrar.pc # "idle"
    /\ registrar' = registrarIdle
    /\ UNCHANGED <<family, contract, encodings, trainings, artifacts, writers, snap, snapMeta,
                   registered, gated>>

ModelOrders == {<<"baseline", "primary">>, <<"primary">>, <<"baseline">>}

Next ==
    \/ EditContract \/ SaveEncoding
    \/ \E head \in Heads : PitchProduction(head) \/ PitchTypeProduction(head) \/ StartExport(head)
    \/ TrainProduction \/ TrainAndPersist \/ TrainAndPersistLR \/ PersistFile \/ GenerateCIArtifacts \/ KillTraining
    \/ ExportOnnx \/ ReadMetadata \/ RestampMetadata \/ KillExport
    \/ StartRegisterPitch \/ StartSnapshot \/ CopyFile \/ WriteSnapshotMetadata \/ RunPitchGate
    \/ \E models \in ModelOrders, dry \in BOOLEAN : StartRegisterPitchType(models, dry)
    \/ OpenGate \/ HashFile \/ PostRegistration \/ KillRegistration

BundlesSpec == Init /\ [][Next]_vars

(***************************************************************************)
(* Properties.                                                             *)
(***************************************************************************)
\* A pitch-type directory that passes the check is of one training: graph,
\* model, calibrator, held-out rows, and the park mapping, of which the
\* metadata has no digest; though the check reads file after file while a
\* retraining or an export of the same version may be writing, and whatever
\* killed commands left there (register_gate.run_gate: model.lgb is the first
\* file persist writes and the last one the gate hashes).
GatedIsOneTraining ==
    IsPitchType /\ gated.head # "none" =>
        \A f \in {"onnx", "calibrator", "data", "parkMap"} : gated.files[f] = gated.files.model

\* The registry never has a primary pitch-type model without its baseline,
\* whichever of the two a command is told to register, wherever it fails, and
\* after any number of dry runs (rule 9; register_pitch_type.main).
PrimaryHasBaseline == "primary" \in registered => "baseline" \in registered

=============================================================================
