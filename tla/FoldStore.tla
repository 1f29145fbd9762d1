------------------------------ MODULE FoldStore -----------------------------
(***************************************************************************)
(* Training off the box.  The box writes the frames of the folds as files, *)
(* the manifest with their digests last, and copies the directory to an    *)
(* object store; another machine fetches manifest and files and trains     *)
(* through a loader that checks a digest the first time it reads a file.   *)
(* Exports are repeated, copied in any order, killed, fetched while they   *)
(* are being copied, and fetched again while a training reads.             *)
(*                                                                         *)
(* A file is the number of the export it was written by (0: not there),    *)
(* which is also what its digest tells; a manifest is the digests it lists *)
(* and the contract it was cut from.                                       *)
(***************************************************************************)
EXTENDS Integers, Sequences, SequencesExt

CONSTANTS FoldFiles,       \* the mappings file and the parquet files
          MaxExports,      \* bound: exports
          MaxSchemas       \* bound: contract edits

ASSUME FoldStoreAssumption ==
    "mappings" \in FoldFiles /\ MaxExports \in Nat /\ MaxSchemas \in Nat \ {0}

VARIABLES
    schema,      \* contracts/feature_pipeline.json
    box,         \* write_fold_export: [pc, n, left]
    outDir,      \* the export directory: [files, manifest]
    remote,      \* snapshots/folds/<export>: [files, manifest]
    fetch,       \* fetch_fold_export: [pc, left]
    foldsDir,    \* its destination: [files, manifest]
    loader       \* ParquetFoldLoader: [pc, manifest, verified, handed]

storeVars == <<schema, box, outDir, remote, fetch, foldsDir, loader>>

nothing == [f \in FoldFiles |-> 0]
noManifest == [schema |-> 0, files |-> nothing]
noStore == [files |-> nothing, manifest |-> noManifest]
noLoader == [pc |-> "none", manifest |-> noManifest, verified |-> {}, handed |-> nothing]

FoldStoreInit ==
    /\ schema = 1
    /\ box = [pc |-> "idle", n |-> 0, left |-> {}]
    /\ outDir = noStore /\ remote = noStore /\ foldsDir = noStore
    /\ fetch = [pc |-> "idle", left |-> {}]
    /\ loader = noLoader

(***************************************************************************)
(* The box.                                                                *)
(***************************************************************************)
EditSchema ==
    /\ schema < MaxSchemas
    /\ schema' = schema + 1
    /\ UNCHANGED <<box, outDir, remote, fetch, foldsDir, loader>>

StartFoldExport ==
    /\ box.pc = "idle" /\ box.n < MaxExports
    /\ box' = [pc |-> "write", n |-> box.n + 1, left |-> FoldFiles]
    /\ UNCHANGED <<schema, outDir, remote, fetch, foldsDir, loader>>

\* One frame after the other, the mappings when all are written.
WriteFoldFile(f) ==
    /\ box.pc = "write" /\ f \in box.left
    /\ f = "mappings" => box.left = {"mappings"}
    /\ outDir' = [outDir EXCEPT !.files[f] = box.n]
    /\ box' = [box EXCEPT !.left = @ \ {f}]
    /\ UNCHANGED <<schema, remote, fetch, foldsDir, loader>>

\* The digests were taken as the files were written.
WriteManifest ==
    /\ box.pc = "write" /\ box.left = {}
    /\ outDir' = [outDir EXCEPT !.manifest =
                    [schema |-> schema, files |-> [f \in FoldFiles |-> box.n]]]
    /\ box' = [box EXCEPT !.pc = "idle"]
    /\ UNCHANGED <<schema, remote, fetch, foldsDir, loader>>

KillFoldExport ==
    /\ box.pc = "write"
    /\ box' = [box EXCEPT !.pc = "idle", !.left = {}]
    /\ UNCHANGED <<schema, outDir, remote, fetch, foldsDir, loader>>

\* rclone copies object by object, in no order the code relies on.
UploadFile(f) ==
    /\ outDir.files[f] # remote.files[f]
    /\ remote' = [remote EXCEPT !.files[f] = outDir.files[f]]
    /\ UNCHANGED <<schema, box, outDir, fetch, foldsDir, loader>>

UploadManifest ==
    /\ outDir.manifest # remote.manifest
    /\ remote' = [remote EXCEPT !.manifest = outDir.manifest]
    /\ UNCHANGED <<schema, box, outDir, fetch, foldsDir, loader>>

(***************************************************************************)
(* The fetch.                                                              *)
(***************************************************************************)
FetchManifest ==
    /\ fetch.pc # "files" /\ remote.manifest # noManifest
    /\ foldsDir' = [foldsDir EXCEPT !.manifest = remote.manifest]
    /\ fetch' = [pc |-> "files", left |-> FoldFiles]
    /\ UNCHANGED <<schema, box, outDir, remote, loader>>

\* A fault for the mutants: a file that is there is taken for valid.
AlreadyThere(f) == foldsDir.files[f] # 0

AlreadyValid(f) == foldsDir.files[f] # 0 /\ foldsDir.files[f] = foldsDir.manifest.files[f]

\* A file that is not valid is downloaded, and must then be what the
\* manifest says; the download stays, whatever it is.
FetchFile(f) ==
    /\ fetch.pc = "files" /\ f \in fetch.left
    /\ LET got == IF AlreadyValid(f) THEN foldsDir.files[f] ELSE remote.files[f]
           ok  == AlreadyValid(f) \/ (got # 0 /\ got = foldsDir.manifest.files[f])
       IN /\ foldsDir' = [foldsDir EXCEPT !.files[f] = IF got = 0 THEN @ ELSE got]
          /\ fetch' = IF ~ok THEN [pc |-> "failed", left |-> {}]
                      ELSE [pc |-> IF fetch.left = {f} THEN "done" ELSE "files",
                            left |-> fetch.left \ {f}]
    /\ UNCHANGED <<schema, box, outDir, remote, loader>>

KillFetch ==
    /\ fetch.pc = "files"
    /\ fetch' = [pc |-> "failed", left |-> {}]
    /\ UNCHANGED <<schema, box, outDir, remote, foldsDir, loader>>

(***************************************************************************)
(* The loader.                                                             *)
(***************************************************************************)
\* _read_verified: a digest is compared once per file.
ReadVerified(manifest, verified, f) ==
    \/ f \in verified /\ foldsDir.files[f] # 0
    \/ f \notin verified /\ foldsDir.files[f] # 0 /\ foldsDir.files[f] = manifest.files[f]

\* __post_init__: manifest, contract, mappings.
OpenLoader ==
    /\ loader.pc = "none"
    /\ foldsDir.manifest # noManifest /\ foldsDir.manifest.schema = schema
    /\ ReadVerified(foldsDir.manifest, {}, "mappings")
    /\ loader' = [pc |-> "open", manifest |-> foldsDir.manifest, verified |-> {"mappings"},
                  handed |-> [nothing EXCEPT !["mappings"] = foldsDir.files["mappings"]]]
    /\ UNCHANGED <<schema, box, outDir, remote, fetch, foldsDir>>

\* A frame for a trainer; handed keeps what the first reading gave.
LoadSplit(f) ==
    /\ loader.pc = "open" /\ f # "mappings"
    /\ loader' = IF ReadVerified(loader.manifest, loader.verified, f)
                 THEN [loader EXCEPT !.verified = @ \union {f},
                                     !.handed[f] = IF f \in loader.verified THEN @
                                                   ELSE foldsDir.files[f]]
                 ELSE noLoader
    /\ UNCHANGED <<schema, box, outDir, remote, fetch, foldsDir>>

CloseLoader ==
    /\ loader.pc = "open"
    /\ loader' = noLoader
    /\ UNCHANGED <<schema, box, outDir, remote, fetch, foldsDir>>

FoldStoreNext ==
    \/ EditSchema \/ StartFoldExport \/ WriteManifest \/ KillFoldExport \/ UploadManifest
    \/ \E f \in FoldFiles : WriteFoldFile(f) \/ UploadFile(f) \/ FetchFile(f) \/ LoadSplit(f)
    \/ FetchManifest \/ KillFetch \/ OpenLoader \/ CloseLoader

FoldStoreSpec == FoldStoreInit /\ [][FoldStoreNext]_storeVars

(***************************************************************************)
(* Properties.                                                             *)
(***************************************************************************)
\* A fetch that ends well has the files of one export, whatever was copied
\* to the store meanwhile and whatever earlier fetches left behind; and the
\* frames and mappings a loader hands out, each the first time, are of one
\* export too, though files and manifest are replaced while it lives
\* (fold_store.py: "never a silent train-on-wrong-data bug").
TrainedOnOneExport ==
    /\ fetch.pc = "done" => foldsDir.files = foldsDir.manifest.files
    /\ \A f, g \in loader.verified : loader.handed[f] = loader.handed[g]
=============================================================================
