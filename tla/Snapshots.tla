------------------------------ MODULE Snapshots ------------------------------
(***************************************************************************)
(* Where a model version's files are: the bundle on the local disk, the    *)
(* copy in the R2 bucket, and the path the registry row names.  One model. *)
(*                                                                         *)
(* A database transaction that also touches files is a sequence of steps   *)
(* here: its rows become visible at Commit, its file effects at once, and  *)
(* an exception or a crash between two steps takes back only the rows.     *)
(* SQLite (rollback journal, no WAL) admits one writer, and a transaction  *)
(* that has read blocks the commits of the others.                         *)
(*                                                                         *)
(* Versions are numbered by trained_at, so a version may be registered     *)
(* after a newer one.  The promotion gates that look at other state        *)
(* (evidence, baseline, routing) are in Registry.tla; here a promotion may *)
(* just fail.                                                              *)
(***************************************************************************)
EXTENDS Naturals, FiniteSets

CONSTANTS
    N,             \* versions 1..N
    KeepLocally,   \* bullpen.snapshot.keep-locally
    Resets,        \* may registrations be bootstrap resets?  a set of Booleans
    MaxGates       \* bound: promotions between their load gate and their transaction

ASSUME SizesAssumption == N \in Nat /\ KeepLocally \in Nat /\ MaxGates \in Nat
ASSUME ResetsAssumption == Resets \subseteq BOOLEAN

VARIABLES
    row,           \* committed model_versions: [stage, path]
    disk,          \* how much of its bundle a version's local directory holds
    remote,        \* how much of it is under its key prefix in the bucket
    tx,            \* the write transaction under way
    restore,       \* the restore under way
    gates          \* promotions that passed the load gate: <<version, target>>

snapshotVars == <<row, disk, remote, tx, restore, gates>>

Stored == 1..N
RowStages == {"none", "CANDIDATE", "SHADOW", "CHAMPION", "ARCHIVED"}
Amounts == {"none", "partial", "full"}
LiveStages == {"SHADOW", "CHAMPION"}
Row == [stage : RowStages, path : {"local", "s3"}]
Unregistered == [stage |-> "none", path |-> "local"]

Tx == [kind : {"none", "register", "promote", "stage"}, rows : [Stored -> Row],
       todo : SUBSET Stored, uploaded : BOOLEAN]
NoTx == [kind |-> "none", rows |-> [v \in Stored |-> Unregistered],
         todo |-> {}, uploaded |-> FALSE]

Restore == [version : Stored \union {0}, downloaded : BOOLEAN]
NoRestore == [version |-> 0, downloaded |-> FALSE]

Registered(v) == row[v].stage # "none"

\* Stage.allowedTargets.
AllowedTargets ==
    [none      |-> {},
     CANDIDATE |-> {"SHADOW", "CHAMPION", "ARCHIVED"},
     SHADOW    |-> {"CHAMPION", "ARCHIVED"},
     CHAMPION  |-> {"SHADOW", "ARCHIVED"},
     ARCHIVED  |-> {}]

\* No transaction writes while another one does.
BeginTx(kind, rows, todo) ==
    /\ tx = NoTx
    /\ tx' = [kind |-> kind, rows |-> rows, todo |-> todo, uploaded |-> FALSE]

Rollback == tx' = NoTx /\ UNCHANGED <<row, restore, gates>>

-----------------------------------------------------------------------------
(* Registration and the retention sweep that ends it *)

Archivable(rows) ==
    {v \in Stored : /\ rows[v].stage \notin LiveStages \union {"none"}
                      /\ rows[v].path = "local"}

\* The archivable versions beyond the KeepLocally newest.
Overflow(rows) ==
    {v \in Archivable(rows) : Cardinality({w \in Archivable(rows) : w > v}) >= KeepLocally}

\* registerWithBootstrap archives every version of the model first.
AfterRegistration(v, reset) ==
    [w \in Stored |->
        IF w = v THEN [stage |-> "CANDIDATE", path |-> "local"]
        ELSE IF reset /\ Registered(w) THEN [row[w] EXCEPT !.stage = "ARCHIVED"]
        ELSE row[w]]

\* The files are placed, the row inserted and the sweep's list read.
RegisterStored(v, reset) ==
    /\ ~Registered(v)
    /\ LET rows == AfterRegistration(v, reset)
       IN BeginTx("register", rows, Overflow(rows))
    /\ disk' = [disk EXCEPT ![v] = "full"]
    /\ UNCHANGED <<row, remote, restore, gates>>

\* A file cannot be copied: registration fails and leaves what it copied.
PlacementFails(v) ==
    /\ tx = NoTx
    /\ ~Registered(v)
    /\ disk' = [disk EXCEPT ![v] = IF @ = "full" THEN "full" ELSE "partial"]
    /\ UNCHANGED <<row, remote, tx, restore, gates>>

Newest(S) == CHOOSE v \in S : \A w \in S : w <= v

Sweeping == tx.kind = "register" /\ tx.todo # {}
Current == Newest(tx.todo)

SweepSkip ==
    /\ Sweeping
    /\ disk[Current] = "none"
    /\ tx' = [tx EXCEPT !.todo = @ \ {Current}]
    /\ UNCHANGED <<row, disk, remote, restore, gates>>

\* Fault: only the first file of the directory is uploaded.
UploadedFirst(v) == IF remote[v] = "full" THEN "full" ELSE "partial"

\* What the bucket holds of v when its directory has been uploaded, file by
\* file, over what was there.
Uploaded(v) == IF remote[v] = "full" THEN "full" ELSE disk[v]

\* What it may hold when the upload stopped half way.
PartlyUploaded(v) == {remote[v], IF remote[v] = "full" THEN "full" ELSE "partial"}

SweepUpload ==
    /\ Sweeping
    /\ disk[Current] # "none"
    /\ ~tx.uploaded
    /\ remote' = [remote EXCEPT ![Current] = Uploaded(Current)]
    /\ tx' = [tx EXCEPT !.uploaded = TRUE]
    /\ UNCHANGED <<row, disk, restore, gates>>

UploadFails ==
    /\ Sweeping
    /\ disk[Current] # "none"
    /\ ~tx.uploaded
    /\ \E amount \in PartlyUploaded(Current) : remote' = [remote EXCEPT ![Current] = amount]
    /\ Rollback
    /\ UNCHANGED disk

FlipPath(v) == [tx.rows EXCEPT ![v].path = "s3"]

\* updatePaths, then deleteDirectory.
SweepDelete ==
    /\ Sweeping
    /\ tx.uploaded
    /\ tx' = [tx EXCEPT !.rows = FlipPath(Current), !.todo = @ \ {Current}, !.uploaded = FALSE]
    /\ disk' = [disk EXCEPT ![Current] = "none"]
    /\ UNCHANGED <<row, remote, restore, gates>>

DeleteFails ==
    /\ Sweeping
    /\ tx.uploaded
    /\ disk' = [disk EXCEPT ![Current] = "partial"]
    /\ Rollback
    /\ UNCHANGED remote

-----------------------------------------------------------------------------
(* Promotion *)

\* The load gate reads the row and loads the bundle, before and outside the
\* transaction that promotes.
LoadGate(v, target) ==
    /\ Cardinality(gates) < MaxGates
    /\ target = "CHAMPION" \/ row[v].stage = "CANDIDATE"
    /\ Registered(v)
    /\ row[v].path = "local" /\ disk[v] = "full"
    /\ gates' = gates \union {<<v, target>>}
    /\ UNCHANGED <<row, disk, remote, tx, restore>>

AfterTransition(v, target) ==
    [w \in Stored |->
        IF w = v THEN [row[w] EXCEPT !.stage = target]
        ELSE IF target = "CHAMPION" /\ row[w].stage = "CHAMPION"
             THEN [row[w] EXCEPT !.stage = "ARCHIVED"]
        ELSE row[w]]

\* transitionStage after the gate.
PromoteStored(v, target) ==
    /\ <<v, target>> \in gates
    /\ target \in AllowedTargets[row[v].stage]
    /\ BeginTx("promote", AfterTransition(v, target), IF target = "CHAMPION" THEN {v} ELSE {})
    /\ gates' = gates \ {<<v, target>>}
    /\ UNCHANGED <<row, disk, remote, restore>>

\* The promotion is refused (no evidence, no baseline, illegal by now).
PromoteRefused(v, target) ==
    /\ <<v, target>> \in gates
    /\ gates' = gates \ {<<v, target>>}
    /\ UNCHANGED <<row, disk, remote, tx, restore>>

Pushing == tx.kind = "promote" /\ tx.todo # {}

PushChampionBundle ==
    /\ Pushing
    /\ disk[Current] # "none"
    /\ remote' = [remote EXCEPT ![Current] = Uploaded(Current)]
    /\ tx' = [tx EXCEPT !.todo = {}]
    /\ UNCHANGED <<row, disk, restore, gates>>

\* Fault: a push that fails is only logged.
PushFailsQuietly ==
    /\ Pushing
    /\ tx' = [tx EXCEPT !.todo = {}]
    /\ UNCHANGED <<row, disk, remote, restore, gates>>

\* R2PushFailed is a RuntimeException: it rolls the promotion back.
PushFails ==
    /\ Pushing
    /\ \/ disk[Current] = "none" /\ UNCHANGED remote
       \/ /\ disk[Current] # "none"
          /\ \E amount \in PartlyUploaded(Current) :
                remote' = [remote EXCEPT ![Current] = amount]
    /\ Rollback
    /\ UNCHANGED disk

\* The transitions that the load gate does not guard: a rollback to SHADOW, an archival.
Transition(v, target) ==
    /\ target = "ARCHIVED" \/ (target = "SHADOW" /\ row[v].stage = "CHAMPION")
    /\ target \in AllowedTargets[row[v].stage]
    /\ BeginTx("stage", AfterTransition(v, target), {})
    /\ UNCHANGED <<row, disk, remote, restore, gates>>

\* The end of every write transaction: its rows become visible.  A restore that
\* has read holds the lock that a commit needs.
Commit ==
    /\ tx # NoTx
    /\ tx.todo = {}
    /\ restore = NoRestore
    /\ row' = tx.rows
    /\ tx' = NoTx
    /\ UNCHANGED <<disk, remote, restore, gates>>

\* A crash, or SQLITE_BUSY.
Abort ==
    /\ tx # NoTx
    /\ Rollback
    /\ UNCHANGED <<disk, remote>>

-----------------------------------------------------------------------------
(* Restore *)

RestoreBegin(v) ==
    /\ restore = NoRestore
    /\ Registered(v)
    /\ row[v].path = "s3"
    /\ restore' = [version |-> v, downloaded |-> FALSE]
    /\ UNCHANGED <<row, disk, remote, tx, gates>>

\* The keys of the version; labels that begin one another are not modelled.  A
\* file that exists already stops the download.
RestoreDownload ==
    LET v == restore.version
    IN /\ restore # NoRestore /\ ~restore.downloaded
       /\ disk[v] = "none"
       /\ disk' = [disk EXCEPT ![v] = remote[v]]
       /\ restore' = [restore EXCEPT !.downloaded = TRUE]
       /\ UNCHANGED <<row, remote, tx, gates>>

\* updatePaths and commit; a writer in progress makes it fail instead.
RestoreCommit ==
    /\ restore # NoRestore /\ restore.downloaded
    /\ tx = NoTx
    /\ row' = [row EXCEPT ![restore.version].path = "local"]
    /\ restore' = NoRestore
    /\ UNCHANGED <<disk, remote, tx, gates>>

\* The download stops, the update is refused, or the process dies.
RestoreFails ==
    /\ restore # NoRestore
    /\ \/ UNCHANGED disk
       \/ /\ ~restore.downloaded
          /\ disk[restore.version] = "none"
          /\ disk' = [disk EXCEPT ![restore.version] = "partial"]
    /\ restore' = NoRestore
    /\ UNCHANGED <<row, remote, tx, gates>>

-----------------------------------------------------------------------------
SnapshotInit ==
    /\ row = [v \in Stored |-> Unregistered]
    /\ disk = [v \in Stored |-> "none"]
    /\ remote = [v \in Stored |-> "none"]
    /\ tx = NoTx
    /\ restore = NoRestore
    /\ gates = {}

SweepNext == SweepSkip \/ SweepUpload \/ UploadFails \/ SweepDelete \/ DeleteFails

SnapshotNext ==
    \/ \E v \in Stored, reset \in Resets : RegisterStored(v, reset)
    \/ \E v \in Stored : PlacementFails(v) \/ RestoreBegin(v)
    \/ SweepNext
    \/ \E v \in Stored, target \in LiveStages :
          LoadGate(v, target) \/ PromoteStored(v, target) \/ PromoteRefused(v, target)
    \/ \E v \in Stored, target \in {"SHADOW", "ARCHIVED"} : Transition(v, target)
    \/ PushChampionBundle \/ PushFails
    \/ Commit \/ Abort
    \/ RestoreDownload \/ RestoreCommit \/ RestoreFails

SnapshotSpec == SnapshotInit /\ [][SnapshotNext]_snapshotVars

-----------------------------------------------------------------------------
(* Properties *)

SnapshotTypeOK ==
    /\ row \in [Stored -> Row]
    /\ disk \in [Stored -> Amounts]
    /\ remote \in [Stored -> Amounts]
    /\ tx \in Tx
    /\ restore \in Restore
    /\ gates \subseteq Stored \X LiveStages

\* No registered version's bundle is ever lost: it is whole where its row says
\* or, for a local row whose files a rolled back sweep had deleted, in the bucket.
\* The bucket has that of every champion: "a champion you can't recover is a
\* promotion that shouldn't finalize".
BundleSafe ==
    \A v \in Stored : Registered(v) =>
        \/ remote[v] = "full"
        \/ row[v].path = "local" /\ row[v].stage # "CHAMPION" /\ disk[v] = "full"

\* The directory of a serving champion exists, although the load gate and the
\* promotion are apart and a sweep may run between them.  (A bootstrap reset that
\* is rolled back after its sweep breaks this: see the run snapshot_reset.)
ChampionHasFiles ==
    \A v \in Stored : row[v].stage = "CHAMPION" => disk[v] # "none"

=============================================================================
