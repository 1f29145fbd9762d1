-------------------------- MODULE ModelFilesProofs --------------------------
(***************************************************************************)
(* Theorems about the files of models: Snapshots, where no registered      *)
(* version's bundle is lost for any number of versions, any retention and  *)
(* any interleaving of registrations, resets, promotions and restores with *)
(* failures and crashes; and ArtifactFiles, the directories that commands  *)
(* fill one after another.                                                 *)
(***************************************************************************)
EXTENDS Snapshots, ArtifactFiles, WellFoundedInduction, TLAPS

LEMMA LeastOfNat ==
    ASSUME NEW S \in SUBSET Nat, S # {}
    PROVE  \E d \in S : \A e \in S : ~ (e < d)
<1>1. \E d \in S : \A e \in S : ~ (<<e, d>> \in OpToRel(<, Nat))
    BY NatLessThanWellFounded, WFMin
<1>2. PICK d \in S : \A e \in S : ~ (<<e, d>> \in OpToRel(<, Nat))
    BY <1>1
<1>3. \A e \in S : ~ (e < d)
    BY <1>2 DEF OpToRel
<1> QED
    BY <1>3

\* The newest version of a set is one of them.
LEMMA NewestIsMember ==
    ASSUME NEW S \in SUBSET Stored, S # {}
    PROVE  Newest(S) \in S
<1> DEFINE D == {d \in Nat : \E v \in S : d = N - v}
<1>1. \A v \in S : N - v \in D
    BY SizesAssumption DEF Stored
<1>2. \E d \in D : \A e \in D : ~ (e < d)
    <2>1. D \in SUBSET Nat /\ D # {}
        BY <1>1
    <2> QED
        BY <2>1, LeastOfNat
<1>3. PICK d \in D : \A e \in D : ~ (e < d)
    BY <1>2
<1>4. PICK v \in S : d = N - v
    OBVIOUS
<1>5. \A w \in S : w <= v
    <2> SUFFICES ASSUME NEW w \in S
                 PROVE  w <= v
        OBVIOUS
    <2>1. ~ (N - w < N - v)
        BY <1>1, <1>3, <1>4
    <2>2. v \in Int /\ w \in Int /\ N \in Int
        BY SizesAssumption DEF Stored
    <2> QED
        BY <2>1, <2>2
<1> QED
    BY <1>5 DEF Newest

-----------------------------------------------------------------------------
(* The inductive invariant *)

\* A row does not lose its bundle: BundleSafe of one version.
Safe(r, v) ==
    r.stage # "none" =>
        \/ remote[v] = "full"
        \/ r.path = "local" /\ r.stage # "CHAMPION" /\ disk[v] = "full"

\* The rows a transaction has written are as safe as the committed ones, but
\* for the champion whose push is still to come.
SafeInTx(v) ==
    \/ Safe(tx.rows[v], v)
    \/ /\ tx.kind = "promote" /\ tx.todo = {v}
       /\ tx.rows[v].path = "local" /\ disk[v] = "full"

\* What the sweep is about to move is registered; what it has uploaded is in
\* the bucket whole.
SweepOK ==
    /\ tx.kind = "register" => \A v \in tx.todo : tx.rows[v].stage # "none" /\ tx.rows[v].path = "local"
    /\ tx.uploaded => /\ tx.kind = "register" /\ tx.todo # {}
                      /\ remote[Current] = "full" /\ disk[Current] # "none"

\* A restore works on a registered version whose row names the bucket.
RestoreOK ==
    restore # NoRestore =>
        /\ restore.version \in Stored
        /\ Registered(restore.version) /\ row[restore.version].path = "s3"

SnapshotInv ==
    /\ SnapshotTypeOK
    /\ BundleSafe
    /\ \A v \in Stored : SafeInTx(v)
    /\ SweepOK
    /\ RestoreOK

LEMMA Unstarted ==
    /\ NoTx \in Tx
    /\ NoTx.kind = "none" /\ NoTx.todo = {} /\ ~NoTx.uploaded
    /\ \A v \in Stored : NoTx.rows[v].stage = "none"
    /\ NoRestore \in Restore /\ NoRestore.version = 0
    BY DEF NoTx, Tx, Unregistered, Row, RowStages, NoRestore, Restore

LEMMA InitSafe == SnapshotInit => SnapshotInv
<1> SUFFICES ASSUME SnapshotInit PROVE SnapshotInv
    OBVIOUS
<1>1. SnapshotTypeOK
    BY Unstarted DEF SnapshotInit, SnapshotTypeOK, Unregistered, Row, RowStages, Amounts
<1>2. \A v \in Stored : row[v].stage = "none"
    BY DEF SnapshotInit, Unregistered
<1>3. BundleSafe
    BY <1>2 DEF BundleSafe, Registered
<1>4. \A v \in Stored : SafeInTx(v)
    BY Unstarted DEF SnapshotInit, SafeInTx, Safe
<1>5. SweepOK /\ RestoreOK
    BY Unstarted DEF SnapshotInit, SweepOK, RestoreOK
<1> QED
    BY <1>1, <1>3, <1>4, <1>5 DEF SnapshotInv

-----------------------------------------------------------------------------
(* What keeps a row safe *)

\* Files of v may be lost only when the bucket has them all, and the bucket
\* never loses a whole bundle.
FilesKept(v) ==
    /\ remote[v] = "full" => remote'[v] = "full"
    /\ disk[v] = "full" => disk'[v] = "full" \/ remote'[v] = "full"

LEMMA SafeKept ==
    ASSUME NEW v, NEW r, Safe(r, v), FilesKept(v)
    PROVE  Safe(r, v)'
    BY DEF Safe, FilesKept

\* A transaction that does not move on keeps its rows safe.
LEMMA TxKept ==
    ASSUME NEW v \in Stored, SafeInTx(v), FilesKept(v), UNCHANGED tx
    PROVE  SafeInTx(v)'
    BY DEF SafeInTx, Safe, FilesKept

\* A step on the files of v alone.
LEMMA OthersKept ==
    ASSUME SnapshotTypeOK, NEW v \in Stored,
           \/ UNCHANGED disk
           \/ \E amount \in Amounts : disk' = [disk EXCEPT ![v] = amount],
           \/ UNCHANGED remote
           \/ \E amount \in Amounts : remote' = [remote EXCEPT ![v] = amount]
    PROVE  /\ disk' \in [Stored -> Amounts] /\ remote' \in [Stored -> Amounts]
           /\ \A w \in Stored \ {v} : /\ disk'[w] = disk[w] /\ remote'[w] = remote[w]
                                      /\ FilesKept(w)
    BY DEF SnapshotTypeOK, FilesKept

LEMMA RowTypes ==
    ASSUME SnapshotTypeOK, NEW v \in Stored
    PROVE  /\ row[v] \in Row /\ tx.rows[v] \in Row
           /\ row[v].stage \in RowStages /\ row[v].path \in {"local", "s3"}
           /\ disk[v] \in Amounts /\ remote[v] \in Amounts
           /\ tx.todo \in SUBSET Stored /\ tx.uploaded \in BOOLEAN
    BY DEF SnapshotTypeOK, Row, Tx

\* The transaction ends and leaves the committed rows as they were.
LEMMA RolledBack ==
    ASSUME SnapshotInv, Rollback,
           disk' \in [Stored -> Amounts], remote' \in [Stored -> Amounts],
           \A v \in Stored : FilesKept(v)
    PROVE  SnapshotInv'
<1>1. SnapshotTypeOK'
    BY Unstarted DEF Rollback, SnapshotInv, SnapshotTypeOK
<1>2. BundleSafe'
    BY DEF Rollback, SnapshotInv, BundleSafe, Registered, FilesKept
<1>3. \A v \in Stored : SafeInTx(v)'
    BY Unstarted DEF Rollback, SafeInTx, Safe
<1>4. SweepOK'
    BY Unstarted DEF Rollback, SweepOK
<1>5. RestoreOK'
    BY DEF Rollback, SnapshotInv, RestoreOK, Registered
<1> QED
    BY <1>1, <1>2, <1>3, <1>4, <1>5 DEF SnapshotInv

\* A step that leaves the rows and the transaction alone.
LEMMA FilesOnly ==
    ASSUME SnapshotInv, UNCHANGED <<row, tx>>, gates' \subseteq Stored \X LiveStages,
           restore' \in Restore, RestoreOK',
           disk' \in [Stored -> Amounts], remote' \in [Stored -> Amounts],
           \A v \in Stored : Registered(v) \/ tx # NoTx => FilesKept(v),
           \A v \in Stored : disk'[v] = "none" => disk[v] = "none"
    PROVE  SnapshotInv'
<1>1. SnapshotTypeOK'
    BY DEF SnapshotInv, SnapshotTypeOK
<1>2. BundleSafe'
    BY DEF SnapshotInv, BundleSafe, Registered, FilesKept
<1>3. \A v \in Stored : SafeInTx(v)'
    <2>1. CASE tx = NoTx
        BY <2>1, Unstarted DEF SafeInTx, Safe
    <2>2. CASE tx # NoTx
        BY <2>2, TxKept DEF SnapshotInv
    <2> QED
        BY <2>1, <2>2
<1>4. SweepOK'
    <2>1. tx.uploaded => tx # NoTx /\ Current \in Stored
        <3>1. tx.uploaded => tx # NoTx /\ tx.todo # {} /\ tx.todo \in SUBSET Stored
            BY Unstarted DEF SnapshotInv, SweepOK, SnapshotTypeOK, Tx
        <3> QED
            BY <3>1, NewestIsMember DEF Current
    <2>2. Current' = Current
        BY DEF Current
    <2>3. tx.uploaded => remote'[Current] = "full" /\ disk'[Current] # "none"
        BY <2>1 DEF SnapshotInv, SweepOK, FilesKept
    <2> QED
        BY <2>2, <2>3 DEF SnapshotInv, SweepOK
<1> QED
    BY <1>1, <1>2, <1>3, <1>4 DEF SnapshotInv

\* A step of the transaction that is not its end.
LEMMA TxMoves ==
    ASSUME SnapshotInv, UNCHANGED <<row, restore>>, gates' \subseteq Stored \X LiveStages,
           disk' \in [Stored -> Amounts], remote' \in [Stored -> Amounts],
           \A v \in Stored : Registered(v) => FilesKept(v),
           tx' \in Tx, \A v \in Stored : SafeInTx(v)', SweepOK'
    PROVE  SnapshotInv'
<1>1. SnapshotTypeOK'
    BY DEF SnapshotInv, SnapshotTypeOK
<1>2. BundleSafe'
    BY DEF SnapshotInv, BundleSafe, Registered, FilesKept
<1>3. RestoreOK'
    BY DEF SnapshotInv, RestoreOK, Registered
<1> QED
    BY <1>1, <1>2, <1>3 DEF SnapshotInv

-----------------------------------------------------------------------------
(* Registration and its sweep *)

\* A transaction that starts from safe rows.
LEMMA TxBegins ==
    ASSUME NEW kind \in {"register", "promote", "stage"},
           NEW rows \in [Stored -> Row], NEW todo \in SUBSET Stored,
           BeginTx(kind, rows, todo)
    PROVE  /\ tx = NoTx /\ tx' \in Tx
           /\ tx'.kind = kind /\ tx'.rows = rows /\ tx'.todo = todo /\ ~tx'.uploaded
    BY DEF BeginTx, Tx

LEMMA RegisterStep ==
    ASSUME SnapshotInv, NEW v \in Stored, NEW reset \in Resets, RegisterStored(v, reset)
    PROVE  SnapshotInv'
<1> DEFINE rows == AfterRegistration(v, reset)
           todo == Overflow(rows)
<1>1. /\ ~Registered(v) /\ BeginTx("register", rows, todo)
      /\ disk' = [disk EXCEPT ![v] = "full"] /\ UNCHANGED <<row, remote, restore, gates>>
    BY DEF RegisterStored
<1>2. ASSUME NEW w \in Stored
      PROVE  /\ rows[w] \in Row
             /\ w = v => rows[w].stage = "CANDIDATE"
             /\ w # v => rows[w] = row[w] \/ (Registered(w) /\ rows[w].stage = "ARCHIVED"
                                                 /\ rows[w].path = row[w].path)
             /\ rows[v].path = "local"
    <2>1. row[w] \in Row
        BY RowTypes DEF SnapshotInv
    <2>2. [row[w] EXCEPT !.stage = "ARCHIVED"] \in Row
        BY <2>1 DEF Row, RowStages
    <2>3. [stage |-> "CANDIDATE", path |-> "local"] \in Row
        BY DEF Row, RowStages
    <2> QED
        BY <2>1, <2>2, <2>3 DEF AfterRegistration, Row
<1>3. rows \in [Stored -> Row]
    BY <1>2 DEF AfterRegistration
<1>4. /\ todo \in SUBSET Stored
      /\ \A w \in todo : rows[w].stage # "none" /\ rows[w].path = "local"
    BY DEF Overflow, Archivable
<1> HIDE DEF rows, todo
<1>5. /\ tx' \in Tx /\ tx'.kind = "register" /\ tx'.rows = rows /\ tx'.todo = todo
      /\ ~tx'.uploaded
    BY <1>1, <1>3, <1>4, TxBegins
<1>6. /\ disk' \in [Stored -> Amounts] /\ remote' \in [Stored -> Amounts]
      /\ disk'[v] = "full"
      /\ \A w \in Stored \ {v} : disk'[w] = disk[w]
      /\ \A w \in Stored : FilesKept(w) /\ remote'[w] = remote[w]
    BY <1>1 DEF SnapshotInv, SnapshotTypeOK, Amounts, FilesKept
<1>7. ASSUME NEW w \in Stored
      PROVE  SafeInTx(w)'
    <2>1. CASE w = v
        BY <1>2, <1>5, <1>6, <2>1 DEF SafeInTx, Safe
    <2>2. CASE w # v
        <3>1. Safe(row[w], w)
            BY DEF SnapshotInv, BundleSafe, Safe, Registered
        <3>2. Safe(rows[w], w)
            BY <1>2, <2>2, <3>1 DEF Safe, Registered
        <3> QED
            BY <1>5, <1>6, <2>2, <3>2 DEF SafeInTx, Safe
    <2> QED
        BY <2>1, <2>2
<1>8. SweepOK'
    BY <1>4, <1>5 DEF SweepOK
<1>9. gates' \subseteq Stored \X LiveStages
    BY <1>1 DEF SnapshotInv, SnapshotTypeOK
<1> QED
    BY <1>1, <1>5, <1>6, <1>7, <1>8, <1>9, TxMoves

\* The version the sweep is at: a registered one, with its files somewhere whole.
LEMMA SweepAt ==
    ASSUME SnapshotInv, tx.todo # {}
    PROVE  /\ Current \in Stored /\ Current \in tx.todo
           /\ tx.kind = "register" =>
                 /\ tx.rows[Current].stage # "none" /\ tx.rows[Current].path = "local"
                 /\ remote[Current] = "full" \/ disk[Current] = "full"
<1>1. Current \in tx.todo /\ tx.todo \in SUBSET Stored
    BY NewestIsMember DEF SnapshotInv, SnapshotTypeOK, Tx, Current
<1>2. SafeInTx(Current)
    BY <1>1 DEF SnapshotInv
<1> QED
    BY <1>1, <1>2 DEF SnapshotInv, SweepOK, SafeInTx, Safe

LEMMA SweepStep == SnapshotInv /\ SweepNext => SnapshotInv'
<1> SUFFICES ASSUME SnapshotInv, SweepNext
             PROVE  SnapshotInv'
    OBVIOUS
<1> DEFINE c == Current
<1>1. /\ Sweeping /\ c \in Stored /\ c \in tx.todo /\ tx.kind = "register"
      /\ tx.rows[c].stage # "none" /\ tx.rows[c].path = "local"
      /\ remote[c] = "full" \/ disk[c] = "full"
    BY SweepAt DEF SweepNext, SweepSkip, SweepUpload, UploadFails, SweepDelete, DeleteFails, Sweeping
<1>2. /\ tx \in Tx /\ disk \in [Stored -> Amounts] /\ remote \in [Stored -> Amounts]
      /\ gates \subseteq Stored \X LiveStages
    BY DEF SnapshotInv, SnapshotTypeOK
<1>3. \A w \in Stored : Safe(tx.rows[w], w)
    BY <1>1 DEF SnapshotInv, SafeInTx
<1>4. tx.uploaded => remote[c] = "full" /\ disk[c] # "none"
    BY DEF SnapshotInv, SweepOK
<1>5. \A w \in tx.todo : tx.rows[w].stage # "none" /\ tx.rows[w].path = "local"
    BY <1>1 DEF SnapshotInv, SweepOK
<1>6. CASE SweepSkip
    <2>1. /\ tx' \in Tx /\ tx'.kind = "register" /\ tx'.rows = tx.rows
          /\ tx'.todo = tx.todo \ {c} /\ ~tx'.uploaded
        BY <1>1, <1>2, <1>4, <1>6 DEF SweepSkip, Tx
    <2>2. UNCHANGED <<row, disk, remote, restore, gates>>
        BY <1>6 DEF SweepSkip
    <2>3. \A w \in Stored : FilesKept(w) /\ SafeInTx(w)'
        BY <1>3, <2>1, <2>2 DEF FilesKept, SafeInTx, Safe
    <2>4. SweepOK'
        BY <1>5, <2>1 DEF SweepOK
    <2> QED
        BY <1>2, <2>1, <2>2, <2>3, <2>4, TxMoves
<1>7. CASE SweepUpload
    <2>1. /\ tx' \in Tx /\ tx'.kind = "register" /\ tx'.rows = tx.rows
          /\ tx'.todo = tx.todo /\ tx'.uploaded
        BY <1>1, <1>2, <1>7 DEF SweepUpload, Tx
    <2>2. UNCHANGED <<row, disk, restore, gates>> /\ disk[c] # "none"
        BY <1>7 DEF SweepUpload
    <2>3. remote' = [remote EXCEPT ![c] = "full"]
        BY <1>1, <1>7 DEF SweepUpload, Uploaded
    <2> HIDE DEF c
    <2>4. /\ remote' \in [Stored -> Amounts] /\ remote'[c] = "full"
          /\ \A w \in Stored : remote'[w] \in {remote[w], "full"}
        BY <1>1, <1>2, <2>3 DEF Amounts
    <2>5. \A w \in Stored : FilesKept(w) /\ SafeInTx(w)'
        BY <1>3, <2>1, <2>2, <2>4 DEF FilesKept, SafeInTx, Safe
    <2>6. Current' = c
        BY <2>1 DEF Current, c
    <2>7. SweepOK'
        BY <1>1, <1>5, <2>1, <2>2, <2>4, <2>6 DEF SweepOK
    <2> QED
        BY <1>2, <2>1, <2>2, <2>4, <2>5, <2>7, TxMoves
<1>8. CASE SweepDelete
    <2>1. /\ tx' \in Tx /\ tx'.kind = "register" /\ tx'.todo = tx.todo \ {c} /\ ~tx'.uploaded
          /\ \A w \in Stored \ {c} : tx'.rows[w] = tx.rows[w]
        <3>1. tx.rows \in [Stored -> Row] /\ tx.rows[c] \in Row
            BY <1>1, <1>2 DEF Tx
        <3>2. [tx.rows[c] EXCEPT !.path = "s3"] \in Row
            BY <3>1 DEF Row
        <3>3. FlipPath(c) \in [Stored -> Row] /\ \A w \in Stored \ {c} : FlipPath(c)[w] = tx.rows[w]
            BY <3>1, <3>2 DEF FlipPath
        <3>4. tx' = [tx EXCEPT !.rows = FlipPath(c), !.todo = tx.todo \ {c}, !.uploaded = FALSE]
            BY <1>8 DEF SweepDelete
        <3> HIDE DEF c
        <3> QED
            BY <1>1, <1>2, <3>3, <3>4 DEF Tx
    <2>2. /\ UNCHANGED <<row, remote, restore, gates>> /\ remote[c] = "full"
          /\ disk' = [disk EXCEPT ![c] = "none"]
        BY <1>4, <1>8 DEF SweepDelete
    <2> HIDE DEF c
    <2>3. /\ disk' \in [Stored -> Amounts]
          /\ \A w \in Stored \ {c} : disk'[w] = disk[w]
        BY <1>1, <1>2, <2>2 DEF Amounts
    <2>4. \A w \in Stored : FilesKept(w) /\ SafeInTx(w)'
        BY <1>3, <2>1, <2>2, <2>3 DEF FilesKept, SafeInTx, Safe
    <2>5. SweepOK'
        BY <1>2, <1>5, <2>1 DEF SweepOK, Tx
    <2> QED
        BY <1>2, <2>1, <2>2, <2>3, <2>4, <2>5, TxMoves
<1>9. CASE UploadFails
    <2>1. PICK amount \in PartlyUploaded(c) : remote' = [remote EXCEPT ![c] = amount]
        BY <1>9 DEF UploadFails
    <2>2. Rollback /\ UNCHANGED disk
        BY <1>9 DEF UploadFails
    <2>3. amount \in Amounts /\ (remote[c] = "full" => amount = "full")
        BY <1>1, <1>2, <2>1 DEF PartlyUploaded, Amounts
    <2> HIDE DEF c
    <2>4. remote' \in [Stored -> Amounts] /\ \A w \in Stored : FilesKept(w)
        BY <1>1, <1>2, <2>1, <2>2, <2>3 DEF FilesKept
    <2> QED
        BY <1>2, <2>2, <2>4, RolledBack
<1>10. CASE DeleteFails
    <2>1. /\ Rollback /\ UNCHANGED remote /\ disk' = [disk EXCEPT ![c] = "partial"]
          /\ remote[c] = "full"
        BY <1>4, <1>10 DEF DeleteFails
    <2> HIDE DEF c
    <2>2. disk' \in [Stored -> Amounts] /\ \A w \in Stored : FilesKept(w)
        BY <1>1, <1>2, <2>1 DEF FilesKept, Amounts
    <2> QED
        BY <1>2, <2>1, <2>2, RolledBack
<1> QED
    BY <1>6, <1>7, <1>8, <1>9, <1>10 DEF SweepNext

-----------------------------------------------------------------------------
(* Promotions and the other transitions *)

\* The rows a transition writes: a moved stage, no other path, and a champion
\* only where the push is still to come.
LEMMA TransitionStep ==
    ASSUME SnapshotInv, NEW v \in Stored, NEW target \in LiveStages \union {"ARCHIVED"},
           target \in AllowedTargets[row[v].stage],
           NEW kind \in {"promote", "stage"}, NEW todo \in {{}, {v}},
           target = "CHAMPION" => kind = "promote" /\ todo = {v},
           BeginTx(kind, AfterTransition(v, target), todo),
           gates' \subseteq gates, UNCHANGED <<row, disk, remote, restore>>
    PROVE  SnapshotInv'
<1> DEFINE rows == AfterTransition(v, target)
<1>1. \A w \in Stored : row[w] \in Row
    BY RowTypes DEF SnapshotInv
<1>2. Registered(v)
    BY <1>1 DEF Registered, AllowedTargets, Row, RowStages
<1>3. ASSUME NEW w \in Stored
      PROVE  /\ rows[w] \in Row /\ rows[w].path = row[w].path
             /\ w = v => rows[w].stage = target
             /\ w # v => rows[w].stage \in {row[w].stage, "ARCHIVED"}
             /\ ~Registered(w) => rows[w].stage = "none"
             /\ w # v /\ rows[w].stage = "CHAMPION" => row[w].stage = "CHAMPION"
    <2>1. row[w] \in Row
        BY <1>1
    <2>2. CASE w = v
        BY <1>2, <2>1, <2>2 DEF AfterTransition, Row, RowStages, LiveStages, Registered
    <2>3. CASE w # v
        BY <2>1, <2>3 DEF AfterTransition, Row, RowStages, Registered
    <2> QED
        BY <2>2, <2>3
<1>4. rows \in [Stored -> Row]
    BY <1>3 DEF AfterTransition
<1> HIDE DEF rows
<1>5. /\ tx' \in Tx /\ tx'.kind = kind /\ tx'.rows = rows /\ tx'.todo = todo /\ ~tx'.uploaded
    BY <1>4, TxBegins DEF rows
<1>6. ASSUME NEW w \in Stored
      PROVE  SafeInTx(w)'
    <2>1. Safe(row[w], w)
        BY DEF SnapshotInv, BundleSafe, Safe, Registered
    <2>2. CASE w # v
        BY <1>3, <1>5, <2>1, <2>2 DEF SafeInTx, Safe, Registered
    <2>3. CASE w = v
        BY <1>2, <1>3, <1>5, <2>1, <2>3 DEF SafeInTx, Safe, Registered
    <2> QED
        BY <2>2, <2>3
<1>7. SweepOK'
    BY <1>5 DEF SweepOK
<1>8. /\ disk' \in [Stored -> Amounts] /\ remote' \in [Stored -> Amounts]
      /\ gates' \subseteq Stored \X LiveStages
      /\ \A w \in Stored : FilesKept(w)
    BY DEF SnapshotInv, SnapshotTypeOK, FilesKept
<1> QED
    BY <1>5, <1>6, <1>7, <1>8, TxMoves

LEMMA PushStep == SnapshotInv /\ PushChampionBundle => SnapshotInv'
<1> SUFFICES ASSUME SnapshotInv, PushChampionBundle
             PROVE  SnapshotInv'
    OBVIOUS
<1> DEFINE c == Current
<1>1. /\ c \in Stored /\ c \in tx.todo /\ tx.kind = "promote"
    BY SweepAt DEF PushChampionBundle, Pushing
<1>2. /\ tx \in Tx /\ disk \in [Stored -> Amounts] /\ remote \in [Stored -> Amounts]
      /\ gates \subseteq Stored \X LiveStages
    BY DEF SnapshotInv, SnapshotTypeOK
<1>3. PICK amount \in Amounts : amount = Uploaded(c)
    BY <1>1, <1>2 DEF Uploaded
<1>4. /\ remote' = [remote EXCEPT ![c] = amount] /\ UNCHANGED <<row, disk, restore, gates>>
      /\ tx' = [tx EXCEPT !.todo = {}]
    BY <1>3 DEF PushChampionBundle
<1>5. remote[c] = "full" \/ disk[c] = "full" => amount = "full"
    BY <1>3 DEF Uploaded
<1> HIDE DEF c
<1>6. /\ remote' \in [Stored -> Amounts] /\ remote'[c] = amount
      /\ \A w \in Stored \ {c} : remote'[w] = remote[w]
      /\ \A w \in Stored : FilesKept(w)
    BY <1>1, <1>2, <1>4, <1>5 DEF FilesKept
<1>7. /\ tx' \in Tx /\ tx'.kind = "promote" /\ tx'.rows = tx.rows /\ tx'.todo = {}
      /\ ~tx'.uploaded
    BY <1>1, <1>2, <1>4 DEF Tx, SnapshotInv, SweepOK
<1>8. ASSUME NEW w \in Stored
      PROVE  SafeInTx(w)'
    <2>1. SafeInTx(w)
        BY DEF SnapshotInv
    <2>2. CASE Safe(tx.rows[w], w)
        BY <1>6, <1>7, <2>2 DEF SafeInTx, Safe, FilesKept
    <2>3. CASE tx.todo = {w} /\ disk[w] = "full"
        BY <1>1, <1>5, <1>6, <1>7, <2>3 DEF SafeInTx, Safe
    <2> QED
        BY <2>1, <2>2, <2>3 DEF SafeInTx
<1>9. SweepOK'
    BY <1>7 DEF SweepOK
<1> QED
    BY <1>2, <1>4, <1>6, <1>7, <1>8, <1>9, TxMoves

LEMMA PushFailsStep == SnapshotInv /\ PushFails => SnapshotInv'
<1> SUFFICES ASSUME SnapshotInv, PushFails
             PROVE  SnapshotInv'
    OBVIOUS
<1> DEFINE c == Current
<1>1. c \in Stored /\ Rollback /\ UNCHANGED disk
    BY SweepAt DEF PushFails, Pushing
<1>2. /\ disk \in [Stored -> Amounts] /\ remote \in [Stored -> Amounts]
    BY DEF SnapshotInv, SnapshotTypeOK
<1>3. CASE UNCHANGED remote
    BY <1>1, <1>2, <1>3, RolledBack DEF FilesKept
<1>4. CASE \E amount \in PartlyUploaded(c) : remote' = [remote EXCEPT ![c] = amount]
    <2>1. PICK amount \in PartlyUploaded(c) : remote' = [remote EXCEPT ![c] = amount]
        BY <1>4
    <2>2. amount \in Amounts /\ (remote[c] = "full" => amount = "full")
        BY <1>1, <1>2, <2>1 DEF PartlyUploaded, Amounts
    <2> HIDE DEF c
    <2>3. remote' \in [Stored -> Amounts] /\ \A w \in Stored : FilesKept(w)
        BY <1>1, <1>2, <2>1, <2>2 DEF FilesKept
    <2> QED
        BY <1>1, <1>2, <2>3, RolledBack
<1> QED
    BY <1>3, <1>4 DEF PushFails

-----------------------------------------------------------------------------
(* Commits and restores *)

LEMMA CommitStep == SnapshotInv /\ Commit => SnapshotInv'
<1> SUFFICES ASSUME SnapshotInv, Commit
             PROVE  SnapshotInv'
    OBVIOUS
<1>1. /\ tx.todo = {} /\ restore = NoRestore /\ row' = tx.rows /\ tx' = NoTx
      /\ UNCHANGED <<disk, remote, restore, gates>>
    BY DEF Commit
<1>2. SnapshotTypeOK'
    BY <1>1, Unstarted DEF SnapshotInv, SnapshotTypeOK, Tx
<1>3. \A v \in Stored : Safe(tx.rows[v], v)
    BY <1>1 DEF SnapshotInv, SafeInTx
<1>4. BundleSafe'
    BY <1>1, <1>3 DEF BundleSafe, Registered, Safe
<1>5. \A v \in Stored : SafeInTx(v)'
    BY <1>1, Unstarted DEF SafeInTx, Safe
<1>6. SweepOK' /\ RestoreOK'
    BY <1>1, Unstarted DEF SweepOK, RestoreOK
<1> QED
    BY <1>2, <1>4, <1>5, <1>6 DEF SnapshotInv

LEMMA RestoreCommitStep == SnapshotInv /\ RestoreCommit => SnapshotInv'
<1> SUFFICES ASSUME SnapshotInv, RestoreCommit
             PROVE  SnapshotInv'
    OBVIOUS
<1> DEFINE v == restore.version
<1>1. /\ tx = NoTx /\ row' = [row EXCEPT ![v].path = "local"] /\ restore' = NoRestore
      /\ restore # NoRestore /\ restore.downloaded /\ UNCHANGED <<disk, remote, tx, gates>>
    BY DEF RestoreCommit
<1>2. v \in Stored /\ Registered(v) /\ row[v].path = "s3"
    BY <1>1 DEF SnapshotInv, RestoreOK
<1>3. row \in [Stored -> Row] /\ row[v] \in Row
    BY <1>2, RowTypes DEF SnapshotInv, SnapshotTypeOK
<1>4. remote[v] = "full"
    BY <1>2, <1>3 DEF SnapshotInv, BundleSafe
<1> HIDE DEF v
<1>5. /\ row' \in [Stored -> Row]
      /\ \A w \in Stored \ {v} : row'[w] = row[w]
    BY <1>1, <1>2, <1>3 DEF Row
<1>6. SnapshotTypeOK'
    BY <1>1, <1>5, Unstarted DEF SnapshotInv, SnapshotTypeOK
<1>7. BundleSafe'
    BY <1>1, <1>4, <1>5 DEF SnapshotInv, BundleSafe, Registered
<1>8. \A w \in Stored : SafeInTx(w)'
    BY <1>1, Unstarted DEF SafeInTx, Safe
<1>9. SweepOK' /\ RestoreOK'
    BY <1>1, Unstarted DEF SweepOK, RestoreOK
<1> QED
    BY <1>6, <1>7, <1>8, <1>9 DEF SnapshotInv

\* The other steps of a restore, and those before and around a transaction.
LEMMA OutsideStep ==
    ASSUME SnapshotInv,
           \/ \E v \in Stored : PlacementFails(v) \/ RestoreBegin(v)
           \/ \E v \in Stored, target \in LiveStages : LoadGate(v, target) \/ PromoteRefused(v, target)
           \/ RestoreDownload \/ RestoreFails
    PROVE  SnapshotInv'
<1>1. /\ disk \in [Stored -> Amounts] /\ remote \in [Stored -> Amounts]
      /\ gates \subseteq Stored \X LiveStages /\ restore \in Restore /\ RestoreOK
    BY DEF SnapshotInv, SnapshotTypeOK
<1>2. ASSUME NEW v \in Stored, PlacementFails(v)
      PROVE  SnapshotInv'
    <2>1. /\ tx = NoTx /\ ~Registered(v) /\ UNCHANGED <<row, remote, tx, restore, gates>>
          /\ \E amount \in {"full", "partial"} : disk' = [disk EXCEPT ![v] = amount]
        BY <1>2 DEF PlacementFails
    <2>2. /\ disk' \in [Stored -> Amounts] /\ disk'[v] # "none"
          /\ \A w \in Stored \ {v} : disk'[w] = disk[w]
        BY <1>1, <2>1 DEF Amounts
    <2>3. \A w \in Stored : Registered(w) => FilesKept(w)
        BY <2>1, <2>2 DEF FilesKept
    <2>4. RestoreOK'
        BY <1>1, <2>1 DEF RestoreOK, Registered
    <2> QED
        BY <1>1, <2>1, <2>2, <2>3, <2>4, FilesOnly
<1>3. ASSUME NEW v \in Stored, RestoreBegin(v)
      PROVE  SnapshotInv'
    <2>1. /\ Registered(v) /\ row[v].path = "s3"
          /\ restore' = [version |-> v, downloaded |-> FALSE]
          /\ UNCHANGED <<row, disk, remote, tx, gates>>
        BY <1>3 DEF RestoreBegin
    <2>2. restore' \in Restore /\ RestoreOK'
        BY <2>1 DEF Restore, RestoreOK, Registered
    <2>3. \A w \in Stored : FilesKept(w)
        BY <2>1 DEF FilesKept
    <2> QED
        BY <1>1, <2>1, <2>2, <2>3, FilesOnly
<1>4. ASSUME NEW v \in Stored, NEW target \in LiveStages,
             LoadGate(v, target) \/ PromoteRefused(v, target)
      PROVE  SnapshotInv'
    <2>1. /\ UNCHANGED <<row, disk, remote, tx, restore>>
          /\ gates' \subseteq Stored \X LiveStages
        BY <1>1, <1>4 DEF LoadGate, PromoteRefused
    <2>2. RestoreOK' /\ \A w \in Stored : FilesKept(w)
        BY <1>1, <2>1 DEF RestoreOK, Registered, FilesKept
    <2> QED
        BY <1>1, <2>1, <2>2, FilesOnly
<1>5. CASE RestoreDownload
    <2>1. PICK v \in Stored : v = restore.version
        BY <1>1, <1>5 DEF RestoreDownload, RestoreOK
    <2>2. /\ restore # NoRestore /\ disk[v] = "none" /\ disk' = [disk EXCEPT ![v] = remote[v]]
          /\ restore' = [restore EXCEPT !.downloaded = TRUE]
          /\ UNCHANGED <<row, remote, tx, gates>>
        BY <1>5, <2>1 DEF RestoreDownload
    <2>3. /\ disk' \in [Stored -> Amounts]
          /\ \A w \in Stored \ {v} : disk'[w] = disk[w]
        BY <1>1, <2>2
    <2>4. /\ \A w \in Stored : FilesKept(w)
          /\ \A w \in Stored : disk'[w] = "none" => disk[w] = "none"
        BY <2>2, <2>3 DEF FilesKept
    <2>5. restore' \in Restore /\ restore'.version = v
        BY <1>1, <2>1, <2>2 DEF Restore
    <2>6. RestoreOK'
        BY <1>1, <2>1, <2>2, <2>5 DEF RestoreOK, Registered
    <2> QED
        BY <1>1, <2>2, <2>3, <2>4, <2>5, <2>6, FilesOnly
<1>6. CASE RestoreFails
    <2>1. PICK v \in Stored : v = restore.version
        BY <1>1, <1>6 DEF RestoreFails, RestoreOK
    <2>2. /\ restore' = NoRestore /\ UNCHANGED <<row, remote, tx, gates>>
          /\ \/ UNCHANGED disk
             \/ disk[v] = "none" /\ disk' = [disk EXCEPT ![v] = "partial"]
        BY <1>6, <2>1 DEF RestoreFails
    <2>3. /\ disk' \in [Stored -> Amounts]
          /\ \A w \in Stored : FilesKept(w)
          /\ \A w \in Stored : disk'[w] = "none" => disk[w] = "none"
        BY <1>1, <2>2 DEF FilesKept, Amounts
    <2>4. restore' \in Restore /\ RestoreOK'
        BY <2>2, Unstarted DEF RestoreOK
    <2> QED
        BY <1>1, <2>2, <2>3, <2>4, FilesOnly
<1> QED
    BY <1>2, <1>3, <1>4, <1>5, <1>6

LEMMA SnapshotStep == SnapshotInv /\ [SnapshotNext]_snapshotVars => SnapshotInv'
<1> SUFFICES ASSUME SnapshotInv, [SnapshotNext]_snapshotVars
             PROVE  SnapshotInv'
    OBVIOUS
<1>1. ASSUME NEW v \in Stored, NEW target \in LiveStages, PromoteStored(v, target)
      PROVE  SnapshotInv'
    <2>1. PICK todo \in {{}, {v}} : /\ BeginTx("promote", AfterTransition(v, target), todo)
                                    /\ target = "CHAMPION" => todo = {v}
        BY <1>1 DEF PromoteStored
    <2>2. /\ target \in AllowedTargets[row[v].stage] /\ gates' \subseteq gates
          /\ UNCHANGED <<row, disk, remote, restore>>
        BY <1>1 DEF PromoteStored
    <2> QED
        BY <2>1, <2>2, TransitionStep
<1>2. ASSUME NEW v \in Stored, NEW target \in {"SHADOW", "ARCHIVED"}, Transition(v, target)
      PROVE  SnapshotInv'
    <2>1. /\ target \in AllowedTargets[row[v].stage]
          /\ BeginTx("stage", AfterTransition(v, target), {})
          /\ UNCHANGED <<row, disk, remote, restore, gates>>
          /\ target \in LiveStages \union {"ARCHIVED"} /\ target # "CHAMPION"
        BY <1>2 DEF Transition, LiveStages
    <2> QED
        BY <2>1, TransitionStep
<1>3. CASE Abort
    BY <1>3, RolledBack DEF Abort, SnapshotInv, SnapshotTypeOK, FilesKept
<1>4. CASE UNCHANGED snapshotVars
    <2>1. gates' \subseteq Stored \X LiveStages /\ restore' \in Restore /\ RestoreOK'
        BY <1>4 DEF snapshotVars, SnapshotInv, SnapshotTypeOK, RestoreOK, Registered
    <2>2. /\ disk' \in [Stored -> Amounts] /\ remote' \in [Stored -> Amounts]
          /\ UNCHANGED <<row, tx, disk>> /\ \A w \in Stored : FilesKept(w)
        BY <1>4 DEF snapshotVars, SnapshotInv, SnapshotTypeOK, FilesKept
    <2> QED
        BY <2>1, <2>2, FilesOnly
<1> QED
    BY <1>1, <1>2, <1>3, <1>4, RegisterStep, SweepStep, PushStep, PushFailsStep,
       CommitStep, RestoreCommitStep, OutsideStep
    DEF SnapshotNext

LEMMA SnapshotInvariant == SnapshotSpec => []SnapshotInv
    BY InitSafe, SnapshotStep, PTL DEF SnapshotSpec

-----------------------------------------------------------------------------
\* Every variable stays in its type.
THEOREM SnapshotTypeCorrect == SnapshotSpec => []SnapshotTypeOK
<1>1. SnapshotInv => SnapshotTypeOK
    BY DEF SnapshotInv
<1> QED
    BY <1>1, SnapshotInvariant, PTL

\* Whatever uploads, deletions, transactions and restores fail and whenever the
\* process dies: the files of a registered version are whole on the disk or in
\* the bucket, and those of a champion are whole in the bucket.
THEOREM BundlesAreSafe == SnapshotSpec => []BundleSafe
<1>1. SnapshotInv => BundleSafe
    BY DEF SnapshotInv
<1> QED
    BY <1>1, SnapshotInvariant, PTL

-----------------------------------------------------------------------------
(***************************************************************************)
(* The directories of models: what runs, and what it still has to write.   *)
(***************************************************************************)
Network(name) == <<"network", name>>
Report(name) == <<"eval", name>>
Calibrations == {Network("calibrator.json"), Network("calibration_metrics.json")}

\* What is left of the files of the commands that the properties are about.
Left(kind) ==
    CASE kind = "train_network" ->
           {<<Network("model.pt"), Network("model.onnx"), Network("metadata.json")>>,
            <<Network("model.onnx"), Network("metadata.json")>>, <<Network("metadata.json")>>}
      [] kind = "calibrate" ->
           {<<Network("calibrator.json"), Network("calibration_metrics.json")>>,
            <<Network("calibration_metrics.json")>>}
      [] kind = "score" ->
           {<<Report("accuracy.json"), Report("accuracy.html")>>, <<Report("accuracy.html")>>}
      [] kind = "baseline" -> {<<Network("metadata.json")>>}
      [] kind = "train_lightgbm" ->
           {<< <<"lightgbm", "model.txt">>, <<"lightgbm", "calibrator.json">>,
               <<"lightgbm", "metadata.json">> >>,
            << <<"lightgbm", "calibrator.json">>, <<"lightgbm", "metadata.json">> >>,
            << <<"lightgbm", "metadata.json">> >>}
      [] OTHER -> {}
Followed == {"train_network", "calibrate", "score", "baseline", "train_lightgbm"}

IsContent(c) ==
    c = [by |-> c.by, run |-> c.run, seen |-> c.seen, of |-> c.of, about |-> c.about,
         note |-> c.note, whole |-> c.whole]

IsCommand(c) ==
    c = [kind |-> c.kind, run |-> c.run, seen |-> c.seen, of |-> c.of, about |-> c.about,
         note |-> c.note, todo |-> c.todo]

CommandOK ==
    /\ IsCommand(command)
    /\ command.kind \in Followed => command.todo \in Left(command.kind)
    /\ command.kind = "baseline" => Network("metadata.json") \in DOMAIN files

\* Nothing but the calibrations of a network has been fitted on the holdout,
\* and what is fitted on it, or about it, says so.
HoldoutInv ==
    /\ \A f \in DOMAIN files : IsContent(files[f])
    /\ \A f \in DOMAIN files \ Calibrations : ~TouchesHoldout(files[f].seen)
    /\ command.kind # "calibrate" => ~TouchesHoldout(command.seen)
    /\ command.kind \in {"baseline", "train_network"} => ~TouchesHoldout(command.about)
    /\ command.kind = "score" => command.about \in Spans /\ command.note = EvalKind(command.about)

\* The night: a command that runs is the one of its stage.
NightOK ==
    /\ night = [stage |-> night.stage, began |-> night.began, train |-> night.train,
                val |-> night.val, why |-> night.why]
    /\ runs \in Nat /\ night.stage \in 0 .. Len(NightStages)
    /\ NightRuns => /\ night.began \in 1 .. runs + 1
                    /\ night.train \in Spans /\ night.val \in Spans
    /\ NightRuns /\ ~Idle => /\ command.kind = NightStage
                             /\ command.kind \in {"train_network", "calibrate", "train_lightgbm"}
                             /\ command.run \in night.began .. runs

Model == {Network("model.pt"), Network("metadata.json")}
Metrics == Network("calibration_metrics.json")
IsFresh(f) == Readable(f) /\ files[f].run \in Nat /\ files[f].run >= night.began

\* What the stages behind the night have left, and what the one that is writing
\* has already written.
FreshInv ==
    NightRuns =>
      /\ (night.stage = 2 /\ ~Idle /\ command.todo # Writes("train_network", << >>))
           => IsFresh(Network("model.pt"))
      /\ night.stage > 2 => \A f \in Model : IsFresh(f)
      /\ night.stage = 3 /\ ~Idle => command.of = RunsOf(Model)
      /\ night.stage > 3 => Readable(Metrics) /\ files[Metrics].of = RunsOf(Model)
      /\ night.stage > GateStage => files[Metrics].note = "good"

\* What the command that runs has written, and will write, in a directory: a
\* metadata.json comes after its companions, and nothing but a metadata.json is
\* written twice.
IsSeq(todo) == \E S : todo \in Seq(S)
Ahead(todo, m) == {todo[i] : i \in 1 .. m - 1}
IsWritten(g) == Readable(g) /\ files[g].run = command.run
Ordered(kind, todo) ==
    \A n \in DOMAIN todo, m \in DOMAIN todo :
       n < m /\ todo[n] = todo[m] => todo[n][2] = "metadata.json"
Companied(f) == In(f[1], Companions(command.kind, f[1]))

OrderInv ==
    /\ \A f \in DOMAIN files : files[f].run \in 1 .. runs
    /\ IsSeq(command.todo)
    /\ Writing =>
         /\ command.run = runs /\ runs >= 1
         /\ Ordered(command.kind, command.todo)
         /\ \A n \in DOMAIN command.todo :
               /\ command.todo[n][2] = "metadata.json" /\ command.kind # "baseline" =>
                    \A g \in Companied(command.todo[n]) :
                       IsWritten(g) \/ g \in Ahead(command.todo, n)
               /\ command.todo[n] \in DOMAIN files
                     /\ files[command.todo[n]].run = command.run
                    => command.todo[n][2] = "metadata.json"

\* The companions of a metadata.json are of its run, or one of them is newer.
LastInv ==
    \A f \in DOMAIN files :
       f[2] = "metadata.json" =>
         LET beside == In(f[1], Companions(files[f].by, f[1]))
         IN \/ \A g \in beside : Readable(g) /\ files[g].run = files[f].run
            \/ \E g \in beside : g \in DOMAIN files /\ files[g].run > files[f].run

ArtifactInv == CommandOK /\ HoldoutInv /\ HoldoutIsUnseen /\ NightOK /\ FreshInv

LEMMA WritesOf ==
    /\ \A asked : Writes("train_network", asked) \in Left("train_network")
    /\ \A asked : Writes("calibrate", asked) \in Left("calibrate")
    /\ \A asked : Writes("score", asked) \in Left("score")
    /\ \A asked : Writes("baseline", asked) \in Left("baseline")
    /\ \A asked : Writes("train_lightgbm", asked) \in Left("train_lightgbm")
BY DEF Writes, Left, Into, Network, Report

\* The first of three files, of two or of one, and what is left after it.
LEMMA FirstOfThree ==
    ASSUME NEW a, NEW b, NEW c, NEW all, all = {<<a, b, c>>, <<b, c>>, <<c>>}, NEW todo \in all
    PROVE  todo # << >> /\ (Len(todo) # 1 => Tail(todo) \in all) /\ Head(todo) \in {a, b, c}
<1>1. Tail(<<a, b, c>>) = <<b, c>> /\ Head(<<a, b, c>>) = a /\ <<a, b, c>> # << >>
  OBVIOUS
<1>2. Tail(<<b, c>>) = <<c>> /\ Head(<<b, c>>) = b /\ <<b, c>> # << >>
  OBVIOUS
<1>3. Len(<<c>>) = 1 /\ Head(<<c>>) = c /\ <<c>> # << >>
  OBVIOUS
<1> QED
  BY <1>1, <1>2, <1>3, Zenon

LEMMA FirstOfTwo ==
    ASSUME NEW b, NEW c, NEW all, all = {<<b, c>>, <<c>>}, NEW todo \in all
    PROVE  todo # << >> /\ (Len(todo) # 1 => Tail(todo) \in all) /\ Head(todo) \in {b, c}
<1>2. Tail(<<b, c>>) = <<c>> /\ Head(<<b, c>>) = b /\ <<b, c>> # << >>
  OBVIOUS
<1>3. Len(<<c>>) = 1 /\ Head(<<c>>) = c /\ <<c>> # << >>
  OBVIOUS
<1> QED
  BY <1>2, <1>3, Zenon

LEMMA LeftAfterHead ==
    ASSUME NEW kind \in Followed, NEW todo \in Left(kind)
    PROVE  /\ todo # << >>
           /\ Len(todo) # 1 => Tail(todo) \in Left(kind)
           /\ kind = "score" => Head(todo) \in {Report("accuracy.json"), Report("accuracy.html")}
           /\ kind = "calibrate" => Head(todo) \in Calibrations
           /\ kind = "baseline" => Head(todo) = Network("metadata.json")
           /\ kind = "train_network" =>
                 Head(todo) \in {Network("model.pt"), Network("model.onnx"), Network("metadata.json")}
           /\ kind = "train_lightgbm" => Head(todo)[1] = "lightgbm"
<1>1. CASE kind = "train_network"
  <2>1. Left(kind) = {<<Network("model.pt"), Network("model.onnx"), Network("metadata.json")>>,
                      <<Network("model.onnx"), Network("metadata.json")>>,
                      <<Network("metadata.json")>>}
    BY <1>1 DEF Left
  <2> QED
    BY <1>1, <2>1, FirstOfThree, Zenon
<1>2. CASE kind = "calibrate"
  <2>1. Left(kind) = {<<Network("calibrator.json"), Network("calibration_metrics.json")>>,
                      <<Network("calibration_metrics.json")>>}
    BY <1>2 DEF Left
  <2> QED
    BY <1>2, <2>1, FirstOfTwo, Zenon DEF Calibrations
<1>3. CASE kind = "score"
  <2>1. Left(kind) = {<<Report("accuracy.json"), Report("accuracy.html")>>,
                      <<Report("accuracy.html")>>}
    BY <1>3 DEF Left
  <2> QED
    BY <1>3, <2>1, FirstOfTwo, Zenon
<1>4. CASE kind = "baseline"
  <2>1. todo = <<Network("metadata.json")>>
    BY <1>4 DEF Left
  <2> QED
    BY <1>4, <2>1
<1>5. CASE kind = "train_lightgbm"
  <2> DEFINE Booster(name) == <<"lightgbm", name>>
  <2>1. Left(kind) = {<<Booster("model.txt"), Booster("calibrator.json"), Booster("metadata.json")>>,
                      <<Booster("calibrator.json"), Booster("metadata.json")>>,
                      <<Booster("metadata.json")>>}
    BY <1>5 DEF Left
  <2>2. \A name : Booster(name)[1] = "lightgbm"
    OBVIOUS
  <2> HIDE DEF Booster
  <2>3. /\ todo # << >> /\ (Len(todo) # 1 => Tail(todo) \in Left(kind))
        /\ Head(todo) \in {Booster("model.txt"), Booster("calibrator.json"), Booster("metadata.json")}
    BY <2>1, FirstOfThree, Zenon
  <2> QED
    BY <1>5, <2>2, <2>3
<1> QED
    BY <1>1, <1>2, <1>3, <1>4, <1>5 DEF Followed

\* A command that starts.
LEMMA StartKeeps ==
    ASSUME NEW kind, NEW span \in Spans \union {{}}, NEW val, NEW asked,
           HoldoutInv, Start(kind, span, val, asked), UNCHANGED files,
           kind \in Trainers \union {"baseline"} => ~TouchesHoldout(span \union val),
           kind = "score" => span \in Spans,
           kind \in Trainers \union {"calibrate", "export_lightgbm", "export_regression",
                                     "export_parks", "score", "baseline"}
             \/ span \union val = {}
    PROVE  CommandOK' /\ HoldoutInv' /\ command'.kind = kind /\ command'.run = runs + 1
<1>1. PICK note \in Notes(kind, span) :
          command' = [kind |-> kind, run |-> runs + 1, seen |-> Sees(kind, span, val),
                      of |-> Derives(kind), about |-> span, note |-> note,
                      todo |-> Writes(kind, asked)]
    BY DEF Start
<1>2. IsCommand(command')
    BY <1>1 DEF IsCommand
<1>3. kind \in Followed => command'.todo \in Left(kind)
    BY <1>1, WritesOf DEF Followed
<1>4. kind = "baseline" => Network("metadata.json") \in DOMAIN files
    BY DEF Start, Loads, Reads, AllReadable, Readable, Exists, Served, In, Network
<1>5. kind = "score" => note = EvalKind(span)
    BY <1>1 DEF Notes
<1>6. kind # "calibrate" => ~TouchesHoldout(Sees(kind, span, val))
  <2>1. AllReadable(Reads(kind))
    BY DEF Start, Loads
  <2>2. CASE kind \in {"export_lightgbm", "export_regression", "export_parks"}
    <3>1. Reads(kind) \subseteq DOMAIN files
      BY <2>1 DEF AllReadable, Readable, Exists
    <3>2. Reads(kind) \intersect Calibrations = {}
      BY <2>2 DEF Reads, In, Calibrations, Network
    <3>3. \A f \in Reads(kind) : HOLDOUT_YEAR \notin files[f].seen
      BY <3>1, <3>2 DEF HoldoutInv, TouchesHoldout
    <3>4. Sees(kind, span, val) = SeenBy(Reads(kind))
      BY <2>2 DEF Sees
    <3> QED
      BY <3>3, <3>4 DEF SeenBy, TouchesHoldout
  <2>3. CASE kind = "score"
    <3> DEFINE graph == In("network", {"metadata.json", "model.onnx"})
    <3>1. graph \subseteq DOMAIN files
      BY <2>1, <2>3 DEF AllReadable, Readable, Exists, Reads, Served, In
    <3>2. graph \intersect Calibrations = {}
      BY DEF In, Calibrations, Network
    <3>3. \A f \in graph : HOLDOUT_YEAR \notin files[f].seen
      BY <3>1, <3>2 DEF HoldoutInv, TouchesHoldout
    <3>4. Sees(kind, span, val) = SeenBy(graph)
      BY <2>3 DEF Sees
    <3> QED
      BY <3>3, <3>4 DEF SeenBy, TouchesHoldout
  <2>4. CASE kind \notin {"export_lightgbm", "export_regression", "export_parks", "score", "calibrate"}
    <3>1. Sees(kind, span, val) = Fitted(kind, span, val)
      BY <2>4 DEF Sees
    <3>2. Fitted(kind, span, val) \subseteq span \union val
      BY DEF Fitted
    <3> QED
      BY <2>4, <3>1, <3>2 DEF TouchesHoldout
  <2> QED
    BY <2>2, <2>3, <2>4
<1> QED
    BY <1>1, <1>2, <1>3, <1>4, <1>5, <1>6 DEF CommandOK, HoldoutInv, Trainers, TouchesHoldout

\* A file that is written, whole or cut short.
LEMMA ContentKeeps ==
    ASSUME CommandOK, HoldoutInv, HoldoutIsUnseen, Writing,
           NEW f, f = Head(command.todo),
           NEW c, c = Content(f) \/ c = [Content(f) EXCEPT !.whole = FALSE]
    PROVE  /\ IsContent(c)
           /\ f \notin Calibrations => ~TouchesHoldout(c.seen)
           /\ f[1] = "eval" =>
                /\ c.note = "unseen" => c.seen \intersect c.about = {}
                /\ c.note = "in_sample" => ~TouchesHoldout(c.about)
           /\ f[1] # "eval" => ~TouchesHoldout(c.about)
<1>1. CASE command.kind = "baseline"
  <2>1. f = Network("metadata.json") /\ f \in DOMAIN files
    BY <1>1, LeftAfterHead DEF CommandOK, Followed
  <2>2. Content(f) = [files[f] EXCEPT !.about = command.about]
    BY <1>1 DEF Content
  <2>3. IsContent(files[f]) /\ ~TouchesHoldout(files[f].seen)
    BY <2>1 DEF HoldoutInv, Network, Calibrations
  <2>4. /\ IsContent(c)
        /\ c.seen = files[f].seen /\ c.about = command.about
    BY <2>2, <2>3 DEF IsContent
  <2>5. f[1] # "eval"
    BY <2>1 DEF Network
  <2> QED
    BY <1>1, <2>3, <2>4, <2>5 DEF HoldoutInv
<1>2. CASE command.kind # "baseline"
  <2>1. /\ IsContent(c) /\ c.seen = command.seen /\ c.note = command.note
        /\ \/ c.about = command.about /\ command.kind \in {"score", "train_network"}
           \/ c.about = {} /\ command.kind # "score"
    BY <1>2 DEF Content, Plain, IsContent
  <2>2. f \notin Calibrations => ~TouchesHoldout(c.seen)
    BY <2>1, LeftAfterHead DEF CommandOK, HoldoutInv, Followed
  <2>3. CASE command.kind = "score"
    <3>1. f[1] = "eval" /\ f \notin Calibrations
      <4>1. f \in {Report("accuracy.json"), Report("accuracy.html")}
        BY <2>3, LeftAfterHead DEF CommandOK, Followed
      <4> QED
        BY <4>1 DEF Report, Calibrations, Network
    <3>2. c.about = command.about /\ c.about \in Spans /\ c.note = EvalKind(c.about)
      BY <2>1, <2>3 DEF HoldoutInv
    <3>3. c.note = "unseen" => c.about = {HOLDOUT_YEAR}
      BY <3>2 DEF Spans, EvalKind
    <3>4. c.note = "in_sample" => ~TouchesHoldout(c.about)
      BY <3>2 DEF EvalKind
    <3> QED
      BY <2>1, <2>2, <3>1, <3>3, <3>4 DEF TouchesHoldout
  <2>4. CASE command.kind # "score"
    <3>1. ~TouchesHoldout(c.about)
      BY <2>1, <2>4 DEF HoldoutInv, TouchesHoldout
    <3>2. c.about = {} \/ f[1] # "eval"
      <4>1. CASE command.kind = "train_network"
        <5>1. f \in {Network("model.pt"), Network("model.onnx"), Network("metadata.json")}
          BY <4>1, LeftAfterHead DEF CommandOK, Followed
        <5> QED
          BY <5>1 DEF Network
      <4> QED
        BY <2>1, <2>4, <4>1
    <3> QED
      BY <2>1, <2>2, <3>1, <3>2
  <2> QED
    BY <2>3, <2>4
<1> QED
  BY <1>1, <1>2

LEMMA FileKeeps ==
    ASSUME CommandOK, HoldoutInv, HoldoutIsUnseen, Writing,
           NEW f, f = Head(command.todo),
           NEW c, c = Content(f) \/ c = [Content(f) EXCEPT !.whole = FALSE],
           files' = With(f, c)
    PROVE  /\ DOMAIN files \subseteq DOMAIN files'
           /\ \A g \in DOMAIN files' : IsContent(files'[g])
           /\ \A g \in DOMAIN files' \ Calibrations : ~TouchesHoldout(files'[g].seen)
           /\ HoldoutIsUnseen'
<1>1. /\ DOMAIN files' = DOMAIN files \union {f}
      /\ files'[f] = c
      /\ \A g \in DOMAIN files \ {f} : files'[g] = files[g]
  BY DEF With
<1>2. /\ IsContent(c)
      /\ f \notin Calibrations => ~TouchesHoldout(c.seen)
      /\ f[1] = "eval" =>
           /\ c.note = "unseen" => c.seen \intersect c.about = {}
           /\ c.note = "in_sample" => ~TouchesHoldout(c.about)
      /\ f[1] # "eval" => ~TouchesHoldout(c.about)
  BY ContentKeeps
<1>3. \A g \in DOMAIN files' : IsContent(files'[g])
  BY <1>1, <1>2 DEF HoldoutInv
<1>4. \A g \in DOMAIN files' \ Calibrations : ~TouchesHoldout(files'[g].seen)
  BY <1>1, <1>2 DEF HoldoutInv
<1>5. HoldoutIsUnseen'
  BY <1>1, <1>2 DEF HoldoutIsUnseen, TouchesHoldout
<1> QED
  BY <1>1, <1>3, <1>4, <1>5

\* A command that goes on with the next file, or that ends.
LEMMA CommandMovesOn ==
    ASSUME CommandOK, HoldoutInv, HoldoutIsUnseen, Writing,
           \/ UNCHANGED files
           \/ \E c : /\ files' = With(Head(command.todo), c)
                    /\ \/ c = Content(Head(command.todo))
                       \/ c = [Content(Head(command.todo)) EXCEPT !.whole = FALSE],
           \/ command' = noCommand
           \/ command' = [command EXCEPT !.todo = Tail(@)] /\ Len(command.todo) # 1
    PROVE  CommandOK' /\ HoldoutInv' /\ HoldoutIsUnseen'
<1>1. /\ DOMAIN files \subseteq DOMAIN files'
      /\ \A g \in DOMAIN files' : IsContent(files'[g])
      /\ \A g \in DOMAIN files' \ Calibrations : ~TouchesHoldout(files'[g].seen)
      /\ HoldoutIsUnseen'
  <2>1. CASE UNCHANGED files
    BY <2>1 DEF HoldoutInv, HoldoutIsUnseen
  <2>2. CASE ~UNCHANGED files
    BY <2>2, FileKeeps
  <2> QED
    BY <2>1, <2>2
<1>2. CASE command' = noCommand
  BY <1>1, <1>2 DEF noCommand, CommandOK, IsCommand, Followed, HoldoutInv, TouchesHoldout
<1>3. CASE command' = [command EXCEPT !.todo = Tail(@)] /\ Len(command.todo) # 1
  <2>1. /\ IsCommand(command') /\ command'.kind = command.kind
        /\ command'.seen = command.seen /\ command'.about = command.about
        /\ command'.note = command.note /\ command'.todo = Tail(command.todo)
    BY <1>3 DEF CommandOK, IsCommand
  <2>2. command.kind \in Followed => command'.todo \in Left(command.kind)
    BY <1>3, <2>1, LeftAfterHead DEF CommandOK
  <2> QED
    BY <1>1, <2>1, <2>2 DEF CommandOK, HoldoutInv
<1> QED
  BY <1>2, <1>3

LEMMA Stages ==
    /\ Len(NightStages) = 7 /\ GateStage = 4
    /\ NightStages[1] = "retrodict" /\ NightStages[2] = "train_network"
    /\ NightStages[3] = "calibrate" /\ NightStages[4] = "gate" /\ NightStages[5] = "diagnostic"
    /\ NightStages[6] = "train_lightgbm" /\ NightStages[7] = "compare"
BY DEF NightStages, GateStage

LEMMA StageOf ==
    ASSUME NightOK, NightRuns
    PROVE  /\ night.stage \in Int /\ night.stage \in 1 .. 7
           /\ night.stage = 1 <=> NightStage = "retrodict"
           /\ night.stage = 2 <=> NightStage = "train_network"
           /\ night.stage = 3 <=> NightStage = "calibrate"
           /\ night.stage = 4 <=> NightStage = "gate"
           /\ night.stage = 5 <=> NightStage = "diagnostic"
           /\ night.stage = 6 <=> NightStage = "train_lightgbm"
           /\ night.stage = 7 <=> NightStage = "compare"
<1>1. night.stage \in 1 .. 7
  BY Stages DEF NightOK, NightRuns
<1>2. \/ night.stage = 1 \/ night.stage = 2 \/ night.stage = 3 \/ night.stage = 4
      \/ night.stage = 5 \/ night.stage = 6 \/ night.stage = 7
  BY <1>1
<1> QED
  BY <1>1, <1>2, Stages DEF NightStage

\* A stage that starts a command: the comparison never gets that far.
LEMMA StageStartsKeeps ==
    ASSUME ArtifactInv, StageStarts
    PROVE  ArtifactInv'
<1>1. /\ NightRuns /\ Idle /\ Writes(NightStage, << >>) # << >> /\ ~StageRefuses
      /\ Start(NightStage, StageSpan, night.val, << >>) /\ UNCHANGED <<family, files, byHand, night>>
  BY DEF StageStarts
<1>2. NightStage \in {"train_network", "calibrate", "train_lightgbm"}
  <2>1. NightStage # "retrodict" /\ NightStage # "gate" /\ NightStage # "diagnostic"
    BY <1>1 DEF Writes
  <2>2. NightStage # "compare"
    <3>1. Len(LoadArrays) = 3 /\ Unpacked["compare"] = 2 /\ "compare" \in DOMAIN Unpacked
      BY DEF LoadArrays, Unpacked
    <3> QED
      BY <1>1, <3>1 DEF Start, Unpacks
  <2> QED
    BY <1>1, <2>1, <2>2, StageOf DEF ArtifactInv
<1>3. StageSpan \in Spans /\ night.val \in Spans
  BY <1>1 DEF StageSpan, ArtifactInv, NightOK
<1>4. NightStage \in Trainers => ~TouchesHoldout(StageSpan \union night.val)
  BY <1>1 DEF StageRefuses, Accepts, StageSpan
<1>5. CommandOK' /\ HoldoutInv' /\ command'.kind = NightStage /\ command'.run = runs + 1
  BY <1>1, <1>2, <1>3, <1>4, StartKeeps DEF ArtifactInv, Trainers
<1>6. HoldoutIsUnseen'
  BY <1>1 DEF ArtifactInv, HoldoutIsUnseen
<1>7. NightOK'
  <2>1. runs' = runs + 1 /\ runs \in Nat /\ night.began \in 1 .. runs + 1
    BY <1>1 DEF Start, ArtifactInv, NightOK
  <2> QED
    BY <1>1, <1>2, <1>5, <2>1 DEF ArtifactInv, NightOK, NightRuns, NightStage, Idle
<1>8. command'.of = Derives(NightStage) /\ command'.todo = Writes(NightStage, << >>)
  BY <1>1 DEF Start
<1>9. Reads("calibrate") = Model
  BY DEF Reads, In, Model, Network
<1>10. FreshInv'
  <2>1. night.stage = 2 => command'.todo = Writes("train_network", << >>)
    BY <1>1, <1>8, StageOf DEF ArtifactInv
  <2>2. night.stage = 3 => command'.of = RunsOf(Model)
    BY <1>1, <1>8, <1>9, StageOf DEF ArtifactInv, Derives
  <2>3. FreshInv
    BY DEF ArtifactInv
  <2>4. RunsOf(Model)' = RunsOf(Model) /\ (\A f : IsFresh(f)' = IsFresh(f))
    BY <1>1 DEF RunsOf, IsFresh, Readable, Exists, Model, Network
  <2>5. Readable(Metrics)' = Readable(Metrics) /\ files' = files /\ night' = night
    BY <1>1 DEF Readable, Exists, Metrics, Network
  <2> QED
    BY <2>1, <2>2, <2>3, <2>4, <2>5 DEF FreshInv, NightRuns, Model, Metrics, Network
<1> QED
  BY <1>5, <1>6, <1>7, <1>10 DEF ArtifactInv

\* Without a night there is nothing to keep; a night that begins has nothing yet.
LEMMA NoNightIsFresh ==
    ASSUME night'.stage = 0 \/ night'.stage = 1
    PROVE  FreshInv'
BY DEF FreshInv, NightRuns, GateStage

\* The last file of a stage.
LEMMA LastFile ==
    ASSUME NEW kind \in {"train_network", "calibrate"}, NEW todo \in Left(kind)
    PROVE  /\ kind = "train_network" =>
                \/ Len(todo) = 1 /\ Head(todo) = Network("metadata.json")
                     /\ todo # Writes("train_network", << >>)
                \/ Len(todo) # 1 /\ Head(todo) = Network("model.onnx")
                     /\ todo # Writes("train_network", << >>)
                \/ Len(todo) # 1 /\ Head(todo) = Network("model.pt")
           /\ kind = "calibrate" =>
                \/ Len(todo) = 1 /\ Head(todo) = Metrics
                \/ Len(todo) # 1 /\ Head(todo) = Network("calibrator.json")
<1>1. CASE kind = "train_network"
  <2>1. Left(kind) = {<<Network("model.pt"), Network("model.onnx"), Network("metadata.json")>>,
                      <<Network("model.onnx"), Network("metadata.json")>>,
                      <<Network("metadata.json")>>}
    BY <1>1 DEF Left
  <2>2. Writes("train_network", << >>)
          = <<Network("model.pt"), Network("model.onnx"), Network("metadata.json")>>
    BY DEF Writes, Into, Network
  <2>3. CASE todo = <<Network("model.pt"), Network("model.onnx"), Network("metadata.json")>>
    BY <1>1, <2>3
  <2>4. CASE todo = <<Network("model.onnx"), Network("metadata.json")>>
    <3>1. Len(todo) = 2 /\ Head(todo) = Network("model.onnx")
      BY <2>4
    <3>2. Len(Writes("train_network", << >>)) = 3
      BY <2>2
    <3> QED
      BY <1>1, <3>1, <3>2
  <2>5. CASE todo = <<Network("metadata.json")>>
    <3>1. Len(todo) = 1 /\ Head(todo) = Network("metadata.json")
      BY <2>5
    <3>2. Len(Writes("train_network", << >>)) = 3
      BY <2>2
    <3> QED
      BY <1>1, <3>1, <3>2
  <2> QED
    BY <2>1, <2>3, <2>4, <2>5
<1>2. CASE kind = "calibrate"
  <2>1. Left(kind) = {<<Network("calibrator.json"), Metrics>>, <<Metrics>>}
    BY <1>2 DEF Left, Metrics
  <2>2. CASE todo = <<Network("calibrator.json"), Metrics>>
    BY <1>2, <2>2
  <2>3. CASE todo = <<Metrics>>
    BY <1>2, <2>3
  <2> QED
    BY <2>1, <2>2, <2>3
<1> QED
  BY <1>1, <1>2

\* A file that a command writes, and what that leaves of the others.
LEMMA WrittenFile ==
    ASSUME NEW f, files' = With(f, Content(f)), command.kind # "baseline"
    PROVE  /\ f \in DOMAIN files' /\ files'[f].whole
           /\ files'[f].run = command.run /\ files'[f].of = command.of
           /\ files'[f].note = command.note
           /\ \A g : g # f => Exists(g)' = Exists(g)
           /\ \A g : g # f /\ Exists(g) => files'[g] = files[g]
           /\ Readable(f)' /\ \A g : g # f => Readable(g)' = Readable(g)
<1>1. /\ DOMAIN files' = DOMAIN files \union {f} /\ files'[f] = Content(f)
      /\ \A g \in DOMAIN files \ {f} : files'[g] = files[g]
  BY DEF With
<1>2. /\ Content(f).whole /\ Content(f).run = command.run /\ Content(f).of = command.of
      /\ Content(f).note = command.note
  BY DEF Content, Plain
<1> QED
  BY <1>1, <1>2 DEF Exists, Readable

LEMMA NightWrites ==
    ASSUME ArtifactInv, WriteFile, NightRuns, NEW f, f = Head(command.todo)
    PROVE  NightOK' /\ FreshInv'
<1>1. /\ files' = With(f, Content(f)) /\ UNCHANGED <<family, runs, byHand>>
      /\ command.todo # << >>
  BY DEF WriteFile, Writing
<1>2. ~Idle
  <2>1. noCommand.todo = << >>
    BY DEF noCommand
  <2> QED
    BY <1>1, <2>1 DEF Idle
<1>3. /\ command.kind = NightStage
      /\ command.kind \in {"train_network", "calibrate", "train_lightgbm"}
      /\ command.run \in night.began .. runs /\ night.began \in Int /\ runs \in Nat
      /\ night.began \in 1 .. runs + 1 /\ night.train \in Spans /\ night.val \in Spans
  BY <1>2 DEF ArtifactInv, NightOK
<1>4. command.todo \in Left(command.kind)
  BY <1>3 DEF ArtifactInv, CommandOK, Followed
<1>5. /\ f \in DOMAIN files' /\ files'[f].whole
      /\ files'[f].run = command.run /\ files'[f].of = command.of
      /\ \A g : g # f => Exists(g)' = Exists(g)
      /\ \A g : g # f /\ Exists(g) => files'[g] = files[g]
      /\ Readable(f)' /\ \A g : g # f => Readable(g)' = Readable(g)
  BY <1>1, <1>3, WrittenFile
<1>6. night.stage \in {2, 3, 6} /\ night.stage \in Int
  BY <1>3, StageOf DEF ArtifactInv
<1>7. \/ /\ Len(command.todo) = 1 /\ command' = noCommand
         /\ night' = [night EXCEPT !.stage = night.stage + 1]
      \/ /\ Len(command.todo) # 1 /\ command' = [command EXCEPT !.todo = Tail(@)]
         /\ night' = night
  BY <1>6, Stages DEF WriteFile, Ends, NightRuns, AfterStage
<1>8. /\ night'.began = night.began /\ night'.train = night.train /\ night'.val = night.val
      /\ night' = [stage |-> night'.stage, began |-> night'.began, train |-> night'.train,
                   val |-> night'.val, why |-> night'.why]
      /\ \/ Len(command.todo) = 1 /\ command' = noCommand /\ night'.stage = night.stage + 1
         \/ /\ Len(command.todo) # 1 /\ night' = night
            /\ command'.kind = command.kind /\ command'.run = command.run
            /\ command'.of = command.of /\ command'.todo = Tail(command.todo)
  BY <1>7 DEF ArtifactInv, NightOK, CommandOK, IsCommand
<1>9. NightOK'
  <2>1. night'.stage \in 0 .. Len(NightStages)
    BY <1>6, <1>8, Stages
  <2>2. runs' = runs
    BY <1>1
  <2>3. \/ Idle'
        \/ night' = night /\ command'.kind = command.kind /\ command'.run = command.run
    BY <1>7, <1>8 DEF Idle
  <2>4. Idle' \/ NightStage' = NightStage
    BY <2>3 DEF NightStage
  <2> QED
    BY <1>3, <1>8, <2>1, <2>2, <2>3, <2>4 DEF NightOK
<1> DEFINE pt == Network("model.pt")
<1> DEFINE meta == Network("metadata.json")
<1>10. /\ pt # meta /\ pt # Metrics /\ meta # Metrics /\ Model = {pt, meta}
       /\ pt # Network("model.onnx") /\ meta # Network("model.onnx")
       /\ pt # Network("calibrator.json") /\ meta # Network("calibrator.json")
       /\ Metrics # Network("calibrator.json")
  BY DEF Network, Metrics, Model
<1>11. \A g : g # f /\ IsFresh(g) => IsFresh(g)'
  BY <1>5, <1>8 DEF IsFresh, Readable
<1>12. IsFresh(f)'
  BY <1>3, <1>5, <1>8 DEF IsFresh
<1>13. FreshInv
  BY DEF ArtifactInv
<1>14. CASE night.stage = 2
  <2>1. command.kind = "train_network"
    BY <1>3, <1>14, StageOf DEF ArtifactInv
  <2>2. \/ Len(command.todo) = 1 /\ f = meta /\ command.todo # Writes("train_network", << >>)
        \/ Len(command.todo) # 1 /\ f = Network("model.onnx")
             /\ command.todo # Writes("train_network", << >>)
        \/ Len(command.todo) # 1 /\ f = pt
    BY <1>4, <2>1, LastFile
  <2>3. IsFresh(pt)'
    BY <1>2, <1>10, <1>11, <1>12, <1>13, <1>14, <2>2 DEF FreshInv
  <2>4. night'.stage = 3 => IsFresh(meta)' /\ Idle'
    BY <1>8, <1>12, <1>14, <2>2 DEF Idle
  <2>5. night'.stage = 2 \/ night'.stage = 3
    BY <1>8, <1>14
  <2> HIDE DEF pt, meta
  <2> QED
    BY <1>9, <1>10, <2>3, <2>4, <2>5 DEF FreshInv, GateStage, pt
<1>15. CASE night.stage = 3
  <2>1. command.kind = "calibrate"
    BY <1>3, <1>15, StageOf DEF ArtifactInv
  <2>2. \/ Len(command.todo) = 1 /\ f = Metrics
        \/ Len(command.todo) # 1 /\ f = Network("calibrator.json")
    BY <1>4, <2>1, LastFile
  <2>3. /\ \A g \in Model : IsFresh(g)
        /\ command.of = RunsOf(Model)
    BY <1>2, <1>13, <1>15 DEF FreshInv
  <2>4. /\ \A g \in Model : IsFresh(g)' /\ files'[g] = files[g]
        /\ RunsOf(Model)' = RunsOf(Model)
    <3>1. \A g \in Model : g # f
      BY <1>10, <2>2
    <3>2. \A g \in Model : IsFresh(g)' /\ files'[g] = files[g]
      BY <1>5, <1>11, <2>3, <3>1 DEF IsFresh, Readable
    <3> QED
      BY <3>2 DEF RunsOf, Model, Network
  <2>5. CASE Len(command.todo) = 1
    <3>1. night'.stage = 4
      BY <1>8, <1>15, <2>5
    <3>2. Readable(Metrics)' /\ files'[Metrics].of = RunsOf(Model)'
      BY <1>5, <2>2, <2>3, <2>4, <2>5
    <3> HIDE DEF pt, meta
    <3> QED
      BY <1>9, <2>4, <3>1, <3>2 DEF FreshInv, GateStage, Model, Metrics, Network
  <2>6. CASE Len(command.todo) # 1
    <3>1. night'.stage = 3 /\ command'.of = RunsOf(Model)'
      BY <1>8, <1>15, <2>3, <2>4, <2>6
    <3> HIDE DEF pt, meta
    <3> QED
      BY <1>9, <2>4, <3>1 DEF FreshInv, GateStage, Model, Network
  <2> QED
    BY <2>5, <2>6
<1>16. CASE night.stage = 6
  <2>1. f[1] = "lightgbm"
    BY <1>3, <1>4, <1>16, StageOf, LeftAfterHead DEF ArtifactInv, Followed
  <2>2. f # Metrics /\ \A g \in Model : g # f
    BY <2>1 DEF Model, Metrics, Network
  <2>3. /\ \A g \in Model : IsFresh(g)
        /\ Readable(Metrics) /\ files[Metrics].of = RunsOf(Model)
        /\ files[Metrics].note = "good"
    BY <1>13, <1>16, Stages DEF FreshInv
  <2>4. /\ \A g \in Model : IsFresh(g)' /\ files'[g] = files[g]
        /\ Readable(Metrics)' /\ files'[Metrics] = files[Metrics]
    BY <1>5, <1>11, <2>2, <2>3 DEF IsFresh, Readable
  <2>5. RunsOf(Model)' = RunsOf(Model)
    BY <2>4 DEF RunsOf, Model, Network
  <2>6. night'.stage \in {6, 7}
    BY <1>8, <1>16
  <2> HIDE DEF pt, meta
  <2>7. files'[Metrics].of = RunsOf(Model)' /\ files'[Metrics].note = "good"
    BY <2>3, <2>4, <2>5
  <2> QED
    BY <1>9, <2>4, <2>6, <2>7 DEF FreshInv, GateStage, Model, Metrics, Network
<1> QED
  BY <1>6, <1>9, <1>14, <1>15, <1>16

\* A command typed by the operator, when no night runs.
LEMMA ByHandKeeps ==
    ASSUME ArtifactInv, NEW kind, NEW span \in Spans \union {{}}, NEW val, NEW asked,
           NEW allowed, ByHand(kind, span, val, asked, allowed),
           kind = "score" => span \in Spans,
           kind \in Trainers \union {"calibrate", "export_lightgbm", "export_regression",
                                     "export_parks", "score", "baseline"}
             \/ span \union val = {}
    PROVE  ArtifactInv'
<1>1. /\ ~NightRuns /\ Accepts(kind, span \union val, allowed)
      /\ Start(kind, span, val, asked) /\ UNCHANGED <<family, files, night>>
  BY DEF ByHand
<1>2. kind \in Trainers \union {"baseline"} => ~TouchesHoldout(span \union val)
  BY <1>1 DEF Accepts
<1>3. CommandOK' /\ HoldoutInv'
  BY <1>1, <1>2, StartKeeps DEF ArtifactInv
<1>4. HoldoutIsUnseen'
  BY <1>1 DEF ArtifactInv, HoldoutIsUnseen
<1>5. NightOK' /\ FreshInv'
  BY <1>1 DEF ArtifactInv, NightOK, FreshInv, NightRuns, Start
<1> QED
  BY <1>3, <1>4, <1>5 DEF ArtifactInv

LEMMA StartNightKeeps ==
    ASSUME ArtifactInv, NEW span \in Spans, NEW val \in Validations \ {{}}, StartNight(span, val)
    PROVE  ArtifactInv'
<1>1. /\ Idle /\ UNCHANGED <<family, files, command, runs>>
      /\ night' = [stage |-> 1, began |-> runs + 1, train |-> span, val |-> val, why |-> "none"]
  BY DEF StartNight
<1>2. CommandOK' /\ HoldoutInv' /\ HoldoutIsUnseen'
  BY <1>1 DEF ArtifactInv, CommandOK, HoldoutInv, HoldoutIsUnseen
<1>3. NightOK'
  BY <1>1, Stages DEF ArtifactInv, NightOK, NightRuns, Idle, Validations, Spans
<1>4. FreshInv'
  BY <1>1, NoNightIsFresh
<1> QED
  BY <1>2, <1>3, <1>4 DEF ArtifactInv

\* A stage that runs no command, or that fails.
LEMMA StagePassesKeeps ==
    ASSUME ArtifactInv, StagePasses
    PROVE  ArtifactInv'
<1>0. FreshInv
  BY DEF ArtifactInv
<1>1. /\ NightRuns /\ Idle /\ NightStage \in {"retrodict", "gate", "diagnostic"}
      /\ NightStage = "gate" => GatePasses
      /\ UNCHANGED <<family, files, command, runs>>
  BY DEF StagePasses
<1>2. night.stage \in {1, 4, 5} /\ night.stage \in Int
  BY <1>1, StageOf DEF ArtifactInv
<1>3. night' = [night EXCEPT !.stage = night.stage + 1]
  BY <1>1, <1>2, Stages DEF StagePasses, AfterStage
<1>4. /\ night'.stage = night.stage + 1 /\ night'.began = night.began
      /\ night'.train = night.train /\ night'.val = night.val
      /\ night' = [stage |-> night'.stage, began |-> night'.began, train |-> night'.train,
                   val |-> night'.val, why |-> night'.why]
  BY <1>3 DEF ArtifactInv, NightOK
<1>5. CommandOK' /\ HoldoutInv' /\ HoldoutIsUnseen'
  BY <1>1 DEF ArtifactInv, CommandOK, HoldoutInv, HoldoutIsUnseen
<1>6. NightOK'
  <2>1. night'.stage \in 0 .. Len(NightStages) /\ Idle'
    BY <1>1, <1>2, <1>4, Stages DEF Idle
  <2>2. /\ runs' = runs /\ runs \in Nat /\ night.began \in 1 .. runs + 1
        /\ night.train \in Spans /\ night.val \in Spans
    BY <1>1 DEF ArtifactInv, NightOK
  <2> QED
    BY <1>4, <2>1, <2>2 DEF NightOK
<1>7. FreshInv'
  <2>1. /\ \A f : IsFresh(f)' = IsFresh(f)
        /\ RunsOf(Model)' = RunsOf(Model) /\ Readable(Metrics)' = Readable(Metrics)
    BY <1>1, <1>4 DEF IsFresh, Readable, Exists, RunsOf, Model, Metrics, Network
  <2>2. CASE night.stage = 1
    <3>1. night'.stage = 2 /\ Idle'
      BY <1>1, <1>4, <2>2 DEF Idle
    <3> QED
      BY <3>1 DEF FreshInv, GateStage
  <2>3. CASE night.stage = 4
    <3>1. /\ \A f \in Model : IsFresh(f)
          /\ Readable(Metrics) /\ files[Metrics].of = RunsOf(Model)
      BY <1>0, <1>1, <2>3 DEF FreshInv
    <3>2. GatePasses
      BY <1>1, <2>3, StageOf DEF ArtifactInv
    <3>3. ~GateSkips
      BY <3>1 DEF GateSkips, IsFresh, Readable, Model, Network
    <3>4. files[Metrics].note = "good"
      BY <3>2, <3>3 DEF GatePasses, Metrics, Network
    <3>5. files[Metrics] = files'[Metrics]
      BY <1>1
    <3> QED
      BY <1>4, <2>1, <2>3, <3>1, <3>4, <3>5 DEF FreshInv, Model, Metrics, Network
  <2>4. CASE night.stage = 5
    <3>1. /\ \A f \in Model : IsFresh(f)
          /\ Readable(Metrics) /\ files[Metrics].of = RunsOf(Model)
          /\ files[Metrics].note = "good"
      BY <1>0, <1>1, <2>4 DEF FreshInv, GateStage
    <3>5. files[Metrics] = files'[Metrics]
      BY <1>1
    <3> QED
      BY <1>4, <2>1, <2>4, <3>1, <3>5 DEF FreshInv, Model, Metrics, Network
  <2> QED
    BY <1>2, <2>2, <2>3, <2>4
<1> QED
  BY <1>5, <1>6, <1>7 DEF ArtifactInv

LEMMA NightEnds ==
    ASSUME NightOK, runs' = runs, NEW why,
           night' = [stage |-> 0, began |-> 0, train |-> {}, val |-> {}, why |-> why]
    PROVE  NightOK' /\ FreshInv'
<1>2. /\ night'.stage = 0
      /\ night' = [stage |-> night'.stage, began |-> night'.began, train |-> night'.train,
                   val |-> night'.val, why |-> night'.why]
  OBVIOUS
<1>3. ~NightRuns' /\ night'.stage \in 0 .. Len(NightStages) /\ runs' \in Nat
  BY <1>2, Stages DEF NightOK, NightRuns
<1>4. NightOK'
  BY <1>2, <1>3 DEF NightOK
<1> QED
  BY <1>2, <1>4, NoNightIsFresh

\* A command that is killed, or that misses a calibrator, ends the night.
LEMMA CutShortKeeps ==
    ASSUME ArtifactInv, Writing, runs' = runs, NEW why, Ends(FALSE, why),
           \/ UNCHANGED files
           \/ files' = With(Head(command.todo), [Content(Head(command.todo)) EXCEPT !.whole = FALSE])
    PROVE  ArtifactInv'
<1>1. command' = noCommand
  BY DEF Ends
<1>2. CommandOK' /\ HoldoutInv' /\ HoldoutIsUnseen'
  BY <1>1, CommandMovesOn DEF ArtifactInv
<1>3. NightOK' /\ FreshInv'
  <2>1. CASE NightRuns
    BY <2>1, NightEnds DEF ArtifactInv, Ends, AfterStage, noNight
  <2>2. CASE ~NightRuns
    BY <2>2 DEF ArtifactInv, Ends, NightOK, FreshInv, NightRuns
  <2> QED
    BY <2>1, <2>2
<1> QED
  BY <1>2, <1>3 DEF ArtifactInv

LEMMA WriteFileKeeps ==
    ASSUME ArtifactInv, WriteFile
    PROVE  ArtifactInv'
<1>1. /\ Writing /\ files' = With(Head(command.todo), Content(Head(command.todo)))
      /\ UNCHANGED <<family, runs, byHand>>
      /\ \/ Len(command.todo) = 1 /\ Ends(TRUE, "")
         \/ /\ Len(command.todo) # 1 /\ UNCHANGED night
            /\ command' = [command EXCEPT !.todo = Tail(@)]
  BY DEF WriteFile
<1>2. CommandOK' /\ HoldoutInv' /\ HoldoutIsUnseen'
  BY <1>1, CommandMovesOn DEF ArtifactInv, Ends
<1>3. NightOK' /\ FreshInv'
  <2>1. CASE NightRuns
    BY <2>1, NightWrites
  <2>2. CASE ~NightRuns
    BY <1>1, <2>2 DEF ArtifactInv, Ends, NightOK, FreshInv, NightRuns
  <2> QED
    BY <2>1, <2>2
<1> QED
  BY <1>2, <1>3 DEF ArtifactInv

LEMMA ArtifactInit_Inv == ArtifactInit => ArtifactInv
<1> SUFFICES ASSUME ArtifactInit PROVE ArtifactInv
  OBVIOUS
<1>1. /\ files = << >> /\ command = noCommand /\ runs = 0 /\ night = noNight
  BY DEF ArtifactInit
<1>2. DOMAIN files = {}
  BY <1>1
<1>3. CommandOK /\ HoldoutInv /\ HoldoutIsUnseen
  BY <1>1, <1>2 DEF CommandOK, IsCommand, HoldoutInv, HoldoutIsUnseen, noCommand, Followed,
     TouchesHoldout
<1>4. NightOK /\ FreshInv
  BY <1>1, Stages DEF NightOK, FreshInv, NightRuns, noNight
<1> QED
  BY <1>3, <1>4 DEF ArtifactInv

LEMMA ArtifactStep == ArtifactInv /\ [ArtifactNext]_artifactVars => ArtifactInv'
<1> SUFFICES ASSUME ArtifactInv, [ArtifactNext]_artifactVars
             PROVE  ArtifactInv'
  OBVIOUS
<1>1. ASSUME NEW span \in Spans, NEW val \in Validations,
             TrainNetwork(span, val) \/ TrainLightGBM(span, val) \/ TrainRegression(span, val)
      PROVE  ArtifactInv'
  BY <1>1, ByHandKeeps DEF TrainNetwork, TrainLightGBM, TrainRegression, Trainers
<1>2. ASSUME NEW span \in Spans, NEW val \in Validations, NEW asked \in InOrder,
             TrainParks(span, val, asked) \/ TrainParkNetworks(span, val, asked)
      PROVE  ArtifactInv'
  BY <1>2, ByHandKeeps DEF TrainParks, TrainParkNetworks, Trainers
<1>3. ASSUME NEW span \in Spans, NEW val \in Validations, val # {}, StartNight(span, val)
      PROVE  ArtifactInv'
  BY <1>3, StartNightKeeps
<1>4. ASSUME NEW span \in Spans, FitCalibrators(span) \/ BackfillDistributions(span)
      PROVE  ArtifactInv'
  BY <1>4, ByHandKeeps DEF FitCalibrators, BackfillDistributions
<1>5. ASSUME NEW span \in Spans, NEW allowed \in BOOLEAN, ScoreBackfill(span, allowed)
      PROVE  ArtifactInv'
  BY <1>5, ByHandKeeps DEF ScoreBackfill
<1>6. CASE ExportLightGBM \/ ExportParks \/ ExportRegression
  BY <1>6, ByHandKeeps DEF ExportLightGBM, ExportParks, ExportRegression
<1>7. CASE GenerateMiniature \/ ParityFixture
  BY <1>7, ByHandKeeps DEF GenerateMiniature, ParityFixture
<1>8. CASE StageFails
  <2>1. PICK why \in WhyItFails :
              night' = [stage |-> 0, began |-> 0, train |-> {}, val |-> {}, why |-> why]
    BY <1>8 DEF StageFails, AfterStage, noNight
  <2>2. UNCHANGED <<files, command, runs>>
    BY <1>8 DEF StageFails
  <2>3. NightOK' /\ FreshInv'
    BY <2>1, <2>2, NightEnds DEF ArtifactInv
  <2> QED
    BY <2>2, <2>3 DEF ArtifactInv, CommandOK, HoldoutInv, HoldoutIsUnseen
<1>9. CASE MergeFails
  BY <1>9, CutShortKeeps DEF MergeFails
<1>10. CASE KillCommand
  BY <1>10, CutShortKeeps DEF KillCommand
<1>11. CASE UNCHANGED artifactVars
  BY <1>11 DEF artifactVars, ArtifactInv, CommandOK, HoldoutInv, HoldoutIsUnseen, NightOK,
     FreshInv, NightRuns, Idle, NightStage, IsFresh, Readable, Exists, RunsOf, Model, Metrics,
     Network
<1> QED
  BY <1>1, <1>2, <1>3, <1>4, <1>5, <1>6, <1>7, <1>8, <1>9, <1>10, <1>11, StageStartsKeeps,
     StagePassesKeeps, WriteFileKeeps DEF ArtifactNext

LEMMA ArtifactInvariant == ArtifactSpec => []ArtifactInv
  BY ArtifactInit_Inv, ArtifactStep, PTL DEF ArtifactSpec

-----------------------------------------------------------------------------
(***************************************************************************)
(* The order in which the files of a directory are written.                *)
(***************************************************************************)
LayoutInv == OrderInv /\ LastInv

\* A sequence of files that a command may have to write.
InGoodOrder(kind, todo) ==
    /\ IsSeq(todo)
    /\ Ordered(kind, todo)
    /\ \A n \in DOMAIN todo :
          todo[n][2] = "metadata.json" /\ kind # "baseline" =>
            In(todo[n][1], Companions(kind, todo[n][1])) \subseteq Ahead(todo, n)

LEMMA IntoInOrder ==
    ASSUME NEW kind, NEW dir, NEW S, NEW names \in Seq(S),
           \A n, m \in DOMAIN names : n < m => names[n] # names[m],
           \A n \in DOMAIN names : names[n] = "metadata.json" /\ kind # "baseline" =>
              \A c \in Companions(kind, dir) : \E m \in 1 .. n - 1 : names[m] = c
    PROVE  InGoodOrder(kind, Into(dir, names))
<1> DEFINE todo == Into(dir, names)
<1>1. /\ DOMAIN todo = DOMAIN names
      /\ \A n \in DOMAIN names : todo[n] = <<dir, names[n]>>
  BY DEF Into
<1>2. IsSeq(todo)
  <2> DEFINE files1 == {<<dir, names[n]>> : n \in 1 .. Len(names)}
  <2>1. DOMAIN names = 1 .. Len(names) /\ Len(names) \in Nat
    OBVIOUS
  <2>2. \A n \in 1 .. Len(names) : <<dir, names[n]>> \in files1
    OBVIOUS
  <2>3. todo = [n \in 1 .. Len(names) |-> <<dir, names[n]>>]
    BY <2>1 DEF Into
  <2> HIDE DEF files1, todo
  <2>4. todo \in Seq(files1)
    BY <2>1, <2>2, <2>3
  <2> QED
    BY <2>4 DEF IsSeq
<1>3. Ordered(kind, todo)
  BY <1>1 DEF Ordered
<1>4. ASSUME NEW n \in DOMAIN todo, todo[n][2] = "metadata.json", kind # "baseline",
             NEW c \in Companions(kind, dir)
      PROVE  <<dir, c>> \in Ahead(todo, n)
  <2>1. names[n] = "metadata.json" /\ n \in DOMAIN names /\ n \in Nat /\ n \in 1 .. Len(names)
    BY <1>1, <1>4
  <2>2. PICK m \in 1 .. n - 1 : names[m] = c
    BY <1>4, <2>1
  <2>3. m \in DOMAIN names
    BY <2>1
  <2> HIDE DEF todo
  <2> QED
    BY <1>1, <2>2, <2>3 DEF Ahead
<1> HIDE DEF todo
<1>5. ASSUME NEW n \in DOMAIN todo, todo[n][2] = "metadata.json", kind # "baseline"
      PROVE  In(todo[n][1], Companions(kind, todo[n][1])) \subseteq Ahead(todo, n)
  BY <1>1, <1>4, <1>5 DEF In
<1>6. InGoodOrder(kind, todo)
  BY <1>2, <1>3, <1>5 DEF InGoodOrder
<1> QED
  BY <1>6 DEF todo

\* Three names, two or one: what can be a metadata.json.
LEMMA ThreeInOrder ==
    ASSUME NEW kind, NEW dir, NEW a, NEW b, NEW c,
           a # b, a # c, b # c, a # "metadata.json",
           b = "metadata.json" => Companions(kind, dir) \subseteq {a},
           c = "metadata.json" => Companions(kind, dir) \subseteq {a, b}
    PROVE  InGoodOrder(kind, Into(dir, <<a, b, c>>))
<1> DEFINE names == <<a, b, c>>
<1>1. /\ names \in Seq({a, b, c}) /\ DOMAIN names = {1, 2, 3}
      /\ names[1] = a /\ names[2] = b /\ names[3] = c
  OBVIOUS
<1> HIDE DEF names
<1>2. \A n, m \in DOMAIN names : n < m => names[n] # names[m]
  BY <1>1
<1>3. ASSUME NEW n \in DOMAIN names, names[n] = "metadata.json", NEW x \in Companions(kind, dir)
      PROVE  \E m \in 1 .. n - 1 : names[m] = x
  <2>1. \/ n = 2 /\ x = a
        \/ n = 3 /\ x \in {a, b}
    BY <1>1, <1>3
  <2>2. 1 \in 1 .. 2 - 1 /\ 1 \in 1 .. 3 - 1 /\ 2 \in 1 .. 3 - 1
    OBVIOUS
  <2> QED
    BY <1>1, <2>1, <2>2
<1>4. InGoodOrder(kind, Into(dir, names))
  BY <1>1, <1>2, <1>3, IntoInOrder
<1> QED
  BY <1>4 DEF names

LEMMA TwoInOrder ==
    ASSUME NEW kind, NEW dir, NEW a, NEW b,
           a # b, a # "metadata.json", b # "metadata.json"
    PROVE  InGoodOrder(kind, Into(dir, <<a, b>>))
<1> DEFINE names == <<a, b>>
<1>1. /\ names \in Seq({a, b}) /\ DOMAIN names = {1, 2}
      /\ names[1] = a /\ names[2] = b
  OBVIOUS
<1> HIDE DEF names
<1>2. \A n, m \in DOMAIN names : n < m => names[n] # names[m]
  BY <1>1
<1>3. \A n \in DOMAIN names : names[n] # "metadata.json"
  BY <1>1
<1>4. InGoodOrder(kind, Into(dir, names))
  BY <1>1, <1>2, <1>3, IntoInOrder
<1> QED
  BY <1>4 DEF names

LEMMA OneInOrder ==
    ASSUME NEW kind, NEW dir, NEW a, a # "metadata.json" \/ kind = "baseline"
    PROVE  InGoodOrder(kind, Into(dir, <<a>>))
<1> DEFINE names == <<a>>
<1>1. names \in Seq({a}) /\ DOMAIN names = {1} /\ names[1] = a
  OBVIOUS
<1> HIDE DEF names
<1>2. \A n, m \in DOMAIN names : n < m => names[n] # names[m]
  BY <1>1
<1>3. InGoodOrder(kind, Into(dir, names))
  BY <1>1, <1>2, IntoInOrder
<1> QED
  BY <1>3 DEF names

\* The n-th file of the parks asked for: the third of each is its metadata.json.
LEMMA Thirds ==
    ASSUME NEW len \in Nat, NEW n \in 1 .. 3 * len
    PROVE  /\ 1 + ((n - 1) \div 3) \in 1 .. len
           /\ (n - 1) % 3 \in 0 .. 2
           /\ n = 3 * ((n - 1) \div 3) + ((n - 1) % 3) + 1
           /\ (n - 1) \div 3 \in Nat
OBVIOUS

LEMMA BeforeTheThird ==
    ASSUME NEW len \in Nat, NEW n \in 1 .. 3 * len, (n - 1) % 3 = 2
    PROVE  /\ n - 1 \in 1 .. 3 * len /\ n - 2 \in 1 .. 3 * len
           /\ n - 1 \in 1 .. n - 1 /\ n - 2 \in 1 .. n - 1
           /\ (n - 2) \div 3 = (n - 1) \div 3 /\ (n - 3) \div 3 = (n - 1) \div 3
           /\ (n - 2) % 3 = 1 /\ (n - 3) % 3 = 0
OBVIOUS

LEMMA EachParkOnce ==
    ASSUME NEW asked \in InOrder
    PROVE  /\ Len(asked) \in Nat /\ asked \in Seq(STRING) /\ DOMAIN asked = 1 .. Len(asked)
           /\ \A i, j \in DOMAIN asked : i # j => asked[i] # asked[j]
<1>1. PICK k \in 0 .. Len(ParkOrder) : asked \in [1 .. k -> Parks]
  BY DEF InOrder, SeqOf
<1>2. Parks \subseteq STRING /\ ParkOrder \in Seq(STRING)
  BY ArtifactAssumption DEF Parks
<1>3. k \in Nat
  BY <1>1, <1>2
<1>4. asked \in Seq(STRING) /\ Len(asked) = k
  <2>1. asked \in [1 .. k -> STRING]
    BY <1>1, <1>2
  <2> QED
    BY <1>3, <2>1
<1>5. \A i, j \in DOMAIN asked : i < j => asked[i] # asked[j]
  <2>1. \A m, l \in DOMAIN ParkOrder : m < l => ParkOrder[m] # ParkOrder[l]
    BY <1>2, ArtifactAssumption
  <2> QED
    BY <2>1 DEF InOrder
<1> QED
  BY <1>3, <1>4, <1>5

LEMMA EqualPairs ==
    ASSUME NEW x, NEW y, NEW z, NEW t, <<x, y>> = <<z, t>>
    PROVE  x = z /\ y = t
OBVIOUS

LEMMA PerParkInOrder ==
    ASSUME NEW kind, NEW asked \in InOrder, NEW a, NEW b, NEW c, c = "metadata.json", a # b, a # "metadata.json", b # "metadata.json",
           Companions(kind, "all") = {},
           \A dir : Companions(kind, dir) \subseteq {a, b}
    PROVE  InGoodOrder(kind, PerPark(asked, <<a, b, c>>))
<1> DEFINE names == <<a, b, c>>
<1>1. names[1] = a /\ names[2] = b /\ names[3] = c
  OBVIOUS
<1> HIDE DEF names
<1> DEFINE todo == PerPark(asked, names)
           len == Len(asked)
<1>2. /\ len \in Nat /\ asked \in Seq(STRING) /\ DOMAIN asked = 1 .. len
      /\ \A i, j \in DOMAIN asked : i # j => asked[i] # asked[j]
  BY EachParkOnce
<1> HIDE DEF len
<1>3. /\ DOMAIN todo = 1 .. 3 * len + 1
      /\ \A n \in 1 .. 3 * len :
            todo[n] = <<asked[1 + ((n - 1) \div 3)], names[1 + ((n - 1) % 3)]>>
      /\ todo[3 * len + 1] = <<"all", "metadata.json">>
  BY <1>2 DEF PerPark, len
<1>9. todo = [n \in 1 .. 3 * len + 1 |-> todo[n]]
  BY DEF PerPark, len
<1> HIDE DEF todo
<1>4. IsSeq(todo)
  <2> DEFINE all == {todo[n] : n \in 1 .. 3 * len + 1}
  <2>1. \A n \in 1 .. 3 * len + 1 : todo[n] \in all
    OBVIOUS
  <2>2. 3 * len + 1 \in Nat
    BY <1>2
  <2> HIDE DEF all
  <2>3. todo \in Seq(all)
    BY <1>9, <2>1, <2>2
  <2> QED
    BY <2>3 DEF IsSeq
<1>5. Ordered(kind, todo)
  <2> SUFFICES ASSUME NEW n \in DOMAIN todo, NEW m \in DOMAIN todo, n < m, todo[n] = todo[m],
                      todo[n][2] # "metadata.json"
               PROVE  FALSE
    BY DEF Ordered
  <2>1. n \in 1 .. 3 * len /\ m \in 1 .. 3 * len
    <3>1. todo[3 * len + 1][2] = "metadata.json"
      BY <1>3
    <3>2. n # 3 * len + 1 /\ m # 3 * len + 1
      BY <3>1
    <3>3. n \in 1 .. 3 * len + 1 /\ m \in 1 .. 3 * len + 1
      BY <1>3
    <3> QED
      BY <1>2, <3>2, <3>3
  <2> DEFINE q(k) == (k - 1) \div 3
             r(k) == (k - 1) % 3
  <2>2. /\ todo[n] = <<asked[1 + q(n)], names[1 + r(n)]>>
        /\ todo[m] = <<asked[1 + q(m)], names[1 + r(m)]>>
    BY <1>3, <2>1
  <2>3. /\ 1 + q(n) \in 1 .. len /\ r(n) \in 0 .. 2 /\ n = 3 * q(n) + r(n) + 1 /\ q(n) \in Nat
        /\ 1 + q(m) \in 1 .. len /\ r(m) \in 0 .. 2 /\ m = 3 * q(m) + r(m) + 1 /\ q(m) \in Nat
    BY <1>2, <2>1, Thirds
  <2> HIDE DEF q, r
  <2>4. asked[1 + q(n)] = asked[1 + q(m)] /\ names[1 + r(n)] = names[1 + r(m)]
    <3>1. <<asked[1 + q(n)], names[1 + r(n)]>> = <<asked[1 + q(m)], names[1 + r(m)]>>
      BY <2>2, Zenon
    <3> QED
      BY <3>1, EqualPairs, Zenon
  <2>5. q(n) = q(m)
    BY <1>2, <2>3, <2>4
  <2>6. r(n) = 0 \/ r(n) = 1 \/ r(n) = 2
    BY <2>3
  <2>7. r(m) = 0 \/ r(m) = 1 \/ r(m) = 2
    BY <2>3
  <2>8. names[1 + r(n)] # "metadata.json"
    BY <2>2
  <2>9. r(n) = r(m)
    BY <1>1, <2>4, <2>6, <2>7, <2>8
  <2> QED
    BY <2>3, <2>5, <2>9
<1>6. ASSUME NEW n \in DOMAIN todo, todo[n][2] = "metadata.json",
             NEW x \in Companions(kind, todo[n][1])
      PROVE  <<todo[n][1], x>> \in Ahead(todo, n)
  <2>1. n \in 1 .. 3 * len
    <3>1. todo[3 * len + 1][1] = "all"
      BY <1>3
    <3>2. Companions(kind, todo[3 * len + 1][1]) = {}
      BY <3>1
    <3>3. n # 3 * len + 1
      BY <1>6, <3>2
    <3>4. n \in 1 .. 3 * len + 1 /\ 3 * len \in Nat
      BY <1>2, <1>3, <1>6
    <3> QED
      BY <3>3, <3>4
  <2>2. /\ todo[n] = <<asked[1 + ((n - 1) \div 3)], names[1 + ((n - 1) % 3)]>>
        /\ (n - 1) % 3 \in 0 .. 2
    BY <1>2, <1>3, <2>1, Thirds
  <2>3. (n - 1) % 3 = 0 \/ (n - 1) % 3 = 1 \/ (n - 1) % 3 = 2
    BY <2>2
  <2>4. names[1 + ((n - 1) % 3)] = "metadata.json"
    BY <1>6, <2>2
  <2>5. (n - 1) % 3 = 2
    BY <1>1, <2>3, <2>4
  <2>6. /\ n - 1 \in 1 .. 3 * len /\ n - 2 \in 1 .. 3 * len
        /\ n - 1 \in 1 .. n - 1 /\ n - 2 \in 1 .. n - 1
        /\ (n - 2) \div 3 = (n - 1) \div 3 /\ (n - 3) \div 3 = (n - 1) \div 3
        /\ (n - 2) % 3 = 1 /\ (n - 3) % 3 = 0
    BY <1>2, <2>1, <2>5, BeforeTheThird
  <2>7. todo[n - 1] = <<todo[n][1], b>>
    <3>1. (n - 1) - 1 = n - 2
      BY <2>1
    <3>2. todo[n - 1] = <<asked[1 + ((n - 2) \div 3)], names[1 + ((n - 2) % 3)]>>
      BY <1>3, <2>6, <3>1
    <3> QED
      BY <1>1, <2>2, <2>6, <3>2
  <2>8. todo[n - 2] = <<todo[n][1], a>>
    <3>1. (n - 2) - 1 = n - 3
      BY <2>1
    <3>2. todo[n - 2] = <<asked[1 + ((n - 3) \div 3)], names[1 + ((n - 3) % 3)]>>
      BY <1>3, <2>6, <3>1
    <3> QED
      BY <1>1, <2>2, <2>6, <3>2
  <2>9. x = a \/ x = b
    BY <1>6
  <2> QED
    BY <2>6, <2>7, <2>8, <2>9 DEF Ahead
<1>7. ASSUME NEW n \in DOMAIN todo, todo[n][2] = "metadata.json"
      PROVE  In(todo[n][1], Companions(kind, todo[n][1])) \subseteq Ahead(todo, n)
  BY <1>6, <1>7 DEF In
<1>8. InGoodOrder(kind, todo)
  BY <1>4, <1>5, <1>7 DEF InGoodOrder
<1> QED
  BY <1>8 DEF todo, names

\* Whatever a command writes, a metadata.json comes after its companions.
LEMMA WritesInOrder ==
    ASSUME NEW kind, NEW asked \in InOrder \union {<< >>},
           kind \in {"train_parks", "train_park_networks"} => asked \in InOrder
    PROVE  InGoodOrder(kind, Writes(kind, asked))
<1>1. CASE kind = "train_network"
  BY <1>1, ThreeInOrder DEF Writes, Companions
<1>2. CASE kind = "calibrate"
  BY <1>2, TwoInOrder DEF Writes
<1>3. CASE kind = "train_lightgbm"
  BY <1>3, ThreeInOrder DEF Writes, Companions
<1>4. CASE kind = "export_lightgbm"
  BY <1>4, OneInOrder DEF Writes
<1>5. CASE kind \in {"compare", "score"}
  BY <1>5, TwoInOrder DEF Writes
<1>6. CASE kind = "baseline"
  BY <1>6, OneInOrder DEF Writes
<1>7. CASE kind = "generate"
  BY <1>7, ThreeInOrder DEF Writes, Companions
<1>8. CASE kind = "fixture"
  BY <1>8, TwoInOrder DEF Writes
<1>9. CASE kind = "train_parks"
  <2>1. Writes(kind, asked) = PerPark(asked, <<"model.txt", "calibrator.json", "metadata.json">>)
    BY <1>9 DEF Writes
  <2>2. /\ Companions(kind, "all") = {}
        /\ \A dir : Companions(kind, dir) \subseteq {"model.txt", "calibrator.json"}
    BY <1>9 DEF Companions
  <2> QED
    BY <1>9, <2>1, <2>2, PerParkInOrder
<1>10. CASE kind = "train_park_networks"
  <2>1. Writes(kind, asked) = PerPark(asked, <<"model.pt", "model.onnx", "metadata.json">>)
    BY <1>10 DEF Writes
  <2>2. /\ Companions(kind, "all") = {}
        /\ \A dir : Companions(kind, dir) \subseteq {"model.pt", "model.onnx"}
    BY <1>10 DEF Companions
  <2> QED
    BY <1>10, <2>1, <2>2, PerParkInOrder
<1>11. CASE kind \in {"export_parks", "export_regression"}
  BY <1>11, ThreeInOrder DEF Writes, ExportWrites, Companions
<1>12. CASE kind = "train_regression"
  BY <1>12, ThreeInOrder DEF Writes, Companions
<1>13. CASE kind \notin {"train_network", "calibrate", "train_lightgbm", "export_lightgbm", "compare",
                        "score", "baseline", "generate", "fixture", "train_parks",
                        "train_park_networks", "export_parks", "export_regression",
                        "train_regression"}
  <2>1. Writes(kind, asked) = << >>
    BY <1>13 DEF Writes
  <2>2. DOMAIN Writes(kind, asked) = {} /\ Writes(kind, asked) \in Seq({})
    BY <2>1
  <2> QED
    BY <2>2 DEF InGoodOrder, Ordered, IsSeq
<1> QED
  BY <1>1, <1>2, <1>3, <1>4, <1>5, <1>6, <1>7, <1>8, <1>9, <1>10, <1>11, <1>12, <1>13

\* A metadata.json is nobody's companion.
LEMMA NoCompanion ==
    ASSUME NEW kind, NEW dir
    PROVE  "metadata.json" \notin Companions(kind, dir)
BY DEF Companions

LEMMA StartInOrder ==
    ASSUME NightOK, LayoutInv, NEW kind, NEW span, NEW val, NEW asked \in InOrder \union {<< >>},
           kind \in {"train_parks", "train_park_networks"} => asked \in InOrder,
           Start(kind, span, val, asked), UNCHANGED files
    PROVE  LayoutInv'
<1>1. /\ command'.kind = kind /\ command'.run = runs + 1 /\ runs' = runs + 1
      /\ command'.todo = Writes(kind, asked) /\ files' = files /\ runs \in Nat
  BY DEF Start, NightOK
<1>2. InGoodOrder(kind, command'.todo)
  BY <1>1, WritesInOrder
<1>3. \A f \in DOMAIN files' : files'[f].run \in 1 .. runs' /\ files'[f].run # command'.run
  BY <1>1 DEF LayoutInv, OrderInv
<1>4. OrderInv'
  BY <1>1, <1>2, <1>3 DEF OrderInv, InGoodOrder, Companied
<1>5. LastInv'
  <2>1. LastInv
    BY DEF LayoutInv
  <2> QED
    BY <1>1, <2>1 DEF LastInv, Readable, Exists
<1> QED
  BY <1>4, <1>5 DEF LayoutInv

\* The step from a sequence of files to what is left of it.
LEMMA TailOf ==
    ASSUME NEW todo, IsSeq(todo), todo # << >>
    PROVE  /\ 1 \in DOMAIN todo /\ Head(todo) = todo[1] /\ IsSeq(Tail(todo))
           /\ \A n \in DOMAIN Tail(todo) : n + 1 \in DOMAIN todo /\ Tail(todo)[n] = todo[n + 1]
           /\ \A n \in DOMAIN todo : n \in Nat /\ n >= 1
           /\ \A n \in DOMAIN Tail(todo) : n \in Nat /\ n >= 1
           /\ \A n \in DOMAIN Tail(todo) : \A i \in 1 .. n : i # 1 => i - 1 \in DOMAIN Tail(todo)
<1>1. PICK S : todo \in Seq(S)
  BY DEF IsSeq
<1>2. Tail(todo) \in Seq(S)
  BY <1>1
<1>3. /\ Len(todo) \in Nat /\ Len(todo) >= 1 /\ DOMAIN todo = 1 .. Len(todo)
      /\ Len(Tail(todo)) = Len(todo) - 1 /\ DOMAIN Tail(todo) = 1 .. Len(todo) - 1
  BY <1>1, <1>2
<1>4. \A n \in 1 .. Len(todo) - 1 : Tail(todo)[n] = todo[n + 1]
  BY <1>1, <1>3
<1>5. Head(todo) = todo[1]
  BY <1>1
<1>6. IsSeq(Tail(todo))
  BY <1>2 DEF IsSeq
<1> QED
  BY <1>3, <1>4, <1>5, <1>6

\* The run and the kind that a written file carries.
LEMMA WrittenRun ==
    ASSUME CommandOK, HoldoutInv, OrderInv, runs \in Nat, Writing,
           NEW f, f = Head(command.todo), NEW c,
           c = Content(f) \/ c = [Content(f) EXCEPT !.whole = FALSE]
    PROVE  /\ command.kind # "baseline" => c.run = command.run /\ c.by = command.kind
           /\ command.kind = "baseline" =>
                /\ f \in DOMAIN files /\ f[2] = "metadata.json"
                /\ c.run = files[f].run /\ c.by = files[f].by
           /\ c.run \in 1 .. runs
           /\ c = Content(f) /\ command.kind # "baseline" => c.whole
<1>1. command.run = runs
  BY DEF OrderInv
<1>2. CASE command.kind = "baseline"
  <2>1. f = Network("metadata.json") /\ f \in DOMAIN files
    BY <1>2, LeftAfterHead DEF CommandOK, Followed
  <2>2. IsContent(files[f]) /\ files[f].run \in 1 .. runs
    BY <2>1 DEF HoldoutInv, OrderInv
  <2>3. c.run = files[f].run /\ c.by = files[f].by
    BY <1>2, <2>2 DEF Content, IsContent
  <2> QED
    BY <1>2, <2>1, <2>2, <2>3 DEF Network
<1>3. CASE command.kind # "baseline"
  <2>1. c.run = command.run /\ c.by = command.kind /\ (c = Content(f) => c.whole)
    BY <1>3 DEF Content, Plain
  <2>2. runs >= 1
    BY DEF OrderInv
  <2> QED
    BY <1>1, <1>3, <2>1, <2>2
<1> QED
  BY <1>2, <1>3

\* The file that is written is newer than all others of its directory, unless it
\* is merged into; a metadata.json finds its companions written.
LEMMA WriteKeepsLast ==
    ASSUME CommandOK, HoldoutInv, LayoutInv, runs \in Nat, Writing,
           NEW f, f = Head(command.todo), NEW c,
           c = Content(f) \/ c = [Content(f) EXCEPT !.whole = FALSE],
           files' = With(f, c)
    PROVE  LastInv'
<1>0. OrderInv /\ LastInv
  BY DEF LayoutInv
<1>1. /\ DOMAIN files' = DOMAIN files \union {f} /\ files'[f] = c
      /\ \A g \in DOMAIN files \ {f} : files'[g] = files[g]
  BY DEF With
<1>2. /\ command.kind # "baseline" => c.run = command.run /\ c.by = command.kind
      /\ command.kind = "baseline" =>
           /\ f \in DOMAIN files /\ f[2] = "metadata.json"
           /\ c.run = files[f].run /\ c.by = files[f].by
      /\ c.run \in 1 .. runs
  BY <1>0, WrittenRun
<1>3. /\ command.run = runs
      /\ \A g \in DOMAIN files : files[g].run \in 1 .. runs
      /\ f \in DOMAIN files /\ files[f].run = command.run => f[2] = "metadata.json"
      /\ f[2] = "metadata.json" /\ command.kind # "baseline" =>
           \A g \in Companied(f) : IsWritten(g)
  <2>1. command.todo # << >> /\ IsSeq(command.todo)
    BY <1>0 DEF Writing, OrderInv
  <2>2. 1 \in DOMAIN command.todo /\ f = command.todo[1]
    BY <2>1, TailOf
  <2>3. Ahead(command.todo, 1) = {}
    BY DEF Ahead
  <2> QED
    BY <1>0, <2>2, <2>3 DEF OrderInv
<1>4. \A g : g # f => Readable(g)' = Readable(g) /\ (g \in DOMAIN files' <=> g \in DOMAIN files)
  BY <1>1 DEF Readable, Exists
<1> SUFFICES ASSUME NEW h \in DOMAIN files', h[2] = "metadata.json",
                    NEW beside, beside = In(h[1], Companions(files'[h].by, h[1]))
             PROVE  \/ \A g \in beside : Readable(g)' /\ files'[g].run = files'[h].run
                    \/ \E g \in beside : g \in DOMAIN files' /\ files'[g].run > files'[h].run
  BY DEF LastInv
<1>5. \A g \in beside : g[2] # "metadata.json"
  BY NoCompanion DEF In
<1>6. CASE h = f /\ command.kind # "baseline"
  <2>1. beside = Companied(f)
    BY <1>1, <1>2, <1>6 DEF Companied
  <2>2. \A g \in beside : g # f /\ Readable(g) /\ files[g].run = command.run
    BY <1>3, <1>5, <1>6, <2>1 DEF IsWritten
  <2>3. \A g \in beside : Readable(g)' /\ files'[g].run = command.run
    BY <1>1, <1>4, <2>2 DEF Readable, Exists
  <2> QED
    BY <1>1, <1>2, <1>6, <2>3
<1>7. CASE h # f \/ command.kind = "baseline"
  <2>1. h \in DOMAIN files /\ files'[h].by = files[h].by /\ files'[h].run = files[h].run
    BY <1>1, <1>2, <1>7
  <2>2. \/ \A g \in beside : Readable(g) /\ files[g].run = files[h].run
        \/ \E g \in beside : g \in DOMAIN files /\ files[g].run > files[h].run
    BY <1>0, <2>1 DEF LastInv
  <2>3. CASE f \notin beside
    <3>1. \A g \in beside : /\ Readable(g)' = Readable(g)
                            /\ g \in DOMAIN files => g \in DOMAIN files' /\ files'[g] = files[g]
      BY <1>1, <1>4, <2>3
    <3>2. \A g \in beside : Readable(g) => g \in DOMAIN files
      BY DEF Readable, Exists
    <3> QED
      BY <2>1, <2>2, <3>1, <3>2
  <2>4. CASE f \in beside
    <3>1. f[2] # "metadata.json" /\ command.kind # "baseline" /\ c.run = runs
      BY <1>2, <1>3, <1>5, <2>4
    <3>2. files[h].run < runs
      <4>1. files[h].run \in 1 .. runs
        BY <1>3, <2>1
      <4>2. CASE \A g \in beside : Readable(g) /\ files[g].run = files[h].run
        <5>1. f \in DOMAIN files /\ files[f].run = files[h].run
          BY <2>4, <4>2 DEF Readable, Exists
        <5> QED
          BY <1>3, <3>1, <4>1, <5>1
      <4>3. CASE \E g \in beside : g \in DOMAIN files /\ files[g].run > files[h].run
        BY <1>3, <4>1, <4>3
      <4> QED
        BY <2>2, <4>2, <4>3
    <3> QED
      BY <1>1, <1>3, <2>1, <2>4, <3>1, <3>2
  <2> QED
    BY <2>3, <2>4
<1> QED
  BY <1>6, <1>7

LEMMA WriteKeepsOrder ==
    ASSUME CommandOK, HoldoutInv, LayoutInv, runs \in Nat, Writing,
           NEW todo, todo = command.todo, NEW left, left = Tail(todo),
           NEW f, f = Head(todo), NEW c,
           c = Content(f) \/ c = [Content(f) EXCEPT !.whole = FALSE],
           files' = With(f, c), runs' = runs,
           \/ command' = noCommand
           \/ /\ c = Content(f) /\ Len(command.todo) # 1
              /\ command' = [command EXCEPT !.todo = Tail(@)]
    PROVE  OrderInv'
<1>0. OrderInv
  BY DEF LayoutInv
<1>1. /\ DOMAIN files' = DOMAIN files \union {f} /\ files'[f] = c
      /\ \A g \in DOMAIN files \ {f} : files'[g] = files[g]
  BY DEF With
<1>2. /\ command.kind # "baseline" => c.run = command.run /\ c.by = command.kind
      /\ c.run \in 1 .. runs
      /\ c = Content(f) /\ command.kind # "baseline" => c.whole
  BY <1>0, WrittenRun
<1>3. \A g \in DOMAIN files' : files'[g].run \in 1 .. runs'
  BY <1>0, <1>1, <1>2 DEF OrderInv
<1>4. CASE command' = noCommand
  <2>1. command'.todo = << >>
    BY <1>4 DEF noCommand
  <2>2. IsSeq(command'.todo)
    <3>1. << >> \in Seq({})
      OBVIOUS
    <3> QED
      BY <2>1, <3>1 DEF IsSeq
  <2> QED
    BY <1>3, <2>1, <2>2 DEF OrderInv, Writing
<1>5. CASE /\ c = Content(f) /\ Len(command.todo) # 1
           /\ command' = [command EXCEPT !.todo = Tail(@)]
  <2>1. /\ command'.kind = command.kind /\ command'.run = command.run /\ command'.todo = left
    BY <1>5 DEF CommandOK, IsCommand
  <2>2. command.kind # "baseline"
    <3>1. command.kind = "baseline" => todo = <<Network("metadata.json")>>
      BY DEF CommandOK, Followed, Left
    <3>2. \A x : Len(<<x>>) = 1
      OBVIOUS
    <3> QED
      BY <1>5, <3>1, <3>2
  <2>3. todo # << >> /\ IsSeq(todo)
    BY <1>0 DEF Writing, OrderInv
  <2>4. /\ 1 \in DOMAIN todo /\ f = todo[1] /\ IsSeq(left)
        /\ \A n \in DOMAIN left : n + 1 \in DOMAIN todo /\ left[n] = todo[n + 1]
        /\ \A n \in DOMAIN todo : n \in Nat /\ n >= 1
        /\ \A n \in DOMAIN left : n \in Nat /\ n >= 1
        /\ \A n \in DOMAIN left : \A i \in 1 .. n : i # 1 => i - 1 \in DOMAIN left
    BY <2>3, TailOf
  <2>5. /\ command.run = runs /\ runs >= 1 /\ Ordered(command.kind, todo)
        /\ \A n \in DOMAIN todo :
              /\ todo[n][2] = "metadata.json" =>
                   \A g \in Companied(todo[n]) : IsWritten(g) \/ g \in Ahead(todo, n)
              /\ todo[n] \in DOMAIN files /\ files[todo[n]].run = command.run
                   => todo[n][2] = "metadata.json"
    BY <1>0, <2>2 DEF OrderInv
  <2>6. Ordered(command'.kind, left)
    <3> SUFFICES ASSUME NEW n \in DOMAIN left, NEW m \in DOMAIN left, n < m, left[n] = left[m]
                 PROVE  left[n][2] = "metadata.json"
      BY <2>1 DEF Ordered
    <3>1. n + 1 < m + 1 /\ todo[n + 1] = todo[m + 1] /\ left[n] = todo[n + 1]
      BY <2>4
    <3> QED
      BY <2>4, <2>5, <3>1 DEF Ordered
  <2>7. IsWritten(f)' /\ \A g : IsWritten(g) => IsWritten(g)'
    <3>1. IsWritten(f)'
      BY <1>1, <1>2, <1>5, <2>1, <2>2 DEF IsWritten, Readable, Exists
    <3>2. ASSUME NEW g, IsWritten(g), g # f PROVE IsWritten(g)'
      BY <1>1, <2>1, <3>2 DEF IsWritten, Readable, Exists
    <3> QED
      BY <3>1, <3>2
  <2>8. ASSUME NEW n \in DOMAIN left, left[n][2] = "metadata.json", NEW g \in Companied(left[n])'
        PROVE  IsWritten(g)' \/ g \in Ahead(left, n)
    <3>1. g \in Companied(todo[n + 1]) /\ n + 1 \in DOMAIN todo
      BY <2>1, <2>4, <2>8 DEF Companied
    <3>2. IsWritten(g) \/ g \in Ahead(todo, n + 1)
      BY <2>4, <2>5, <2>8, <3>1
    <3>3. ASSUME NEW i \in 1 .. (n + 1) - 1, g = todo[i]
          PROVE  IsWritten(g)' \/ g \in Ahead(left, n)
      <4>1. CASE i = 1
        BY <2>4, <2>7, <3>3, <4>1
      <4>2. CASE i # 1
        <5>1. i - 1 \in 1 .. n - 1 /\ i - 1 \in DOMAIN left
          BY <2>4, <2>8, <3>3, <4>2
        <5>4. i \in Int
          BY <2>4, <2>8
        <5>5. (i - 1) + 1 = i
          BY <5>4
        <5>6. left[i - 1] = todo[(i - 1) + 1]
          BY <2>4, <5>1, Zenon
        <5>2. left[i - 1] = todo[(i - 1) + 1] /\ (i - 1) + 1 = i
          BY <5>5, <5>6
        <5>3. g = left[i - 1]
          BY <3>3, <5>2
        <5> QED
          BY <5>1, <5>3 DEF Ahead
      <4> QED
        BY <4>1, <4>2
    <3> QED
      BY <2>7, <3>2, <3>3 DEF Ahead
  <2>9. ASSUME NEW n \in DOMAIN left, left[n] \in DOMAIN files', files'[left[n]].run = command'.run
        PROVE  left[n][2] = "metadata.json"
    <3>1. left[n] = todo[n + 1] /\ n + 1 \in DOMAIN todo /\ 1 < n + 1
      BY <2>4
    <3>2. CASE left[n] = f
      BY <2>4, <2>5, <3>1, <3>2 DEF Ordered
    <3>3. CASE left[n] # f
      BY <1>1, <2>1, <2>5, <2>9, <3>1, <3>3
    <3> QED
      BY <3>2, <3>3
  <2> QED
    BY <1>3, <2>1, <2>4, <2>5, <2>6, <2>8, <2>9 DEF OrderInv
<1> QED
  BY <1>4, <1>5

LEMMA LayoutStep == ArtifactInv /\ LayoutInv /\ [ArtifactNext]_artifactVars => LayoutInv'
<1> SUFFICES ASSUME ArtifactInv, LayoutInv, [ArtifactNext]_artifactVars
             PROVE  LayoutInv'
  OBVIOUS
<1>0. CommandOK /\ HoldoutInv /\ NightOK /\ runs \in Nat /\ OrderInv /\ LastInv
  BY DEF ArtifactInv, NightOK, LayoutInv
<1>1. ASSUME NEW kind, NEW span, NEW val, NEW asked \in InOrder \union {<< >>}, NEW allowed,
             ByHand(kind, span, val, asked, allowed),
             kind \in {"train_parks", "train_park_networks"} => asked \in InOrder
      PROVE  LayoutInv'
  BY <1>0, <1>1, StartInOrder DEF ByHand
<1>2. ASSUME UNCHANGED <<files, command, runs>>
      PROVE  LayoutInv'
  BY <1>2 DEF LayoutInv, OrderInv, LastInv, Writing, IsWritten, Companied, Readable, Exists
<1>3. CASE StageStarts
  <2>1. /\ Start(NightStage, StageSpan, night.val, << >>) /\ UNCHANGED files
        /\ NightRuns
    BY <1>3 DEF StageStarts
  <2>2. NightStage \notin {"train_parks", "train_park_networks"}
    BY <1>0, <2>1, StageOf
  <2> QED
    BY <1>0, <2>1, <2>2, StartInOrder
<1>4. ASSUME Writing, UNCHANGED files, runs' = runs, command' = noCommand
      PROVE  LayoutInv'
  <2>1. command'.todo = << >>
    BY <1>4 DEF noCommand
  <2>2. << >> \in Seq({})
    OBVIOUS
  <2>3. OrderInv'
    BY <1>0, <1>4, <2>1, <2>2 DEF OrderInv, Writing, IsSeq
  <2>4. LastInv'
    BY <1>0, <1>4 DEF LastInv, Readable, Exists
  <2> QED
    BY <2>3, <2>4 DEF LayoutInv
<1>5. CASE MergeFails
  BY <1>4, <1>5 DEF MergeFails, Ends
<1>6. ASSUME Writing, runs' = runs, NEW f, f = Head(command.todo), NEW c, files' = With(f, c),
             c = Content(f) \/ c = [Content(f) EXCEPT !.whole = FALSE],
             \/ command' = noCommand
             \/ /\ c = Content(f) /\ Len(command.todo) # 1
                /\ command' = [command EXCEPT !.todo = Tail(@)]
      PROVE  LayoutInv'
  <2>1. LastInv'
    BY <1>0, <1>6, WriteKeepsLast
  <2>2. OrderInv'
    BY <1>0, <1>6, WriteKeepsOrder
  <2> QED
    BY <2>1, <2>2 DEF LayoutInv
<1>7. CASE KillCommand
  <2>1. Writing /\ runs' = runs /\ command' = noCommand
    BY <1>7 DEF KillCommand, Ends
  <2>2. \/ UNCHANGED files
        \/ files' = With(Head(command.todo), [Content(Head(command.todo)) EXCEPT !.whole = FALSE])
    BY <1>7 DEF KillCommand
  <2> QED
    BY <1>4, <1>6, <2>1, <2>2
<1>8. CASE WriteFile
  <2>1. /\ Writing /\ runs' = runs
        /\ files' = With(Head(command.todo), Content(Head(command.todo)))
    BY <1>8 DEF WriteFile
  <2>2. \/ command' = noCommand
        \/ Len(command.todo) # 1 /\ command' = [command EXCEPT !.todo = Tail(@)]
    BY <1>8 DEF WriteFile, Ends
  <2> QED
    BY <1>6, <2>1, <2>2
<1>9. CASE StagePasses \/ StageFails \/ UNCHANGED artifactVars
  BY <1>2, <1>9 DEF StagePasses, StageFails, artifactVars
<1>10. ASSUME NEW span, NEW val, StartNight(span, val)
       PROVE  LayoutInv'
  BY <1>2, <1>10 DEF StartNight
<1>11. ASSUME NEW span, NEW val,
              TrainNetwork(span, val) \/ TrainLightGBM(span, val) \/ TrainRegression(span, val)
       PROVE  LayoutInv'
  BY <1>1, <1>11 DEF TrainNetwork, TrainLightGBM, TrainRegression
<1>12. ASSUME NEW span, NEW val, NEW asked \in InOrder,
              TrainParks(span, val, asked) \/ TrainParkNetworks(span, val, asked)
       PROVE  LayoutInv'
  BY <1>1, <1>12 DEF TrainParks, TrainParkNetworks
<1>13. ASSUME NEW span, NEW allowed, \/ FitCalibrators(span) \/ BackfillDistributions(span)
                                    \/ ScoreBackfill(span, allowed)
       PROVE  LayoutInv'
  BY <1>1, <1>13 DEF FitCalibrators, BackfillDistributions, ScoreBackfill
<1>14. CASE ExportLightGBM \/ ExportParks \/ ExportRegression \/ GenerateMiniature \/ ParityFixture
  BY <1>1, <1>14 DEF ExportLightGBM, ExportParks, ExportRegression, GenerateMiniature, ParityFixture
<1> QED
  BY <1>3, <1>5, <1>7, <1>8, <1>9, <1>10, <1>11, <1>12, <1>13, <1>14 DEF ArtifactNext

LEMMA LayoutInit == ArtifactInit => LayoutInv
<1> SUFFICES ASSUME ArtifactInit PROVE LayoutInv
  OBVIOUS
<1>1. DOMAIN files = {} /\ command.todo = << >>
  <2>1. files = << >> /\ command = noCommand
    BY DEF ArtifactInit
  <2>2. DOMAIN files = {}
    BY <2>1
  <2>3. command.todo = << >>
    BY <2>1 DEF noCommand
  <2> QED
    BY <2>2, <2>3
<1>2. << >> \in Seq({})
  OBVIOUS
<1> QED
  BY <1>1, <1>2 DEF LayoutInv, OrderInv, LastInv, Writing, IsSeq

-----------------------------------------------------------------------------
\* Rule 13, whatever is trained, exported, merged, scored, killed and started
\* again, in any order: a report stamped unseen is about rows that the network
\* was not fitted on, and no drift baseline is made of the holdout.
THEOREM HoldoutStaysUnseen == ArtifactSpec => []HoldoutIsUnseen
<1>1. ArtifactInv => HoldoutIsUnseen
  BY DEF ArtifactInv
<1> QED
  BY <1>1, ArtifactInvariant, PTL

\* Decision [141], for any number of nights and of commands by hand: a night past
\* the gate has a model of its own, measured good after it was trained.
THEOREM GateMeasuresThisNight == ArtifactSpec => []OvernightGateIsFresh
<1>1. ArtifactInv => OvernightGateIsFresh
  <2> SUFFICES ASSUME ArtifactInv, night.stage > GateStage
               PROVE  /\ AllReadable(Model \union {Metrics})
                      /\ files[Metrics].note = "good"
                      /\ files[Metrics].of = RunsOf(Model)
                      /\ \A r \in RunsOf(Model) : r >= night.began
    BY DEF OvernightGateIsFresh, Model, Metrics, Network, In
  <2>1. NightRuns /\ night.stage > 2 /\ night.stage > 3
    BY DEF ArtifactInv, NightOK, NightRuns, GateStage
  <2>2. /\ \A f \in Model : IsFresh(f)
        /\ Readable(Metrics) /\ files[Metrics].of = RunsOf(Model)
        /\ files[Metrics].note = "good"
    BY <2>1 DEF ArtifactInv, FreshInv
  <2> QED
    BY <2>2 DEF IsFresh, AllReadable, RunsOf
<1> QED
  BY <1>1, ArtifactInvariant, PTL

\* A directory in which nothing is newer than its metadata.json is of one run, for
\* any number of parks, of commands and of kills in the middle of a file.
THEOREM MetadataClosesTheRun == ArtifactSpec => []MetadataIsLast
<1>1. OrderInv /\ LastInv => MetadataIsLast
  <2> SUFFICES ASSUME OrderInv, LastInv, NEW f \in DOMAIN files, f[2] = "metadata.json",
                      NEW beside, beside = In(f[1], Companions(files[f].by, f[1])),
                      \A g \in beside \intersect DOMAIN files : files[g].run <= files[f].run
               PROVE  \A g \in beside : Readable(g) /\ files[g].run = files[f].run
    BY DEF MetadataIsLast
  <2>1. \A g \in DOMAIN files : files[g].run \in Nat
    BY DEF OrderInv
  <2>2. ~ \E g \in beside : g \in DOMAIN files /\ files[g].run > files[f].run
    BY <2>1
  <2> QED
    BY <2>2 DEF LastInv
<1>2. LayoutInv => MetadataIsLast
  BY <1>1 DEF LayoutInv
<1> QED
  BY <1>2, ArtifactInvariant, LayoutInit, LayoutStep, PTL DEF ArtifactSpec
=============================================================================
