------------------------- MODULE TrainingDataProofs -------------------------
(***************************************************************************)
(* Proofs about the data the models are trained on: the pull, the          *)
(* transform and the weather backfill (Ingest, WeatherBackfill), the labels *)
(* of the batted balls and their loaders (Retrodict, BattedBall), and the  *)
(* flight that gives a label its outcome (FlightOutcome).                  *)
(***************************************************************************)
EXTENDS WeatherBackfill, BattedBall, FlightOutcome, FiniteSetTheorems, SequenceTheorems, TLAPS

(***************************************************************************)
(* Ingest.                                                                 *)
(***************************************************************************)
complete(v) == executed[v] = Statements

\* A command has run the files before the one it is at, or found them recorded,
\* and of that one the statements before its own.
Behind(m) ==
    /\ m.seen \subseteq tracked
    /\ \A u \in 1 .. m.at - 1 : complete(u)
    /\ m.at <= Migrations => executed[m.at] >= m.stmt

MigrationInv ==
    /\ \A v \in tracked : \A u \in 1 .. v : complete(u)
    /\ \A c \in Commands : Behind(migrating[c])
    /\ (pull.pc \notin {"idle", "migrate"} \/ transform.pc \notin {"idle", "migrate"})
            => \A v \in 1 .. Migrations : complete(v)

PullState ==
    [pc : {"idle", "migrate", "fetch", "drop", "insert", "assert"},
     month : 1 .. LastMonth + 1, tries : 0 .. Attempts - 1, rows : SUBSET Row,
     chunks : [Months -> {"none", "failed", "empty", "ok"}],
     verdict : {"none", "passed", "failed"}]

IngestTypes ==
    /\ TypeOK
    /\ pull \in PullState
    /\ pull.pc \in {"migrate", "fetch", "drop", "insert"} => pull.month \in Months

\* The rows of one pull of a month: Statcast serves a pitch once, a month's
\* partition is empty when the first chunk comes, and a chunk takes its rows
\* from what is left.
OncePerPitch(rows) == \A r, s \in rows : (r.pitch = s.pitch /\ r.pitch # ZeroKey) => r = s
OneCopy(bag) == \A r \in DOMAIN bag : r.pitch # ZeroKey => bag[r] = 1
Apart(rows, others) == \A r \in rows, s \in others : r.pitch # s.pitch \/ r.pitch = ZeroKey

RowsInv ==
    /\ OncePerPitch(source) /\ \A r \in source : r.pitch \in Pitches
    /\ \A m \in Months : OncePerPitch(DOMAIN raw[m]) /\ OneCopy(raw[m])
    /\ pull.pc \in {"drop", "insert"} => OncePerPitch(pull.rows)
    /\ pull.pc = "insert" => Apart(pull.rows, DOMAIN raw[pull.month])

OneDatePerPitch ==
    (transform.pc = "idle" /\ transform.verdict = "passed") =>
          \A k, l \in Cleaned : k[2] = l[2] => k = l

(***************************************************************************)
(* WeatherBackfill.                                                        *)
(***************************************************************************)
\* Every game set out for is stored, waits, is buffered or is missing.
BackfillInv ==
    backfill.pc # "idle" =>
        /\ backfill.games \subseteq DOMAIN weather \union backfill.todo
                                    \union {r[1] : r \in backfill.buffer} \union backfill.missing
        /\ backfill.pc = "done" => backfill.todo = {} /\ backfill.buffer = {}

BackfillTypes == \E S, T, U, V : backfill \in
    [pc : {"idle", "fetch", "done"}, games : {S}, todo : {T}, buffer : {U}, missing : {V}]

(***************************************************************************)
(* Retrodict.                                                              *)
(***************************************************************************)
RunState ==
    [pc : {"idle", "page", "insert"}, id : Nat, offset : Nat, page : SUBSET Balls,
     short : BOOLEAN, weather : SUBSET Balls, start : SUBSET Balls, left : BOOLEAN]

LabelTypes ==
    /\ event \in [Balls -> {"absent", "scored", "error"}] /\ observed \in SUBSET Balls
    /\ labels \in [Balls -> [run : Nat, air : {"still", "observed"}]]
    /\ run \in RunState /\ runs \in Nat
    /\ done \in [id : Nat, weather : SUBSET Balls, start : SUBSET Balls, left : BOOLEAN]

\* Later runs have higher numbers and know the weather of the earlier ones.
RunsInOrder ==
    /\ done.id <= runs /\ done.weather \subseteq observed
    /\ run.pc # "idle" =>
          /\ run.id = runs /\ done.id < run.id
          /\ done.weather \subseteq run.weather /\ run.weather \subseteq observed

Labelled(b) == labels[b].run = run.id /\ (b \in run.weather => labels[b].air = "observed")

\* As long as no ball has left the stream, a ball of the start that comes
\* before the offset is labelled or on the page at hand, and on the last page
\* every ball of the start is.
PagingInv ==
    (run.pc # "idle" /\ ~run.left) =>
        /\ run.start \subseteq Stream \ NoPark
        /\ \A b \in run.start :
              /\ run.pc = "page" /\ RankIn(b, Stream) < run.offset => Labelled(b)
              /\ run.pc = "insert" /\ (RankIn(b, Stream) < run.offset \/ run.short)
                    => Labelled(b) \/ b \in run.page

(***************************************************************************)
(* BattedBall.                                                             *)
(***************************************************************************)
Loaded(rows) == {rows[i] : i \in DOMAIN rows}

JobState ==
    [pc : {"idle", "count", "load", "page", "query", "fit"}, kind : Kinds,
     first : Nat, last : Nat, val : Nat, slice : {"train", "val"}, season : Nat,
     counted : Nat, offset : Nat, rows : Seq(Balls), train : Seq(Balls),
     expect : SUBSET Balls, stirred : BOOLEAN]

LoaderTypes ==
    /\ job \in JobState
    /\ job.pc = "count" => job.kind \in Counted
    /\ job.pc = "load" => job.kind \in Counted
    /\ job.pc = "page" => job.kind \in Paged
    /\ job.pc = "query" => job.kind = "lgbm"

\* A trainer that loads its training rows keeps to the seasons it was asked
\* for, and one that has loaded them has each ball at most once.
SliceInv ==
    job.pc # "idle" =>
        /\ job.first <= job.last
        /\ job.slice = "train" /\ job.pc # "fit" =>
              /\ ~job.stirred => job.expect = Joined(job.first .. job.last)
              /\ job.kind = "outcome" => job.last < job.val
        /\ job.slice = "val" =>
              job.val # noSeason /\ job.first = job.val /\ job.last = job.val
        /\ job.slice = "val" \/ job.pc = "fit" =>
              /\ job.kind \notin Paged => ~Twice(job.train)
              /\ ~job.stirred => Loaded(job.train) = job.expect /\ ~Twice(job.train)
              /\ job.kind = "outcome" => \A i \in DOMAIN job.train : Season[job.train[i]] < job.val

\* The rows loaded so far.
FillInv ==
    /\ job.pc \in {"count", "query"} => job.rows = <<>>
    /\ job.pc \in {"count", "load"} /\ job.kind \in BySeason =>
          job.first <= job.season /\ job.season <= job.last
    /\ job.pc = "load" /\ job.kind \in BySeason =>
          /\ ~Twice(job.rows)
          /\ \A i \in DOMAIN job.rows : Season[job.rows[i]] \in job.first .. job.season - 1
          /\ job.slice = "train" /\ ~job.stirred =>
                Loaded(job.rows) = Joined(job.first .. job.season - 1)
    /\ job.pc = "load" /\ job.kind = "mlp_park" => job.rows = <<>>
    /\ job.pc = "page" /\ job.slice = "train" /\ ~job.stirred =>
          /\ job.offset <= Cardinality(job.expect)
          /\ job.rows = SubSeq(InOrder(job.expect), 1, job.offset)
    /\ job.pc = "fit" =>
          /\ job.kind \notin Paged => ~Twice(job.rows)
          /\ job.kind = "outcome" =>
                job.slice = "val" /\ \A i \in DOMAIN job.rows : Season[job.rows[i]] = job.val

-----------------------------------------------------------------------------
(***************************************************************************)
(* The pull and the transform.                                             *)
(***************************************************************************)
\* A bag of rows stays one when a set of rows is added to it.
LEMMA AddedBag ==
    ASSUME NEW B, NEW chunk, IsABag(B), BagToSet(B) \subseteq Row, chunk \subseteq Row
    PROVE  IsABag(B (+) SetToBag(chunk)) /\ BagToSet(B (+) SetToBag(chunk)) \subseteq Row
<1>1. DOMAIN (B (+) SetToBag(chunk)) = DOMAIN B \union chunk
    BY DEF (+), SetToBag
<1>2. \A e \in DOMAIN B : B[e] \in Nat /\ B[e] > 0
    BY DEF IsABag
<1>3. \A e \in DOMAIN B \union chunk :
          (B (+) SetToBag(chunk))[e] \in Nat /\ (B (+) SetToBag(chunk))[e] > 0
    BY <1>2 DEF (+), SetToBag
<1>4. B (+) SetToBag(chunk) = [e \in DOMAIN B \union chunk |-> (B (+) SetToBag(chunk))[e]]
    BY DEF (+), SetToBag
<1>5. IsABag(B (+) SetToBag(chunk))
    BY <1>1, <1>3, <1>4 DEF IsABag
<1> QED
    BY <1>1, <1>5 DEF BagToSet

\* A month that is over leaves the pull well typed, whatever became of it.
LEMMA MonthDoneTyped ==
    ASSUME IngestTypes, pull.pc \in {"fetch", "insert"}, NEW status \in {"failed", "empty", "ok"}
    PROVE  /\ MonthDone(status) \in PullState
           /\ MonthDone(status).pc \in {"fetch", "assert"}
           /\ MonthDone(status).pc = "fetch" => MonthDone(status).month \in Months
<1> USE IngestAssumption
<1>1. pull \in PullState /\ pull.month \in Months
    BY DEF IngestTypes
<1>2. pull.month + 1 \in 1 .. LastMonth + 1 /\ 0 \in 0 .. Attempts - 1
    BY <1>1 DEF Months
<1>3. pull.month # LastMonth => pull.month + 1 \in Months
    BY <1>1 DEF Months
<1>4. PICK after \in {"fetch", "assert"} :
        /\ after = IF pull.month = LastMonth THEN "assert" ELSE "fetch"
        /\ after = "fetch" => pull.month # LastMonth
    OBVIOUS
<1>5. MonthDone(status) = [pull EXCEPT !.pc = after, !.month = @ + 1, !.tries = 0, !.rows = {},
                                       !.chunks[pull.month] = status]
    BY <1>4 DEF MonthDone
<1>6. PICK chunks \in [Months -> {"none", "failed", "empty", "ok"}] :
        chunks = [pull.chunks EXCEPT ![pull.month] = status]
    BY <1>1 DEF PullState
<1>7. MonthDone(status) = [pull EXCEPT !.pc = after, !.month = @ + 1, !.tries = 0, !.rows = {},
                                       !.chunks = chunks]
    BY <1>5, <1>6
<1>8. MonthDone(status) \in PullState
    BY <1>1, <1>2, <1>7 DEF PullState
<1>9. MonthDone(status).pc = after /\ MonthDone(status).month = pull.month + 1
    BY <1>1, <1>7 DEF PullState
<1> QED
    BY <1>3, <1>4, <1>8, <1>9

LEMMA IdleTyped ==
    /\ pullIdle \in PullState /\ pullIdle.pc = "idle" /\ pullIdle.month = 1
    /\ transformIdle \in [pc : {"idle", "migrate", "insert", "assert"},
                          verdict : {"none", "passed", "failed"}]
    /\ 1 \in Months
    /\ notMigrating \in [seen : SUBSET (1 .. Migrations),
                         at : 1 .. Migrations + 1, stmt : 0 .. Statements]
    BY IngestAssumption DEF pullIdle, transformIdle, notMigrating, PullState, Months

\* Any member of PullState has the fields TypeOK asks for.
LEMMA PullTyped ==
    ASSUME NEW p \in PullState
    PROVE  /\ p.pc \in {"idle", "migrate", "fetch", "drop", "insert", "assert"}
           /\ p.month \in 1 .. LastMonth + 1 /\ p.tries \in 0 .. Attempts - 1
           /\ p.rows \subseteq Row
           /\ p.chunks \in [Months -> {"none", "failed", "empty", "ok"}]
           /\ p.verdict \in {"none", "passed", "failed"}
    BY DEF PullState

LEMMA IngestTypesInit == Init => IngestTypes
<1> SUFFICES ASSUME Init PROVE IngestTypes
    OBVIOUS
<1> USE IngestAssumption
<1>1. source \subseteq Row
    <2>1. (CHOOSE m \in Months : TRUE) \in Months
        BY IdleTyped
    <2> QED
        BY <2>1 DEF Init, Row, Keys
<1>2. DOMAIN raw = Months /\ \A m \in Months : IsABag(raw[m]) /\ BagToSet(raw[m]) \subseteq Row
    <2>1. EmptyBag = [e \in {} |-> 1]
        BY DEF EmptyBag, SetToBag
    <2>2. IsABag(EmptyBag) /\ BagToSet(EmptyBag) \subseteq Row
        BY <2>1 DEF IsABag, BagToSet
    <2> QED
        BY <2>2 DEF Init
<1>3. pitches \in [Months \X Keys -> Nat] /\ executed \in [1 .. Migrations -> 0 .. Statements]
      /\ tracked \subseteq 1 .. Migrations
    BY DEF Init
<1>4. migrating \in [Commands -> [seen : SUBSET (1 .. Migrations),
                                  at : 1 .. Migrations + 1, stmt : 0 .. Statements]]
    BY IdleTyped DEF Init
<1>5. pull \in PullState /\ pull.pc = "idle"
    BY IdleTyped DEF Init
<1>6. transform \in [pc : {"idle", "migrate", "insert", "assert"},
                     verdict : {"none", "passed", "failed"}]
    BY IdleTyped DEF Init
<1> QED
    BY <1>1, <1>2, <1>3, <1>4, <1>5, <1>6, PullTyped DEF IngestTypes, TypeOK

LEMMA IngestTypesNext == IngestTypes /\ [Next]_vars => IngestTypes'
<1> SUFFICES ASSUME IngestTypes, [Next]_vars PROVE IngestTypes'
    OBVIOUS
<1> USE IngestAssumption
<1> DEFINE MigratingTypes == [Commands -> [seen : SUBSET (1 .. Migrations),
                                           at : 1 .. Migrations + 1, stmt : 0 .. Statements]]
           TransformTypes == [pc : {"idle", "migrate", "insert", "assert"},
                              verdict : {"none", "passed", "failed"}]
           RawTypes(r) == DOMAIN r = Months
                          /\ \A m \in Months : IsABag(r[m]) /\ BagToSet(r[m]) \subseteq Row
           TableTypes == [Months \X Keys -> Nat]
           ExecutedTypes == [1 .. Migrations -> 0 .. Statements]
<1>1. /\ source \subseteq Row /\ RawTypes(raw) /\ pitches \in TableTypes
      /\ executed \in ExecutedTypes /\ tracked \subseteq 1 .. Migrations
      /\ migrating \in MigratingTypes /\ pull \in PullState /\ transform \in TransformTypes
      /\ pull.pc \in {"migrate", "fetch", "drop", "insert"} => pull.month \in Months
    BY DEF IngestTypes, TypeOK
<1>2. ASSUME source' \subseteq Row, RawTypes(raw'), pitches' \in TableTypes,
             executed' \in ExecutedTypes, tracked' \subseteq 1 .. Migrations,
             migrating' \in MigratingTypes, pull' \in PullState, transform' \in TransformTypes,
             pull'.pc \in {"migrate", "fetch", "drop", "insert"} => pull'.month \in Months
      PROVE  IngestTypes'
    BY <1>2, PullTyped DEF IngestTypes, TypeOK
<1> HIDE DEF MigratingTypes, TransformTypes, RawTypes, TableTypes, ExecutedTypes
<1>3. ASSUME NEW c \in Commands PROVE [migrating EXCEPT ![c] = notMigrating] \in MigratingTypes
    BY <1>1, IdleTyped DEF MigratingTypes
<1>4. ASSUME NEW c \in Commands, StartMigrating(c) PROVE migrating' \in MigratingTypes
    <2>1. [seen |-> tracked, at |-> 1, stmt |-> 0]
            \in [seen : SUBSET (1 .. Migrations), at : 1 .. Migrations + 1, stmt : 0 .. Statements]
        BY <1>1
    <2> QED
        BY <1>1, <1>4, <2>1 DEF MigratingTypes, StartMigrating
<1>5. CASE StartPull
    <2>1. pull' \in PullState /\ pull'.month = 1
        BY <1>5, IdleTyped DEF StartPull, PullState
    <2> QED
        BY <1>1, <1>2, <1>4, <1>5, <2>1, IdleTyped DEF StartPull, Commands
<1>6. CASE BeginMonths
    <2>1. pull' \in PullState /\ pull'.month = pull.month /\ pull.month \in Months
        BY <1>1, <1>6 DEF BeginMonths, PullState
    <2> QED
        BY <1>1, <1>2, <1>6, <2>1 DEF BeginMonths
<1>7. CASE FetchFails
    <2>1. pull' \in PullState /\ (pull'.pc # "assert" => pull'.month \in Months)
        <3>1. CASE pull.tries + 1 < Attempts
            BY <1>1, <1>7, <3>1 DEF FetchFails, PullState
        <3>2. CASE ~(pull.tries + 1 < Attempts)
            BY <1>7, <3>2, MonthDoneTyped DEF FetchFails
        <3> QED
            BY <3>1, <3>2
    <2> QED
        BY <1>1, <1>2, <1>7, <2>1 DEF FetchFails
<1>8. CASE Fetch
    <2> DEFINE rows == {Normalize(r) : r \in {r \in source : r.month = pull.month}}
    <2>1. rows \subseteq Row
        BY <1>1, IngestAssumption DEF Normalize, Row, Keys
    <2>2. pull' = IF rows = {} THEN MonthDone("empty") ELSE [pull EXCEPT !.pc = "drop", !.rows = rows]
        BY <1>8 DEF Fetch
    <2> HIDE DEF rows
    <2>3. pull' \in PullState /\ (pull'.pc # "assert" => pull'.month \in Months)
        <3>1. CASE rows = {}
            BY <1>8, <2>2, <3>1, MonthDoneTyped DEF Fetch
        <3>2. CASE rows # {}
            <4>1. pull' = [pull EXCEPT !.pc = "drop", !.rows = rows]
                BY <2>2, <3>2
            <4>2. pull.month \in Months
                BY <1>1, <1>8 DEF Fetch
            <4>3. pull' \in PullState /\ pull'.month = pull.month
                BY <1>1, <2>1, <4>1 DEF PullState
            <4> QED
                BY <4>2, <4>3
        <3> QED
            BY <3>1, <3>2
    <2> QED
        BY <1>1, <1>2, <1>8, <2>3 DEF Fetch
<1>9. CASE DropPartition
    <2>1. pull' \in PullState /\ pull'.month = pull.month /\ pull.month \in Months
        BY <1>1, <1>9 DEF DropPartition, PullState
    <2>2. IsABag(EmptyBag) /\ BagToSet(EmptyBag) \subseteq Row
        BY DEF EmptyBag, SetToBag, IsABag, BagToSet
    <2>3. RawTypes(raw')
        BY <1>1, <1>9, <2>2 DEF DropPartition, RawTypes
    <2> QED
        BY <1>1, <1>2, <1>9, <2>1, <2>3 DEF DropPartition
<1>10. CASE InsertChunk
    <2>1. PICK chunk \in SUBSET pull.rows :
            /\ raw' = [raw EXCEPT ![pull.month] = @ (+) SetToBag(chunk)]
            /\ pull' = IF chunk = pull.rows THEN MonthDone("ok") ELSE [pull EXCEPT !.rows = @ \ chunk]
        BY <1>10 DEF InsertChunk
    <2>2. pull.rows \subseteq Row /\ pull.month \in Months
        BY <1>1, <1>10, PullTyped DEF InsertChunk
    <2>3. RawTypes(raw')
        BY <1>1, <2>1, <2>2, AddedBag DEF RawTypes
    <2>4. pull' \in PullState /\ (pull'.pc # "assert" => pull'.month \in Months)
        <3>1. CASE chunk = pull.rows
            BY <1>10, <2>1, <3>1, MonthDoneTyped DEF InsertChunk
        <3>2. CASE chunk # pull.rows
            BY <1>1, <2>1, <2>2, <3>2 DEF PullState
        <3> QED
            BY <3>1, <3>2
    <2> QED
        BY <1>1, <1>2, <1>10, <2>3, <2>4 DEF InsertChunk
<1>11. CASE AssertPull
    <2>1. PICK verdict \in {"passed", "failed"} :
            pull' = [pull EXCEPT !.pc = "idle", !.verdict = verdict]
        BY <1>11 DEF AssertPull
    <2>2. pull' \in PullState /\ pull'.pc = "idle"
        BY <1>1, <2>1 DEF PullState
    <2> QED
        BY <1>1, <1>2, <1>11, <2>2 DEF AssertPull
<1>12. CASE KillPull
    BY <1>1, <1>2, <1>3, <1>12, IdleTyped DEF KillPull, Commands
<1>13. CASE StartTransform
    <2>1. transform' \in TransformTypes
        BY <1>13 DEF StartTransform, transformIdle, TransformTypes
    <2> QED
        BY <1>1, <1>2, <1>4, <1>13, <2>1 DEF StartTransform, Commands
<1>14. CASE BeginInsert
    <2>1. transform' \in TransformTypes
        BY <1>1, <1>14 DEF BeginInsert, TransformTypes
    <2> QED
        BY <1>1, <1>2, <1>14, <2>1 DEF BeginInsert
<1>15. CASE TransformInsert
    <2>1. PICK kept \in SUBSET RegularRows :
            pitches' = [k \in DOMAIN pitches |->
               IF \E r \in kept : Key(r) = k
               THEN (CHOOSE r \in kept : Key(r) = k).rev ELSE pitches[k]]
        BY <1>15 DEF TransformInsert
    <2>2. kept \subseteq Row
        BY <1>1 DEF RawTypes, RegularRows, RawRows
    <2>3. \A k \in DOMAIN pitches : (\E r \in kept : Key(r) = k)
                                      => (CHOOSE r \in kept : Key(r) = k).rev \in Nat
        <3> SUFFICES ASSUME NEW k \in DOMAIN pitches, \E r \in kept : Key(r) = k
                     PROVE  (CHOOSE r \in kept : Key(r) = k).rev \in Nat
            OBVIOUS
        <3>1. (CHOOSE r \in kept : Key(r) = k) \in kept
            OBVIOUS
        <3> QED
            BY <2>2, <3>1 DEF Row
    <2>4. pitches' \in TableTypes
        BY <1>1, <2>1, <2>3 DEF TableTypes
    <2>5. transform' \in TransformTypes
        BY <1>1, <1>15 DEF TransformInsert, TransformTypes
    <2> QED
        BY <1>1, <1>2, <1>15, <2>4, <2>5 DEF TransformInsert
<1>16. CASE RunAssertions
    <2>1. PICK verdict \in {"passed", "failed"} : transform' = [pc |-> "idle", verdict |-> verdict]
        BY <1>16 DEF RunAssertions
    <2>2. transform' \in TransformTypes
        BY <2>1 DEF TransformTypes
    <2> QED
        BY <1>1, <1>2, <1>16, <2>2 DEF RunAssertions
<1>17. CASE KillTransform
    <2>1. transform' \in TransformTypes
        BY <1>17, IdleTyped DEF KillTransform, TransformTypes
    <2> QED
        BY <1>1, <1>2, <1>3, <1>17, <2>1 DEF KillTransform, Commands
<1>18. ASSUME NEW c \in Commands, Migrate(c) PROVE IngestTypes'
    <2> DEFINE mig == migrating[c]
    <2>1. /\ mig.seen \in SUBSET (1 .. Migrations) /\ mig.at \in 1 .. Migrations
          /\ mig.stmt \in 0 .. Statements
        BY <1>1, <1>18 DEF Migrate, ApplyMigration, MigratingTypes
    <2>2. NextMigration(c) \in MigratingTypes
        <3>1. PICK at \in 1 .. Migrations + 1 : at = mig.at + 1
            BY <2>1
        <3>2. PICK moved \in MigratingTypes : moved = [migrating EXCEPT ![c].at = at]
            BY <1>1 DEF MigratingTypes
        <3>3. NextMigration(c) = [moved EXCEPT ![c].stmt = 0]
            BY <3>1, <3>2 DEF NextMigration
        <3> QED
            BY <3>3 DEF MigratingTypes
    <2>3. migrating' \in MigratingTypes
        <3>1. CASE migrating' = NextMigration(c)
            BY <2>2, <3>1
        <3>2. CASE migrating' = [migrating EXCEPT ![c].stmt = @ + 1] /\ mig.stmt < Statements
            BY <1>1, <2>1, <3>2 DEF MigratingTypes
        <3> QED
            BY <1>18, <3>1, <3>2 DEF Migrate, ApplyMigration
    <2>4. executed' \in ExecutedTypes
        <3>1. CASE UNCHANGED executed
            BY <1>1, <3>1
        <3>2. CASE /\ mig.stmt < Statements
                   /\ executed' = [executed EXCEPT ![mig.at] = IF @ > mig.stmt THEN @ ELSE mig.stmt + 1]
            <4>1. executed[mig.at] \in 0 .. Statements
                BY <1>1, <2>1 DEF ExecutedTypes
            <4>2. PICK n \in 0 .. Statements :
                    n = IF executed[mig.at] > mig.stmt THEN executed[mig.at] ELSE mig.stmt + 1
                BY <2>1, <3>2, <4>1
            <4>3. executed' = [executed EXCEPT ![mig.at] = n]
                BY <3>2, <4>2
            <4> QED
                BY <1>1, <4>3 DEF ExecutedTypes
        <3> QED
            BY <1>18, <3>1, <3>2 DEF Migrate, ApplyMigration
    <2>5. tracked' \subseteq 1 .. Migrations
        BY <1>1, <1>18, <2>1 DEF Migrate, ApplyMigration
    <2> QED
        BY <1>1, <1>2, <1>18, <2>3, <2>4, <2>5 DEF Migrate
<1>19. ASSUME NEW row \in source, Republish(row) PROVE IngestTypes'
    <2>1. source' \subseteq Row
        <3>1. ASSUME NEW m \in Months PROVE [row EXCEPT !.month = m, !.rev = @ + 1] \in Row
            <4>1. row \in [pitch : Keys, month : Months, rev : Nat]
                BY <1>1 DEF Row
            <4>2. PICK rev \in Nat : rev = row.rev + 1
                BY <4>1
            <4>3. [row EXCEPT !.month = m, !.rev = rev] \in [pitch : Keys, month : Months, rev : Nat]
                BY <4>1
            <4> QED
                BY <4>2, <4>3 DEF Row
        <3> QED
            BY <1>1, <1>19, <3>1 DEF Republish
    <2> QED
        BY <1>1, <1>2, <1>19, <2>1 DEF Republish
<1>20. CASE UNCHANGED vars
    BY <1>1, <1>2, <1>20 DEF vars
<1> QED
    BY <1>5, <1>6, <1>7, <1>8, <1>9, <1>10, <1>11, <1>12, <1>13, <1>14, <1>15, <1>16, <1>17,
       <1>18, <1>19, <1>20 DEF Next, PullNext, TransformNext

LEMMA MigrationInit == Init => MigrationInv
<1> SUFFICES ASSUME Init PROVE MigrationInv
    OBVIOUS
<1>1. tracked = {} /\ pull.pc = "idle" /\ transform.pc = "idle"
      /\ \A c \in Commands : migrating[c] = notMigrating
    BY DEF Init, pullIdle, transformIdle
<1>2. executed \in [1 .. Migrations -> Nat]
    BY IngestAssumption DEF Init
<1>3. Behind(notMigrating)
    BY <1>2 DEF Behind, notMigrating
<1> QED
    BY <1>1, <1>3 DEF MigrationInv

\* One statement of one file, whoever runs it.
LEMMA MigrateStep ==
    ASSUME IngestTypes, MigrationInv, NEW c \in Commands, Migrate(c)
    PROVE  MigrationInv'
<1> USE IngestAssumption
<1> DEFINE mig == migrating[c]
<1>1. /\ executed \in [1 .. Migrations -> 0 .. Statements]
      /\ migrating \in [Commands -> [seen : SUBSET (1 .. Migrations),
                                     at : 1 .. Migrations + 1, stmt : 0 .. Statements]]
    BY DEF IngestTypes, TypeOK
<1>2. /\ mig.seen \in SUBSET (1 .. Migrations) /\ mig.at \in 1 .. Migrations
      /\ mig.stmt \in 0 .. Statements
    BY <1>1 DEF Migrate, ApplyMigration
<1>3. UNCHANGED <<pull, transform>>
    BY DEF Migrate
<1>4. \A d \in Commands : Behind(migrating[d])
    BY DEF MigrationInv
<1>5. /\ \A u \in 1 .. mig.at - 1 : complete(u)
      /\ executed[mig.at] >= mig.stmt
    BY <1>2, <1>4 DEF Behind
<1>6. PICK moved \in [Commands -> [seen : SUBSET (1 .. Migrations),
                                   at : 1 .. Migrations + 1, stmt : 0 .. Statements]] :
        moved = [migrating EXCEPT ![c].at = mig.at + 1]
    <2>1. PICK at \in 1 .. Migrations + 1 : at = mig.at + 1
        BY <1>2
    <2> QED
        BY <1>1, <2>1
<1>7. NextMigration(c) = [moved EXCEPT ![c].stmt = 0]
    BY <1>6 DEF NextMigration
<1>8. /\ NextMigration(c)[c].seen = mig.seen /\ NextMigration(c)[c].at = mig.at + 1
      /\ NextMigration(c)[c].stmt = 0
      /\ \A d \in Commands \ {c} : NextMigration(c)[d] = migrating[d]
    BY <1>1, <1>6, <1>7
<1>9. CASE mig.at \in mig.seen /\ migrating' = NextMigration(c) /\ UNCHANGED <<executed, tracked>>
    <2>1. complete(mig.at)
        BY <1>2, <1>4, <1>9 DEF Behind, MigrationInv
    <2>2. Behind(migrating[c])'
        <3>1. \A u \in 1 .. mig.at : complete(u)
            BY <1>2, <1>5, <2>1
        <3>2. mig.at + 1 <= Migrations => executed[mig.at + 1] >= 0
            BY <1>1, <1>2
        <3> QED
            BY <1>2, <1>4, <1>8, <1>9, <3>1, <3>2 DEF Behind, complete
    <2>3. \A d \in Commands \ {c} : Behind(migrating[d])'
        BY <1>4, <1>8, <1>9 DEF Behind, complete
    <2> QED
        BY <1>3, <1>9, <2>2, <2>3 DEF MigrationInv, complete
<1>10. CASE /\ mig.stmt < Statements
            /\ migrating' = [migrating EXCEPT ![c].stmt = @ + 1]
            /\ executed' = [executed EXCEPT ![mig.at] = IF @ > mig.stmt THEN @ ELSE mig.stmt + 1]
            /\ UNCHANGED tracked
    <2>1. executed[mig.at] \in 0 .. Statements
        BY <1>1, <1>2
    <2>2. PICK n \in 0 .. Statements :
            n = IF executed[mig.at] > mig.stmt THEN executed[mig.at] ELSE mig.stmt + 1
        BY <1>2, <1>10, <2>1
    <2>3. n >= executed[mig.at] /\ n >= mig.stmt + 1
        BY <1>2, <1>5, <2>1, <2>2
    <2>4. executed' = [executed EXCEPT ![mig.at] = n]
        BY <1>10, <2>2
    <2>5. \A u \in 1 .. Migrations : executed'[u] \in 0 .. Statements /\ executed'[u] >= executed[u]
        BY <1>1, <1>2, <2>3, <2>4
    <2>6. \A u \in 1 .. Migrations : complete(u) => complete(u)'
        BY <1>1, <2>5 DEF complete
    <2>7. \A d \in Commands :
            /\ migrating'[d].seen = migrating[d].seen /\ migrating'[d].at = migrating[d].at
            /\ migrating'[d].stmt = IF d = c THEN mig.stmt + 1 ELSE migrating[d].stmt
        BY <1>1, <1>10
    <2>8. ASSUME NEW d \in Commands PROVE Behind(migrating[d])'
        <3>1. /\ migrating[d].at \in 1 .. Migrations + 1 /\ migrating[d].stmt \in 0 .. Statements
              /\ Behind(migrating[d])
            BY <1>1, <1>4
        <3>2. migrating'[d].seen \subseteq tracked'
            BY <1>10, <2>7, <3>1 DEF Behind
        <3>3. \A u \in 1 .. migrating'[d].at - 1 : complete(u)'
            BY <2>6, <2>7, <3>1 DEF Behind
        <3>4. migrating'[d].at <= Migrations => executed'[migrating'[d].at] >= migrating'[d].stmt
            <4>1. CASE d = c
                BY <1>1, <1>2, <2>3, <2>4, <2>7, <4>1
            <4>2. CASE d # c
                <5>1. ASSUME migrating[d].at <= Migrations
                      PROVE  executed'[migrating[d].at] >= migrating[d].stmt
                    <6>1. executed[migrating[d].at] >= migrating[d].stmt
                        BY <3>1, <5>1 DEF Behind
                    <6>2. executed[migrating[d].at] \in 0 .. Statements
                        BY <1>1, <3>1, <5>1
                    <6> QED
                        BY <2>5, <3>1, <5>1, <6>1, <6>2
                <5> QED
                    BY <2>7, <4>2, <5>1
            <4> QED
                BY <4>1, <4>2
        <3> QED
            BY <3>2, <3>3, <3>4 DEF Behind
    <2>9. \A v \in tracked' : \A u \in 1 .. v : complete(u)'
        <3>1. tracked \subseteq 1 .. Migrations
            BY DEF IngestTypes, TypeOK
        <3> QED
            BY <1>10, <2>6, <3>1 DEF MigrationInv
    <2> QED
        BY <1>3, <2>6, <2>8, <2>9 DEF MigrationInv
<1>11. CASE /\ mig.stmt = Statements /\ migrating' = NextMigration(c)
            /\ tracked' = tracked \union {mig.at} /\ UNCHANGED executed
    <2>1. complete(mig.at)
        BY <1>1, <1>2, <1>5, <1>11 DEF complete
    <2>2. \A u \in 1 .. mig.at : complete(u)
        BY <1>2, <1>5, <2>1
    <2>3. mig.at + 1 <= Migrations => executed[mig.at + 1] >= 0
        BY <1>1, <1>2
    <2>4. Behind(migrating[c])'
        BY <1>2, <1>4, <1>8, <1>11, <2>2, <2>3 DEF Behind, complete
    <2>5. \A d \in Commands \ {c} : Behind(migrating[d])'
        BY <1>4, <1>8, <1>11 DEF Behind, complete
    <2> QED
        BY <1>3, <1>11, <2>2, <2>4, <2>5 DEF MigrationInv, complete
<1> QED
    BY <1>9, <1>10, <1>11 DEF Migrate, ApplyMigration

LEMMA MigrationNext == IngestTypes /\ MigrationInv /\ [Next]_vars => MigrationInv'
<1> SUFFICES ASSUME IngestTypes, MigrationInv, [Next]_vars PROVE MigrationInv'
    OBVIOUS
<1> USE IngestAssumption
<1>1. /\ executed \in [1 .. Migrations -> 0 .. Statements]
      /\ migrating \in [Commands -> [seen : SUBSET (1 .. Migrations),
                                     at : 1 .. Migrations + 1, stmt : 0 .. Statements]]
    BY DEF IngestTypes, TypeOK
<1>2. ASSUME UNCHANGED <<executed, tracked>>, \A c \in Commands : Behind(migrating'[c]),
             \/ pull'.pc \in {"idle", "migrate"} /\ transform'.pc \in {"idle", "migrate"}
             \/ pull.pc \notin {"idle", "migrate"} \/ transform.pc \notin {"idle", "migrate"}
             \/ \A v \in 1 .. Migrations : complete(v)
      PROVE  MigrationInv'
    <2>1. \A c \in Commands : Behind(migrating[c])'
        BY <1>2 DEF Behind, complete
    <2> QED
        BY <1>2, <2>1 DEF MigrationInv, complete
<1>3. \A c \in Commands : Behind(migrating[c])
    BY DEF MigrationInv
<1>4. ASSUME NEW c \in Commands, StartMigrating(c) PROVE \A d \in Commands : Behind(migrating'[d])
    <2>1. Behind([seen |-> tracked, at |-> 1, stmt |-> 0])
        BY <1>1 DEF Behind
    <2> QED
        BY <1>1, <1>3, <1>4, <2>1 DEF StartMigrating
<1>5. ASSUME NEW c \in Commands, migrating' = [migrating EXCEPT ![c] = notMigrating]
      PROVE  \A d \in Commands : Behind(migrating'[d])
    <2>1. Behind(notMigrating)
        BY <1>1 DEF Behind, notMigrating
    <2> QED
        BY <1>1, <1>3, <1>5, <2>1
<1>6. ASSUME NEW c \in Commands, Migrated(c) PROVE \A v \in 1 .. Migrations : complete(v)
    <2>1. Behind(migrating[c]) /\ migrating[c].at = Migrations + 1
        BY <1>1, <1>3, <1>6 DEF Migrated
    <2> QED
        BY <2>1 DEF Behind
<1>7. CASE StartPull
    BY <1>2, <1>4, <1>7 DEF StartPull, Commands, pullIdle
<1>8. CASE StartTransform
    BY <1>2, <1>4, <1>8 DEF StartTransform, Commands, transformIdle
<1>9. CASE BeginMonths
    BY <1>2, <1>3, <1>6, <1>9 DEF BeginMonths, Commands
<1>10. CASE BeginInsert
    BY <1>2, <1>3, <1>6, <1>10 DEF BeginInsert, Commands
<1>11. CASE KillPull
    BY <1>2, <1>5, <1>11 DEF KillPull, Commands, pullIdle
<1>12. CASE KillTransform
    BY <1>2, <1>5, <1>12 DEF KillTransform, Commands, transformIdle
<1>13. CASE \/ FetchFails \/ Fetch \/ DropPartition \/ InsertChunk \/ AssertPull
    <2>1. UNCHANGED <<executed, tracked, migrating, transform>> /\ pull.pc \notin {"idle", "migrate"}
        BY <1>13 DEF FetchFails, Fetch, DropPartition, InsertChunk, AssertPull
    <2> QED
        BY <1>2, <1>3, <2>1
<1>14. CASE TransformInsert \/ RunAssertions
    <2>1. UNCHANGED <<executed, tracked, migrating, pull>> /\ transform.pc \notin {"idle", "migrate"}
        BY <1>14 DEF TransformInsert, RunAssertions
    <2> QED
        BY <1>2, <1>3, <2>1
<1>15. ASSUME NEW row \in source, Republish(row) PROVE MigrationInv'
    BY <1>2, <1>3, <1>15 DEF Republish
<1>16. CASE UNCHANGED vars
    BY <1>2, <1>3, <1>16 DEF vars
<1> QED
    BY <1>7, <1>8, <1>9, <1>10, <1>11, <1>12, <1>13, <1>14, <1>15, <1>16, MigrateStep
    DEF Next, PullNext, TransformNext

\* However the pull and the transform interleave and wherever they are killed,
\* a migration is recorded only when it and those before it have run, and no
\* table is touched before all have.
THEOREM MigrationsComeFirst == Spec => []TrackedIsApplied
<1>1. Init => IngestTypes /\ MigrationInv
    BY IngestTypesInit, MigrationInit
<1>2. IngestTypes /\ MigrationInv /\ [Next]_vars => (IngestTypes /\ MigrationInv)'
    BY IngestTypesNext, MigrationNext
<1>3. MigrationInv => TrackedIsApplied
    BY DEF MigrationInv, TrackedIsApplied, complete
<1> QED
    BY <1>1, <1>2, <1>3, PTL DEF Spec

\* What the pull is about to load has each pitch with a number once.
LEMMA NormalizedOnce ==
    ASSUME IngestTypes, OncePerPitch(source), \A r \in source : r.pitch \in Pitches,
           NEW S \in SUBSET source
    PROVE  OncePerPitch({Normalize(r) : r \in S})
<1> SUFFICES ASSUME NEW r \in S, NEW s \in S, Normalize(r).pitch = Normalize(s).pitch,
                    Normalize(r).pitch # ZeroKey
             PROVE  Normalize(r) = Normalize(s)
    BY DEF OncePerPitch
<1>1. r \in Row /\ s \in Row
    BY DEF IngestTypes, TypeOK
<1>2. ASSUME NEW x \in Row
      PROVE  Normalize(x).pitch = IF x.pitch \in Unkeyed THEN ZeroKey ELSE x.pitch
    BY IngestAssumption DEF Normalize, Row, Keys
<1>3. ZeroKey \notin Pitches
    BY IngestAssumption
<1>4. r.pitch = s.pitch /\ r.pitch # ZeroKey
    BY <1>1, <1>2, <1>3
<1> QED
    BY <1>4 DEF OncePerPitch

\* A chunk of rows with pitches of their own keeps one copy of each.
LEMMA AddedOnce ==
    ASSUME NEW B, NEW chunk, OncePerPitch(DOMAIN B), OncePerPitch(chunk), OneCopy(B),
           Apart(chunk, DOMAIN B)
    PROVE  /\ DOMAIN (B (+) SetToBag(chunk)) = DOMAIN B \union chunk
           /\ OncePerPitch(DOMAIN (B (+) SetToBag(chunk)))
           /\ OneCopy(B (+) SetToBag(chunk))
<1>1. DOMAIN (B (+) SetToBag(chunk)) = DOMAIN B \union chunk
    BY DEF (+), SetToBag
<1>2. \A r \in chunk : r.pitch # ZeroKey => r \notin DOMAIN B
    BY DEF Apart
<1>3. \A r \in DOMAIN B \union chunk : r.pitch # ZeroKey => (B (+) SetToBag(chunk))[r] = 1
    BY <1>2 DEF (+), SetToBag, OneCopy
<1>4. OncePerPitch(DOMAIN B \union chunk)
    BY DEF OncePerPitch, Apart
<1> QED
    BY <1>1, <1>3, <1>4 DEF OneCopy

LEMMA RowsInit == Init => RowsInv
<1> SUFFICES ASSUME Init PROVE RowsInv
    OBVIOUS
<1>1. OncePerPitch(source) /\ \A r \in source : r.pitch \in Pitches
    <2>1. PICK month : source = {[pitch |-> p, month |-> month, rev |-> 1] : p \in Pitches}
        BY DEF Init
    <2>2. \A r \in source : r.pitch \in Pitches /\ r.month = month /\ r.rev = 1
        BY <2>1
    <2>3. \A r \in source : r = [pitch |-> r.pitch, month |-> month, rev |-> 1]
        BY <2>1
    <2> QED
        BY <2>2, <2>3 DEF OncePerPitch
<1>2. \A m \in Months : DOMAIN raw[m] = {}
    BY DEF Init, EmptyBag, SetToBag
<1> QED
    BY <1>1, <1>2 DEF RowsInv, OncePerPitch, OneCopy, Apart, Init, pullIdle

LEMMA RowsNext ==
    ASSUME IngestTypes, RowsInv, [Next]_vars
    PROVE  RowsInv'
<1>1. /\ source \subseteq Row /\ pull \in PullState /\ DOMAIN raw = Months
      /\ \A m \in Months : DOMAIN raw[m] \subseteq Row
      /\ pull.pc \in {"drop", "insert"} => pull.month \in Months
    BY DEF IngestTypes, TypeOK, BagToSet
<1>2. CASE UNCHANGED <<source, raw, pull>>
    BY <1>2 DEF RowsInv, OncePerPitch, OneCopy, Apart
<1>3. ASSUME UNCHANGED <<source, raw>>, pull'.pc \notin {"drop", "insert"} PROVE RowsInv'
    BY <1>3 DEF RowsInv, OncePerPitch, OneCopy, Apart
<1>4. ASSUME IngestTypes, pull.pc \in {"fetch", "insert"}, NEW status \in {"failed", "empty", "ok"}
      PROVE  MonthDone(status).pc \notin {"drop", "insert"}
    BY <1>4, MonthDoneTyped
<1>5. CASE StartPull
    BY <1>3, <1>5 DEF StartPull, pullIdle
<1>6. CASE BeginMonths
    BY <1>1, <1>3, <1>6 DEF BeginMonths, PullState
<1>7. CASE FetchFails
    <2>1. pull'.pc \notin {"drop", "insert"}
        BY <1>1, <1>4, <1>7 DEF FetchFails, PullState
    <2> QED
        BY <1>3, <1>7, <2>1 DEF FetchFails
<1>8. CASE Fetch
    <2> DEFINE served == {r \in source : r.month = pull.month}
               rows == {Normalize(r) : r \in served}
    <2>1. OncePerPitch(rows)
        BY NormalizedOnce DEF RowsInv
    <2>2. /\ pull' = IF rows = {} THEN MonthDone("empty") ELSE [pull EXCEPT !.pc = "drop", !.rows = rows]
          /\ UNCHANGED <<source, raw>> /\ pull.pc = "fetch"
        BY <1>8 DEF Fetch
    <2> HIDE DEF rows
    <2>3. CASE rows = {}
        BY <1>3, <1>4, <2>2, <2>3
    <2>4. CASE rows # {}
        <3>1. pull'.pc = "drop" /\ pull'.rows = rows
            BY <1>1, <2>2, <2>4 DEF PullState
        <3> QED
            BY <2>1, <2>2, <3>1 DEF RowsInv, OncePerPitch, OneCopy, Apart
    <2> QED
        BY <2>3, <2>4
<1>9. CASE DropPartition
    <2>1. /\ pull'.pc = "insert" /\ pull'.rows = pull.rows /\ pull'.month = pull.month
          /\ pull.month \in Months /\ pull.pc = "drop" /\ UNCHANGED source
        BY <1>1, <1>9 DEF DropPartition, PullState
    <2>2. DOMAIN EmptyBag = {}
        BY DEF EmptyBag, SetToBag
    <2>3. \A m \in Months : DOMAIN raw'[m] = (IF m = pull.month THEN {} ELSE DOMAIN raw[m])
                            /\ (m # pull.month => raw'[m] = raw[m])
        BY <1>1, <1>9, <2>2 DEF DropPartition
    <2> QED
        BY <2>1, <2>3 DEF RowsInv, OncePerPitch, OneCopy, Apart
<1>10. CASE InsertChunk
    <2>1. PICK chunk \in SUBSET pull.rows :
            /\ raw' = [raw EXCEPT ![pull.month] = @ (+) SetToBag(chunk)]
            /\ pull' = IF chunk = pull.rows THEN MonthDone("ok") ELSE [pull EXCEPT !.rows = @ \ chunk]
        BY <1>10 DEF InsertChunk
    <2>2. pull.pc = "insert" /\ pull.month \in Months /\ UNCHANGED source
        BY <1>1, <1>10 DEF InsertChunk
    <2> DEFINE B == raw[pull.month]
    <2>3. /\ OncePerPitch(DOMAIN B) /\ OncePerPitch(pull.rows)
          /\ OneCopy(B) /\ Apart(pull.rows, DOMAIN B)
        BY <2>2 DEF RowsInv
    <2>4. OncePerPitch(chunk) /\ Apart(chunk, DOMAIN B)
        BY <2>1, <2>3 DEF OncePerPitch, Apart
    <2>5. /\ DOMAIN (B (+) SetToBag(chunk)) = DOMAIN B \union chunk
          /\ OncePerPitch(DOMAIN (B (+) SetToBag(chunk)))
          /\ OneCopy(B (+) SetToBag(chunk))
        BY <2>3, <2>4, AddedOnce
    <2>6. raw'[pull.month] = B (+) SetToBag(chunk)
          /\ \A m \in Months \ {pull.month} : raw'[m] = raw[m]
        BY <1>1, <2>1, <2>2
    <2>7. \A m \in Months : OncePerPitch(DOMAIN raw'[m]) /\ OneCopy(raw'[m])
        <3>1. OncePerPitch(DOMAIN raw'[pull.month]) /\ OneCopy(raw'[pull.month])
            BY <2>5, <2>6
        <3>2. \A m \in Months \ {pull.month} : OncePerPitch(DOMAIN raw'[m]) /\ OneCopy(raw'[m])
            BY <2>6 DEF RowsInv
        <3> QED
            BY <3>1, <3>2
    <2>8. CASE chunk = pull.rows
        <3>1. pull'.pc \notin {"drop", "insert"}
            BY <1>4, <2>1, <2>2, <2>8
        <3> QED
            BY <2>2, <2>7, <3>1 DEF RowsInv, OncePerPitch, OneCopy, Apart
    <2>9. CASE chunk # pull.rows
        <3>1. pull'.pc = "insert" /\ pull'.rows = pull.rows \ chunk /\ pull'.month = pull.month
            BY <1>1, <2>1, <2>2, <2>9 DEF PullState
        <3>2. Apart(pull.rows \ chunk, DOMAIN B \union chunk)
            BY <2>1, <2>3 DEF OncePerPitch, Apart
        <3>3. OncePerPitch(pull'.rows)
            BY <2>3, <3>1 DEF OncePerPitch
        <3>4. Apart(pull'.rows, DOMAIN raw'[pull'.month])
            BY <2>5, <2>6, <3>1, <3>2
        <3> QED
            BY <2>2, <2>7, <3>1, <3>3, <3>4 DEF RowsInv, OncePerPitch, OneCopy, Apart
    <2> QED
        BY <2>8, <2>9
<1>11. CASE AssertPull
    <2>1. pull'.pc = "idle"
        BY <1>1, <1>11 DEF AssertPull, PullState
    <2> QED
        BY <1>3, <1>11, <2>1 DEF AssertPull
<1>12. CASE KillPull
    BY <1>3, <1>12 DEF KillPull, pullIdle
<1>13. CASE TransformNext \/ (\E c \in Commands : Migrate(c))
    BY <1>2, <1>13 DEF TransformNext, StartTransform, BeginInsert, TransformInsert, RunAssertions,
        KillTransform, Migrate
<1>14. ASSUME NEW row \in source, Republish(row) PROVE RowsInv'
    <2>1. UNCHANGED <<raw, pull>>
        BY <1>14 DEF Republish
    <2>2. OncePerPitch(source') /\ \A r \in source' : r.pitch \in Pitches
        <3>1. CASE source' = source \ {row}
            BY <3>1 DEF RowsInv, OncePerPitch, OneCopy, Apart
        <3>2. ASSUME NEW m \in Months,
                     source' = (source \ {row}) \union {[row EXCEPT !.month = m, !.rev = @ + 1]}
              PROVE  OncePerPitch(source') /\ \A r \in source' : r.pitch \in Pitches
            <4>1. [row EXCEPT !.month = m, !.rev = @ + 1].pitch = row.pitch
                BY <1>1 DEF Row
            <4>2. \A r \in source \ {row} : r.pitch # row.pitch
                BY IngestAssumption DEF RowsInv, OncePerPitch, OneCopy, Apart
            <4> QED
                BY <3>2, <4>1, <4>2 DEF RowsInv, OncePerPitch, OneCopy, Apart
        <3> QED
            BY <1>14, <3>1, <3>2 DEF Republish
    <2> QED
        BY <2>1, <2>2 DEF RowsInv, OncePerPitch, OneCopy, Apart
<1>15. CASE UNCHANGED vars
    BY <1>2, <1>15 DEF vars
<1> QED
    BY <1>5, <1>6, <1>7, <1>8, <1>9, <1>10, <1>11, <1>12, <1>13, <1>14, <1>15 DEF Next, PullNext

\* The dedup_consistency gate counts: as many keys as pitches means that no
\* pitch has two.
LEMMA DedupMeansOneDate ==
    ASSUME DedupConsistency PROVE \A k, l \in Cleaned : k[2] = l[2] => k = l
<1> DEFINE T == {k[2] : k \in Cleaned}
           f == [k \in Cleaned |-> k[2]]
<1>1. IsFiniteSet(Months \X Keys)
    <2>1. IsFiniteSet(Months) /\ IsFiniteSet(Keys)
        BY IngestAssumption, FS_Interval, FS_AddElement DEF Months, Keys
    <2> QED
        BY <2>1, FS_Product
<1>2. IsFiniteSet(Cleaned)
    BY <1>1, FS_Subset DEF Cleaned
<1>3. f \in Surjection(Cleaned, T)
    BY DEF Surjection
<1>4. Cardinality(T) = Cardinality(Cleaned)
    BY DEF DedupConsistency
<1>5. f \in Injection(Cleaned, T)
    BY <1>2, <1>3, <1>4, FS_Surjection
<1>6. \A k, l \in Cleaned : f[k] = f[l] => k = l
    BY <1>5 DEF Injection, IsInjective
<1> QED
    BY <1>6

LEMMA OneDateNext ==
    ASSUME IngestTypes, OneDatePerPitch, [Next]_vars PROVE OneDatePerPitch'
<1>1. transform \in [pc : {"idle", "migrate", "insert", "assert"},
                     verdict : {"none", "passed", "failed"}]
    BY DEF IngestTypes, TypeOK
<1>2. ASSUME UNCHANGED <<pitches, transform>> PROVE OneDatePerPitch'
    BY <1>2 DEF OneDatePerPitch, Cleaned
<1>3. CASE StartTransform \/ KillTransform
    BY <1>3 DEF StartTransform, KillTransform, transformIdle, OneDatePerPitch
<1>4. CASE BeginInsert \/ TransformInsert
    BY <1>1, <1>4 DEF BeginInsert, TransformInsert, OneDatePerPitch
<1>5. CASE RunAssertions
    <2>1. transform'.verdict = "passed" => DedupConsistency
        BY <1>5 DEF RunAssertions
    <2> QED
        BY <1>5, <2>1, DedupMeansOneDate DEF RunAssertions, OneDatePerPitch, Cleaned
<1>6. CASE PullNext \/ (\E c \in Commands : Migrate(c)) \/ (\E row \in source : Republish(row))
           \/ UNCHANGED vars
    BY <1>2, <1>6 DEF PullNext, StartPull, BeginMonths, FetchFails, Fetch, DropPartition, InsertChunk,
        AssertPull, KillPull, Migrate, Republish, vars
<1> QED
    BY <1>3, <1>4, <1>5, <1>6 DEF Next, TransformNext

\* However often months are pulled, killed and pulled again while Statcast
\* changes what it serves, a partition holds a pitch once, and a transform that
\* passed its gates left each pitch under one date.
THEOREM PullsLeaveOneRow == Spec => []OneRowPerPitch
<1>1. Init => IngestTypes /\ RowsInv /\ OneDatePerPitch
    <2>1. Init => OneDatePerPitch
        BY DEF Init, OneDatePerPitch, transformIdle
    <2> QED
        BY <2>1, IngestTypesInit, RowsInit
<1>2. IngestTypes /\ RowsInv /\ OneDatePerPitch /\ [Next]_vars
        => (IngestTypes /\ RowsInv /\ OneDatePerPitch)'
    BY IngestTypesNext, RowsNext, OneDateNext
<1>3. RowsInv /\ OneDatePerPitch => OneRowPerPitch
    BY DEF RowsInv, OneDatePerPitch, OneRowPerPitch, OncePerPitch, OneCopy, BagToSet
<1> QED
    BY <1>1, <1>2, <1>3, PTL DEF Spec

-----------------------------------------------------------------------------
(***************************************************************************)
(* The weather backfill.                                                   *)
(***************************************************************************)
\* An INSERT adds its games and takes none away.
LEMMA InsertedGames ==
    ASSUME NEW rows, InsertWeather(rows)
    PROVE  DOMAIN weather' = {r[1] : r \in rows} \union DOMAIN weather
    BY DEF InsertWeather

BackfillOK == BackfillTypes /\ BackfillInv

LEMMA BackfillIdle == ASSUME backfill' = idle PROVE BackfillOK'
<1>1. backfill'.pc = "idle"
    BY DEF idle
<1>2. BackfillTypes'
    BY DEF BackfillTypes, idle
<1> QED
    BY <1>1, <1>2 DEF BackfillOK, BackfillInv

LEMMA FetchGameKeeps ==
    ASSUME BackfillOK, NEW game \in Games, FetchGame(game) PROVE BackfillOK'
<1>1. PICK S, T, U, V : backfill \in
        [pc : {"idle", "fetch", "done"}, games : {S}, todo : {T}, buffer : {U}, missing : {V}]
    BY DEF BackfillOK, BackfillTypes
<1>2. /\ backfill.pc = "fetch" /\ backfill.games = S /\ backfill.todo = T
      /\ backfill.buffer = U /\ backfill.missing = V
    BY <1>1 DEF FetchGame
<1>3. S \subseteq DOMAIN weather \union T \union {r[1] : r \in U} \union V
    BY <1>2 DEF BackfillOK, BackfillInv
<1>4. PICK tries \in [1 .. Retries -> {"ok", "404", "error"}], feed \in Feeds :
        LET found  == FetchGameWeather(tries, feed)
            buffer == backfill.buffer \union ({game} \X found)
        IN  IF found = NoWeather
            THEN /\ backfill' = [backfill EXCEPT !.todo = @ \ {game}, !.missing = @ \union {game}]
                 /\ UNCHANGED weather
            ELSE /\ backfill' = [backfill EXCEPT !.todo = @ \ {game},
                                 !.buffer = IF Cardinality(buffer) >= BatchSize THEN {} ELSE buffer]
                 /\ IF Cardinality(buffer) >= BatchSize THEN InsertWeather(buffer)
                                                        ELSE UNCHANGED weather
    BY DEF FetchGame
<1>5. PICK found : found = FetchGameWeather(tries, feed)
    OBVIOUS
<1>6. PICK buffer : buffer = U \union ({game} \X found)
    OBVIOUS
<1>7. CASE found = {}
    <2>1. /\ backfill' = [backfill EXCEPT !.todo = T \ {game}, !.missing = V \union {game}]
          /\ UNCHANGED weather
        BY <1>2, <1>4, <1>5, <1>7 DEF NoWeather
    <2>2. /\ backfill' \in [pc : {"idle", "fetch", "done"}, games : {S}, todo : {T \ {game}},
                            buffer : {U}, missing : {V \union {game}}]
          /\ backfill'.pc = "fetch"
        BY <1>1, <1>2, <2>1
    <2>3. BackfillTypes'
        BY <2>2 DEF BackfillTypes
    <2> QED
        BY <1>3, <2>1, <2>2, <2>3 DEF BackfillOK, BackfillInv
<1>8. CASE found # {}
    <2>1. {r[1] : r \in buffer} = {r[1] : r \in U} \union {game}
        <3>1. PICK x \in found : TRUE
            BY <1>8
        <3>2. <<game, x>> \in buffer /\ <<game, x>>[1] = game
            BY <1>6, <3>1
        <3>3. \A r \in {game} \X found : r[1] = game
            OBVIOUS
        <3> QED
            BY <1>6, <3>2, <3>3
    <2>2. /\ backfill' = [backfill EXCEPT !.todo = T \ {game},
                          !.buffer = IF Cardinality(buffer) >= BatchSize THEN {} ELSE buffer]
          /\ IF Cardinality(buffer) >= BatchSize THEN InsertWeather(buffer) ELSE UNCHANGED weather
        BY <1>2, <1>4, <1>5, <1>6, <1>8 DEF NoWeather
    <2>3. PICK rest : rest = IF Cardinality(buffer) >= BatchSize THEN {} ELSE buffer
        OBVIOUS
    <2>4. /\ backfill' \in [pc : {"idle", "fetch", "done"}, games : {S}, todo : {T \ {game}},
                            buffer : {rest}, missing : {V}]
          /\ backfill'.pc = "fetch"
        BY <1>1, <1>2, <2>2, <2>3
    <2>5. BackfillTypes'
        BY <2>4 DEF BackfillTypes
    <2>6. DOMAIN weather' \union {r[1] : r \in rest}
            = DOMAIN weather \union {r[1] : r \in U} \union {game}
        <3>1. CASE Cardinality(buffer) >= BatchSize
            BY <2>1, <2>2, <2>3, <3>1, InsertedGames
        <3>2. CASE ~(Cardinality(buffer) >= BatchSize)
            BY <2>1, <2>2, <2>3, <3>2
        <3> QED
            BY <3>1, <3>2
    <2>7. S \subseteq DOMAIN weather' \union (T \ {game}) \union {r[1] : r \in rest} \union V
        BY <1>3, <2>6
    <2> QED
        BY <2>4, <2>5, <2>7 DEF BackfillOK, BackfillInv
<1> QED
    BY <1>7, <1>8

LEMMA BackfillNextKeeps == BackfillOK /\ [IngestNext]_<<vars, weatherVars>> => BackfillOK'
<1> SUFFICES ASSUME BackfillOK, [IngestNext]_<<vars, weatherVars>> PROVE BackfillOK'
    OBVIOUS
<1>1. CASE UNCHANGED weatherVars
    BY <1>1 DEF weatherVars, BackfillOK, BackfillTypes, BackfillInv
<1>2. CASE StartBackfill
    <2>1. PICK S, T : backfill' = [pc |-> "fetch", games |-> S, todo |-> T, buffer |-> {},
                                   missing |-> {}]
                      /\ S \subseteq DOMAIN weather \union T
        <3>1. PICK S, T : S = DistinctGames /\ T = S \ DOMAIN weather
            OBVIOUS
        <3>2. backfill' = [pc |-> "fetch", games |-> S, todo |-> T, buffer |-> {}, missing |-> {}]
            BY <1>2, <3>1 DEF StartBackfill, idle
        <3> QED
            BY <3>1, <3>2
    <2>2. BackfillTypes'
        BY <2>1 DEF BackfillTypes
    <2>3. UNCHANGED weather
        BY <1>2 DEF StartBackfill
    <2> QED
        BY <2>1, <2>2, <2>3 DEF BackfillOK, BackfillInv
<1>3. ASSUME NEW game \in Games, FetchGame(game) PROVE BackfillOK'
    BY <1>3, FetchGameKeeps
<1>4. CASE FlushBuffer
    <2>1. PICK S, T, U, V : backfill \in
            [pc : {"idle", "fetch", "done"}, games : {S}, todo : {T}, buffer : {U}, missing : {V}]
        BY DEF BackfillOK, BackfillTypes
    <2>2. /\ backfill.pc = "fetch" /\ T = {} /\ InsertWeather(U)
          /\ backfill' = [backfill EXCEPT !.pc = "done", !.buffer = {}]
        BY <1>4, <2>1 DEF FlushBuffer
    <2>3. S \subseteq DOMAIN weather \union T \union {r[1] : r \in U} \union V
        BY <2>1, <2>2 DEF BackfillOK, BackfillInv
    <2>4. /\ backfill' \in [pc : {"idle", "fetch", "done"}, games : {S}, todo : {T},
                            buffer : {{}}, missing : {V}]
          /\ backfill'.pc = "done"
        BY <2>1, <2>2
    <2>5. BackfillTypes'
        BY <2>4 DEF BackfillTypes
    <2>6. DOMAIN weather' = {r[1] : r \in U} \union DOMAIN weather
        BY <2>2, InsertedGames
    <2> QED
        BY <2>2, <2>3, <2>4, <2>5, <2>6 DEF BackfillOK, BackfillInv
<1>5. CASE BackfillEnds \/ KillBackfill
    BY <1>5, BackfillIdle DEF BackfillEnds, KillBackfill
<1> QED
    BY <1>1, <1>2, <1>3, <1>4, <1>5 DEF IngestNext, BackfillNext

\* A backfill that ran to its end lost no game between its batches, wherever
\* earlier backfills were killed and whatever the transform did beside it.
THEOREM BackfillsLoseNothing == IngestSpec => []BackfillIsComplete
<1>1. IngestInit => BackfillOK
    <2>1. IngestInit => BackfillTypes
        BY DEF IngestInit, BackfillTypes, idle
    <2> QED
        BY <2>1 DEF IngestInit, BackfillOK, BackfillInv, idle
<1>2. BackfillOK => BackfillIsComplete
    BY DEF BackfillOK, BackfillInv, BackfillIsComplete
<1> QED
    BY <1>1, <1>2, BackfillNextKeeps, PTL DEF IngestSpec

\* The backfill only reads what the pull and the transform write, so what is
\* proved of them holds beside it.
THEOREM IngestBesideBackfill == IngestSpec => [](OneRowPerPitch /\ TrackedIsApplied)
<1>1. IngestInit => Init
    BY DEF IngestInit
<1>2. [IngestNext]_<<vars, weatherVars>> => [Next]_vars
    BY DEF IngestNext, BackfillNext, StartBackfill, FetchGame, FlushBuffer, BackfillEnds,
       KillBackfill, weatherVars
<1>3. IngestSpec => Spec
    BY <1>1, <1>2, PTL DEF IngestSpec, Spec
<1> QED
    BY <1>3, MigrationsComeFirst, PullsLeaveOneRow, PTL

-----------------------------------------------------------------------------
(***************************************************************************)
(* The order of a query: how many balls of a set come before one.          *)
(***************************************************************************)
LEMMA BallsOrdered ==
    ASSUME NEW b \in Balls, NEW c \in Balls
    PROVE  b \in Nat /\ c \in Nat /\ ~(b < b) /\ (b < c \/ c < b \/ b = c)
    BY RetrodictAssumption DEF Balls

LEMMA BallSets ==
    ASSUME NEW S \in SUBSET Balls
    PROVE  IsFiniteSet(S) /\ Cardinality(S) \in Nat
<1>1. IsFiniteSet(Balls)
    BY RetrodictAssumption, FS_Interval DEF Balls
<1>2. IsFiniteSet(S)
    BY <1>1, FS_Subset
<1> QED
    BY <1>2, FS_CardinalityType

LEMMA RankGrows ==
    ASSUME NEW S \in SUBSET Balls, NEW T \in SUBSET Balls, S \subseteq T, NEW b
    PROVE  RankIn(b, S) \in Nat /\ RankIn(b, T) \in Nat /\ RankIn(b, S) <= RankIn(b, T)
<1>1. {c \in S : c < b} \in SUBSET {c \in T : c < b} /\ IsFiniteSet({c \in T : c < b})
    BY BallSets
<1>2. Cardinality({c \in S : c < b}) <= Cardinality({c \in T : c < b})
    BY <1>1, FS_Subset
<1> QED
    BY <1>2, BallSets DEF RankIn

\* The next ball after b in S has one more before it.
LEMMA RankNext ==
    ASSUME NEW S \in SUBSET Balls, NEW b \in S, NEW T \in SUBSET Balls,
           T = {c \in S : c < b} \union {b}
    PROVE  Cardinality(T) = RankIn(b, S) + 1
<1>1. b \notin {c \in S : c < b} /\ {c \in S : c < b} \in SUBSET Balls
    BY RetrodictAssumption DEF Balls
<1> QED
    BY <1>1, BallSets, FS_AddElement DEF RankIn

LEMMA RankStrict ==
    ASSUME NEW S \in SUBSET Balls, NEW b \in S, NEW c \in S, b < c
    PROVE  RankIn(b, S) < RankIn(c, S)
<1> DEFINE T == {d \in S : d < b} \union {b}
<1>1. T \in SUBSET {d \in S : d < c} /\ T \in SUBSET Balls /\ {d \in S : d < c} \in SUBSET Balls
    <2>1. \A d \in S : d < b => d < c
        BY BallsOrdered
    <2> QED
        BY <2>1
<1>2. Cardinality(T) = RankIn(b, S) + 1
    BY <1>1, RankNext
<1>3. Cardinality(T) <= RankIn(c, S)
    BY <1>1, BallSets, FS_Subset DEF RankIn
<1> QED
    BY <1>2, <1>3, RankGrows

LEMMA RankDistinct ==
    ASSUME NEW S \in SUBSET Balls, NEW b \in S, NEW c \in S, RankIn(b, S) = RankIn(c, S)
    PROVE  b = c
<1>1. b < c \/ c < b \/ b = c
    BY RetrodictAssumption DEF Balls
<1>2. RankIn(b, S) \in Nat
    BY RankGrows
<1> QED
    BY <1>1, <1>2, RankStrict

LEMMA LeastBall ==
    ASSUME NEW S \in SUBSET Balls, S # {} PROVE \E b \in S : \A c \in S : b <= c
<1>1. S \in SUBSET Nat
    BY BallsOrdered
<1>2. PICK b \in S : \A c \in S : ~(<<c, b>> \in OpToRel(<, Nat))
    BY <1>1, NatLessThanWellFounded, WFMin
<1>3. \A c \in S : ~(c < b)
    BY <1>1, <1>2 DEF OpToRel
<1> QED
    BY <1>1, <1>3

LEMMA LastBall ==
    ASSUME NEW S \in SUBSET Balls, S # {} PROVE \E b \in S : \A c \in S : c <= b
<1> DEFINE T == {d \in Nat : \E b \in S : b + d = NumBalls}
<1>1. \A b \in S : b \in Nat /\ NumBalls - b \in Nat
    BY RetrodictAssumption DEF Balls
<1>2. T # {}
    BY <1>1, RetrodictAssumption
<1>3. PICK d \in T : \A e \in T : ~(<<e, d>> \in OpToRel(<, Nat))
    BY <1>2, NatLessThanWellFounded, WFMin
<1>4. PICK b \in S : b + d = NumBalls
    OBVIOUS
<1>5. ASSUME NEW c \in S PROVE c <= b
    <2>1. NumBalls - c \in T
        BY <1>1, RetrodictAssumption
    <2>2. ~(NumBalls - c < d)
        BY <1>3, <2>1 DEF OpToRel
    <2> QED
        BY <1>1, <1>4, <2>1, <2>2, RetrodictAssumption
<1> QED
    BY <1>5

\* The ranks leave no number out.
LEMMA RankOnto ==
    ASSUME NEW S \in SUBSET Balls, NEW b \in S, NEW k \in Nat, k <= RankIn(b, S)
    PROVE  \E c \in S : RankIn(c, S) = k
<1> DEFINE W == {c \in S : k <= RankIn(c, S)}
<1>1. PICK c \in W : \A d \in W : c <= d
    <2>1. W \in SUBSET Balls /\ b \in W
        OBVIOUS
    <2> QED
        BY <2>1, LeastBall
<1>2. SUFFICES ASSUME k < RankIn(c, S) PROVE FALSE
    BY <1>1, RankGrows
<1> DEFINE D == {d \in S : d < c}
<1>3. D \in SUBSET Balls /\ D # {}
    <2>1. Cardinality({}) = 0
        BY FS_EmptySet
    <2> QED
        BY <1>2, <2>1 DEF RankIn
<1>4. PICK d \in D : \A e \in D : e <= d
    BY <1>3, LastBall
<1>5. D = {e \in S : e < d} \union {d}
    <2>1. \A e \in D : e < d \/ e = d
        BY <1>4, BallsOrdered
    <2>2. \A e \in S : e < d => e < c
        BY BallsOrdered
    <2> QED
        BY <2>1, <2>2
<1>6. Cardinality(D) = RankIn(d, S) + 1
    BY <1>3, <1>4, <1>5, RankNext
<1>7. d \in W
    <2>1. Cardinality(D) = RankIn(c, S)
        BY DEF RankIn
    <2>2. RankIn(d, S) \in Nat /\ k < RankIn(d, S) + 1
        BY <1>2, <1>6, <2>1, RankGrows
    <2> QED
        BY <2>2
<1> QED
    BY <1>1, <1>4, <1>7, BallsOrdered

\* A page that is not full is the last one.
LEMMA ShortPageIsLast ==
    ASSUME NEW S \in SUBSET Balls, NEW offset \in Nat, NEW limit \in Nat \ {0},
           Cardinality({b \in S : RankIn(b, S) \in offset .. offset + limit - 1}) < limit
    PROVE  \A b \in S : RankIn(b, S) < offset + limit
<1> DEFINE page == {b \in S : RankIn(b, S) \in offset .. offset + limit - 1}
           ranks == offset .. offset + limit - 1
           f == [k \in ranks |-> CHOOSE c \in S : RankIn(c, S) = k]
<1>1. SUFFICES ASSUME NEW b \in S, ~(RankIn(b, S) < offset + limit) PROVE FALSE
    OBVIOUS
<1>2. \A k \in ranks : k \in Nat /\ k <= RankIn(b, S)
    BY <1>1, RankGrows
<1>3. \A k \in ranks : f[k] \in S /\ RankIn(f[k], S) = k
    BY <1>2, RankOnto
<1>4. f \in Injection(ranks, page)
    <2>1. f \in [ranks -> page]
        BY <1>3
    <2>2. \A k, l \in ranks : f[k] = f[l] => k = l
        BY <1>3
    <2> HIDE DEF f, page, ranks
    <2> QED
        BY <2>1, <2>2 DEF Injection, IsInjective
<1>5. page \in SUBSET Balls
    OBVIOUS
<1>6. Cardinality(ranks) <= Cardinality(page)
    BY <1>4, <1>5, BallSets, FS_Injection
<1>7. Cardinality(ranks) = limit
    BY FS_Interval
<1>8. Cardinality(page) \in Nat
    BY <1>5, BallSets
<1> QED
    BY <1>6, <1>7, <1>8

-----------------------------------------------------------------------------
(***************************************************************************)
(* The labels.                                                             *)
(***************************************************************************)
LEMMA LabelsInit == RetroInit => LabelTypes /\ RunsInOrder /\ PagingInv /\ LabelledWhenDone
<1> SUFFICES ASSUME RetroInit PROVE LabelTypes /\ RunsInOrder /\ PagingInv /\ LabelledWhenDone
    OBVIOUS
<1>1. LabelTypes
    BY DEF RetroInit, LabelTypes, noLabel, runIdle, noRun, RunState
<1>2. RunsInOrder /\ PagingInv /\ LabelledWhenDone
    BY DEF RetroInit, RunsInOrder, PagingInv, LabelledWhenDone, runIdle, noRun
<1> QED
    BY <1>1, <1>2

\* What a pipeline that starts, a page and the end of a run make of the run.
LEMMA IdleRun == runIdle \in RunState /\ runIdle.pc = "idle"
    BY DEF runIdle, RunState

LEMMA StartedRun ==
    ASSUME LabelTypes, StartPipeline
    PROVE  /\ run' \in RunState /\ runs' = runs + 1
           /\ run'.pc = "page" /\ run'.id = runs + 1 /\ run'.offset = 0 /\ run'.weather = observed
           /\ run'.start = Stream \ NoPark /\ ~run'.left
           /\ UNCHANGED <<event, observed, labels, done>>
<1>1. PICK id \in Nat : id = runs + 1
    BY DEF LabelTypes
<1>2. observed \in SUBSET Balls /\ Stream \ NoPark \in SUBSET Balls
    BY DEF LabelTypes, Stream
<1>3. run' = [runIdle EXCEPT !.pc = "page", !.id = id, !.weather = observed,
                             !.start = Stream \ NoPark]
    BY <1>1 DEF StartPipeline, LoadWeatherObserved, RowToBbip
<1>4. run' = [pc |-> "page", id |-> id, offset |-> 0, page |-> {}, short |-> FALSE,
              weather |-> observed, start |-> Stream \ NoPark, left |-> FALSE]
    BY <1>3 DEF runIdle
<1>5. run' \in RunState
    BY <1>2, <1>4 DEF RunState
<1>6. /\ run'.pc = "page" /\ run'.id = id /\ run'.offset = 0 /\ run'.weather = observed
      /\ run'.start = Stream \ NoPark
    BY <1>4
<1>7. ~run'.left
    BY <1>4
<1> QED
    BY <1>1, <1>5, <1>6, <1>7 DEF StartPipeline

LEMMA FinishedRun ==
    ASSUME LabelTypes, Finished
    PROVE  /\ run' \in RunState /\ run'.pc = "idle"
           /\ done' \in [id : Nat, weather : SUBSET Balls, start : SUBSET Balls, left : BOOLEAN]
           /\ done'.id = run.id /\ done'.weather = run.weather /\ done'.start = run.start
           /\ done'.left = run.left
<1>1. run \in RunState
    BY DEF LabelTypes
<1> QED
    BY <1>1, IdleRun DEF Finished, RunState

\* What the next page holds, and what a page without a row for it means.
LEMMA PageRead ==
    ASSUME LabelTypes, ReadPage, NEW rows, rows = PitchesQuery(run.offset, PageSize)
    PROVE  /\ run.pc = "page" /\ UNCHANGED <<event, observed, labels, runs>>
           /\ \A b \in Stream : RankIn(b, Stream) < run.offset + PageSize
                                  => RankIn(b, Stream) < run.offset \/ b \in rows
           /\ Cardinality(rows) < PageSize =>
                \A b \in Stream : RankIn(b, Stream) < run.offset \/ b \in rows
           /\ rows = {} => Cardinality(rows) < PageSize
           /\ run.offset \in Nat
<1>1. run.offset \in Nat /\ Stream \in SUBSET Balls /\ PageSize \in Nat \ {0}
    BY RetrodictAssumption DEF LabelTypes, RunState, Stream
<1>2. \A b \in Stream : RankIn(b, Stream) \in Nat
    BY <1>1, RankGrows
<1>3. \A b \in Stream : RankIn(b, Stream) < run.offset + PageSize
                          => RankIn(b, Stream) < run.offset \/ b \in rows
    BY <1>1, <1>2 DEF PitchesQuery
<1>4. Cardinality(rows) < PageSize =>
         \A b \in Stream : RankIn(b, Stream) < run.offset + PageSize
    BY <1>1, ShortPageIsLast DEF PitchesQuery
<1>5. rows = {} => Cardinality(rows) < PageSize
    BY <1>1, FS_EmptySet
<1> QED
    BY <1>1, <1>3, <1>4, <1>5 DEF ReadPage

\* A page goes on to the rows of the next, finishes, or is passed over.
LEMMA PageCases ==
    ASSUME LabelTypes, ReadPage, NEW rows, rows = PitchesQuery(run.offset, PageSize)
    PROVE  \/ /\ rows = {} \/ (rows \subseteq NoPark /\ Cardinality(rows) < PageSize)
              /\ Finished
           \/ /\ run' \in RunState /\ UNCHANGED done
              /\ run'.pc = "page" /\ run'.offset = run.offset + PageSize /\ rows \subseteq NoPark
              /\ run'.id = run.id /\ run'.weather = run.weather /\ run'.start = run.start
              /\ run'.left = run.left
           \/ /\ run' \in RunState /\ UNCHANGED done
              /\ run'.pc = "insert" /\ run'.offset = run.offset + PageSize
              /\ run'.page = rows \ NoPark /\ (run'.short => Cardinality(rows) < PageSize)
              /\ run'.id = run.id /\ run'.weather = run.weather /\ run'.start = run.start
              /\ run'.left = run.left
<1>1. run \in RunState /\ PageSize \in Nat
    BY RetrodictAssumption DEF LabelTypes
<1>2. PICK offset \in Nat : offset = run.offset + PageSize
    BY <1>1 DEF RunState
<1>3. rows \ NoPark \in SUBSET Balls
    BY DEF PitchesQuery, Stream
<1>4. PICK short \in BOOLEAN : short <=> Cardinality(rows) < PageSize
    <2>1. CASE Cardinality(rows) < PageSize
        BY <2>1
    <2>2. CASE ~(Cardinality(rows) < PageSize)
        BY <2>2
    <2> QED
        BY <2>1, <2>2
<1>5. short = (Cardinality(rows) < PageSize)
    BY <1>4
<1>6. CASE rows = {} \/ (rows \subseteq NoPark /\ short)
    <2>1. Finished
        BY <1>4, <1>6 DEF ReadPage, RowToBbip
    <2> QED
        BY <1>4, <1>6, <2>1
<1>7. CASE rows # {} /\ rows \subseteq NoPark /\ ~short
    <2>1. run' = [run EXCEPT !.offset = offset] /\ UNCHANGED done
        BY <1>2, <1>4, <1>7 DEF ReadPage, RowToBbip
    <2>2. run.pc = "page"
        BY DEF ReadPage
    <2> QED
        BY <1>1, <1>2, <1>7, <2>1, <2>2 DEF RunState
<1>8. CASE ~(rows \subseteq NoPark)
    <2>1. /\ run' = [run EXCEPT !.pc = "insert", !.offset = run.offset + PageSize,
                               !.page = rows \ NoPark, !.short = (Cardinality(rows) < PageSize)]
          /\ UNCHANGED done
        BY <1>8 DEF ReadPage, RowToBbip
    <2>2. /\ run' = [run EXCEPT !.pc = "insert", !.offset = offset,
                               !.page = rows \ NoPark, !.short = short]
          /\ UNCHANGED done
        BY <1>2, <1>5, <2>1
    <2> QED
        BY <1>1, <1>2, <1>3, <1>4, <2>2 DEF RunState
<1> QED
    BY <1>6, <1>7, <1>8

\* A page that is written: its balls are labelled by this run, the others keep
\* what they had.
LEMMA PageWritten ==
    ASSUME LabelTypes, InsertResults
    PROVE  /\ run.pc = "insert" /\ UNCHANGED <<event, observed, runs>>
           /\ labels' \in [Balls -> [run : Nat, air : {"still", "observed"}]]
           /\ \A b \in Balls : IF b \in run.page
                 THEN labels'[b].run = run.id /\ (b \in run.weather => labels'[b].air = "observed")
                 ELSE labels'[b] = labels[b]
           /\ \/ run.short /\ Finished
              \/ /\ ~run.short /\ run' \in RunState /\ UNCHANGED done
                 /\ run'.pc = "page" /\ run'.offset = run.offset /\ run'.id = run.id
                 /\ run'.weather = run.weather /\ run'.start = run.start /\ run'.left = run.left
<1>1. run \in RunState
    BY DEF LabelTypes
<1>2. ASSUME NEW b \in Balls
      PROVE  /\ RetrodictBip(b) \in [run : Nat, air : {"still", "observed"}]
             /\ RetrodictBip(b).run = run.id
             /\ b \in run.weather => RetrodictBip(b).air = "observed"
    BY <1>1 DEF RetrodictBip, AtmosphereAt, RunState
<1>3. labels' = [b \in Balls |-> IF b \in run.page THEN RetrodictBip(b) ELSE labels[b]]
    BY DEF InsertResults, RetrodictBatch
<1>4. labels' \in [Balls -> [run : Nat, air : {"still", "observed"}]]
    BY <1>2, <1>3 DEF LabelTypes
<1>5. ASSUME ~run.short
      PROVE  /\ run' \in RunState /\ UNCHANGED done
             /\ run'.pc = "page" /\ run'.offset = run.offset /\ run'.id = run.id
             /\ run'.weather = run.weather /\ run'.start = run.start /\ run'.left = run.left
    BY <1>1, <1>5 DEF InsertResults, RunState
<1> QED
    BY <1>2, <1>3, <1>4, <1>5 DEF InsertResults

RetroNext == TableNext \/ PipelineNext

LEMMA TableStep ==
    ASSUME LabelTypes, TableNext
    PROVE  /\ event' \in [Balls -> {"absent", "scored", "error"}]
           /\ observed' \in SUBSET Balls /\ observed \subseteq observed'
           /\ run' \in RunState /\ UNCHANGED <<labels, runs, done>>
           /\ run'.pc = run.pc /\ run'.id = run.id /\ run'.offset = run.offset
           /\ run'.page = run.page /\ run'.short = run.short
           /\ run'.weather = run.weather /\ run'.start = run.start
           /\ (run.pc # "idle" /\ ~run'.left) => ~run.left /\ Stream \subseteq Stream'
<1>1. event \in [Balls -> {"absent", "scored", "error"}] /\ observed \in SUBSET Balls
      /\ run \in RunState
    BY DEF LabelTypes
<1>2. PICK b \in Balls : \/ Ingest(b) \/ WeatherArrives(b)
                         \/ \E e \in {"absent", "scored", "error"} : Rescore(b, e)
    BY DEF TableNext
<1>3. CASE Ingest(b)
    <2>1. event' = [event EXCEPT ![b] = "scored"] /\ UNCHANGED <<observed, labels, run, runs, done>>
        BY <1>3 DEF Ingest
    <2>2. Stream \subseteq Stream'
        BY <1>1, <2>1 DEF Stream, EventToOutcome
    <2> QED
        BY <1>1, <2>1, <2>2
<1>4. CASE WeatherArrives(b)
    <2>1. observed' = observed \union {b} /\ UNCHANGED <<event, labels, run, runs, done>>
        BY <1>4 DEF WeatherArrives
    <2>2. Stream = Stream'
        BY <2>1 DEF Stream, EventToOutcome
    <2> QED
        BY <1>1, <2>1, <2>2
<1>5. ASSUME NEW e \in {"absent", "scored", "error"}, Rescore(b, e)
      PROVE  /\ event' \in [Balls -> {"absent", "scored", "error"}]
             /\ observed' = observed /\ run' \in RunState /\ UNCHANGED <<labels, runs, done>>
             /\ run'.pc = run.pc /\ run'.id = run.id /\ run'.offset = run.offset
             /\ run'.page = run.page /\ run'.short = run.short
             /\ run'.weather = run.weather /\ run'.start = run.start
             /\ (run.pc # "idle" /\ ~run'.left) => ~run.left /\ Stream \subseteq Stream'
    <2>1. event' = [event EXCEPT ![b] = e] /\ UNCHANGED <<observed, labels, runs, done>>
        BY <1>5 DEF Rescore
    <2>2. PICK left \in BOOLEAN : left <=> run.left \/ (run.pc # "idle" /\ event[b] = "scored")
        <3>1. CASE run.left \/ (run.pc # "idle" /\ event[b] = "scored")
            BY <3>1
        <3>2. CASE ~(run.left \/ (run.pc # "idle" /\ event[b] = "scored"))
            BY <3>2
        <3> QED
            BY <3>1, <3>2
    <2>3. left = (run.left \/ (run.pc # "idle" /\ event[b] = "scored"))
        BY <2>2
    <2>4. run' = [run EXCEPT !.left = left]
        BY <1>5, <2>3 DEF Rescore, Leaves
    <2>5. run' \in RunState /\ run'.left = left
          /\ run'.pc = run.pc /\ run'.id = run.id /\ run'.offset = run.offset
          /\ run'.page = run.page /\ run'.short = run.short
          /\ run'.weather = run.weather /\ run'.start = run.start
        BY <1>1, <2>4 DEF RunState
    <2>6. (run.pc # "idle" /\ ~left) => ~run.left /\ Stream \subseteq Stream'
        BY <1>1, <2>1, <2>2 DEF Stream, EventToOutcome
    <2> QED
        BY <1>1, <2>1, <2>5, <2>6
<1> QED
    BY <1>1, <1>2, <1>3, <1>4, <1>5

LEMMA LabelTypesNext == ASSUME LabelTypes, RetroNext PROVE LabelTypes'
<1> USE DEF LabelTypes
<1>1. CASE TableNext
    BY <1>1, TableStep
<1>2. CASE StartPipeline
    BY <1>2, StartedRun
<1>3. CASE ReadPage
    <2>1. UNCHANGED <<event, observed, labels, runs>>
        BY <1>3 DEF ReadPage
    <2> QED
        BY <1>3, <2>1, PageCases, FinishedRun
<1>4. CASE InsertResults
    BY <1>4, PageWritten, FinishedRun
<1>5. CASE KillPipeline
    BY <1>5, IdleRun DEF KillPipeline
<1> QED
    BY <1>1, <1>2, <1>3, <1>4, <1>5 DEF RetroNext, PipelineNext

LEMMA RunsInOrderNext ==
    ASSUME LabelTypes, RunsInOrder, RetroNext PROVE RunsInOrder'
<1>1. runs \in Nat /\ done.id \in Nat /\ run.id \in Nat
    BY DEF LabelTypes, RunState
<1>2. CASE TableNext
    BY <1>2, TableStep DEF RunsInOrder
<1>3. CASE StartPipeline
    BY <1>1, <1>3, StartedRun DEF RunsInOrder
<1>4. ASSUME Finished, run.pc # "idle", UNCHANGED <<observed, runs>> PROVE RunsInOrder'
    BY <1>1, <1>4, FinishedRun DEF RunsInOrder
<1>5. CASE ReadPage
    <2>1. run.pc # "idle" /\ UNCHANGED <<observed, runs>>
        BY <1>5 DEF ReadPage
    <2> QED
        BY <1>4, <1>5, <2>1, PageCases DEF RunsInOrder
<1>6. CASE InsertResults
    BY <1>4, <1>6, PageWritten DEF RunsInOrder
<1>7. CASE KillPipeline
    BY <1>7, IdleRun DEF KillPipeline, RunsInOrder
<1> QED
    BY <1>2, <1>3, <1>5, <1>6, <1>7 DEF RetroNext, PipelineNext

LEMMA PagingNext == ASSUME LabelTypes, PagingInv, RetroNext PROVE PagingInv'
<1>1. run \in RunState /\ Stream \in SUBSET Balls
    BY DEF LabelTypes, Stream
<1>2. CASE TableNext
    <2>1. SUFFICES ASSUME run'.pc # "idle", ~run'.left
                   PROVE  /\ run'.start \subseteq Stream' \ NoPark
                          /\ \A b \in run'.start :
                                /\ run'.pc = "page" /\ RankIn(b, Stream') < run'.offset => Labelled(b)'
                                /\ run'.pc = "insert" /\ (RankIn(b, Stream') < run'.offset \/ run'.short)
                                      => Labelled(b)' \/ b \in run'.page
        BY DEF PagingInv, RankIn
    <2>2. /\ run'.pc = run.pc /\ run'.offset = run.offset /\ run'.page = run.page
          /\ run'.short = run.short /\ run'.start = run.start /\ run.pc # "idle" /\ ~run.left
          /\ Stream \subseteq Stream' /\ Stream' \in SUBSET Balls
        BY <1>2, <2>1, TableStep DEF Stream
    <2>3. run.offset \in Nat
        BY <1>1 DEF RunState
    <2>4. \A b : RankIn(b, Stream) \in Nat /\ RankIn(b, Stream') \in Nat
                 /\ RankIn(b, Stream) <= RankIn(b, Stream')
        BY <1>1, <2>2, RankGrows
    <2>5. \A b : RankIn(b, Stream') < run.offset => RankIn(b, Stream) < run.offset
        BY <2>3, <2>4
    <2>6. \A b : Labelled(b) => Labelled(b)'
        BY <1>2, TableStep DEF Labelled
    <2> QED
        BY <2>2, <2>5, <2>6 DEF PagingInv
<1>3. CASE StartPipeline
    <2>1. Stream' = Stream /\ run'.pc = "page" /\ run'.offset = 0 /\ run'.start = Stream \ NoPark
        BY <1>3, StartedRun DEF Stream, EventToOutcome
    <2>2. \A b : RankIn(b, Stream) \in Nat
        BY <1>1, RankGrows
    <2>3. \A b : ~(RankIn(b, Stream)' < 0)
        BY <2>1, <2>2 DEF RankIn
    <2> QED
        BY <2>1, <2>3 DEF PagingInv
<1>4. ASSUME run'.pc = "idle" PROVE PagingInv'
    BY <1>4 DEF PagingInv
<1>5. CASE ReadPage
    <2> DEFINE rows == PitchesQuery(run.offset, PageSize)
    <2> HIDE DEF rows
    <2>1. CASE run'.pc = "idle"
        BY <1>4, <2>1
    <2>2. CASE run'.pc # "idle"
        <3>1. /\ run'.pc = "page" => rows \subseteq NoPark
              /\ run'.pc = "insert" => run'.page = rows \ NoPark
                                       /\ (run'.short => Cardinality(rows) < PageSize)
              /\ run'.offset = run.offset + PageSize /\ run'.pc \in {"page", "insert"}
              /\ run'.start = run.start /\ run'.left = run.left /\ run'.id = run.id
              /\ run'.weather = run.weather
            BY <1>5, <2>2, PageCases, FinishedRun DEF rows
        <3>2. /\ run.pc = "page" /\ UNCHANGED <<event, labels>>
              /\ \A b \in Stream : RankIn(b, Stream) < run.offset + PageSize
                                     => RankIn(b, Stream) < run.offset \/ b \in rows
              /\ Cardinality(rows) < PageSize =>
                    \A b \in Stream : RankIn(b, Stream) < run.offset \/ b \in rows
            BY <1>5, PageRead DEF rows
        <3>3. Stream' = Stream /\ \A b : RankIn(b, Stream)' = RankIn(b, Stream)
            BY <3>2 DEF Stream, EventToOutcome, RankIn
        <3>4. SUFFICES ASSUME ~run.left
                       PROVE  /\ run.start \subseteq Stream \ NoPark
                              /\ \A b \in run.start :
                                   /\ run'.pc = "page" /\ RankIn(b, Stream) < run'.offset => Labelled(b)'
                                   /\ run'.pc = "insert" /\ (RankIn(b, Stream) < run'.offset \/ run'.short)
                                         => Labelled(b)' \/ b \in run'.page
            BY <3>1, <3>3 DEF PagingInv
        <3>5. run.start \subseteq Stream \ NoPark
              /\ \A b \in run.start : RankIn(b, Stream) < run.offset => Labelled(b)
            BY <3>2, <3>4 DEF PagingInv
        <3>6. \A b : Labelled(b) => Labelled(b)'
            BY <3>1, <3>2 DEF Labelled
        <3>7. \A b \in run.start : RankIn(b, Stream) < run'.offset => Labelled(b)' \/ b \in rows
            BY <3>1, <3>2, <3>5, <3>6
        <3>8. \A b \in run.start : Cardinality(rows) < PageSize => Labelled(b)' \/ b \in rows
            BY <3>2, <3>5, <3>6
        <3> QED
            BY <3>1, <3>5, <3>7, <3>8
    <2> QED
        BY <2>1, <2>2
<1>6. CASE InsertResults
    <2>1. CASE run'.pc = "idle"
        BY <1>4, <2>1
    <2>2. CASE run'.pc # "idle"
        <3>1. /\ run.pc = "insert" /\ run'.pc = "page" /\ UNCHANGED event
              /\ run'.offset = run.offset /\ run'.id = run.id
              /\ run'.weather = run.weather /\ run'.start = run.start /\ run'.left = run.left
            BY <1>6, <2>2, PageWritten, FinishedRun
        <3>2. Stream' = Stream /\ \A b : RankIn(b, Stream)' = RankIn(b, Stream)
            BY <3>1 DEF Stream, EventToOutcome, RankIn
        <3>3. \A b \in Balls : Labelled(b) \/ b \in run.page => Labelled(b)'
            BY <1>6, <3>1, PageWritten DEF Labelled
        <3>4. run.start \in SUBSET Balls
            BY <1>1 DEF RunState
        <3> QED
            BY <3>1, <3>2, <3>3, <3>4 DEF PagingInv
    <2> QED
        BY <2>1, <2>2
<1>7. CASE KillPipeline
    BY <1>4, <1>7, IdleRun DEF KillPipeline
<1> QED
    BY <1>2, <1>3, <1>5, <1>6, <1>7 DEF RetroNext, PipelineNext

\* A run that finishes has labelled what was there at its start.
LEMMA LabelledNext ==
    ASSUME LabelTypes, RunsInOrder, PagingInv, LabelledWhenDone, RetroNext
    PROVE  LabelledWhenDone'
<1>1. /\ run \in RunState /\ Stream \in SUBSET Balls /\ run.id \in Nat /\ done.id \in Nat
      /\ run.start \in SUBSET Balls /\ done.start \in SUBSET Balls
    BY DEF LabelTypes, RunState, Stream
<1>2. ASSUME UNCHANGED <<labels, done>> PROVE LabelledWhenDone'
    BY <1>2 DEF LabelledWhenDone
<1>3. ASSUME Finished,
             ~run.left => \A b \in run.start :
                   labels'[b].run = run.id /\ (b \in run.weather => labels'[b].air = "observed")
      PROVE  LabelledWhenDone'
    BY <1>1, <1>3, FinishedRun DEF LabelledWhenDone
<1>4. CASE TableNext
    BY <1>2, <1>4, TableStep
<1>5. CASE StartPipeline \/ KillPipeline
    BY <1>2, <1>5 DEF StartPipeline, KillPipeline
<1>6. CASE ReadPage
    <2> DEFINE rows == PitchesQuery(run.offset, PageSize)
    <2> HIDE DEF rows
    <2>1. /\ run.pc = "page" /\ UNCHANGED labels
          /\ Cardinality(rows) < PageSize =>
                \A b \in Stream : RankIn(b, Stream) < run.offset \/ b \in rows
          /\ rows = {} => Cardinality(rows) < PageSize
        BY <1>6, PageRead DEF rows
    <2>2. CASE (rows = {} \/ (rows \subseteq NoPark /\ Cardinality(rows) < PageSize)) /\ Finished
        <3>1. ASSUME ~run.left, NEW b \in run.start PROVE Labelled(b)
            BY <2>1, <2>2, <3>1 DEF PagingInv
        <3> QED
            BY <1>3, <2>1, <2>2, <3>1 DEF Labelled
    <2>3. CASE UNCHANGED done
        BY <1>2, <2>1, <2>3
    <2> QED
        BY <1>6, <2>2, <2>3, PageCases DEF rows
<1>7. CASE InsertResults
    <2>1. /\ run.pc = "insert"
          /\ \A b \in Balls : IF b \in run.page
                THEN labels'[b].run = run.id /\ (b \in run.weather => labels'[b].air = "observed")
                ELSE labels'[b] = labels[b]
          /\ (run.short /\ Finished) \/ UNCHANGED done
        BY <1>7, PageWritten
    <2>2. CASE run.short /\ Finished
        <3>1. ASSUME ~run.left, NEW b \in run.start
              PROVE  labels'[b].run = run.id /\ (b \in run.weather => labels'[b].air = "observed")
            <4>1. Labelled(b) \/ b \in run.page
                BY <2>1, <2>2, <3>1 DEF PagingInv
            <4> QED
                BY <1>1, <2>1, <3>1, <4>1 DEF Labelled
        <3> QED
            BY <1>3, <2>2, <3>1
    <2>3. CASE UNCHANGED done
        <3>1. ASSUME ~done.left, NEW b \in done.start
              PROVE  labels'[b].run >= done.id /\ (b \in done.weather => labels'[b].air = "observed")
            <4>1. labels[b].run >= done.id /\ (b \in done.weather => labels[b].air = "observed")
                BY <3>1 DEF LabelledWhenDone
            <4>2. done.id < run.id /\ done.weather \subseteq run.weather
                BY <2>1 DEF RunsInOrder
            <4> QED
                BY <1>1, <2>1, <3>1, <4>1, <4>2
        <3> QED
            BY <2>3, <3>1 DEF LabelledWhenDone
    <2> QED
        BY <2>1, <2>2, <2>3
<1> QED
    BY <1>4, <1>5, <1>6, <1>7 DEF RetroNext, PipelineNext

\* A run that finishes has labelled every ball that was there at its start, with
\* the weather known then, as long as none left the stream under its offset.
THEOREM RunsLabelTheirStart == BattedBallSpec => []LabelledWhenDone
<1> DEFINE Inv == LabelTypes /\ RunsInOrder /\ PagingInv /\ LabelledWhenDone
<1>1. BattedBallInit => Inv
    BY LabelsInit DEF BattedBallInit
<1>2. Inv /\ [BattedBallNext]_<<retroVars, trainVars>> => Inv'
    <2> SUFFICES ASSUME Inv, [BattedBallNext]_<<retroVars, trainVars>> PROVE Inv'
        OBVIOUS
    <2>1. CASE RetroNext
        BY <2>1, LabelTypesNext, RunsInOrderNext, PagingNext, LabelledNext
    <2>2. CASE UNCHANGED retroVars
        BY <2>2 DEF retroVars, LabelTypes, RunsInOrder, PagingInv, LabelledWhenDone, Labelled,
                    RankIn, Stream, EventToOutcome
    <2> QED
        BY <2>1, <2>2 DEF BattedBallNext, Outside, RetroNext
<1>3. Inv => LabelledWhenDone
    OBVIOUS
<1> QED
    BY <1>1, <1>2, <1>3, PTL DEF BattedBallSpec

-----------------------------------------------------------------------------
(***************************************************************************)
(* The frames.                                                             *)
(***************************************************************************)
\* A query returns each of its balls once.
LEMMA QueryReturns ==
    ASSUME NEW S \in SUBSET Balls
    PROVE  /\ InOrder(S) \in Seq(Balls) /\ Len(InOrder(S)) = Cardinality(S)
           /\ Loaded(InOrder(S)) = S /\ ~Twice(InOrder(S))
<1> DEFINE n == Cardinality(S)
           q == InOrder(S)
<1>1. n \in Nat
    BY BallSets
<1>2. ASSUME NEW b \in S PROVE RankIn(b, S) \in 0 .. n - 1
    <2>1. /\ {c \in S : c < b} \in SUBSET S \ {b} /\ IsFiniteSet(S \ {b})
          /\ Cardinality(S \ {b}) = n - 1
        <3>1. \A c \in S : c < b => c # b
            BY BallsOrdered
        <3> QED
            BY <3>1, BallSets, FS_RemoveElement
    <2>2. RankIn(b, S) <= n - 1
        BY <2>1, FS_Subset DEF RankIn
    <2> QED
        BY <1>1, <2>2, RankGrows
<1>3. ASSUME NEW i \in 1 .. n PROVE \E b \in S : RankIn(b, S) = i - 1
    <2>1. S # {}
        BY <1>1, FS_EmptySet
    <2>2. PICK last \in S : \A c \in S : c <= last
        BY <2>1, LastBall
    <2>3. S = {c \in S : c < last} \union {last}
        BY <2>2, BallsOrdered
    <2>4. n = RankIn(last, S) + 1
        BY <2>3, RankNext
    <2>5. i - 1 \in Nat /\ i - 1 <= RankIn(last, S)
        BY <1>1, <2>4, RankGrows
    <2> QED
        BY <2>5, RankOnto
<1>4. \A i \in 1 .. n : q[i] \in S /\ RankIn(q[i], S) = i - 1
    BY <1>3 DEF InOrder
<1>5. q \in [1 .. n -> S]
    <2>1. q = [i \in 1 .. n |-> q[i]]
        BY DEF InOrder
    <2> QED
        BY <1>4, <2>1
<1> HIDE DEF q
<1>6. q \in Seq(Balls) /\ Len(q) = n /\ DOMAIN q = 1 .. n
    BY <1>1, <1>5
<1>7. ASSUME NEW b \in S PROVE b \in Loaded(q)
    <2>1. PICK i \in 1 .. n : i - 1 = RankIn(b, S)
        <3>1. PICK k \in 0 .. n - 1 : k = RankIn(b, S)
            BY <1>2
        <3>2. k + 1 \in 1 .. n /\ (k + 1) - 1 = k
            BY <1>1
        <3> QED
            BY <3>1, <3>2
    <2>2. q[i] = b
        BY <1>4, <2>1, RankDistinct
    <2> QED
        BY <1>6, <2>2 DEF Loaded
<1>8. Loaded(q) = S
    BY <1>4, <1>6, <1>7 DEF Loaded
<1>9. ~Twice(q)
    <2>1. ASSUME NEW i \in 1 .. n, NEW j \in 1 .. n, q[i] = q[j] PROVE i = j
        <3>1. i - 1 = j - 1
            BY <1>4, <2>1
        <3> QED
            BY <1>1, <3>1
    <2> QED
        BY <1>6, <2>1 DEF Twice
<1> QED
    BY <1>6, <1>8, <1>9 DEF q

LEMMA LoadedFacts ==
    ASSUME NEW rows \in Seq(Balls)
    PROVE  /\ DOMAIN rows = 1 .. Len(rows) /\ Len(rows) \in Nat
           /\ Loaded(rows) \in SUBSET Balls
           /\ \A i \in DOMAIN rows : rows[i] \in Loaded(rows)
    BY DEF Loaded

LEMMA LoadedNothing == Loaded(<<>>) = {} /\ ~Twice(<<>>) /\ <<>> \in Seq(Balls)
<1>1. DOMAIN <<>> = {}
    OBVIOUS
<1> QED
    BY <1>1 DEF Loaded, Twice

LEMMA LoadedBoth ==
    ASSUME NEW s \in Seq(Balls), NEW t \in Seq(Balls)
    PROVE  /\ s \o t \in Seq(Balls)
           /\ Loaded(s \o t) = Loaded(s) \union Loaded(t)
           /\ ~Twice(s) /\ ~Twice(t) /\ Loaded(s) \intersect Loaded(t) = {} => ~Twice(s \o t)
<1> DEFINE u == s \o t
<1>1. /\ u \in Seq(Balls) /\ DOMAIN u = 1 .. Len(s) + Len(t)
      /\ DOMAIN s = 1 .. Len(s) /\ DOMAIN t = 1 .. Len(t) /\ Len(s) \in Nat /\ Len(t) \in Nat
    OBVIOUS
<1>2. \A i \in DOMAIN u : u[i] = IF i <= Len(s) THEN s[i] ELSE t[i - Len(s)]
    OBVIOUS
<1> HIDE DEF u
<1>3. \A i \in DOMAIN s : i \in DOMAIN u /\ u[i] = s[i]
    BY <1>1, <1>2
<1>4. ASSUME NEW i \in DOMAIN t PROVE i + Len(s) \in DOMAIN u /\ u[i + Len(s)] = t[i]
    <2>1. i + Len(s) \in DOMAIN u /\ ~(i + Len(s) <= Len(s)) /\ (i + Len(s)) - Len(s) = i
        BY <1>1
    <2> QED
        BY <1>2, <2>1
<1>5. \A i \in DOMAIN u : (i \in DOMAIN s /\ i <= Len(s)) \/ (i - Len(s) \in DOMAIN t /\ ~(i <= Len(s)))
    BY <1>1
<1>6. Loaded(u) = Loaded(s) \union Loaded(t)
    <2>1. Loaded(s) \subseteq Loaded(u)
        BY <1>3 DEF Loaded
    <2>2. Loaded(t) \subseteq Loaded(u)
        BY <1>4 DEF Loaded
    <2>3. \A i \in DOMAIN u : u[i] \in Loaded(s) \union Loaded(t)
        BY <1>2, <1>5 DEF Loaded
    <2> QED
        BY <2>1, <2>2, <2>3 DEF Loaded
<1>7. ASSUME ~Twice(s), ~Twice(t), Loaded(s) \intersect Loaded(t) = {},
             NEW i \in DOMAIN u, NEW j \in DOMAIN u, u[i] = u[j]
      PROVE  i = j
    <2>1. CASE i <= Len(s) /\ j <= Len(s)
        BY <1>2, <1>5, <1>7, <2>1 DEF Twice
    <2>2. CASE ~(i <= Len(s)) /\ ~(j <= Len(s))
        <3>1. i - Len(s) = j - Len(s)
            BY <1>2, <1>5, <1>7, <2>2 DEF Twice
        <3> QED
            BY <1>1, <3>1
    <2>3. CASE (i <= Len(s) /\ ~(j <= Len(s))) \/ (~(i <= Len(s)) /\ j <= Len(s))
        <3>1. (u[i] \in Loaded(s) /\ u[j] \in Loaded(t)) \/ (u[i] \in Loaded(t) /\ u[j] \in Loaded(s))
            BY <1>2, <1>5, <2>3 DEF Loaded
        <3> QED
            BY <1>7, <3>1
    <2> QED
        BY <2>1, <2>2, <2>3
<1> QED
    BY <1>1, <1>6, <1>7 DEF u, Twice

LEMMA TrimmedIsWhole == ASSUME NEW rows \in Seq(Balls) PROVE Trimmed(rows) = rows
    BY SubSeqFull DEF Trimmed

\* What pages of one query add up to.
LEMMA PageAdded ==
    ASSUME NEW q \in Seq(Balls), NEW offset \in Nat, NEW to \in Nat, offset <= to, to <= Len(q)
    PROVE  /\ SubSeq(q, offset + 1, to) \in Seq(Balls)
           /\ Len(SubSeq(q, offset + 1, to)) = to - offset
           /\ SubSeq(q, 1, offset) \o SubSeq(q, offset + 1, to) = SubSeq(q, 1, to)
<1>1. \A i \in offset + 1 .. to : q[i] \in Balls
    OBVIOUS
<1>2. /\ SubSeq(q, offset + 1, to) \in Seq(Balls)
      /\ Len(SubSeq(q, offset + 1, to)) = to - offset
    BY <1>1, SubSeqProperties
<1>3. SubSeq(q, 1, offset) \o SubSeq(q, offset + 1, to) = SubSeq(q, 1, to)
    <2>1. 1 \in 1 .. Len(q) + 1 /\ offset \in 1 - 1 .. Len(q) /\ to \in offset .. Len(q)
        OBVIOUS
    <2> QED
        BY <2>1, ConcatAdjacentSubSeq
<1> QED
    BY <1>2, <1>3

-----------------------------------------------------------------------------
(***************************************************************************)
(* The trainers.                                                           *)
(***************************************************************************)
TrainerOK == LoaderTypes /\ SliceInv /\ FillInv

LEMMA IdleJob == jobIdle \in JobState /\ jobIdle.pc = "idle"
<1>1. <<>> \in Seq(Balls)
    BY LoadedNothing
<1> QED
    BY <1>1 DEF jobIdle, JobState, Kinds, noSeason

LEMMA IdleIsOK == ASSUME job' = jobIdle PROVE TrainerOK'
    BY IdleJob DEF TrainerOK, LoaderTypes, SliceInv, FillInv

LEMMA FirstPcs ==
    ASSUME NEW kind \in Kinds
    PROVE  /\ FirstPc(kind) \in {"count", "page", "query"}
           /\ FirstPc(kind) = "count" => kind \in Counted
           /\ FirstPc(kind) = "page" => kind \in Paged
           /\ FirstPc(kind) = "query" => kind = "lgbm"
           /\ kind \in BySeason => kind \notin Paged
    BY DEF FirstPc, Kinds, Counted, BySeason, Paged

\* What a loaded slice leads to.
LEMMA SliceCases ==
    ASSUME job \in JobState, NEW rows \in Seq(Balls), SliceLoaded(rows)
    PROVE  \/ job' = jobIdle
           \/ /\ job.slice = "train" /\ job.val # noSeason /\ job' \in JobState
              /\ job'.pc = FirstPc(job.kind) /\ job'.kind = job.kind /\ job'.slice = "val"
              /\ job'.first = job.val /\ job'.last = job.val /\ job'.season = job.val
              /\ job'.val = job.val /\ job'.rows = <<>> /\ job'.train = rows
              /\ job'.expect = job.expect /\ job'.stirred = job.stirred
           \/ /\ job.slice = "train" /\ job.val = noSeason /\ job' \in JobState
              /\ job'.pc = "fit" /\ job'.kind = job.kind /\ job'.slice = "train"
              /\ job'.first = job.first /\ job'.last = job.last
              /\ job'.val = job.val /\ job'.rows = <<>> /\ job'.train = rows
              /\ job'.expect = job.expect /\ job'.stirred = job.stirred
           \/ /\ job.slice = "val" /\ job' \in JobState
              /\ job'.pc = "fit" /\ job'.kind = job.kind /\ job'.slice = "val"
              /\ job'.first = job.first /\ job'.last = job.last
              /\ job'.val = job.val /\ job'.rows = rows /\ job'.train = job.train
              /\ job'.expect = job.expect /\ job'.stirred = job.stirred
<1>1. job.slice \in {"train", "val"} /\ job.kind \in Kinds /\ job.val \in Nat
    BY DEF JobState
<1>2. CASE job.slice = "train" /\ rows = <<>>
    BY <1>2 DEF SliceLoaded, Fail
<1>3. CASE job.slice = "train" /\ rows # <<>> /\ job.val # noSeason
    <2>1. PICK pc \in {"count", "page", "query"} : pc = FirstPc(job.kind)
        BY <1>1, FirstPcs
    <2>2. job' = [job EXCEPT !.pc = pc, !.slice = "val", !.first = job.val, !.last = job.val,
                             !.season = job.val, !.counted = 0, !.offset = 0, !.rows = <<>>,
                             !.train = rows]
        BY <1>3, <2>1 DEF SliceLoaded
    <2>3. job' \in JobState
        BY <1>1, <2>2, LoadedNothing DEF JobState
    <2>4. /\ job'.pc = pc /\ job'.kind = job.kind /\ job'.slice = "val"
          /\ job'.first = job.val /\ job'.last = job.val /\ job'.season = job.val
          /\ job'.val = job.val /\ job'.rows = <<>> /\ job'.train = rows
          /\ job'.expect = job.expect /\ job'.stirred = job.stirred
        BY <2>2 DEF JobState
    <2> QED
        BY <1>3, <2>1, <2>3, <2>4
<1>4. CASE job.slice = "train" /\ rows # <<>> /\ job.val = noSeason
    <2>1. job' = [job EXCEPT !.pc = "fit", !.rows = <<>>, !.train = rows]
        BY <1>4 DEF SliceLoaded
    <2>2. job' \in JobState
        BY <2>1, LoadedNothing DEF JobState
    <2> QED
        BY <1>4, <2>1, <2>2 DEF JobState
<1>5. CASE job.slice = "val"
    <2>1. job' = [job EXCEPT !.pc = "fit", !.rows = rows]
        BY <1>5 DEF SliceLoaded
    <2>2. job' \in JobState
        BY <2>1 DEF JobState
    <2> QED
        BY <1>5, <2>1, <2>2 DEF JobState
<1> QED
    BY <1>1, <1>2, <1>3, <1>4, <1>5

\* A slice that holds what it should leaves the trainer as it should be.
LEMMA SliceLoadedOK ==
    ASSUME TrainerOK, job.pc \notin {"idle", "fit"}, NEW rows \in Seq(Balls), SliceLoaded(rows),
           job.kind \notin Paged => ~Twice(rows),
           job.slice = "train" /\ ~job.stirred => Loaded(rows) = job.expect /\ ~Twice(rows),
           job.kind = "outcome" =>
               \A i \in DOMAIN rows : Season[rows[i]] \in job.first .. job.last
    PROVE  TrainerOK'
<1>1. job \in JobState /\ job.kind \in Kinds /\ job.val \in Nat /\ job.first \in Nat
      /\ job.last \in Nat
    BY DEF TrainerOK, LoaderTypes, JobState
<1>2. \A x \in Nat : x <= x
    OBVIOUS
<1>3. \A i \in DOMAIN rows : rows[i] \in Balls /\ Season[rows[i]] \in Nat
    BY RetrodictAssumption DEF Balls
<1>4. job.slice = "train" => (job.kind = "outcome" => job.last < job.val)
    BY DEF TrainerOK, SliceInv
<1>5. job.slice = "train" /\ job.kind = "outcome" =>
          job.val # noSeason /\ \A i \in DOMAIN rows : Season[rows[i]] < job.val
    BY <1>1, <1>3, <1>4 DEF noSeason
<1>6. CASE job' = jobIdle
    BY <1>6, IdleIsOK
<1>7. CASE /\ job.slice = "train" /\ job.val # noSeason /\ job' \in JobState
           /\ job'.pc = FirstPc(job.kind) /\ job'.kind = job.kind /\ job'.slice = "val"
           /\ job'.first = job.val /\ job'.last = job.val /\ job'.season = job.val
           /\ job'.val = job.val /\ job'.rows = <<>> /\ job'.train = rows
           /\ job'.expect = job.expect /\ job'.stirred = job.stirred
    <2>1. LoaderTypes'
        BY <1>1, <1>7, FirstPcs DEF LoaderTypes
    <2>2. SliceInv'
        BY <1>1, <1>2, <1>5, <1>7 DEF SliceInv
    <2>3. FillInv'
        BY <1>1, <1>2, <1>7, FirstPcs DEF FillInv
    <2> QED
        BY <2>1, <2>2, <2>3 DEF TrainerOK
<1>8. CASE /\ job.slice = "train" /\ job.val = noSeason /\ job' \in JobState
           /\ job'.pc = "fit" /\ job'.kind = job.kind /\ job'.slice = "train"
           /\ job'.first = job.first /\ job'.last = job.last
           /\ job'.val = job.val /\ job'.rows = <<>> /\ job'.train = rows
           /\ job'.expect = job.expect /\ job'.stirred = job.stirred
    <2>1. LoaderTypes'
        BY <1>8 DEF LoaderTypes
    <2>2. job.first <= job.last
        BY DEF TrainerOK, SliceInv
    <2>3. SliceInv'
        BY <1>5, <1>8, <2>2 DEF SliceInv
    <2>4. FillInv'
        BY <1>5, <1>8, LoadedNothing DEF FillInv
    <2> QED
        BY <2>1, <2>3, <2>4 DEF TrainerOK
<1>9. CASE /\ job.slice = "val" /\ job' \in JobState
           /\ job'.pc = "fit" /\ job'.kind = job.kind /\ job'.slice = "val"
           /\ job'.first = job.first /\ job'.last = job.last
           /\ job'.val = job.val /\ job'.rows = rows /\ job'.train = job.train
           /\ job'.expect = job.expect /\ job'.stirred = job.stirred
    <2>1. LoaderTypes'
        BY <1>9 DEF LoaderTypes
    <2>2. SliceInv'
        BY <1>9 DEF TrainerOK, SliceInv
    <2>3. job.first = job.val /\ job.last = job.val
        BY <1>9 DEF TrainerOK, SliceInv
    <2>4. job.kind = "outcome" => \A i \in DOMAIN rows : Season[rows[i]] = job.val
        BY <1>1, <1>3, <2>3
    <2>5. FillInv'
        BY <1>9, <2>4 DEF FillInv
    <2> QED
        BY <2>1, <2>2, <2>5 DEF TrainerOK
<1> QED
    BY <1>1, <1>6, <1>7, <1>8, <1>9, SliceCases

\* Starting a trainer: its training rows are those of the seasons asked for.
LEMMA StartedTrainer ==
    ASSUME NEW kind \in Kinds, NEW first \in Seasons, NEW last \in Seasons,
           NEW val \in Seasons \union {noSeason}, StartTraining(kind, first, last, val),
           UNCHANGED retroVars
    PROVE  TrainerOK'
<1>1. first \in Nat \ {0} /\ last \in Nat /\ val \in Nat
    BY RetrodictAssumption DEF Seasons, noSeason
<1>2. PICK to \in Nat : /\ to = TrainLast(kind, last, val) /\ first <= to
                        /\ (kind = "outcome" => to < val)
    <2>1. SplitAccepted(kind, first, last, val)
        BY DEF StartTraining
    <2>2. CASE kind = "outcome"
        <3>1. val - 1 \in Nat /\ first <= val - 1 /\ val - 1 < val
            BY <1>1, <2>1, <2>2 DEF SplitAccepted
        <3> QED
            BY <2>2, <3>1 DEF TrainLast
    <2>3. CASE kind # "outcome"
        BY <1>1, <2>1, <2>3 DEF SplitAccepted, TrainLast
    <2> QED
        BY <2>2, <2>3
<1>3. PICK expect \in SUBSET Balls : expect = Joined(first .. to)
    BY DEF Joined
<1>4. PICK pc \in {"count", "page", "query"} : pc = FirstPc(kind)
    BY FirstPcs
<1>5. job' = [jobIdle EXCEPT !.pc = pc, !.kind = kind, !.first = first, !.last = to, !.val = val,
                             !.season = first, !.expect = expect]
    BY <1>2, <1>3, <1>4 DEF StartTraining
<1>6. job' \in JobState
    BY <1>1, <1>5, IdleJob DEF JobState
<1>7. /\ job'.pc = pc /\ job'.kind = kind /\ job'.first = first /\ job'.last = to
      /\ job'.val = val /\ job'.season = first /\ job'.expect = expect
      /\ job'.slice = "train" /\ job'.rows = <<>> /\ job'.offset = 0
    BY <1>5 DEF jobIdle
<1>8. ~job'.stirred
    BY <1>5 DEF jobIdle
<1>9. LoaderTypes'
    BY <1>4, <1>6, <1>7, FirstPcs DEF LoaderTypes
<1>10. \A X : Joined(X)' = Joined(X)
    BY DEF Joined, retroVars
<1>11. SliceInv'
    <2>1. Joined(job.first .. job.last)' = expect
        BY <1>3, <1>7, <1>10
    <2> QED
        BY <1>2, <1>4, <1>7, <2>1 DEF SliceInv
<1>12. FillInv'
    <2>1. first <= first /\ 0 <= Cardinality(expect)
        BY <1>1, BallSets
    <2>2. SubSeq(InOrder(expect), 1, 0) = <<>>
        BY SubSeqEmpty
    <2>3. InOrder(expect)' = InOrder(expect)
        BY DEF InOrder, RankIn
    <2> QED
        BY <1>2, <1>4, <1>7, <2>1, <2>2, <2>3 DEF FillInv
<1> QED
    BY <1>9, <1>11, <1>12 DEF TrainerOK

LEMMA CountSeasonOK ==
    ASSUME TrainerOK, CountSeason, UNCHANGED retroVars PROVE TrainerOK'
<1>1. job \in JobState /\ job.pc = "count" /\ job.kind \in BySeason /\ job.season \in Nat
      /\ job.first \in Nat /\ job.last \in Nat /\ job.counted \in Nat
    BY DEF TrainerOK, LoaderTypes, JobState, CountSeason
<1>2. /\ job.first <= job.season /\ job.season <= job.last /\ job.rows = <<>>
    BY <1>1 DEF TrainerOK, FillInv
<1>3. PICK counted \in Nat : counted = job.counted + QueryCount(job.season)
    <2>1. QueryCount(job.season) \in Nat
        BY BallSets DEF QueryCount, Joined
    <2> QED
        BY <1>1, <2>1
<1>4. PICK season \in Nat, pc \in {"count", "load"} :
        /\ job' = [job EXCEPT !.pc = pc, !.season = season, !.counted = counted]
        /\ job.first <= season /\ season <= job.last
        /\ pc = "load" => season = job.first
    <2>1. CASE job.season < job.last
        <3>1. job.season + 1 \in Nat /\ job.first <= job.season + 1 /\ job.season + 1 <= job.last
            BY <1>1, <1>2, <2>1
        <3>2. job' = [job EXCEPT !.season = job.season + 1, !.counted = counted]
            BY <1>1, <1>3, <2>1 DEF CountSeason, NextSeason, JobState
        <3>3. job' = [job EXCEPT !.pc = "count", !.season = job.season + 1, !.counted = counted]
            BY <1>1, <3>2 DEF JobState
        <3> QED
            BY <3>1, <3>3
    <2>2. CASE ~(job.season < job.last)
        <3>1. job' = [job EXCEPT !.pc = "load", !.season = job.first, !.counted = counted]
            BY <1>1, <1>3, <2>2 DEF CountSeason, NextSeason, JobState
        <3>2. job.first <= job.first /\ job.first <= job.last
            BY <1>1, <1>2
        <3> QED
            BY <1>1, <3>1, <3>2
    <2> QED
        BY <2>1, <2>2
<1>5. job' \in JobState
    BY <1>1, <1>4 DEF JobState
<1>6. /\ job'.pc = pc /\ job'.kind = job.kind /\ job'.first = job.first /\ job'.last = job.last
      /\ job'.val = job.val /\ job'.season = season /\ job'.expect = job.expect
      /\ job'.slice = job.slice /\ job'.rows = job.rows /\ job'.train = job.train
      /\ job'.stirred = job.stirred
    BY <1>1, <1>4 DEF JobState
<1>7. LoaderTypes'
    BY <1>1, <1>5, <1>6 DEF LoaderTypes, BySeason, Counted
<1>8. \A X : Joined(X)' = Joined(X)
    BY DEF Joined, retroVars
<1>9. SliceInv'
    <2>1. Joined(job.first .. job.last)' = Joined(job.first .. job.last)
        BY <1>6, <1>8
    <2> QED
        BY <1>1, <1>4, <1>6, <2>1 DEF TrainerOK, SliceInv
<1>10. FillInv'
    <2>1. pc = "load" => Joined(job.first .. job.season - 1)' = {}
        <3>1. job.first .. job.first - 1 = {}
            BY <1>1
        <3>2. pc = "load" => job'.first .. job'.season - 1 = {}
            BY <1>4, <1>6, <3>1
        <3> QED
            BY <3>2 DEF Joined
    <2> QED
        BY <1>1, <1>2, <1>4, <1>6, <2>1, LoadedNothing DEF FillInv, BySeason
<1> QED
    BY <1>7, <1>9, <1>10 DEF TrainerOK

LEMMA JoinedFacts ==
    ASSUME NEW X
    PROVE  Joined(X) \in SUBSET Balls /\ \A b \in Joined(X) : Season[b] \in X
    BY DEF Joined

\* A season more: what was loaded of the earlier ones, and this one once.
LEMMA LoadSeasonOK ==
    ASSUME TrainerOK, LoadSeason, UNCHANGED retroVars PROVE TrainerOK'
<1>1. /\ job \in JobState /\ job.pc = "load" /\ job.kind \in BySeason /\ job.season \in Nat
      /\ job.first \in Nat /\ job.last \in Nat /\ job.rows \in Seq(Balls)
    BY DEF TrainerOK, LoaderTypes, JobState, LoadSeason
<1>2. /\ job.first <= job.season /\ job.season <= job.last /\ ~Twice(job.rows)
      /\ \A i \in DOMAIN job.rows : Season[job.rows[i]] \in job.first .. job.season - 1
      /\ job.slice = "train" /\ ~job.stirred =>
            Loaded(job.rows) = Joined(job.first .. job.season - 1)
    BY <1>1 DEF TrainerOK, FillInv
<1>3. PICK q \in Seq(Balls) : /\ q = QueryJoined(job.season)
                              /\ Loaded(q) = Joined({job.season}) /\ ~Twice(q)
    BY JoinedFacts, QueryReturns DEF QueryJoined
<1>4. PICK rows \in Seq(Balls) :
        /\ rows = job.rows \o q /\ Loaded(rows) = Loaded(job.rows) \union Loaded(q)
        /\ Loaded(job.rows) \intersect Loaded(q) = {} => ~Twice(rows)
    BY <1>1, <1>2, <1>3, LoadedBoth
<1>5. \A b \in Loaded(job.rows) : Season[b] \in job.first .. job.season - 1
    BY <1>2 DEF Loaded
<1>6. \A b \in Loaded(q) : Season[b] = job.season
    BY <1>3, JoinedFacts
<1>7. ~Twice(rows)
    <2>1. Loaded(job.rows) \intersect Loaded(q) = {}
        BY <1>1, <1>5, <1>6
    <2> QED
        BY <1>4, <2>1
<1>8. \A i \in DOMAIN rows : Season[rows[i]] \in job.first .. job.season
    <2>1. \A b \in Loaded(rows) : Season[b] \in job.first .. job.season
        BY <1>1, <1>2, <1>4, <1>5, <1>6
    <2> QED
        BY <2>1, LoadedFacts
<1>9. job.slice = "train" /\ ~job.stirred => Loaded(rows) = Joined(job.first .. job.season)
    <2>1. job.first .. job.season = (job.first .. job.season - 1) \union {job.season}
        BY <1>1, <1>2
    <2>2. Joined(job.first .. job.season) = Joined(job.first .. job.season - 1) \union Joined({job.season})
        BY <2>1 DEF Joined
    <2> QED
        BY <1>2, <1>3, <1>4, <2>2
<1>10. CASE job' = jobIdle
    BY <1>10, IdleIsOK
<1>11. CASE job.season < job.last /\ job' = [job EXCEPT !.rows = rows, !.season = @ + 1]
    <2>1. PICK season \in Nat : season = job.season + 1 /\ season - 1 = job.season
        BY <1>1
    <2>2. job.first <= season /\ season <= job.last
        BY <1>1, <1>2, <1>11, <2>1
    <2>3. job' = [job EXCEPT !.rows = rows, !.season = season]
        BY <1>11, <2>1
    <2>4. job' \in JobState
        BY <1>1, <2>3 DEF JobState
    <2>5. /\ job'.pc = "load" /\ job'.kind = job.kind /\ job'.first = job.first /\ job'.last = job.last
          /\ job'.val = job.val /\ job'.season = season /\ job'.expect = job.expect
          /\ job'.slice = job.slice /\ job'.rows = rows /\ job'.train = job.train
          /\ job'.stirred = job.stirred
        BY <1>1, <2>3 DEF JobState
    <2>6. LoaderTypes'
        BY <1>1, <2>4, <2>5 DEF LoaderTypes, BySeason, Counted
    <2>7. \A X : Joined(X)' = Joined(X)
        BY DEF Joined, retroVars
    <2>8. SliceInv'
        <3>1. Joined(job.first .. job.last)' = Joined(job.first .. job.last)
            BY <2>5, <2>7
        <3> QED
            BY <1>1, <2>5, <3>1 DEF TrainerOK, SliceInv
    <2>9. FillInv'
        <3>1. Joined(job.first .. job.season - 1)' = Joined(job.first .. job.season)
            BY <2>1, <2>5, <2>7
        <3>2. \A i \in DOMAIN rows : Season[rows[i]] \in job.first .. season - 1
            BY <1>8, <2>1
        <3> QED
            BY <1>1, <1>7, <1>9, <2>2, <2>5, <3>1, <3>2 DEF FillInv, BySeason
    <2> QED
        BY <2>6, <2>8, <2>9 DEF TrainerOK
<1>12. CASE ~(job.season < job.last) /\ SliceLoaded(rows)
    <2>1. job.season = job.last
        BY <1>1, <1>2, <1>12
    <2>2. job.slice = "train" /\ ~job.stirred => job.expect = Joined(job.first .. job.last)
        BY <1>1 DEF TrainerOK, SliceInv
    <2> QED
        BY <1>1, <1>7, <1>8, <1>9, <1>12, <2>1, <2>2, SliceLoadedOK
<1>13. Trimmed(rows) = rows
    BY TrimmedIsWhole
<1>14. \/ job' = jobIdle
       \/ job.season < job.last /\ job' = [job EXCEPT !.rows = rows, !.season = @ + 1]
       \/ ~(job.season < job.last) /\ SliceLoaded(rows)
    <2>1. Len(rows) \in Nat /\ job.counted \in Nat
        BY <1>1 DEF JobState
    <2>2. rows = job.rows \o QueryJoined(job.season)
        BY <1>3, <1>4
    <2>3. CASE Len(rows) > job.counted
        BY <2>2, <2>3 DEF LoadSeason, Fail
    <2>4. CASE Len(rows) <= job.counted /\ job.season < job.last
        <3>1. job' = [job EXCEPT !.rows = job.rows \o QueryJoined(job.season), !.season = @ + 1]
            BY <1>1, <2>1, <2>2, <2>4 DEF LoadSeason, JobState
        <3> QED
            BY <2>2, <2>4, <3>1
    <2>5. CASE ~(Len(rows) > job.counted) /\ ~(job.season < job.last)
        <3>1. SliceLoaded(Trimmed(rows))
            BY <2>1, <2>2, <2>5 DEF LoadSeason
        <3> QED
            BY <1>13, <2>5, <3>1
    <2> QED
        BY <1>1, <2>1, <2>3, <2>4, <2>5
<1> QED
    BY <1>10, <1>11, <1>12, <1>14

\* One query for all the seasons of a slice.
LEMMA WholeQuery ==
    ASSUME TrainerOK, job.pc \in {"load", "query"}, NEW rows \in Seq(Balls),
           rows = InOrder(Joined(job.first .. job.last)), SliceLoaded(rows)
    PROVE  TrainerOK'
<1>1. Loaded(rows) = Joined(job.first .. job.last) /\ ~Twice(rows)
    BY JoinedFacts, QueryReturns
<1>2. \A i \in DOMAIN rows : Season[rows[i]] \in job.first .. job.last
    BY <1>1, LoadedFacts, JoinedFacts
<1>3. job.slice = "train" /\ ~job.stirred => job.expect = Joined(job.first .. job.last)
    BY DEF TrainerOK, SliceInv
<1> QED
    BY <1>1, <1>2, <1>3, SliceLoadedOK

LEMMA ParkOK ==
    ASSUME TrainerOK, CountPark \/ LoadParkArrays \/ LoadLgbmDataset, UNCHANGED retroVars
    PROVE  TrainerOK'
<1>1. job \in JobState
    BY DEF TrainerOK, LoaderTypes
<1>2. PICK q \in Seq(Balls) : q = InOrder(Joined(job.first .. job.last))
    BY JoinedFacts, QueryReturns
<1>3. CASE CountPark
    <2>1. PICK counted \in Nat : counted = QueryParkCount(job.first, job.last)
        BY BallSets, JoinedFacts DEF QueryParkCount
    <2>2. job' = [job EXCEPT !.pc = "load", !.counted = counted] /\ job.kind = "mlp_park"
          /\ job.pc = "count"
        BY <1>3, <2>1 DEF CountPark
    <2>3. job' \in JobState
        BY <1>1, <2>2 DEF JobState
    <2>4. /\ job'.pc = "load" /\ job'.kind = "mlp_park" /\ job'.first = job.first /\ job'.last = job.last
          /\ job'.val = job.val /\ job'.expect = job.expect
          /\ job'.slice = job.slice /\ job'.rows = job.rows /\ job'.train = job.train
          /\ job'.stirred = job.stirred
        BY <1>1, <2>2 DEF JobState
    <2>5. LoaderTypes'
        BY <2>3, <2>4 DEF LoaderTypes, Counted, BySeason
    <2>6. SliceInv'
        <3>1. Joined(job.first .. job.last)' = Joined(job.first .. job.last)
            BY <2>4 DEF Joined, retroVars
        <3> QED
            BY <2>2, <2>4, <3>1 DEF TrainerOK, SliceInv
    <2>7. FillInv'
        BY <2>2, <2>4 DEF TrainerOK, FillInv, BySeason
    <2> QED
        BY <2>5, <2>6, <2>7 DEF TrainerOK
<1>4. CASE LoadParkArrays
    <2>1. job' = jobIdle \/ SliceLoaded(q)
        BY <1>2, <1>4, TrimmedIsWhole DEF LoadParkArrays, QueryParkBips, Fail
    <2> QED
        BY <1>2, <1>4, <2>1, IdleIsOK, WholeQuery DEF LoadParkArrays
<1>5. CASE LoadLgbmDataset
    BY <1>2, <1>5, WholeQuery DEF LoadLgbmDataset, QueryJoinedForLgbm
<1> QED
    BY <1>3, <1>4, <1>5

LEMMA LoadParkPageOK ==
    ASSUME TrainerOK, LoadParkPage, UNCHANGED retroVars PROVE TrainerOK'
<1>1. /\ job \in JobState /\ job.pc = "page" /\ job.offset \in Nat /\ job.rows \in Seq(Balls)
      /\ job.kind \in Paged /\ job.expect \in SUBSET Balls
    BY DEF TrainerOK, LoaderTypes, JobState, LoadParkPage
<1>2. ChunkRows \in Nat \ {0}
    BY BattedBallAssumption
<1> DEFINE all == InOrder(Joined(job.first .. job.last))
<1>3. all \in Seq(Balls) /\ Len(all) = Cardinality(Joined(job.first .. job.last))
    BY JoinedFacts, QueryReturns
<1> HIDE DEF all
<1>4. PICK to : to = (IF job.offset + ChunkRows < Len(all) THEN job.offset + ChunkRows ELSE Len(all))
    OBVIOUS
<1>5. PICK page : page = SubSeq(all, job.offset + 1, to)
    OBVIOUS
<1>6. page = QueryParkBipsJson(job.first, job.last, ChunkRows, job.offset)
    BY <1>4, <1>5 DEF QueryParkBipsJson, all
<1>7. page \in Seq(Balls)
    <2>1. to \in Nat /\ \A i \in job.offset + 1 .. to : all[i] \in Balls
        BY <1>1, <1>2, <1>3, <1>4
    <2> QED
        BY <1>1, <1>5, <2>1, SubSeqProperties
<1>8. PICK rows \in Seq(Balls) : rows = job.rows \o page
    BY <1>1, <1>7, LoadedBoth
<1>9. job.slice = "train" /\ ~job.stirred =>
        /\ job.expect = Joined(job.first .. job.last) /\ all = InOrder(job.expect)
        /\ job.offset <= Len(all) /\ job.rows = SubSeq(all, 1, job.offset)
    BY <1>1, <1>3 DEF TrainerOK, SliceInv, FillInv, all
<1>10. job.slice = "train" /\ ~job.stirred =>
        /\ to \in Nat /\ to <= Len(all) /\ Len(page) = to - job.offset
        /\ rows = SubSeq(all, 1, to)
        /\ Len(page) < ChunkRows => rows = all
    <2> SUFFICES ASSUME job.slice = "train", ~job.stirred
                 PROVE  /\ to \in Nat /\ to <= Len(all) /\ Len(page) = to - job.offset
                        /\ rows = SubSeq(all, 1, to)
                        /\ Len(page) < ChunkRows => rows = all
        OBVIOUS
    <2>1. job.offset <= Len(all) /\ job.rows = SubSeq(all, 1, job.offset)
        BY <1>9
    <2>2. to \in Nat /\ job.offset <= to /\ to <= Len(all)
          /\ (to - job.offset < ChunkRows => to = Len(all))
        BY <1>1, <1>2, <1>3, <1>4, <2>1
    <2>3. Len(page) = to - job.offset /\ SubSeq(all, 1, job.offset) \o page = SubSeq(all, 1, to)
        BY <1>1, <1>3, <1>5, <2>2, PageAdded
    <2>4. SubSeq(all, 1, Len(all)) = all
        BY <1>3, SubSeqFull
    <2> QED
        BY <1>8, <2>1, <2>2, <2>3, <2>4
<1>11. CASE Len(page) < ChunkRows
    <2>1. SliceLoaded(rows)
        BY <1>6, <1>8, <1>11 DEF LoadParkPage
    <2>2. job.slice = "train" /\ ~job.stirred => Loaded(rows) = job.expect /\ ~Twice(rows)
        BY <1>1, <1>9, <1>10, <1>11, QueryReturns
    <2>3. job.kind # "outcome"
        BY <1>1 DEF Paged
    <2> QED
        BY <1>1, <2>1, <2>2, <2>3, SliceLoadedOK
<1>12. CASE ~(Len(page) < ChunkRows)
    <2>1. PICK offset \in Nat : offset = job.offset + Len(page)
        BY <1>1, <1>7
    <2>2. job' = [job EXCEPT !.rows = rows, !.offset = offset]
        BY <1>6, <1>8, <1>12, <2>1 DEF LoadParkPage, NextOffset
    <2>3. job' \in JobState
        BY <1>1, <2>2 DEF JobState
    <2>4. /\ job'.pc = "page" /\ job'.kind = job.kind /\ job'.first = job.first /\ job'.last = job.last
          /\ job'.val = job.val /\ job'.expect = job.expect /\ job'.offset = offset
          /\ job'.slice = job.slice /\ job'.rows = rows /\ job'.train = job.train
          /\ job'.stirred = job.stirred
        BY <1>1, <2>2 DEF JobState
    <2>5. LoaderTypes'
        BY <1>1, <2>3, <2>4 DEF LoaderTypes
    <2>6. SliceInv'
        <3>1. Joined(job.first .. job.last)' = Joined(job.first .. job.last)
            BY <2>4 DEF Joined, retroVars
        <3> QED
            BY <1>1, <2>4, <3>1 DEF TrainerOK, SliceInv
    <2>7. job.slice = "train" /\ ~job.stirred =>
            offset <= Cardinality(job.expect) /\ rows = SubSeq(InOrder(job.expect), 1, offset)
        BY <1>1, <1>3, <1>9, <1>10, <2>1
    <2>8. FillInv'
        <3>1. InOrder(job.expect)' = InOrder(job.expect)
            BY <2>4 DEF InOrder, RankIn
        <3> QED
            BY <2>4, <2>7, <3>1 DEF FillInv
    <2> QED
        BY <2>5, <2>6, <2>8 DEF TrainerOK
<1> QED
    BY <1>11, <1>12

\* The tables change beside a trainer: a trainer that is not stirred has seen
\* none of it.
LEMMA OutsideOK == ASSUME TrainerOK, Outside PROVE TrainerOK'
<1>1. job \in JobState
    BY DEF TrainerOK, LoaderTypes
<1>2. PICK stirred \in BOOLEAN :
        stirred <=> job.stirred \/ (job.pc # "idle" /\ Joined(Seasons)' # Joined(Seasons))
    <2>1. CASE job.stirred \/ (job.pc # "idle" /\ Joined(Seasons)' # Joined(Seasons))
        BY <2>1
    <2>2. CASE ~(job.stirred \/ (job.pc # "idle" /\ Joined(Seasons)' # Joined(Seasons)))
        BY <2>2
    <2> QED
        BY <2>1, <2>2
<1>3. stirred = (job.stirred \/ (job.pc # "idle" /\ Joined(Seasons)' # Joined(Seasons)))
    BY <1>2
<1>4. job' = [job EXCEPT !.stirred = stirred]
    BY <1>3 DEF Outside
<1>5. job' \in JobState
    BY <1>1, <1>4 DEF JobState
<1>6. /\ job'.pc = job.pc /\ job'.kind = job.kind /\ job'.first = job.first /\ job'.last = job.last
      /\ job'.val = job.val /\ job'.season = job.season /\ job'.expect = job.expect
      /\ job'.offset = job.offset /\ job'.slice = job.slice /\ job'.rows = job.rows
      /\ job'.train = job.train /\ job'.stirred = stirred
    BY <1>1, <1>4 DEF JobState
<1>7. LoaderTypes'
    BY <1>5, <1>6 DEF TrainerOK, LoaderTypes
<1>8. ASSUME job.pc # "idle", ~stirred PROVE ~job.stirred /\ \A X : Joined(X)' = Joined(X)
    <2>1. Joined(Seasons)' = Joined(Seasons) /\ ~job.stirred
        BY <1>2, <1>8
    <2>2. ASSUME NEW X PROVE Joined(X)' = Joined(X)
        <3>1. Joined(X) = {b \in Joined(Seasons) : Season[b] \in X}
            BY DEF Joined, Seasons
        <3>2. Joined(X)' = {b \in Joined(Seasons)' : Season[b] \in X}
            BY DEF Joined, Seasons
        <3> QED
            BY <2>1, <3>1, <3>2
    <2> QED
        BY <2>1, <2>2
<1>9. SliceInv'
    <2>1. job.pc # "idle" /\ ~stirred =>
            ~job.stirred /\ Joined(job.first .. job.last)' = Joined(job.first .. job.last)
        BY <1>6, <1>8
    <2> QED
        BY <1>6, <2>1 DEF TrainerOK, SliceInv
<1>10. FillInv'
    <2>1. job.pc # "idle" /\ ~stirred =>
            ~job.stirred /\ Joined(job.first .. job.season - 1)' = Joined(job.first .. job.season - 1)
        BY <1>6, <1>8
    <2>2. InOrder(job.expect)' = InOrder(job.expect)
        BY <1>6 DEF InOrder, RankIn
    <2> QED
        BY <1>6, <2>1, <2>2 DEF TrainerOK, FillInv
<1> QED
    BY <1>7, <1>9, <1>10 DEF TrainerOK

LEMMA TrainNextOK ==
    ASSUME TrainerOK, TrainNext, UNCHANGED retroVars PROVE TrainerOK'
<1>1. ASSUME NEW kind \in Kinds, NEW first \in Seasons, NEW last \in Seasons,
             NEW val \in Seasons \union {noSeason}, StartTraining(kind, first, last, val)
      PROVE  TrainerOK'
    BY <1>1, StartedTrainer
<1>2. CASE Fit \/ KillTraining
    BY <1>2, IdleIsOK DEF Fit, KillTraining
<1> QED
    BY <1>1, <1>2, CountSeasonOK, LoadSeasonOK, ParkOK, LoadParkPageOK DEF TrainNext

\* What a fit makes of the slices of its trainer.
LEMMA FitOK ==
    ASSUME TrainerOK, Fit, Fitted.ok PROVE FramesAreExact' /\ CandidateIsHonest'
<1>1. job \in JobState /\ job.pc = "fit" /\ job.rows \in Seq(Balls) /\ job.train \in Seq(Balls)
      /\ job.val \in Nat
    BY DEF TrainerOK, LoaderTypes, JobState, Fit
<1>2. /\ candidate'.kind = job.kind /\ candidate'.rows = job.train /\ candidate'.val = job.rows
      /\ candidate'.expect = job.expect
      /\ candidate'.scaled = Fitted.scaled /\ candidate'.calibrated = Fitted.calibrated
    BY DEF Fit
<1>3. candidate'.stirred = job.stirred
    BY DEF Fit
<1>4. /\ job.kind \notin Paged => ~Twice(job.train) /\ ~Twice(job.rows)
      /\ ~job.stirred => Loaded(job.train) = job.expect /\ ~Twice(job.train)
      /\ job.kind = "outcome" =>
            /\ \A i \in DOMAIN job.train : Season[job.train[i]] < job.val
            /\ \A i \in DOMAIN job.rows : Season[job.rows[i]] = job.val
    BY <1>1 DEF TrainerOK, SliceInv, FillInv
<1>5. \A rows \in {job.train, job.rows} : \A i \in DOMAIN rows : rows[i] # zeroRow
    <2>1. zeroRow \notin Balls
        BY DEF Balls, zeroRow
    <2> QED
        BY <1>1, <2>1
<1>6. FramesAreExact'
    BY <1>2, <1>3, <1>4, <1>5 DEF FramesAreExact, Twice, Loaded, Paged
<1>7. CandidateIsHonest'
    <2> SUFFICES ASSUME job.kind = "outcome"
                 PROVE  /\ Len(job.rows) >= 2
                        /\ \A s \in SeasonsOf(job.train) \union Fitted.scaled, c \in Fitted.calibrated :
                               s < c
        BY <1>2 DEF CandidateIsHonest, SeasonsOf
    <2>1. CalibratorsFit(job.rows) # {} /\ Fitted = FitOutcome
        BY DEF Fitted, FitOutcome, failed
    <2>2. Len(job.rows) >= 2 /\ CalibratorsFit(job.rows) = SeasonsOf(job.rows)
        BY <2>1 DEF CalibratorsFit
    <2>3. Fitted.scaled = SeasonsOf(job.train) /\ Fitted.calibrated = SeasonsOf(job.rows)
        BY <2>1, <2>2 DEF FitOutcome, ScalerFit
    <2>4. \A s \in SeasonsOf(job.train) : s < job.val
        BY <1>4 DEF SeasonsOf
    <2>5. \A c \in SeasonsOf(job.rows) : c = job.val
        BY <1>4 DEF SeasonsOf
    <2> QED
        BY <2>2, <2>3, <2>4, <2>5
<1> QED
    BY <1>6, <1>7

CandidateOK == FramesAreExact /\ CandidateIsHonest

LEMMA TrainersNext ==
    TrainerOK /\ CandidateOK /\ [BattedBallNext]_<<retroVars, trainVars>>
        => (TrainerOK /\ CandidateOK)'
<1> SUFFICES ASSUME TrainerOK, CandidateOK, [BattedBallNext]_<<retroVars, trainVars>>
             PROVE  TrainerOK' /\ CandidateOK'
    OBVIOUS
<1>1. ASSUME UNCHANGED candidate PROVE CandidateOK'
    BY <1>1 DEF CandidateOK, FramesAreExact, CandidateIsHonest, Twice, SeasonsOf
<1>2. CASE UNCHANGED <<retroVars, trainVars>>
    <2>1. UNCHANGED candidate /\ UNCHANGED job
        BY <1>2 DEF trainVars
    <2>2. \A X : Joined(X)' = Joined(X)
        BY <1>2 DEF Joined, retroVars
    <2>3. InOrder(job.expect)' = InOrder(job.expect)
        BY <2>1 DEF InOrder, RankIn
    <2>4. LoaderTypes' /\ SliceInv'
        BY <2>1, <2>2 DEF TrainerOK, LoaderTypes, SliceInv
    <2>5. FillInv'
        BY <2>1, <2>2, <2>3 DEF TrainerOK, FillInv
    <2> QED
        BY <1>1, <2>1, <2>4, <2>5 DEF TrainerOK
<1>3. CASE Outside
    BY <1>1, <1>3, OutsideOK DEF Outside
<1>4. CASE TrainNext /\ UNCHANGED retroVars
    <2>1. TrainerOK'
        BY <1>4, TrainNextOK
    <2>2. CandidateOK'
        <3>1. CASE Fit /\ Fitted.ok
            BY <3>1, FitOK DEF CandidateOK
        <3>2. CASE ~(Fit /\ Fitted.ok)
            <4>1. UNCHANGED candidate
                BY <1>4, <3>2 DEF TrainNext, StartTraining, CountSeason, LoadSeason, CountPark,
                    LoadParkArrays, LoadParkPage, LoadLgbmDataset, Fit, KillTraining
            <4> QED
                BY <1>1, <4>1
        <3> QED
            BY <3>1, <3>2
    <2> QED
        BY <2>1, <2>2
<1> QED
    BY <1>2, <1>3, <1>4 DEF BattedBallNext

LEMMA TrainersInit == BattedBallInit => TrainerOK /\ CandidateOK
<1> SUFFICES ASSUME BattedBallInit PROVE TrainerOK /\ CandidateOK
    OBVIOUS
<1>1. job = jobIdle /\ candidate = noCandidate
    BY DEF BattedBallInit, TrainInit
<1>2. TrainerOK
    BY <1>1, IdleJob DEF TrainerOK, LoaderTypes, SliceInv, FillInv
<1>3. DOMAIN <<>> = {}
    OBVIOUS
<1>4. /\ candidate.kind = "none" /\ candidate.rows = <<>> /\ candidate.val = <<>>
      /\ candidate.expect = {}
    BY <1>1 DEF noCandidate
<1>5. CandidateOK
    BY <1>3, <1>4 DEF CandidateOK, FramesAreExact, CandidateIsHonest, Twice
<1> QED
    BY <1>2, <1>5

\* No model is fitted on a row that was never written nor, unless it pages, on a
\* ball twice, and one whose tables stood still has each ball of its seasons.
THEOREM FramesStayExact == BattedBallSpec => []FramesAreExact
<1>1. CandidateOK => FramesAreExact
    BY DEF CandidateOK
<1> QED
    BY <1>1, TrainersInit, TrainersNext, PTL DEF BattedBallSpec

\* What the retraining worker may register is calibrated on seasons after all
\* those it was fitted and scaled on.
THEOREM CandidatesAreHonest == BattedBallSpec => []CandidateIsHonest
<1>1. CandidateOK => CandidateIsHonest
    BY DEF CandidateOK
<1> QED
    BY <1>1, TrainersInit, TrainersNext, PTL DEF BattedBallSpec
-----------------------------------------------------------------------------
(***************************************************************************)
(* The flight, recorded and fused.                                         *)
(***************************************************************************)
Sample   == [r : Int, z : Int]
Fraction == Int \X Int

\* The samples that have reached the fence; the contact has not.
Reached == {i \in 2 .. Len(pos) : pos[i].r >= fence.dist}

First(i, S) == i \in S /\ \A k \in S : i <= k

FlightTypes ==
    /\ fence \in Fences /\ fair \in BOOLEAN /\ landed \in BOOLEAN
    /\ pos \in Seq(Sample) /\ Len(pos) >= 1 /\ pos[1].r < fence.dist
    /\ kernel \in [step : Nat, r : Int, z : Int, cross : Fraction, landing : Fraction,
                   hang : Fraction, done : BOOLEAN]

\* Until the ball lands the registers hold the last sample, and the crossing of
\* the first segment that reached the fence.
Flying ==
    /\ ~kernel.done /\ kernel.step = Len(pos) - 1
    /\ kernel.r = LastSample.r /\ kernel.z = LastSample.z /\ LastSample.z > 0
    /\ Reached = {} => kernel.cross = noCross
    /\ Reached # {} => \E i \in Reached :
           /\ First(i, Reached) /\ kernel.cross = HeightAt(pos[i - 1], pos[i], fence.dist)

Agree == ClassifyOutcome \in Outcomes /\ ClassifyOutcome = KernelOutcome

FlightInv == FlightTypes /\ (~landed => Flying) /\ (landed => Agree)

\* Facts about products, which the solver needs one at a time.
LEMMA ProductMonotone ==
    ASSUME NEW a \in Int, NEW b \in Int, NEW c \in Int, a <= b, c >= 0 PROVE a * c <= b * c
    OBVIOUS

LEMMA ProductSign == ASSUME NEW a \in Int, NEW b \in Int, a >= 0, b <= 0 PROVE a * b <= 0
    OBVIOUS

LEMMA ProductCancel ==
    ASSUME NEW a \in Int, NEW b \in Int, NEW c \in Int, c > 0 PROVE (c * a >= b * c) <=> (a >= b)
    OBVIOUS

\* The height at the fence of a segment that comes down before it is no more
\* than where the segment began.
LEMMA LowAtTheFence ==
    ASSUME NEW p \in Sample, NEW q \in Sample, NEW d \in Int, NEW h \in Int,
           p.r < d, d <= q.r, q.z <= p.z, p.z <= h
    PROVE  HeightAt(p, q, d) \in Fraction /\ ~Above(HeightAt(p, q, d), h)
<1> DEFINE dr == q.r - p.r
           dz == q.z - p.z
<1>1. p.r \in Int /\ p.z \in Int /\ q.r \in Int /\ q.z \in Int
    BY DEF Sample
<1>2. dr \in Int /\ dz \in Int /\ dr > 0 /\ dz <= 0 /\ d - p.r \in Int /\ d - p.r >= 0
    BY <1>1
<1>3. HeightAt(p, q, d) = <<p.z * dr + (d - p.r) * dz, dr>>
    BY <1>1 DEF HeightAt
<1>4. p.z * dr <= h * dr
    BY <1>1, <1>2, ProductMonotone
<1>5. (d - p.r) * dz <= 0
    BY <1>1, <1>2, ProductSign
<1>6. p.z * dr \in Int /\ (d - p.r) * dz \in Int /\ h * dr \in Int
    BY <1>1, <1>2
<1> HIDE DEF dr, dz
<1>7. p.z * dr + (d - p.r) * dz <= h * dr
    BY <1>4, <1>5, <1>6
<1>8. p.z * dr + (d - p.r) * dz \in Int
    BY <1>6
<1> QED
    BY <1>2, <1>3, <1>6, <1>7, <1>8 DEF Above, Fraction

\* HeightAt is never the pair that stands for no crossing.
LEMMA HeightTyped ==
    ASSUME NEW p \in Sample, NEW q \in Sample, NEW d \in Int
    PROVE  HeightAt(p, q, d) \in Fraction /\ HeightAt(p, q, d) # noCross
<1>1. p.r \in Int /\ p.z \in Int /\ q.r \in Int /\ q.z \in Int
    BY DEF Sample
<1>2. CASE q.r = p.r
    BY <1>1, <1>2 DEF HeightAt, noCross, Fraction
<1>3. CASE q.r # p.r
    <2>1. HeightAt(p, q, d) = <<p.z * (q.r - p.r) + (d - p.r) * (q.z - p.z), q.r - p.r>>
        BY <1>3, Zenon DEF HeightAt
    <2>3. q.r - p.r # 0
        BY <1>1, <1>3
    <2>2. p.z * (q.r - p.r) + (d - p.r) * (q.z - p.z) \in Int
        BY <1>1
    <2> QED
        BY <1>1, <2>1, <2>2, <2>3 DEF noCross, Fraction
<1> QED
    BY <1>2, <1>3

LEMMA GroundTyped ==
    ASSUME NEW p \in Sample, NEW q \in Sample, NEW n \in Int
    PROVE  GroundAt(p, q) \in Fraction /\ TimeAt(p, q, n) \in Fraction
<1>1. p.r \in Int /\ p.z \in Int /\ q.r \in Int /\ q.z \in Int
    BY DEF Sample
<1>2. /\ p.r * (p.z - q.z) \in Int /\ p.z * (q.r - p.r) \in Int
      /\ (n - 1) * (p.z - q.z) \in Int /\ p.z - q.z \in Int
    BY <1>1
<1> QED
    BY <1>1, <1>2 DEF GroundAt, TimeAt, Fraction

\* A segment that ends on the ground comes down where it ends.
LEMMA GroundAtTheEnd ==
    ASSUME NEW p \in Sample, NEW q \in Sample, NEW c \in Int, p.z > 0, q.z = 0
    PROVE  AtLeast(GroundAt(p, q), c) <=> AtLeast(<<q.r, 1>>, c)
<1>1. p.r \in Int /\ p.z \in Int /\ q.r \in Int
    BY DEF Sample
<1>2. p.z - q.z = p.z
    BY <1>1
<1>3. p.r * p.z + p.z * (q.r - p.r) = p.z * q.r
    BY <1>1
<1>4. GroundAt(p, q) = <<p.z * q.r, p.z>>
    BY <1>2, <1>3 DEF GroundAt
<1>5. (p.z * q.r >= c * p.z) <=> q.r >= c
    BY <1>1, ProductCancel
<1> QED
    BY <1>1, <1>4, <1>5 DEF AtLeast

\* A fence stands away from the plate and at least as high as one step drops.
LEMMA FenceTyped ==
    ASSUME fence \in Fences
    PROVE  /\ fence.dist \in Int /\ fence.dist > 0 /\ fence.height \in Int /\ MaxDrop <= fence.height
<1>1. fence.dist \in FenceDists /\ fence.height \in FenceHeights
    BY DEF Fences
<1>2. \A d \in FenceDists : d \in Nat \ {0}
    BY FlightAssumption DEF FlightAssumption
<1>3. \A h \in FenceHeights : h \in Nat /\ MaxDrop <= h
    BY FlightAssumption DEF FlightAssumption
<1>4. fence.dist \in Nat \ {0}
    BY <1>1, <1>2
<1>5. fence.height \in Nat /\ MaxDrop <= fence.height
    BY <1>1, <1>3
<1> QED
    BY <1>4, <1>5

\* The decision depends on a landing by its comparisons, and a crossing no
\* higher than the fence is as good as none.
LEMMA DecideAlike ==
    ASSUME fence \in Fences, fair \in BOOLEAN, NEW l, NEW m, NEW hang, NEW x, NEW y,
           \A c \in Int : AtLeast(l, c) <=> AtLeast(m, c),
           x = y \/ (y = noCross /\ ~Above(x, fence.height)
                                 /\ ~Above(x, fence.height + HomeRunMargin))
    PROVE  /\ Decide(fair, l, hang, x) = Decide(fair, m, hang, y)
           /\ Decide(fair, l, hang, x) \in Outcomes
<1>1. fence.dist \in Int /\ CatchDist \in Int /\ DoubleDist \in Int /\ SingleDist \in Int
    <2>1. CatchDist \in Nat /\ DoubleDist \in Nat /\ SingleDist \in Nat
        BY FlightAssumption DEF FlightAssumption
    <2> QED
        BY <2>1, FenceTyped
<1>2. /\ AtLeast(l, fence.dist) <=> AtLeast(m, fence.dist)
      /\ AtLeast(l, CatchDist) <=> AtLeast(m, CatchDist)
      /\ AtLeast(l, DoubleDist) <=> AtLeast(m, DoubleDist)
      /\ AtLeast(l, SingleDist) <=> AtLeast(m, SingleDist)
    BY <1>1
<1> DEFINE high(w) == AtLeast(m, fence.dist) /\ w # noCross /\ Above(w, fence.height + HomeRunMargin)
           over(w) == AtLeast(m, fence.dist) /\ w # noCross /\ Above(w, fence.height)
                        /\ ~Above(w, fence.height + HomeRunMargin)
           wall == IF AtLeast(hang, WallHang) THEN "out" ELSE "double"
           field == IF AtLeast(hang, CatchHang) /\ AtLeast(m, CatchDist) THEN "out"
                    ELSE IF AtLeast(m, DoubleDist) THEN "double"
                    ELSE IF AtLeast(m, SingleDist) THEN "single" ELSE "out"
<1>3. ASSUME NEW w
      PROVE  /\ Decide(fair, l, hang, w) = IF ~fair THEN "out" ELSE IF high(w) THEN "home_run"
                                           ELSE IF over(w) THEN wall ELSE field
             /\ Decide(fair, m, hang, w) = IF ~fair THEN "out" ELSE IF high(w) THEN "home_run"
                                           ELSE IF over(w) THEN wall ELSE field
    BY <1>2 DEF Decide
<1>4. (high(x) <=> high(y)) /\ (over(x) <=> over(y))
    OBVIOUS
<1>5. wall \in Outcomes /\ field \in Outcomes
    BY DEF Outcomes
<1> QED
    BY <1>3, <1>4, <1>5 DEF Outcomes

LEMMA FlightStarts == FlightInit => FlightInv
<1> SUFFICES ASSUME FlightInit PROVE FlightInv
    OBVIOUS
<1>1. PICK h \in ContactHeights : pos = <<[r |-> 0, z |-> h]>> /\ kernel = KernelStart(h)
    BY DEF FlightInit
<1>2. h \in Int /\ h > 0 /\ fence.dist \in Int /\ fence.dist > 0
    <2>1. h \in Nat \ {0}
        BY FlightAssumption DEF FlightAssumption
    <2> QED
        BY <2>1, FenceTyped DEF FlightInit
<1>3. pos \in Seq(Sample) /\ Len(pos) = 1 /\ pos[1].r = 0 /\ LastSample.r = 0 /\ LastSample.z = h
    BY <1>1, <1>2 DEF Sample, LastSample
<1>4. noCross \in Fraction /\ <<0, 1>> \in Fraction
    BY DEF noCross, Fraction
<1>5. /\ kernel \in [step : Nat, r : Int, z : Int, cross : Fraction, landing : Fraction,
                     hang : Fraction, done : BOOLEAN]
      /\ kernel.step = 0 /\ kernel.r = 0 /\ kernel.z = h /\ kernel.cross = noCross /\ kernel.done = FALSE
    BY <1>1, <1>2, <1>4 DEF KernelStart
<1>6. Reached = {}
    BY <1>3 DEF Reached
<1>7. FlightTypes
    <2>1. fence \in Fences /\ fair \in BOOLEAN /\ landed \in BOOLEAN
        BY DEF FlightInit
    <2>2. Len(pos) >= 1 /\ pos[1].r < fence.dist
        BY <1>2, <1>3
    <2> QED
        BY <1>3, <1>5, <2>1, <2>2 DEF FlightTypes
<1> QED
    BY <1>2, <1>3, <1>5, <1>6, <1>7 DEF FlightInv, Flying, FlightInit

\* What a step adds to the record, in the air or on the ground.
LEMMA StepRecords ==
    ASSUME FlightTypes, Flying, NEW q \in Sample, Step(q)
    PROVE  /\ pos' \in Seq(Sample) /\ Len(pos') = Len(pos) + 1 /\ pos'[1].r < fence.dist
           /\ \A i \in 1 .. Len(pos) : pos'[i] = pos[i]
           /\ pos'[Len(pos) + 1] = q /\ LastSample' = q /\ Before' = LastSample
           /\ LastSample \in Sample /\ LastSample = [r |-> kernel.r, z |-> kernel.z]
           /\ Reached' = Reached \union (IF q.r >= fence.dist THEN {Len(pos) + 1} ELSE {})
           /\ fence' = fence /\ fair' = fair
<1>1. /\ pos \in Seq(Sample) /\ Len(pos) \in Nat /\ Len(pos) >= 1
      /\ pos' = Append(pos, q) /\ fence' = fence /\ fair' = fair
    BY DEF FlightTypes, Step
<1>2. /\ pos' \in Seq(Sample) /\ Len(pos') = Len(pos) + 1
      /\ \A i \in 1 .. Len(pos) : pos'[i] = pos[i]
      /\ pos'[Len(pos) + 1] = q
    BY <1>1
<1>3. pos'[1].r < fence.dist
    BY <1>1, <1>2 DEF FlightTypes
<1>4. LastSample' = q /\ Before' = LastSample
    BY <1>1, <1>2 DEF LastSample, Before
<1>5. LastSample \in Sample
    BY <1>1 DEF LastSample
<1>6. LastSample = [r |-> kernel.r, z |-> kernel.z]
    BY <1>5 DEF Flying, Sample
<1>7. Reached' = {i \in 2 .. Len(pos) + 1 : pos'[i].r >= fence.dist}
    BY <1>1, <1>2 DEF Reached
<1>8. Reached' = Reached \union (IF q.r >= fence.dist THEN {Len(pos) + 1} ELSE {})
    BY <1>1, <1>2, <1>7 DEF Reached
<1> QED
    BY <1>1, <1>2, <1>3, <1>4, <1>5, <1>6, <1>8

\* Before the fence is reached the last sample is inside it.
LEMMA LastIsInside ==
    ASSUME FlightTypes, Reached = {} PROVE LastSample.r < fence.dist
<1>1. Len(pos) \in Nat /\ Len(pos) >= 1 /\ pos[1].r < fence.dist /\ fence.dist \in Int
      /\ \A i \in 1 .. Len(pos) : pos[i].r \in Int
    <2>1. pos \in Seq(Sample) /\ fence \in Fences /\ Len(pos) >= 1 /\ pos[1].r < fence.dist
        BY DEF FlightTypes
    <2>2. \A i \in 1 .. Len(pos) : pos[i] \in Sample
        BY <2>1
    <2> QED
        BY <2>1, <2>2, FenceTyped DEF Sample
<1>2. CASE Len(pos) = 1
    BY <1>1, <1>2 DEF LastSample
<1>3. CASE Len(pos) > 1
    BY <1>1, <1>3 DEF LastSample, Reached
<1>4. Len(pos) = 1 \/ Len(pos) > 1
    <2> DEFINE n == Len(pos)
    <2>1. n \in Nat /\ n >= 1
        BY <1>1
    <2> HIDE DEF n
    <2>2. n = 1 \/ n > 1
        BY <2>1
    <2> QED
        BY <2>2 DEF n
<1> QED
    BY <1>2, <1>3, <1>4

\* What the kernel knows of the crossing after a step that ends in the air.
LEMMA CrossesInTheAir ==
    ASSUME FlightTypes, Flying, NEW q \in Sample, Step(q), q.z > 0
    PROVE  /\ Reached' = {} => KernelCross(q) = noCross
           /\ Reached' # {} => \E i \in Reached' :
                  /\ First(i, Reached') /\ KernelCross(q) = HeightAt(pos'[i - 1], pos'[i], fence.dist)
<1> DEFINE n == Len(pos)
<1>1. /\ n \in Nat /\ n >= 1 /\ \A i \in 1 .. n : pos'[i] = pos[i]
      /\ pos'[n + 1] = q /\ LastSample = [r |-> kernel.r, z |-> kernel.z]
      /\ Reached' = Reached \union (IF q.r >= fence.dist THEN {n + 1} ELSE {})
    BY StepRecords DEF FlightTypes
<1>2. LastSample = pos'[n]
    BY <1>1 DEF LastSample
<1>3. CASE Reached = {}
    <2>1. kernel.cross = noCross
        BY <1>3 DEF Flying
    <2>2. CASE q.r >= fence.dist
        <3>1. KernelCross(q) = HeightAt(pos'[n], pos'[n + 1], fence.dist)
            BY <1>1, <1>2, <2>1, <2>2 DEF KernelCross
        <3>2. Reached' = {n + 1} /\ First(n + 1, Reached')
            BY SMTT(30), <1>1, <1>3, <2>2 DEF First, Reached
        <3>3. n + 1 - 1 = n /\ n + 1 \in Reached'
            BY <1>1, <3>2
        <3> QED
            BY <3>1, <3>2, <3>3
    <2>3. CASE ~(q.r >= fence.dist)
        BY <1>1, <1>3, <2>1, <2>3 DEF KernelCross
    <2> QED
        BY <2>2, <2>3
<1>4. CASE Reached # {}
    <2>1. PICK i \in Reached :
            First(i, Reached) /\ kernel.cross = HeightAt(pos[i - 1], pos[i], fence.dist)
        BY <1>4 DEF Flying
    <2>2. i \in 2 .. n /\ Reached \subseteq 2 .. n
        BY DEF Reached
    <2>3. pos[i - 1] \in Sample /\ pos[i] \in Sample /\ fence.dist \in Int
        BY <2>2, FenceTyped DEF FlightTypes
    <2>4. kernel.cross # noCross
        BY <2>1, <2>3, HeightTyped
    <2>5. KernelCross(q) = kernel.cross
        BY <2>4 DEF KernelCross
    <2>6. pos'[i - 1] = pos[i - 1] /\ pos'[i] = pos[i]
        BY <1>1, <2>2
    <2>7. i \in Reached' /\ First(i, Reached')
        BY <1>1, <2>1, <2>2 DEF First
    <2> QED
        BY <2>1, <2>5, <2>6, <2>7
<1> QED
    BY <1>3, <1>4

\* A step of the flight as it is from where the flight stands.
LEMMA StepBounds ==
    ASSUME FlightTypes, Flying, NEW q \in Sample, Step(q)
    PROVE  /\ q.r - LastSample.r \in Int /\ q.r >= LastSample.r
           /\ LastSample.z - q.z \in Int /\ LastSample.z - q.z <= MaxDrop
<1>1. LastSample \in Sample
    BY StepRecords
<1>2. /\ q.r \in Int /\ LastSample.r \in Int /\ q.z \in Int /\ LastSample.z \in Int
      /\ MaxReach \in Int /\ MaxRise \in Int /\ MaxDrop \in Int
    BY <1>1, FlightAssumption DEF FlightAssumption, Sample
<1>3. q.r - LastSample.r \in 0 .. MaxReach /\ q.z - LastSample.z \in (-MaxDrop) .. MaxRise
    BY DEF Step
<1> QED
    BY <1>2, <1>3

LEMMA StepInTheAir ==
    ASSUME FlightTypes, Flying, NEW q \in Sample, Step(q), q.z > 0 PROVE FlightInv'
<1> DEFINE n == Len(pos)
<1>1. /\ n \in Nat /\ pos' \in Seq(Sample) /\ Len(pos') = n + 1 /\ pos'[1].r < fence.dist
      /\ LastSample' = q /\ fence' = fence /\ fair' = fair
    BY StepRecords DEF FlightTypes
<1>2. PICK cross : cross = KernelCross(q)
    OBVIOUS
<1>3. /\ kernel.step = n - 1 /\ kernel.done = FALSE
      /\ kernel \in [step : Nat, r : Int, z : Int, cross : Fraction, landing : Fraction,
                     hang : Fraction, done : BOOLEAN]
    BY DEF FlightTypes, Flying
<1>4. kernel' = [kernel EXCEPT !.step = n, !.cross = cross, !.r = q.r, !.z = q.z]
    <2>1. ~(q.z <= 0)
        BY DEF Sample
    <2>2. kernel.step + 1 = n
        BY <1>1, <1>3
    <2> QED
        BY <1>2, <2>1, <2>2 DEF Step, KernelStep
<1>5. cross \in Fraction
    <2>1. LastSample \in Sample /\ LastSample = [r |-> kernel.r, z |-> kernel.z] /\ fence.dist \in Int
        BY StepRecords, FenceTyped DEF FlightTypes
    <2> QED
        BY <1>2, <1>3, <2>1, HeightTyped DEF KernelCross
<1>6. /\ kernel'.step = n /\ kernel'.cross = cross /\ kernel'.r = q.r /\ kernel'.z = q.z
      /\ kernel'.done = FALSE
    BY <1>3, <1>4
<1>7. kernel' \in [step : Nat, r : Int, z : Int, cross : Fraction, landing : Fraction,
                   hang : Fraction, done : BOOLEAN]
    BY <1>1, <1>3, <1>4, <1>5 DEF Sample
<1>8. landed' = FALSE
    <2>1. ~(q.z <= 0)
        BY DEF Sample
    <2> QED
        BY <2>1 DEF Step
<1>9. FlightTypes'
    <2>1. fence' \in Fences /\ fair' \in BOOLEAN /\ landed' \in BOOLEAN
        BY <1>1, <1>8 DEF FlightTypes
    <2>2. Len(pos') >= 1 /\ pos'[1].r < fence'.dist
        BY <1>1
    <2> QED
        BY <1>1, <1>7, <2>1, <2>2 DEF FlightTypes
<1>10. /\ Reached' = {} => cross = noCross
       /\ Reached' # {} => \E i \in Reached' :
              First(i, Reached') /\ cross = HeightAt(pos'[i - 1], pos'[i], fence.dist)
    BY <1>2, CrossesInTheAir
<1>11. Flying'
    BY <1>1, <1>6, <1>10 DEF Flying
<1> QED
    BY <1>8, <1>9, <1>11 DEF FlightInv

\* On the step that lands, the kernel passes over a crossing that the record
\* has: one no higher than the fence.
LEMMA CrossesOnTheGround ==
    ASSUME FlightTypes, Flying, NEW q \in Sample, Step(q), q.z <= 0
    PROVE  \/ CrossingHeight' = kernel.cross
           \/ /\ kernel.cross = noCross
              /\ ~Above(CrossingHeight', fence.height)
              /\ ~Above(CrossingHeight', fence.height + HomeRunMargin)
<1> DEFINE n == Len(pos)
<1>1. /\ n \in Nat /\ n >= 1 /\ Len(pos') = n + 1 /\ \A i \in 1 .. n : pos'[i] = pos[i]
      /\ pos'[n + 1] = q /\ LastSample \in Sample /\ fence' = fence
      /\ Reached' = Reached \union (IF q.r >= fence.dist THEN {n + 1} ELSE {})
    BY StepRecords DEF FlightTypes
<1>2. pos'[n] = LastSample
    BY <1>1 DEF LastSample
<1>3. Reached \subseteq 2 .. n /\ Reached' \subseteq Int
    BY <1>1 DEF Reached
<1>4. ASSUME NEW i \in Reached', First(i, Reached')
      PROVE  CrossingHeight' = HeightAt(pos'[i - 1], pos'[i], fence.dist)
    <2> DEFINE Least(j) == j \in Reached' /\ \A k \in Reached' : j <= k
    <2>1. Least(i) /\ \A j : Least(j) => j = i
        <3>1. ASSUME NEW j, Least(j) PROVE j = i
            <4>1. i \in Int /\ j \in Int /\ i <= j /\ j <= i
                BY <1>3, <1>4, <3>1 DEF First
            <4> QED
                BY <4>1
        <3> QED
            BY <1>4, <3>1 DEF First
    <2>2. (CHOOSE j : Least(j)) = i
        BY <2>1
    <2>3. (CHOOSE j \in Reached' : \A k \in Reached' : j <= k) = i
        BY <2>2
    <2> QED
        BY <1>1, <2>3 DEF CrossingHeight, Reached
<1>5. CASE Reached # {}
    <2>1. PICK i \in Reached :
            First(i, Reached) /\ kernel.cross = HeightAt(pos[i - 1], pos[i], fence.dist)
        BY <1>5 DEF Flying
    <2>2. pos'[i - 1] = pos[i - 1] /\ pos'[i] = pos[i]
        BY <1>1, <1>3
    <2>3. i \in Reached' /\ First(i, Reached')
        BY <1>1, <1>3, <2>1 DEF First
    <2> QED
        BY <1>4, <2>1, <2>2, <2>3
<1>6. CASE Reached = {} /\ q.r >= fence.dist
    <2>1. Reached' = {n + 1} /\ n + 1 \in Reached' /\ First(n + 1, Reached') /\ n + 1 - 1 = n
        BY <1>1, <1>6 DEF First
    <2>2. CrossingHeight' = HeightAt(LastSample, q, fence.dist)
        BY <1>1, <1>2, <1>4, <2>1
    <2>3. LastSample.r < fence.dist
        BY <1>6, LastIsInside
    <2>4. /\ LastSample.z > 0 /\ LastSample.z - q.z <= MaxDrop /\ MaxDrop <= fence.height
          /\ LastSample.z \in Int /\ q.z \in Int /\ fence.height \in Int /\ fence.dist \in Int
          /\ MaxDrop \in Int /\ HomeRunMargin \in Nat
        <3>1. MaxDrop \in Int /\ HomeRunMargin \in Nat
            BY FlightAssumption DEF FlightAssumption
        <3>2. LastSample.z > 0
            BY DEF Flying
        <3>3. fence.height \in Int /\ fence.dist \in Int /\ MaxDrop <= fence.height
            BY FenceTyped DEF FlightTypes
        <3>4. LastSample.z \in Int /\ q.z \in Int
            BY <1>1 DEF Sample
        <3> QED
            BY <3>1, <3>2, <3>3, <3>4, StepBounds
    <2>5. q.z <= LastSample.z /\ LastSample.z <= fence.height
          /\ LastSample.z <= fence.height + HomeRunMargin /\ fence.height + HomeRunMargin \in Int
        BY <2>4
    <2>6. /\ ~Above(HeightAt(LastSample, q, fence.dist), fence.height)
          /\ ~Above(HeightAt(LastSample, q, fence.dist), fence.height + HomeRunMargin)
        BY <1>1, <1>6, <2>3, <2>4, <2>5, LowAtTheFence
    <2> QED
        BY <1>6, <2>2, <2>6 DEF Flying
<1>7. CASE Reached = {} /\ ~(q.r >= fence.dist)
    <2>1. Reached' = {} /\ kernel.cross = noCross
        BY <1>1, <1>7 DEF Flying
    <2>2. CrossingHeight' = noCross
        BY <2>1 DEF CrossingHeight, Reached
    <2> QED
        BY <2>1, <2>2
<1> QED
    BY <1>5, <1>6, <1>7

LEMMA StepToTheGround ==
    ASSUME FlightTypes, Flying, NEW q \in Sample, Step(q), q.z <= 0 PROVE FlightInv'
<1> DEFINE n == Len(pos)
           p == LastSample
           ground == GroundAt(p, q)
           hang == TimeAt(p, q, n)
<1>1. /\ n \in Nat /\ pos' \in Seq(Sample) /\ Len(pos') = n + 1 /\ pos'[1].r < fence.dist
      /\ LastSample' = q /\ Before' = p /\ fence' = fence /\ fair' = fair
      /\ p \in Sample /\ p = [r |-> kernel.r, z |-> kernel.z]
      /\ fence \in Fences /\ fair \in BOOLEAN
    BY StepRecords DEF FlightTypes
<1>2. /\ kernel.step = n - 1 /\ p.z > 0 /\ kernel.z > 0
      /\ kernel \in [step : Nat, r : Int, z : Int, cross : Fraction, landing : Fraction,
                     hang : Fraction, done : BOOLEAN]
    BY DEF FlightTypes, Flying
<1>3. ground \in Fraction /\ hang \in Fraction
    BY <1>1, GroundTyped
<1>4. kernel' = [kernel EXCEPT !.step = n, !.cross = kernel.cross, !.done = TRUE,
                               !.landing = ground, !.hang = hang]
    <2>1. ~(q.z > 0) /\ kernel.step + 1 = n
        BY <1>1, <1>2 DEF Sample
    <2>2. KernelCross(q) = kernel.cross
        BY <2>1 DEF KernelCross
    <2> QED
        BY <1>1, <1>2, <2>1, <2>2 DEF Step, KernelStep
<1>5. /\ kernel' \in [step : Nat, r : Int, z : Int, cross : Fraction, landing : Fraction,
                      hang : Fraction, done : BOOLEAN]
      /\ kernel'.done = TRUE /\ kernel'.landing = ground /\ kernel'.hang = hang
      /\ kernel'.cross = kernel.cross
    BY <1>1, <1>2, <1>3, <1>4
<1>6. landed' = TRUE
    BY <1>2 DEF Step
<1>7. FlightTypes'
    BY <1>1, <1>5, <1>6 DEF FlightTypes
<1>8. HangTime' = hang
    BY <1>1 DEF HangTime
<1>9. \A c \in Int : AtLeast(LandingXY', c) <=> AtLeast(ground, c)
    <2>1. CASE q.z < 0
        BY <1>1, <1>2, <2>1 DEF LandingXY
    <2>2. CASE q.z = 0
        <3>1. LandingXY' = <<q.r, 1>>
            BY <1>1, <2>2 DEF LandingXY
        <3> QED
            BY <1>1, <1>2, <2>2, <3>1, GroundAtTheEnd
    <2> QED
        BY <2>1, <2>2 DEF Sample
<1> HIDE DEF ground, hang
<1>10. PICK xy, height : xy = LandingXY' /\ height = CrossingHeight'
    OBVIOUS
<1>11. /\ Decide(fair, xy, hang, height) = Decide(fair, ground, hang, kernel.cross)
       /\ Decide(fair, xy, hang, height) \in Outcomes
    BY <1>1, <1>9, <1>10, CrossesOnTheGround, DecideAlike
<1>12. ClassifyOutcome' = Decide(fair, xy, hang, height)
    BY <1>1, <1>6, <1>8, <1>10 DEF ClassifyOutcome, Decide
<1>13. KernelOutcome' = Decide(fair, ground, hang, kernel.cross)
    BY <1>1, <1>5 DEF KernelOutcome, Decide
<1> QED
    BY <1>6, <1>7, <1>11, <1>12, <1>13 DEF FlightInv, Agree

LEMMA FlightGoesOn == FlightInv /\ [FlightNext]_flightVars => FlightInv'
<1> SUFFICES ASSUME FlightInv, [FlightNext]_flightVars PROVE FlightInv'
    OBVIOUS
<1>1. CASE UNCHANGED flightVars
    <2>1. UNCHANGED <<fence, fair, landed, pos, kernel>>
        BY <1>1 DEF flightVars
    <2>2. FlightTypes' = FlightTypes /\ LastSample' = LastSample /\ Reached' = Reached
        BY <2>1 DEF FlightTypes, LastSample, Reached
    <2>3. Flying' = Flying
        BY <2>1, <2>2 DEF Flying
    <2>4. ClassifyOutcome' = ClassifyOutcome /\ KernelOutcome' = KernelOutcome
        BY <2>1, <2>2 DEF ClassifyOutcome, KernelOutcome, Decide, CrossingHeight, LandingXY, HangTime,
            Before, Reached
    <2> QED
        BY <2>1, <2>2, <2>3, <2>4 DEF FlightInv, Agree
<1>2. CASE FlightNext
    <2>1. FlightTypes /\ ~landed
        BY <1>2 DEF FlightNext, Step, FlightInv
    <2>2. Flying
        BY <2>1 DEF FlightInv
    <2>3. LastSample.r \in Int /\ LastSample.z \in Int
        <3>1. LastSample \in Sample
            BY <2>1 DEF FlightTypes, LastSample
        <3> QED
            BY <3>1 DEF Sample
    <2>4. PICK dr \in 0 .. MaxReach, dz \in (-MaxDrop) .. MaxRise :
            Step([r |-> LastSample.r + dr, z |-> LastSample.z + dz])
        BY <1>2 DEF FlightNext
    <2>5. PICK q : q = [r |-> LastSample.r + dr, z |-> LastSample.z + dz]
        OBVIOUS
    <2>6. q \in Sample /\ Step(q)
        BY <2>3, <2>4, <2>5 DEF Sample
    <2>7. q.z > 0 \/ q.z <= 0
        BY <2>6 DEF Sample
    <2> QED
        BY <2>1, <2>2, <2>6, <2>7, StepInTheAir, StepToTheGround
<1> QED
    BY <1>1, <1>2

\* Whatever the flight, the fence and the thresholds of the decision, the fused
\* kernel gives a ball the outcome that the walk over the record gives it.
THEOREM KernelsAgree == FlightSpec => []FusedAgrees
<1>1. FlightInv => FusedAgrees
    <2> SUFFICES ASSUME FlightInv, ~landed PROVE Agree
        BY DEF FlightInv, FusedAgrees, Agree
    <2>1. ~kernel.done
        BY DEF FlightInv, Flying
    <2> QED
        BY <2>1 DEF Agree, ClassifyOutcome, KernelOutcome, Outcomes
<1> QED
    BY <1>1, FlightStarts, FlightGoesOn, PTL DEF FlightSpec

=============================================================================
