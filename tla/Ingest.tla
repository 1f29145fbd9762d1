------------------------------- MODULE Ingest -------------------------------
(***************************************************************************)
(* The ingest command lines of the training package: statcast_pull loads   *)
(* one month of pitches at a time into raw_statcast, transform_pitches     *)
(* cleans a year of it into pitches, and both apply the ClickHouse         *)
(* migrations first.  They are separate processes that anyone may start,   *)
(* and each may be killed between two statements; ClickHouse has no        *)
(* transaction that spans statements.                                      *)
(***************************************************************************)
EXTENDS Integers, FiniteSets, FiniteSetsExt, Bags

CONSTANTS LastMonth,        \* the season's months are 1..LastMonth
          Pitches,          \* identities (game_pk, at_bat_index, pitch_number)
          Unkeyed,          \* those Statcast serves without a pitch number
          ZeroKey,          \* the identity with 0 for the missing number
          Regular,          \* the keys of regular-season games
          ChunkSize,        \* rows of one INSERT of insert_dataframe
          Attempts,         \* tries of one month's download
          MinRows, MaxRows, \* 700,000 +- 5 %
          InSeason,         \* the year transformed is not over yet
          FloorRows,        \* IN_SEASON_MIN_ROWS
          Migrations,       \* the V*.sql files, in name order: 1..Migrations
          Statements,       \* statements of one file
          MaxRepublish      \* bound: changes Statcast makes to what it serves

ASSUME IngestAssumption ==
    /\ LastMonth \in Nat \ {0} /\ ChunkSize \in Nat \ {0} /\ Attempts \in Nat \ {0}
    /\ InSeason \in BOOLEAN /\ FloorRows \in Nat
    /\ MinRows \in Nat /\ MaxRows \in Nat /\ IsFiniteSet(Pitches)
    /\ Unkeyed \subseteq Pitches /\ ZeroKey \notin Pitches
    /\ Regular \subseteq Pitches \union {ZeroKey}
    /\ Migrations \in Nat /\ Statements \in Nat \ {0}

Months == 1 .. LastMonth
Keys == Pitches \union {ZeroKey}
Commands == {"pull", "transform"}

\* A row of raw_statcast: the pitch, the month of its game_date, and the
\* upstream revision its other columns come from.
Row == [pitch : Keys, month : Months, rev : Nat]

VARIABLES
    source,      \* what Statcast serves: a set of rows, one per pitch at most
    raw,         \* raw_statcast, a MergeTree partitioned by month: a bag per month
    pitches,     \* pitches FINAL: (game_date, pitch) -> revision, 0 when absent
    executed,    \* statements of each migration that have run
    tracked,     \* versions recorded in _schema_migrations
    migrating,   \* per command: [seen, at, stmt] of its apply_migrations
    pull,        \* the pull: [pc, month, tries, rows, chunks, verdict]
    transform,   \* the transform: [pc, verdict]
    republished  \* counts the changes upstream

vars == <<source, raw, pitches, executed, tracked, migrating, pull, transform, republished>>

pullIdle == [pc |-> "idle", month |-> 1, tries |-> 0, rows |-> {},
             chunks |-> [m \in Months |-> "none"], verdict |-> "none"]
transformIdle == [pc |-> "idle", verdict |-> "none"]
notMigrating == [seen |-> {}, at |-> 1, stmt |-> 0]

TypeOK ==
    /\ source \subseteq Row
    /\ DOMAIN raw = Months /\ \A m \in Months : IsABag(raw[m]) /\ BagToSet(raw[m]) \subseteq Row
    /\ pitches \in [Months \X Keys -> Nat]
    /\ executed \in [1 .. Migrations -> 0 .. Statements]
    /\ tracked \subseteq 1 .. Migrations
    /\ migrating \in [Commands -> [seen : SUBSET (1 .. Migrations),
                                   at : 1 .. Migrations + 1, stmt : 0 .. Statements]]
    /\ pull.pc \in {"idle", "migrate", "fetch", "drop", "insert", "assert"}
    /\ pull.month \in 1 .. LastMonth + 1 /\ pull.tries \in 0 .. Attempts - 1
    /\ pull.rows \subseteq Row
    /\ pull.chunks \in [Months -> {"none", "failed", "empty", "ok"}]
    /\ pull.verdict \in {"none", "passed", "failed"}
    /\ transform \in [pc : {"idle", "migrate", "insert", "assert"},
                      verdict : {"none", "passed", "failed"}]

Init ==
    /\ source = {[pitch |-> p, month |-> CHOOSE m \in Months : TRUE, rev |-> 1] : p \in Pitches}
    /\ raw = [m \in Months |-> EmptyBag]
    /\ pitches = [mp \in Months \X Keys |-> 0]
    /\ executed = [v \in 1 .. Migrations |-> 0]
    /\ tracked = {}
    /\ migrating = [c \in Commands |-> notMigrating]
    /\ pull = pullIdle
    /\ transform = transformIdle
    /\ republished = 0

(***************************************************************************)
(* Statcast corrects what it served: a row's columns change, its game is   *)
(* moved to another date, or it disappears.                                *)
(***************************************************************************)
Republish(row) ==
    /\ republished < MaxRepublish
    /\ republished' = republished + 1
    /\ \/ source' = source \ {row}
       \/ \E m \in Months :
            source' = (source \ {row}) \union {[row EXCEPT !.month = m, !.rev = @ + 1]}
    /\ UNCHANGED <<raw, pitches, executed, tracked, migrating, pull, transform>>

(***************************************************************************)
(* apply_migrations reads the recorded versions once; of each file that    *)
(* is not among them it runs the statements one by one and then records    *)
(* the version.  The statements are all IF NOT EXISTS or a MODIFY, so one  *)
(* that has run before changes nothing.                                    *)
(***************************************************************************)
StartMigrating(c) == migrating' = [migrating EXCEPT ![c] = [seen |-> tracked, at |-> 1, stmt |-> 0]]

NextMigration(c) == [migrating EXCEPT ![c].at = @ + 1, ![c].stmt = 0]

\* A fault for the mutants: the version is recorded before its statements.
TrackFirst(c) ==
    LET mig == migrating[c] IN
    /\ mig.at <= Migrations
    /\ \/ /\ mig.at \in mig.seen
          /\ migrating' = NextMigration(c)
          /\ UNCHANGED <<executed, tracked>>
       \/ /\ mig.at \notin mig.seen /\ mig.at \notin tracked
          /\ tracked' = tracked \union {mig.at}
          /\ UNCHANGED <<executed, migrating>>
       \/ /\ mig.at \in tracked \ mig.seen
          /\ executed' = [executed EXCEPT ![mig.at] = Statements]
          /\ migrating' = NextMigration(c)
          /\ UNCHANGED tracked

ApplyMigration(c) ==
    LET mig == migrating[c] IN
    /\ mig.at <= Migrations
    /\ \/ /\ mig.at \in mig.seen
          /\ migrating' = NextMigration(c)
          /\ UNCHANGED <<executed, tracked>>
       \/ /\ mig.at \notin mig.seen /\ mig.stmt < Statements
          /\ migrating' = [migrating EXCEPT ![c].stmt = @ + 1]
          /\ executed' = [executed EXCEPT ![mig.at] = IF @ > mig.stmt THEN @ ELSE mig.stmt + 1]
          /\ UNCHANGED tracked
       \/ /\ mig.at \notin mig.seen /\ mig.stmt = Statements
          /\ migrating' = NextMigration(c)
          /\ tracked' = tracked \union {mig.at}
          /\ UNCHANGED executed

Migrate(c) ==
    /\ (IF c = "pull" THEN pull.pc ELSE transform.pc) = "migrate"
    /\ ApplyMigration(c)
    /\ UNCHANGED <<source, raw, pitches, pull, transform, republished>>

Migrated(c) == migrating[c].at > Migrations

(***************************************************************************)
(* statcast_pull.run_pull: for each month download, drop the partition,    *)
(* insert in chunks.  A month that cannot be downloaded, or that comes     *)
(* back empty, keeps its old partition and the pull goes on.               *)
(***************************************************************************)
StartPull ==
    /\ pull.pc = "idle"
    /\ pull' = [pullIdle EXCEPT !.pc = "migrate"]
    /\ StartMigrating("pull")
    /\ UNCHANGED <<source, raw, pitches, executed, tracked, transform, republished>>

BeginMonths ==
    /\ pull.pc = "migrate" /\ Migrated("pull")
    /\ pull' = [pull EXCEPT !.pc = "fetch"]
    /\ UNCHANGED <<source, raw, pitches, executed, tracked, migrating, transform, republished>>

\* normalize_columns: a missing number in the key becomes 0, not NULL.
Normalize(row) == IF row.pitch \in Unkeyed THEN [row EXCEPT !.pitch = ZeroKey] ELSE row

\* The chunk of this month is over: the next month, or the assertions.
MonthDone(status) ==
    [pull EXCEPT !.pc = IF pull.month = LastMonth THEN "assert" ELSE "fetch",
                 !.month = @ + 1, !.tries = 0, !.rows = {}, !.chunks[pull.month] = status]

FetchFails ==
    /\ pull.pc = "fetch"
    /\ pull' = IF pull.tries + 1 < Attempts THEN [pull EXCEPT !.tries = @ + 1]
                                            ELSE MonthDone("failed")
    /\ UNCHANGED <<source, raw, pitches, executed, tracked, migrating, transform, republished>>

Fetch ==
    /\ pull.pc = "fetch"
    /\ LET rows == {Normalize(r) : r \in {r \in source : r.month = pull.month}}
       IN  pull' = IF rows = {} THEN MonthDone("empty")
                                ELSE [pull EXCEPT !.pc = "drop", !.rows = rows]
    /\ UNCHANGED <<source, raw, pitches, executed, tracked, migrating, transform, republished>>

\* A fault for the mutants: the month is loaded over what is there.
DropNothing ==
    /\ pull.pc = "drop"
    /\ pull' = [pull EXCEPT !.pc = "insert"]
    /\ UNCHANGED <<source, raw, pitches, executed, tracked, migrating, transform, republished>>

DropPartition ==
    /\ pull.pc = "drop"
    /\ raw' = [raw EXCEPT ![pull.month] = EmptyBag]
    /\ pull' = [pull EXCEPT !.pc = "insert"]
    /\ UNCHANGED <<source, pitches, executed, tracked, migrating, transform, republished>>

InsertChunk ==
    /\ pull.pc = "insert"
    /\ \E chunk \in SUBSET pull.rows :
        /\ Cardinality(chunk) = IF Cardinality(pull.rows) < ChunkSize
                                THEN Cardinality(pull.rows) ELSE ChunkSize
        /\ raw' = [raw EXCEPT ![pull.month] = @ (+) SetToBag(chunk)]
        /\ pull' = IF chunk = pull.rows THEN MonthDone("ok")
                                        ELSE [pull EXCEPT !.rows = @ \ chunk]
    /\ UNCHANGED <<source, pitches, executed, tracked, migrating, transform, republished>>

RawRows == UNION {BagToSet(raw[m]) : m \in Months}
Key(row) == <<row.month, row.pitch>>
RegularRows == {r \in RawRows : r.pitch \in Regular}

InBand(count) == MinRows <= count /\ count <= MaxRows

\* assert_row_count_in_range on the season's regular rows, then
\* assert_no_null_pks on all of them.  A failure is logged and the pull ends
\* normally.
RawRegularCount ==
    MapThenSumSet(LAMBDA r : raw[r.month][r], RegularRows)

NoNullPks == \A r \in RawRows : r.pitch \notin Unkeyed

AssertPull ==
    /\ pull.pc = "assert"
    /\ pull' = [pull EXCEPT !.pc = "idle",
                            !.verdict = IF InBand(RawRegularCount) /\ NoNullPks THEN "passed" ELSE "failed"]
    /\ UNCHANGED <<source, raw, pitches, executed, tracked, migrating, transform, republished>>

(***************************************************************************)
(* transform_pitches.run_transform: one INSERT ... SELECT of the year's    *)
(* regular rows, OPTIMIZE FINAL, then the assertions on pitches FINAL, the *)
(* first of which to fail raises.  pitches is a ReplacingMergeTree on      *)
(* (game_date, pitch), so FINAL shows the row inserted last for a key and  *)
(* keeps a key that raw_statcast no longer has.                            *)
(***************************************************************************)
StartTransform ==
    /\ transform.pc = "idle"
    /\ transform' = [transformIdle EXCEPT !.pc = "migrate"]
    /\ StartMigrating("transform")
    /\ UNCHANGED <<source, raw, pitches, executed, tracked, pull, republished>>

BeginInsert ==
    /\ transform.pc = "migrate" /\ Migrated("transform")
    /\ transform' = [transform EXCEPT !.pc = "insert"]
    /\ UNCHANGED <<source, raw, pitches, executed, tracked, migrating, pull, republished>>

TransformInsert ==
    /\ transform.pc = "insert"
    /\ \E kept \in SUBSET RegularRows :      \* the last of the rows with one key
        /\ \A r \in RegularRows : \E s \in kept : Key(s) = Key(r)
        /\ \A r, s \in kept : Key(r) = Key(s) => r = s
        /\ pitches' = [k \in DOMAIN pitches |->
               IF \E r \in kept : Key(r) = k
               THEN (CHOOSE r \in kept : Key(r) = k).rev ELSE pitches[k]]
    /\ transform' = [transform EXCEPT !.pc = "assert"]
    /\ UNCHANGED <<source, raw, executed, tracked, migrating, pull, republished>>

Cleaned == {k \in Months \X Keys : pitches[k] > 0}

\* regular_season_count and dedup_consistency.  The other four gates look at
\* columns this model leaves out.
RegularSeasonCount == IF InSeason THEN Cardinality(Cleaned) >= FloorRows
                                  ELSE InBand(Cardinality(Cleaned))
\* A fault for the mutants: the gate has no entry in the table, so it is skipped.
DedupSkipped == TRUE
DedupConsistency == Cardinality(Cleaned) = Cardinality({k[2] : k \in Cleaned})

RunAssertions ==
    /\ transform.pc = "assert"
    /\ transform' = [pc |-> "idle",
                     verdict |-> IF RegularSeasonCount /\ DedupConsistency
                                 THEN "passed" ELSE "failed"]
    /\ UNCHANGED <<source, raw, pitches, executed, tracked, migrating, pull, republished>>

\* Either process is killed, between two statements of its own.
KillPull ==
    /\ pull.pc # "idle"
    /\ pull' = pullIdle
    /\ migrating' = [migrating EXCEPT !["pull"] = notMigrating]
    /\ UNCHANGED <<source, raw, pitches, executed, tracked, transform, republished>>

KillTransform ==
    /\ transform.pc # "idle"
    /\ transform' = transformIdle
    /\ migrating' = [migrating EXCEPT !["transform"] = notMigrating]
    /\ UNCHANGED <<source, raw, pitches, executed, tracked, pull, republished>>

PullNext == StartPull \/ BeginMonths \/ FetchFails \/ Fetch \/ DropPartition
            \/ InsertChunk \/ AssertPull \/ KillPull
TransformNext == StartTransform \/ BeginInsert \/ TransformInsert \/ RunAssertions
                 \/ KillTransform
Next == PullNext \/ TransformNext \/ (\E c \in Commands : Migrate(c))
        \/ (\E row \in source : Republish(row))

Spec == Init /\ [][Next]_vars

(***************************************************************************)
(* Properties.                                                             *)
(***************************************************************************)
\* However often a month is pulled, killed half way and pulled again, with
\* Statcast changing in between, its partition holds a pitch at most once,
\* in one copy (statcast_pull.py: "re-running leaves the row count unchanged").
\* The pitches without a number share ZeroKey, and nothing keeps them apart.
\* And a transform that ended without an AssertionFailure leaves each pitch under
\* one date only, although FINAL keeps the old key of a game whose date moved.
OneRowPerPitch ==
    /\ \A m \in Months : \A r, s \in BagToSet(raw[m]) :
          (r.pitch = s.pitch /\ r.pitch # ZeroKey) => (r = s /\ raw[m][r] = 1)
    /\ (transform.pc = "idle" /\ transform.verdict = "passed") =>
          \A k, l \in Cleaned : k[2] = l[2] => k = l

\* A version is recorded only when all its statements and those of the files
\* before it have run, and neither command reads or writes a table before
\* that, however the two runners interleave and wherever they are killed.
TrackedIsApplied ==
    LET complete(v) == executed[v] = Statements IN
    /\ \A v \in tracked : \A u \in 1 .. v : complete(u)
    /\ (pull.pc \notin {"idle", "migrate"} \/ transform.pc \notin {"idle", "migrate"})
            => \A v \in 1 .. Migrations : complete(v)
=============================================================================
