---------------------------- MODULE LivePolling ----------------------------
(***************************************************************************)
(* The live-game write loop of one game: the MLB feed, the worker          *)
(* instances that poll it under the lease job_leases, and the pitches they *)
(* store in ClickHouse.                                                    *)
(*                                                                         *)
(* A tick renews or takes the lease, may refresh the schedule, and, when   *)
(* the game is due, fetches the feed, writes the pitches past its cursor   *)
(* and then the balls in play whose physics arrived since.  The cursor and *)
(* the other maps of LivePollingService live in the process and are gone   *)
(* after a restart, which also brings a new owner id.  pitches_live is a   *)
(* ReplacingMergeTree: of a pitch's inserts the last one counts.           *)
(*                                                                         *)
(* Every pollable status is "live" and every terminal one "final"; the     *)
(* cadence is not modelled: a tick finds the game due or not.              *)
(***************************************************************************)
EXTENDS Naturals

CONSTANTS
    Instances,            \* worker processes
    N,                    \* bound: pitches of the game, numbered by cursor
    InPlay,               \* the pitches that are balls in play
    TickOutlivesLease     \* can a tick take longer than leaseStaleSeconds?

ASSUME PitchesAssumption == N \in Nat /\ InPlay \subseteq 1..N
ASSUME LeaseAssumption == TickOutlivesLease \in BOOLEAN

VARIABLES
    feed,      \* what MLB serves: [status, count, physics]
    today,     \* is the game's date today's (ET)?
    lease,     \* the row live_polling of job_leases: [owner, stale]
    proc,      \* proc[i]: where instance i is, and its maps
    table      \* pitches_live: what it has of each pitch

vars == <<feed, today, lease, proc, table>>

Pitches == 1..N
Feed == [status : {"live", "final"}, count : 0..N, physics : SUBSET InPlay]
EmptyFeed == [status |-> "live", count |-> 0, physics |-> {}]

\* The lease has no owner, one of the processes, or one that is gone.
NoOwner == "none"
Gone == "gone"
ASSUME OwnersAssumption == NoOwner \notin Instances /\ Gone \notin Instances
Lease == [owner : {NoOwner, Gone} \union Instances, stale : BOOLEAN]

\* The state of a process: the status it knows the game by ("none" if it does
\* not), lastCursorByGame, battedBallWritten, and the feed it has fetched.
Proc == [pc : {"down", "idle", "fetching", "writing", "backfilling"},
         status : {"none", "live", "final"}, cursor : 0..N, written : SUBSET InPlay,
         snap : Feed]
Fresh == [pc |-> "idle", status |-> "none", cursor |-> 0, written |-> {}, snap |-> EmptyFeed]

Ticking(i) == proc[i].pc \in {"fetching", "writing", "backfilling"}

Set(i, state) == proc' = [proc EXCEPT ![i] = state]

\* The end of a poll of i, with what it keeps.
Done(state) == [state EXCEPT !.pc = "idle", !.snap = EmptyFeed]

-----------------------------------------------------------------------------
(* The game *)

PitchThrown ==
    /\ feed.status = "live" /\ feed.count < N
    /\ feed' = [feed EXCEPT !.count = @ + 1]
    /\ UNCHANGED <<today, lease, proc, table>>

\* The physics of a ball in play, in any order and also after the game.
PhysicsArrives(p) ==
    /\ p \in 1..feed.count \ feed.physics
    /\ feed' = [feed EXCEPT !.physics = @ \union {p}]
    /\ UNCHANGED <<today, lease, proc, table>>

GameEnds ==
    /\ feed.status = "live"
    /\ feed' = [feed EXCEPT !.status = "final"]
    /\ UNCHANGED <<today, lease, proc, table>>

DateRolls ==
    /\ today
    /\ today' = FALSE
    /\ UNCHANGED <<feed, lease, proc, table>>

-----------------------------------------------------------------------------
(* The lease *)

LeaseAges ==
    /\ lease.owner # NoOwner /\ ~lease.stale
    /\ TickOutlivesLease \/ \A i \in Instances : lease.owner = i => ~Ticking(i)
    /\ lease' = [lease EXCEPT !.stale = TRUE]
    /\ UNCHANGED <<feed, today, proc, table>>

\* Fault: the upsert's guard is missing.
AnyLease(i) == TRUE

\* Fault: only the owner itself renews; nobody takes over.
OwnLease(i) == lease.owner \in {NoOwner, i}

\* tryAcquireOrRenew: an insert, or an update of an own or a stale row.
Acquirable(i) == lease.owner \in {NoOwner, i} \/ lease.stale

\* refreshScheduleIfStale: the game is listed today, and is known from then on
\* by the status it has, unless it is known already.
Refreshed(state) ==
    IF ~today THEN Fresh
    ELSE IF state.status = "none" THEN [state EXCEPT !.status = feed.status]
    ELSE state

\* A tick of the instance that has the lease.  The schedule is refreshed when it
\* is old enough and the call succeeds; a game that is no longer listed is
\* evicted from the maps.
Tick(i, refresh, due) ==
    LET state == IF refresh THEN Refreshed(proc[i]) ELSE proc[i]
    IN /\ proc[i].pc = "idle"
       /\ Acquirable(i)
       /\ lease' = [owner |-> i, stale |-> FALSE]
       /\ Set(i, IF due /\ state.status = "live" THEN [state EXCEPT !.pc = "fetching"] ELSE state)
       /\ UNCHANGED <<feed, today, table>>

-----------------------------------------------------------------------------
(* pollGame *)

\* The fetched status is adopted at once.
Adopted(i) == [proc[i] EXCEPT !.status = feed.status]

Fetch(i) ==
    /\ proc[i].pc = "fetching"
    /\ Set(i, [Adopted(i) EXCEPT !.pc = "writing", !.snap = feed])
    /\ UNCHANGED <<feed, today, lease, table>>

\* The fetch fails, or the write of the status row does.
FetchFails(i) ==
    /\ proc[i].pc = "fetching"
    /\ \E state \in {proc[i], Adopted(i)} : Set(i, Done(state))
    /\ UNCHANGED <<feed, today, lease, table>>

Stored(pitches, physics) ==
    [p \in Pitches |->
        IF p \in pitches THEN IF p \in physics THEN "physics" ELSE "bare"
        ELSE table[p]]

NewPitches(i) == proc[i].cursor + 1 .. proc[i].snap.count

InsertNew(i) == Stored(NewPitches(i), proc[i].snap.physics)

\* writeNewPitches.
WriteNewPitches(i) ==
    /\ proc[i].pc = "writing"
    /\ table' = InsertNew(i)
    /\ Set(i, [proc[i] EXCEPT
                  !.pc = "backfilling",
                  !.cursor = IF NewPitches(i) = {} THEN @ ELSE proc[i].snap.count,
                  !.written = @ \union (NewPitches(i) \intersect proc[i].snap.physics)])
    /\ UNCHANGED <<feed, today, lease>>

\* Fault: the cursor is moved before the insert.
WriteFailsLate(i) ==
    /\ proc[i].pc = "writing" /\ NewPitches(i) # {}
    /\ table' \in {table, InsertNew(i)}
    /\ Set(i, Done([proc[i] EXCEPT !.cursor = proc[i].snap.count]))
    /\ UNCHANGED <<feed, today, lease>>

\* The insert throws, having been applied or not; the poll of the game ends.
WriteFails(i) ==
    /\ proc[i].pc = "writing" /\ NewPitches(i) # {}
    /\ table' \in {table, InsertNew(i)}
    /\ Set(i, Done(proc[i]))
    /\ UNCHANGED <<feed, today, lease>>

\* Fault: a high-water mark in place of the set, as an earlier version had it.
CompletedAboveMark(i) ==
    {p \in proc[i].snap.physics : \A q \in proc[i].written : q < p}

\* The balls in play with physics that was not written yet.
Completed(i) == proc[i].snap.physics \ proc[i].written

InsertCompleted(i) == Stored(Completed(i), Completed(i))

\* Fault: the physics counts as written although the insert threw.
BackfillFailsLate(i) ==
    /\ proc[i].pc = "backfilling" /\ Completed(i) # {}
    /\ table' \in {table, InsertCompleted(i)}
    /\ Set(i, Done([proc[i] EXCEPT !.written = @ \union Completed(i)]))
    /\ UNCHANGED <<feed, today, lease>>

\* backfillCompletedBattedBalls, the end of the poll.
Backfill(i) ==
    /\ proc[i].pc = "backfilling"
    /\ table' = InsertCompleted(i)
    /\ Set(i, Done([proc[i] EXCEPT !.written = @ \union Completed(i)]))
    /\ UNCHANGED <<feed, today, lease>>

BackfillFails(i) ==
    /\ proc[i].pc = "backfilling" /\ Completed(i) # {}
    /\ table' \in {table, InsertCompleted(i)}
    /\ Set(i, Done(proc[i]))
    /\ UNCHANGED <<feed, today, lease>>

-----------------------------------------------------------------------------
(* The process *)

Crash(i) ==
    /\ proc[i].pc # "down"
    /\ Set(i, [Fresh EXCEPT !.pc = "down"])
    /\ lease' = [lease EXCEPT !.owner = IF @ = i THEN Gone ELSE @]
    /\ UNCHANGED <<feed, today, table>>

Restart(i) ==
    /\ proc[i].pc = "down"
    /\ Set(i, Fresh)
    /\ UNCHANGED <<feed, today, lease, table>>

Init ==
    /\ feed = EmptyFeed
    /\ today = TRUE
    /\ lease = [owner |-> NoOwner, stale |-> FALSE]
    /\ proc = [i \in Instances |-> Fresh]
    /\ table = [p \in Pitches |-> "none"]

GameNext == PitchThrown \/ (\E p \in InPlay : PhysicsArrives(p)) \/ GameEnds \/ DateRolls

PollNext(i) ==
    \/ Fetch(i) \/ FetchFails(i)
    \/ WriteNewPitches(i) \/ WriteFails(i)
    \/ Backfill(i) \/ BackfillFails(i)

ProcNext(i) ==
    \/ \E refresh, due \in BOOLEAN : Tick(i, refresh, due)
    \/ PollNext(i)
    \/ Crash(i) \/ Restart(i)

Next == GameNext \/ LeaseAges \/ \E i \in Instances : ProcNext(i)

Spec == Init /\ [][Next]_vars

\* The scheduler ticks, time passes and processes are restarted.  Calls and
\* processes may fail again and again, but not every time.
Fairness ==
    /\ WF_vars(LeaseAges)
    /\ \A i \in Instances :
          /\ WF_vars(Restart(i))
          /\ SF_vars(Tick(i, TRUE, TRUE))
          /\ SF_vars(Fetch(i)) /\ SF_vars(WriteNewPitches(i)) /\ SF_vars(Backfill(i))

FairSpec == Spec /\ Fairness

-----------------------------------------------------------------------------
(* Properties *)

TypeOK ==
    /\ feed \in Feed
    /\ today \in BOOLEAN
    /\ lease \in Lease
    /\ proc \in [Instances -> Proc]
    /\ \A i \in Instances : proc[i].written \subseteq 1..proc[i].cursor
    /\ table \in [Pitches -> {"none", "bare", "physics"}]

\* As long as no tick outlives the lease, one instance at a time is polling, also
\* while leases go stale, owners die and come back under a new id.
OnePoller ==
    ~TickOutlivesLease => \A i, j \in Instances : Ticking(i) /\ Ticking(j) => i = j

\* The cursor of an instance never passes a pitch that is not in the table:
\* such a pitch would never be written by it.
CursorCovered ==
    \A i \in Instances : \A p \in 1..proc[i].cursor : table[p] # "none"

\* A ball in play that an instance takes for written has its physics in the
\* table, and no later insert of another instance took it away.
PhysicsKept ==
    ~TickOutlivesLease => \A i \in Instances : \A p \in proc[i].written : table[p] = "physics"

GameOver == feed.status = "final" \/ ~today

\* Each pitch of a live game is stored at last, whatever calls fail and whichever
\* instance crashes, unless the game ends or its date passes before.
LiveGameKeepsUp ==
    \A p \in Pitches : p <= feed.count ~> table[p] # "none" \/ GameOver

\* So is the physics of each ball in play, in whatever order it arrives.
PhysicsKeepsUp ==
    \A p \in InPlay : p \in feed.physics ~> table[p] = "physics" \/ GameOver

-----------------------------------------------------------------------------
(* Statements of the repository that the code does not keep *)

\* "The next tick retries this game on its own cadence": after a failed insert
\* that left a pitch out, the instance still polls the game.
FailedPollIsRetried ==
    [][\A i \in Instances :
          WriteFails(i) /\ (\E p \in NewPitches(i) : table'[p] = "none")
              => proc'[i].status = "live"]_vars
=============================================================================
