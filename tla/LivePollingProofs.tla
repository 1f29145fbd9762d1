------------------------- MODULE LivePollingProofs -------------------------
(***************************************************************************)
(* Theorems about LivePolling, for any set of instances, any number of     *)
(* pitches and any of them in play.                                        *)
(***************************************************************************)
EXTENDS LivePolling, TLAPS

USE PitchesAssumption, LeaseAssumption, OwnersAssumption

-----------------------------------------------------------------------------
(* The inductive invariant of the cursors *)

States == {"none", "bare", "physics"}

\* What a feed is: physics only of pitches that were thrown.
FeedOK(f) == f \in Feed /\ f.physics \subseteq 1..f.count

\* What the process s has behind it is in the table t, and it never backfills
\* past its cursor.
Covered(s, t) ==
    /\ s \in Proc
    /\ s.written \subseteq 1..s.cursor
    /\ FeedOK(s.snap)
    /\ s.pc = "backfilling" => s.snap.count <= s.cursor
    /\ \A p \in 1..s.cursor : t[p] # "none"

CursorInv ==
    /\ FeedOK(feed)
    /\ today \in BOOLEAN
    /\ lease \in Lease
    /\ table \in [Pitches -> States]
    /\ DOMAIN proc = Instances
    /\ proc = [i \in Instances |-> proc[i]]
    /\ \A i \in Instances : Covered(proc[i], table)

\* A pitch stays stored.
Grows(t, u) ==
    /\ u \in [Pitches -> States]
    /\ \A p \in Pitches : t[p] # "none" => u[p] # "none"

\* An insert never unstores a pitch, and stores its own.
LEMMA StoredEffect ==
    ASSUME table \in [Pitches -> States], NEW P, NEW Q
    PROVE  /\ Grows(table, Stored(P, Q))
           /\ \A p \in Pitches : p \in P => Stored(P, Q)[p] # "none"
           /\ \A p \in Pitches : p \in P \intersect Q => Stored(P, Q)[p] = "physics"
           /\ \A p \in Pitches : p \notin P => Stored(P, Q)[p] = table[p]
           /\ \A p \in Pitches : Stored(P, Q)[p] = "physics" => p \in Q \/ table[p] = "physics"
    BY DEF Grows, Stored, States

\* Cursors stay within the pitches.
LEMMA CoveredRange ==
    ASSUME NEW s \in Proc PROVE 1..s.cursor \subseteq Pitches /\ 1..s.snap.count \subseteq Pitches
    BY DEF Proc, Pitches, Feed

\* What a process has behind it stays in a table that grows.
LEMMA CoveredGrows ==
    ASSUME NEW s, NEW t, NEW u, Covered(s, t), Grows(t, u)
    PROVE  Covered(s, u)
    BY CoveredRange DEF Covered, Grows

\* A fresh process, running or down, has nothing behind it.
LEMMA FreshCovered ==
    ASSUME NEW t PROVE Covered(Fresh, t) /\ Covered([Fresh EXCEPT !.pc = "down"], t)
<1>1. EmptyFeed \in Feed /\ EmptyFeed.physics = {} /\ EmptyFeed.count = 0
    BY DEF EmptyFeed, Feed
<1>2. Fresh \in Proc /\ [Fresh EXCEPT !.pc = "down"] \in Proc
    BY <1>1 DEF Fresh, Proc
<1> QED
    BY <1>1, <1>2 DEF Covered, FeedOK, Fresh

\* The end of a poll forgets the feed only.
LEMMA DoneCovered ==
    ASSUME NEW s, NEW t, Covered(s, t)
    PROVE  Covered(Done(s), t)
<1>1. EmptyFeed \in Feed /\ EmptyFeed.physics = {} /\ EmptyFeed.count = 0
    BY DEF EmptyFeed, Feed
<1>2. Done(s) \in Proc
    BY <1>1 DEF Covered, Done, Proc
<1> QED
    BY <1>1, <1>2 DEF Covered, FeedOK, Done, Proc

\* A step of one process that grows the table keeps the others covered.
LEMMA SetCovered ==
    ASSUME CursorInv, NEW i \in Instances, NEW s, Set(i, s),
           FeedOK(feed'), today' \in BOOLEAN, lease' \in Lease,
           Grows(table, table'), Covered(s, table')
    PROVE  CursorInv'
<1>1. \A j \in Instances : proc'[j] = IF j = i THEN s ELSE proc[j]
    BY DEF Set, CursorInv
<1>2. DOMAIN proc' = Instances /\ proc' = [j \in Instances |-> proc'[j]]
    BY DEF Set, CursorInv
<1>3. \A j \in Instances : Covered(proc'[j], table')
    BY <1>1, CoveredGrows DEF CursorInv
<1> QED
    BY <1>2, <1>3 DEF CursorInv, Grows

\* So does a step of the game or of the clock.
LEMMA WorldCovered ==
    ASSUME CursorInv, UNCHANGED <<proc, table>>,
           FeedOK(feed'), today' \in BOOLEAN, lease' \in Lease
    PROVE  CursorInv'
    BY DEF CursorInv

\* Nothing is stored and no cursor is set at the start.
LEMMA CursorInvInit == Init => CursorInv
<1> SUFFICES ASSUME Init PROVE CursorInv
    OBVIOUS
<1>1. FeedOK(feed)
    BY DEF Init, EmptyFeed, FeedOK, Feed
<1>2. lease \in Lease /\ today \in BOOLEAN /\ table \in [Pitches -> States]
    BY DEF Init, Lease, States
<1>3. \A i \in Instances : Covered(proc[i], table)
    BY FreshCovered DEF Init
<1> QED
    BY <1>1, <1>2, <1>3 DEF CursorInv, Init

\* The game and the clock touch neither the table nor a process.
LEMMA GameKeepsCursorInv ==
    ASSUME CursorInv, GameNext \/ LeaseAges PROVE CursorInv'
<1>1. feed \in Feed /\ feed.physics \subseteq 1..feed.count /\ lease \in Lease /\ today \in BOOLEAN
    BY DEF CursorInv, FeedOK
<1>2. CASE PitchThrown
    <2>1. FeedOK(feed')
        BY <1>1, <1>2 DEF PitchThrown, FeedOK, Feed
    <2> QED BY <2>1, <1>1, <1>2, WorldCovered DEF PitchThrown
<1>3. CASE \E p \in InPlay : PhysicsArrives(p)
    <2>1. FeedOK(feed')
        BY <1>1, <1>3 DEF PhysicsArrives, FeedOK, Feed
    <2> QED BY <2>1, <1>1, <1>3, WorldCovered DEF PhysicsArrives
<1>4. CASE GameEnds
    <2>1. FeedOK(feed')
        BY <1>1, <1>4 DEF GameEnds, FeedOK, Feed
    <2> QED BY <2>1, <1>1, <1>4, WorldCovered DEF GameEnds
<1>5. CASE DateRolls
    BY <1>1, <1>5, WorldCovered DEF DateRolls, FeedOK
<1>6. CASE LeaseAges
    <2>1. lease' \in Lease
        BY <1>1, <1>6 DEF LeaseAges, Lease
    <2> QED BY <2>1, <1>1, <1>6, WorldCovered DEF LeaseAges, FeedOK
<1> QED
    BY <1>2, <1>3, <1>4, <1>5, <1>6 DEF GameNext

\* A tick keeps the maps of the process or drops them all.
LEMMA TickKeepsCursorInv ==
    ASSUME CursorInv, NEW i \in Instances, NEW refresh \in BOOLEAN, NEW due \in BOOLEAN,
           Tick(i, refresh, due)
    PROVE  CursorInv'
<1> DEFINE state == IF refresh THEN Refreshed(proc[i]) ELSE proc[i]
           next == IF due /\ state.status = "live" THEN [state EXCEPT !.pc = "fetching"] ELSE state
<1>1. Covered(proc[i], table) /\ FeedOK(feed)
    BY DEF CursorInv
<1>2. Covered(Fresh, table)
    BY FreshCovered
<1>3. Covered([proc[i] EXCEPT !.status = feed.status], table)
    BY <1>1 DEF Covered, Proc, FeedOK, Feed
<1>4. Covered(state, table)
    BY <1>1, <1>2, <1>3 DEF Refreshed
<1>5. Covered([state EXCEPT !.pc = "fetching"], table)
    <2> HIDE DEF state
    <2> QED BY <1>4 DEF Covered, Proc
<1>6. Covered(next, table)
    BY <1>4, <1>5
<1>7. Set(i, next) /\ UNCHANGED <<feed, today, table>> /\ lease' = [owner |-> i, stale |-> FALSE]
    BY DEF Tick
<1>8. lease' \in Lease
    BY <1>7 DEF Lease
<1> QED
    <2> HIDE DEF next
    <2> QED BY <1>1, <1>6, <1>7, <1>8, SetCovered DEF CursorInv, Grows, FeedOK

\* The fetched feed is well formed, and nothing else changes.
LEMMA FetchKeepsCursorInv ==
    ASSUME CursorInv, NEW i \in Instances, Fetch(i) \/ FetchFails(i)
    PROVE  CursorInv'
<1>1. Covered(proc[i], table) /\ FeedOK(feed)
    BY DEF CursorInv
<1>2. Covered(Adopted(i), table)
    BY <1>1 DEF Covered, Proc, FeedOK, Feed, Adopted
<1>3. Covered([Adopted(i) EXCEPT !.pc = "writing", !.snap = feed], table)
    BY <1>1, <1>2 DEF Covered, Proc, FeedOK
<1>4. CASE Fetch(i)
    BY <1>1, <1>3, <1>4, SetCovered DEF Fetch, CursorInv, Grows, FeedOK
<1>5. CASE FetchFails(i)
    <2>1. PICK state \in {proc[i], Adopted(i)} : Set(i, Done(state))
        BY <1>5 DEF FetchFails
    <2>2. Covered(Done(state), table)
        BY <1>1, <1>2, DoneCovered
    <2> QED BY <1>1, <1>5, <2>1, <2>2, SetCovered DEF FetchFails, CursorInv, Grows, FeedOK
<1> QED
    BY <1>4, <1>5

\* The cursor moves to the last pitch of an insert that went through, and not at all
\* when it threw.
LEMMA WriteKeepsCursorInv ==
    ASSUME CursorInv, NEW i \in Instances, WriteNewPitches(i) \/ WriteFails(i)
    PROVE  CursorInv'
<1>1. Covered(proc[i], table) /\ table \in [Pitches -> States]
    BY DEF CursorInv
<1>2. /\ Grows(table, InsertNew(i))
      /\ \A p \in Pitches : p \in NewPitches(i) => InsertNew(i)[p] # "none"
    BY <1>1, StoredEffect DEF InsertNew
<1>3. Covered(proc[i], InsertNew(i))
    BY <1>1, <1>2, CoveredGrows
<1>4. UNCHANGED <<feed, today, lease>>
    BY DEF WriteNewPitches, WriteFails
<1>5. CASE WriteNewPitches(i)
    <2> DEFINE new == IF NewPitches(i) = {} THEN proc[i].cursor ELSE proc[i].snap.count
               s == [proc[i] EXCEPT
                        !.pc = "backfilling",
                        !.cursor = new,
                        !.written = @ \union (NewPitches(i) \intersect proc[i].snap.physics)]
    <2>1. proc[i] \in Proc /\ proc[i].cursor \in Nat /\ proc[i].snap.count \in Nat
        BY <1>1 DEF Covered, Proc, Feed
    <2>2. new \in 0..N /\ proc[i].cursor <= new /\ proc[i].snap.count <= new
        BY <1>1, <2>1 DEF NewPitches, Covered, Proc, Feed
    <2>3. \A p \in 1..new : p \in 1..proc[i].cursor \/ p \in NewPitches(i)
        BY <2>1, <2>2 DEF NewPitches
    <2>4. \A p \in 1..new : InsertNew(i)[p] # "none"
        BY <1>2, <1>3, <2>2, <2>3 DEF Covered, Pitches
    <2>5. NewPitches(i) \intersect proc[i].snap.physics \subseteq InPlay \intersect (1..new)
        BY <1>1, <2>1, <2>2 DEF Covered, FeedOK, Feed
    <2>6. proc[i].written \subseteq 1..new
        BY <1>1, <2>1, <2>2 DEF Covered
    <2>7. s \in Proc
        <3> HIDE DEF new
        <3> QED BY <2>1, <2>2, <2>5 DEF Proc
    <2>8. Covered(s, InsertNew(i))
        <3>1. /\ s.written = proc[i].written \union (NewPitches(i) \intersect proc[i].snap.physics)
              /\ s.cursor = new /\ s.snap = proc[i].snap
            BY <2>1 DEF Proc
        <3> HIDE DEF s, new
        <3> QED BY <1>1, <2>2, <2>4, <2>5, <2>6, <2>7, <3>1 DEF Covered
    <2>9. Set(i, s) /\ table' = InsertNew(i)
        BY <1>5 DEF WriteNewPitches
    <2> QED
        <3> HIDE DEF s
        <3> QED BY <1>2, <1>4, <2>8, <2>9, SetCovered DEF CursorInv, FeedOK
<1>6. CASE WriteFails(i)
    <2>1. Grows(table, table') /\ Covered(proc[i], table')
        BY <1>1, <1>2, <1>3, <1>6 DEF WriteFails, Grows
    <2>2. Covered(Done(proc[i]), table')
        BY <2>1, DoneCovered
    <2> QED BY <1>4, <1>6, <2>1, <2>2, SetCovered DEF WriteFails, CursorInv, FeedOK
<1> QED
    BY <1>5, <1>6

\* The backfill re-inserts pitches up to the cursor.
LEMMA BackfillKeepsCursorInv ==
    ASSUME CursorInv, NEW i \in Instances, Backfill(i) \/ BackfillFails(i)
    PROVE  CursorInv'
<1>1. Covered(proc[i], table) /\ table \in [Pitches -> States]
    BY DEF CursorInv
<1>2. Grows(table, InsertCompleted(i))
    BY <1>1, StoredEffect DEF InsertCompleted
<1>3. Covered(proc[i], InsertCompleted(i))
    BY <1>1, <1>2, CoveredGrows
<1>4. UNCHANGED <<feed, today, lease>>
    BY DEF Backfill, BackfillFails
<1>5. CASE Backfill(i)
    <2> DEFINE s == [proc[i] EXCEPT !.written = @ \union Completed(i)]
    <2>1. proc[i].pc = "backfilling" /\ proc[i] \in Proc
        BY <1>1, <1>5 DEF Backfill, Covered
    <2>2. Completed(i) \subseteq InPlay \intersect (1..proc[i].cursor)
        BY <1>1, <2>1 DEF Completed, Covered, FeedOK, Feed, Proc
    <2>3. Covered(s, InsertCompleted(i))
        BY <1>3, <2>1, <2>2 DEF Covered, Proc
    <2>4. Covered(Done(s), InsertCompleted(i))
        <3> HIDE DEF s
        <3> QED BY <2>3, DoneCovered
    <2>5. Set(i, Done(s)) /\ table' = InsertCompleted(i)
        BY <1>5 DEF Backfill
    <2> QED
        <3> HIDE DEF s
        <3> QED BY <1>2, <1>4, <2>4, <2>5, SetCovered DEF CursorInv, FeedOK
<1>6. CASE BackfillFails(i)
    <2>1. Grows(table, table') /\ Covered(proc[i], table')
        BY <1>1, <1>2, <1>3, <1>6 DEF BackfillFails, Grows
    <2>2. Covered(Done(proc[i]), table')
        BY <2>1, DoneCovered
    <2> QED BY <1>4, <1>6, <2>1, <2>2, SetCovered DEF BackfillFails, CursorInv, FeedOK
<1> QED
    BY <1>5, <1>6

\* A process comes back with empty maps.
LEMMA RestartKeepsCursorInv ==
    ASSUME CursorInv, NEW i \in Instances, Crash(i) \/ Restart(i)
    PROVE  CursorInv'
<1>1. Covered(Fresh, table) /\ Covered([Fresh EXCEPT !.pc = "down"], table)
    BY FreshCovered
<1>2. CASE Crash(i)
    <2>1. lease' \in Lease
        BY <1>2 DEF Crash, CursorInv, Lease
    <2> QED BY <1>1, <1>2, <2>1, SetCovered DEF Crash, CursorInv, Grows, FeedOK
<1>3. CASE Restart(i)
    BY <1>1, <1>3, SetCovered DEF Restart, CursorInv, Grows, FeedOK
<1> QED
    BY <1>2, <1>3

\* The invariant of the cursors is inductive.
LEMMA CursorInvNext == CursorInv /\ [Next]_vars => CursorInv'
<1> SUFFICES ASSUME CursorInv, [Next]_vars PROVE CursorInv'
    OBVIOUS
<1>1. CASE GameNext \/ LeaseAges
    BY <1>1, GameKeepsCursorInv
<1>2. CASE \E i \in Instances : ProcNext(i)
    <2>1. PICK i \in Instances : ProcNext(i)
        BY <1>2
    <2> QED
        BY <2>1, TickKeepsCursorInv, FetchKeepsCursorInv, WriteKeepsCursorInv,
           BackfillKeepsCursorInv, RestartKeepsCursorInv DEF ProcNext, PollNext
<1>3. CASE UNCHANGED vars
    BY <1>3 DEF vars, CursorInv, FeedOK
<1> QED
    BY <1>1, <1>2, <1>3 DEF Next

\* It holds in every reachable state.
LEMMA CursorInvAlways == Spec => []CursorInv
    BY CursorInvInit, CursorInvNext, PTL DEF Spec

\* Every variable stays in its type, and an instance takes no ball in play for
\* written whose pitch is past its cursor.
THEOREM TypeCorrect == Spec => []TypeOK
<1>1. CursorInv => TypeOK
    BY DEF CursorInv, TypeOK, Covered, FeedOK, States
<1> QED
    BY <1>1, CursorInvAlways, PTL

\* The cursor of an instance never passes a pitch that is not in the table,
\* however inserts fail and whoever polled before.
THEOREM CursorsCovered == Spec => []CursorCovered
<1>1. CursorInv => CursorCovered
    BY DEF CursorInv, CursorCovered, Covered
<1> QED
    BY <1>1, CursorInvAlways, PTL

-----------------------------------------------------------------------------
(* The inductive invariant of the lease *)

\* An instance in the middle of a tick owns the lease, which is not stale.
LeaseHeld ==
    ~TickOutlivesLease =>
        \A i \in Instances : Ticking(i) => lease.owner = i /\ ~lease.stale

\* No instance ticks at the start.
LEMMA LeaseHeldInit == Init => LeaseHeld
    BY DEF Init, LeaseHeld, Ticking, Fresh

\* A tick only starts when no other is running, and the lease does not go stale
\* under a running one.
LEMMA LeaseHeldNext == CursorInv /\ LeaseHeld /\ [Next]_vars => LeaseHeld'
<1> SUFFICES ASSUME CursorInv, LeaseHeld, [Next]_vars, ~TickOutlivesLease
             PROVE  (\A i \in Instances : Ticking(i) => lease.owner = i /\ ~lease.stale)'
    BY DEF LeaseHeld
<1>1. \A i \in Instances : Ticking(i) => lease.owner = i /\ ~lease.stale
    BY DEF LeaseHeld
<1>2. CASE GameNext \/ UNCHANGED vars
    BY <1>1, <1>2 DEF GameNext, PitchThrown, PhysicsArrives, GameEnds, DateRolls, vars, Ticking
<1>3. CASE LeaseAges
    BY <1>1, <1>3 DEF LeaseAges, Ticking
<1>4. ASSUME NEW i \in Instances, ProcNext(i)
      PROVE  (\A j \in Instances : Ticking(j) => lease.owner = j /\ ~lease.stale)'
    <2>1. \A j \in Instances \ {i} : proc'[j] = proc[j]
        BY <1>4 DEF ProcNext, PollNext, Tick, Fetch, FetchFails, WriteNewPitches, WriteFails,
                    Backfill, BackfillFails, Crash, Restart, Set, CursorInv
    <2>2. CASE \E refresh, due \in BOOLEAN : Tick(i, refresh, due)
        <3>1. lease' = [owner |-> i, stale |-> FALSE]
            BY <2>2 DEF Tick
        <3>2. \A j \in Instances \ {i} : ~Ticking(j)
            BY <1>1, <2>2 DEF Tick, Acquirable
        <3> QED BY <2>1, <3>1, <3>2 DEF Ticking
    <2>3. CASE PollNext(i)
        <3>1. Ticking(i) /\ lease' = lease
            BY <2>3 DEF PollNext, Fetch, FetchFails, WriteNewPitches, WriteFails, Backfill,
                        BackfillFails, Ticking
        <3> QED BY <1>1, <2>1, <3>1 DEF Ticking
    <2>4. CASE Crash(i)
        <3>1. proc'[i].pc = "down"
            BY <2>4 DEF Crash, Set, CursorInv, Fresh
        <3>2. \A j \in Instances \ {i} : lease.owner = j => lease' = lease
            BY <2>4 DEF Crash, CursorInv, Lease
        <3> QED BY <1>1, <2>1, <3>1, <3>2 DEF Ticking
    <2>5. CASE Restart(i)
        <3>1. proc'[i].pc = "idle" /\ lease' = lease
            BY <2>5 DEF Restart, Set, CursorInv, Fresh
        <3> QED BY <1>1, <2>1, <3>1 DEF Ticking
    <2> QED
        BY <1>4, <2>2, <2>3, <2>4, <2>5 DEF ProcNext
<1> QED
    BY <1>2, <1>3, <1>4 DEF Next

\* Both invariants hold in every reachable state.
LEMMA LeaseHeldAlways == Spec => [](CursorInv /\ LeaseHeld)
    BY CursorInvInit, CursorInvNext, LeaseHeldInit, LeaseHeldNext, PTL DEF Spec

\* While ticks are shorter than the lease there is one poller, through crashes,
\* owners that never come back and takeovers of stale leases.
THEOREM SinglePoller == Spec => []OnePoller
<1>1. LeaseHeld => OnePoller
    BY DEF LeaseHeld, OnePoller
<1> QED
    BY <1>1, LeaseHeldAlways, PTL

-----------------------------------------------------------------------------
(* The inductive invariant of the physics *)

Inserting(i) == proc[i].pc \in {"writing", "backfilling"}

\* The physics in the table came from the feed, an instance that is about to
\* insert has fetched all of it, and what it takes for written is in the table.
PhysicsInv ==
    ~TickOutlivesLease =>
        /\ \A p \in Pitches : table[p] = "physics" => p \in feed.physics
        /\ \A i \in Instances : proc[i].snap.physics \subseteq feed.physics
        /\ \A i \in Instances : Inserting(i) =>
              \A p \in Pitches : table[p] = "physics" => p \in proc[i].snap.physics
        /\ \A i \in Instances : \A p \in proc[i].written : table[p] = "physics"

\* There is no physics at the start.
LEMMA PhysicsInvInit == Init => PhysicsInv
    BY DEF Init, PhysicsInv, Inserting, Fresh, EmptyFeed, Pitches

\* What the insert of one poll has to show for the next state.
LEMMA InsertKeepsPhysics ==
    ASSUME CursorInv, LeaseHeld, PhysicsInv, NEW i \in Instances, Inserting(i), NEW s, Set(i, s),
           UNCHANGED feed, ~TickOutlivesLease,
           s.snap = proc[i].snap \/ s.snap.physics = {},
           s.pc \in {"writing", "backfilling"} => s.snap = proc[i].snap,
           \A p \in Pitches : table'[p] = "physics" => table[p] = "physics" \/ p \in proc[i].snap.physics,
           \A p \in Pitches : table[p] = "physics" => table'[p] = "physics",
           \A p \in s.written : table'[p] = "physics"
    PROVE  PhysicsInv'
<1>1. \A j \in Instances : proc'[j] = IF j = i THEN s ELSE proc[j]
    BY DEF Set, CursorInv
<1>2. \A j \in Instances \ {i} : ~Inserting(j)
    BY DEF LeaseHeld, Ticking, Inserting
<1>3. \A p \in Pitches : table'[p] = "physics" => p \in proc[i].snap.physics
    BY DEF PhysicsInv
<1>4. \A p \in Pitches : table'[p] = "physics" => p \in feed'.physics
    BY <1>3 DEF PhysicsInv
<1>5. \A j \in Instances : proc'[j].snap.physics \subseteq feed'.physics
    BY <1>1 DEF PhysicsInv
<1>6. \A j \in Instances : proc[j].written \subseteq Pitches
    BY CoveredRange DEF CursorInv, Covered
<1>7. \A j \in Instances : \A p \in proc'[j].written : table'[p] = "physics"
    BY <1>1, <1>6 DEF PhysicsInv
<1>8. \A j \in Instances : Inserting(j)' =>
          \A p \in Pitches : table'[p] = "physics" => p \in proc'[j].snap.physics
    BY <1>1, <1>2, <1>3 DEF Inserting
<1> QED
    BY <1>4, <1>5, <1>7, <1>8 DEF PhysicsInv

\* A step of i that does not insert.
LEMMA QuietKeepsPhysics ==
    ASSUME CursorInv, PhysicsInv, NEW i \in Instances, NEW s, Set(i, s), UNCHANGED <<feed, table>>,
           ~TickOutlivesLease,
           s.snap = proc[i].snap \/ s.snap = feed \/ s.snap.physics = {},
           s.pc \in {"writing", "backfilling"} => s.snap = feed \/ (s.snap = proc[i].snap /\ Inserting(i)),
           s.written = proc[i].written \/ s.written = {}
    PROVE  PhysicsInv'
<1>1. \A j \in Instances : proc'[j] = IF j = i THEN s ELSE proc[j]
    BY DEF Set, CursorInv
<1> QED
    BY <1>1 DEF PhysicsInv, Inserting

\* The invariant of the physics is inductive, given one poller.
LEMMA PhysicsInvNext ==
    CursorInv /\ LeaseHeld /\ PhysicsInv /\ [Next]_vars => PhysicsInv'
<1> SUFFICES ASSUME CursorInv, LeaseHeld, PhysicsInv, [Next]_vars, ~TickOutlivesLease
             PROVE  PhysicsInv'
    BY DEF PhysicsInv
<1>1. CASE GameNext \/ LeaseAges \/ UNCHANGED vars
    <2>1. UNCHANGED <<proc, table>>
        BY <1>1 DEF GameNext, PitchThrown, PhysicsArrives, GameEnds, DateRolls, LeaseAges, vars
    <2>2. feed.physics \subseteq feed'.physics
        BY <1>1 DEF GameNext, PitchThrown, PhysicsArrives, GameEnds, DateRolls, LeaseAges, vars,
                    CursorInv, FeedOK, Feed
    <2> QED BY <2>1, <2>2 DEF PhysicsInv, Inserting
<1>2. ASSUME NEW i \in Instances, ProcNext(i) PROVE PhysicsInv'
    <2>1. proc[i] \in Proc
        BY DEF CursorInv, Covered
    <2>2. table \in [Pitches -> States]
        BY DEF CursorInv
    <2>3. \A p \in proc[i].written : p \in Pitches /\ table[p] = "physics"
        BY CoveredRange DEF CursorInv, Covered, PhysicsInv
    <2>4. ASSUME NEW refresh \in BOOLEAN, NEW due \in BOOLEAN, Tick(i, refresh, due)
          PROVE  PhysicsInv'
        <3> DEFINE state == IF refresh THEN Refreshed(proc[i]) ELSE proc[i]
                   next == IF due /\ state.status = "live"
                             THEN [state EXCEPT !.pc = "fetching"] ELSE state
        <3>1. /\ state.pc = "idle"
              /\ state.snap = proc[i].snap \/ state.snap.physics = {}
              /\ state.written = proc[i].written \/ state.written = {}
              /\ state \in Proc
            BY <2>1, <2>4, FreshCovered DEF Tick, Refreshed, Fresh, EmptyFeed, Proc, CursorInv, FeedOK, Feed
        <3>2. /\ next.pc \notin {"writing", "backfilling"}
              /\ next.snap = state.snap /\ next.written = state.written
            <4> HIDE DEF state
            <4> QED BY <3>1 DEF Proc
        <3>3. Set(i, next) /\ UNCHANGED <<feed, table>>
            BY <2>4 DEF Tick
        <3> QED
            <4> HIDE DEF state, next
            <4> QED BY <3>1, <3>2, <3>3, QuietKeepsPhysics
    <2>5. CASE Fetch(i)
        <3> DEFINE s == [Adopted(i) EXCEPT !.pc = "writing", !.snap = feed]
        <3>1. s.snap = feed /\ s.written = proc[i].written
            BY <2>1 DEF Adopted, Proc
        <3>2. Set(i, s) /\ UNCHANGED <<feed, table>>
            BY <2>5 DEF Fetch
        <3> QED
            <4> HIDE DEF s
            <4> QED BY <3>1, <3>2, QuietKeepsPhysics
    <2>6. CASE FetchFails(i)
        <3>1. PICK state \in {proc[i], Adopted(i)} : Set(i, Done(state))
            BY <2>6 DEF FetchFails
        <3>2. /\ Done(state).pc = "idle" /\ Done(state).snap.physics = {}
              /\ Done(state).written = proc[i].written
            BY <2>1 DEF Done, Adopted, EmptyFeed, Proc
        <3>3. UNCHANGED <<feed, table>>
            BY <2>6 DEF FetchFails
        <3> QED BY <3>1, <3>2, <3>3, QuietKeepsPhysics
    <2>7. CASE WriteNewPitches(i) \/ WriteFails(i)
        <3>1. Inserting(i) /\ UNCHANGED feed
            BY <2>7 DEF WriteNewPitches, WriteFails, Inserting
        <3>2. /\ \A p \in Pitches : p \in NewPitches(i) \intersect proc[i].snap.physics
                    => InsertNew(i)[p] = "physics"
              /\ \A p \in Pitches : p \notin NewPitches(i) => InsertNew(i)[p] = table[p]
              /\ \A p \in Pitches : InsertNew(i)[p] = "physics"
                    => p \in proc[i].snap.physics \/ table[p] = "physics"
            BY <2>2, StoredEffect DEF InsertNew
        <3>3. \A p \in Pitches : table[p] = "physics" => InsertNew(i)[p] = "physics"
            BY <3>1, <3>2 DEF PhysicsInv
        <3>4. CASE WriteNewPitches(i)
            <4> DEFINE s == [proc[i] EXCEPT
                               !.pc = "backfilling",
                               !.cursor = IF NewPitches(i) = {} THEN @ ELSE proc[i].snap.count,
                               !.written = @ \union (NewPitches(i) \intersect proc[i].snap.physics)]
            <4>1. Set(i, s) /\ table' = InsertNew(i)
                BY <3>4 DEF WriteNewPitches
            <4>2. /\ s.snap = proc[i].snap
                  /\ s.written = proc[i].written \union (NewPitches(i) \intersect proc[i].snap.physics)
                BY <2>1 DEF Proc
            <4>3. proc[i].snap.physics \subseteq Pitches
                BY <2>1, CoveredRange DEF CursorInv, Covered, FeedOK
            <4>4. \A p \in s.written : table'[p] = "physics"
                <5> HIDE DEF s
                <5> QED BY <2>3, <3>2, <3>3, <4>1, <4>2, <4>3
            <4> QED
                <5> HIDE DEF s
                <5> QED BY <3>1, <3>2, <3>3, <4>1, <4>2, <4>4, InsertKeepsPhysics
        <3>5. CASE WriteFails(i)
            <4>1. Set(i, Done(proc[i])) /\ table' \in {table, InsertNew(i)}
                BY <3>5 DEF WriteFails
            <4>2. /\ Done(proc[i]).pc = "idle" /\ Done(proc[i]).snap.physics = {}
                  /\ Done(proc[i]).written = proc[i].written
                BY <2>1 DEF Done, EmptyFeed, Proc
            <4> QED BY <2>3, <3>1, <3>2, <3>3, <4>1, <4>2, InsertKeepsPhysics
        <3> QED BY <2>7, <3>4, <3>5
    <2>8. CASE Backfill(i) \/ BackfillFails(i)
        <3>1. Inserting(i) /\ UNCHANGED feed
            BY <2>8 DEF Backfill, BackfillFails, Inserting
        <3>2. /\ \A p \in Pitches : p \in Completed(i) => InsertCompleted(i)[p] = "physics"
              /\ \A p \in Pitches : table[p] = "physics" => InsertCompleted(i)[p] = "physics"
              /\ \A p \in Pitches : InsertCompleted(i)[p] = "physics"
                    => p \in proc[i].snap.physics \/ table[p] = "physics"
            BY <2>2, StoredEffect DEF InsertCompleted, Completed
        <3>3. proc[i].snap.physics \subseteq Pitches
            BY <2>1, CoveredRange DEF CursorInv, Covered, FeedOK
        <3>4. CASE Backfill(i)
            <4> DEFINE s == [proc[i] EXCEPT !.written = @ \union Completed(i)]
            <4>1. Set(i, Done(s)) /\ table' = InsertCompleted(i)
                BY <3>4 DEF Backfill
            <4>2. /\ Done(s).pc = "idle" /\ Done(s).snap.physics = {}
                  /\ Done(s).written = proc[i].written \union Completed(i)
                BY <2>1 DEF Done, EmptyFeed, Proc
            <4>3. \A p \in Done(s).written : table'[p] = "physics"
                <5> HIDE DEF s
                <5> QED BY <2>3, <3>2, <3>3, <4>1, <4>2 DEF Completed
            <4> QED
                <5> HIDE DEF s
                <5> QED BY <3>1, <3>2, <4>1, <4>2, <4>3, InsertKeepsPhysics
        <3>5. CASE BackfillFails(i)
            <4>1. Set(i, Done(proc[i])) /\ table' \in {table, InsertCompleted(i)}
                BY <3>5 DEF BackfillFails
            <4>2. /\ Done(proc[i]).pc = "idle" /\ Done(proc[i]).snap.physics = {}
                  /\ Done(proc[i]).written = proc[i].written
                BY <2>1 DEF Done, EmptyFeed, Proc
            <4> QED BY <2>3, <3>1, <3>2, <4>1, <4>2, InsertKeepsPhysics
        <3> QED BY <2>8, <3>4, <3>5
    <2>9. CASE Crash(i) \/ Restart(i)
        <3>1. PICK s \in {Fresh, [Fresh EXCEPT !.pc = "down"]} : Set(i, s)
            BY <2>9 DEF Crash, Restart
        <3>2. /\ s.pc \notin {"writing", "backfilling"} /\ s.snap.physics = {} /\ s.written = {}
            BY DEF Fresh, EmptyFeed
        <3>3. UNCHANGED <<feed, table>>
            BY <2>9 DEF Crash, Restart
        <3> QED BY <3>1, <3>2, <3>3, QuietKeepsPhysics
    <2> QED
        BY <1>2, <2>4, <2>5, <2>6, <2>7, <2>8, <2>9 DEF ProcNext, PollNext
<1> QED
    BY <1>1, <1>2 DEF Next

\* While ticks are shorter than the lease, a ball in play that an instance takes
\* for written has its physics in the table: no later insert, of a failed poll or
\* of another instance, takes it away.
THEOREM PhysicsIsKept == Spec => []PhysicsKept
<1>1. PhysicsInv => PhysicsKept
    BY DEF PhysicsInv, PhysicsKept
<1> QED
    BY <1>1, CursorInvInit, CursorInvNext, LeaseHeldInit, LeaseHeldNext,
       PhysicsInvInit, PhysicsInvNext, PTL DEF Spec
=============================================================================
