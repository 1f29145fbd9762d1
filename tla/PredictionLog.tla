---------------------------- MODULE PredictionLog ----------------------------
(***************************************************************************)
(* The asynchronous logger of predictions (AsyncPredictionLogger): request *)
(* threads offer events to a bounded queue, a flusher drains it in batches *)
(* to ClickHouse, and the shutdown drains what is left, beside a flusher   *)
(* that did not end in time.                                               *)
(*                                                                         *)
(* A batch that fails goes back event by event, while requests offer new   *)
(* ones.  A failure may hide an insert that was applied: such an event is  *)
(* written again, or counted as lost although it is in the table.  The     *)
(* writer is present.  The exponential backoff is a gate that opens some   *)
(* time after a failure.                                                   *)
(***************************************************************************)
EXTENDS Naturals, Sequences, FiniteSets, SequencesExt

CONSTANTS
    Events,               \* predictions to log, each offered once
    Capacity,             \* the queue's capacity
    FlushBatchSize,       \* FLUSH_BATCH_SIZE
    MaxWriteAttempts,     \* MAX_WRITE_ATTEMPTS
    MaxBatchesPerCycle,   \* MAX_BATCHES_PER_CYCLE
    MaxShutdownFailures   \* MAX_SHUTDOWN_FLUSH_FAILURES

ASSUME LogAssumption ==
    /\ {Capacity, FlushBatchSize, MaxWriteAttempts, MaxBatchesPerCycle} \subseteq Nat \ {0}
    /\ MaxShutdownFailures \in Nat

VARIABLES
    pending,          \* the queue: events with their failed attempts
    offered,          \* events that enqueue was called with
    flush,            \* flush[a]: the flusher thread and the thread that stops the bean
    gate,             \* backoff: closed after a failure until time passes or a write succeeds
    written,          \* events whose batch was acknowledged
    lost              \* the counters: dropped, and dead-lettered

logVars == <<pending, offered, flush, gate, written, lost>>

Flushers == {"flusher", "stopper"}
Queued == [event : Events, attempts : Nat]

FlushState == [pc : {"idle", "drain", "write", "requeue", "ended"},
               batch : Seq(Queued), flushed : Nat, failed : Nat]

Resting == [pc |-> "idle", batch |-> << >>, flushed |-> 0, failed |-> 0]

EventsOf(s) == {q.event : q \in ToSet(s)}

-----------------------------------------------------------------------------
(* Requests *)

\* enqueue: an event that does not fit is dropped and counted.
EnqueueEvent(e) ==
    /\ e \notin offered
    /\ offered' = offered \union {e}
    /\ IF Len(pending) < Capacity
       THEN pending' = Append(pending, [event |-> e, attempts |-> 0]) /\ UNCHANGED lost
       ELSE lost' = [lost EXCEPT !.dropped = @ + 1] /\ UNCHANGED pending
    /\ UNCHANGED <<flush, gate, written>>

-----------------------------------------------------------------------------
(* flushOnce, by the flusher's cycle or by the final drain *)

\* The tick: nothing while the backoff lasts, and no tick after shutdown().
Tick ==
    /\ flush["flusher"].pc = "idle"
    /\ flush["stopper"].pc = "idle"
    /\ gate = "open"
    /\ pending # << >>
    /\ flush' = [flush EXCEPT !["flusher"].pc = "drain", !["flusher"].flushed = 0]
    /\ UNCHANGED <<pending, offered, gate, written, lost>>

BackoffElapses ==
    /\ gate = "closed"
    /\ gate' = "open"
    /\ UNCHANGED <<pending, offered, flush, written, lost>>

\* A cycle ends with an empty queue or its last batch; the final drain with an
\* empty queue or its last failure, whatever is left.
Over(a) ==
    \/ pending = << >>
    \/ a = "flusher" /\ flush[a].flushed = MaxBatchesPerCycle
    \/ a = "stopper" /\ flush[a].failed = MaxShutdownFailures

EndDrain(a) ==
    /\ flush[a].pc = "drain" /\ Over(a)
    /\ flush' = [flush EXCEPT ![a].pc = IF a = "flusher" THEN "idle" ELSE "ended"]
    /\ UNCHANGED <<pending, offered, gate, written, lost>>

\* drainTo takes up to a batch under the queue's lock.
DrainTo(a) ==
    LET n == IF Len(pending) < FlushBatchSize THEN Len(pending) ELSE FlushBatchSize
    IN /\ flush[a].pc = "drain" /\ ~Over(a)
       /\ flush' = [flush EXCEPT ![a].pc = "write", ![a].batch = SubSeq(pending, 1, n)]
       /\ pending' = SubSeq(pending, n + 1, Len(pending))
       /\ UNCHANGED <<offered, gate, written, lost>>

WriteBatch(a) ==
    /\ flush[a].pc = "write"
    /\ written' = written \union EventsOf(flush[a].batch)
    /\ gate' = "open"
    /\ flush' = [flush EXCEPT ![a].pc = "drain", ![a].batch = << >>,
                              ![a].flushed = IF a = "flusher" THEN @ + 1 ELSE @]
    /\ UNCHANGED <<pending, offered, lost>>

\* The insert throws, or its answer is lost.
WriteFails(a) ==
    /\ flush[a].pc = "write"
    /\ gate' = "closed"
    /\ flush' = [flush EXCEPT ![a].pc = "requeue"]
    /\ UNCHANGED <<pending, offered, written, lost>>

\* Fault: a requeued event starts anew.
TriesOfFirst(q) == 0

\* The attempts of an event, this one included.
Tries(q) == q.attempts + 1

\* Fault: the answer of offer is not looked at.
QuietRequeue(q) ==
    IF Tries(q) >= MaxWriteAttempts
    THEN lost' = [lost EXCEPT !.dead = @ + 1] /\ UNCHANGED pending
    ELSE /\ UNCHANGED lost
         /\ pending' = IF Len(pending) < Capacity
                       THEN Append(pending, [q EXCEPT !.attempts = Tries(q)]) ELSE pending

\* One event of a failed batch: dead-lettered at its last attempt, offered to
\* the back of the queue otherwise, and dropped if that is full by now.
RequeueEvent(q) ==
    CASE Tries(q) >= MaxWriteAttempts ->
             lost' = [lost EXCEPT !.dead = @ + 1] /\ UNCHANGED pending
      [] Tries(q) < MaxWriteAttempts /\ Len(pending) < Capacity ->
             /\ pending' = Append(pending, [q EXCEPT !.attempts = Tries(q)])
             /\ UNCHANGED lost
      [] OTHER -> lost' = [lost EXCEPT !.dropped = @ + 1] /\ UNCHANGED pending

Requeue(a) ==
    /\ flush[a].pc = "requeue" /\ flush[a].batch # << >>
    /\ RequeueEvent(Head(flush[a].batch))
    /\ flush' = [flush EXCEPT ![a].batch = Tail(@)]
    /\ UNCHANGED <<offered, gate, written>>

\* A failure ends the flusher's cycle; the final drain goes on.
EndRequeue(a) ==
    /\ flush[a].pc = "requeue" /\ flush[a].batch = << >>
    /\ flush' = [flush EXCEPT ![a].pc = IF a = "flusher" THEN "idle" ELSE "drain",
                              ![a].failed = IF a = "stopper" THEN @ + 1 ELSE @]
    /\ UNCHANGED <<pending, offered, gate, written, lost>>

-----------------------------------------------------------------------------
(* @PreDestroy stop() *)

\* The flusher has ended its cycle, or the wait for it has timed out.
Stop ==
    /\ flush["stopper"].pc = "idle"
    /\ flush' = [flush EXCEPT !["stopper"].pc = "drain"]
    /\ UNCHANGED <<pending, offered, gate, written, lost>>

-----------------------------------------------------------------------------
LogInit ==
    /\ pending = << >>
    /\ offered = {}
    /\ flush = [a \in Flushers |-> Resting]
    /\ gate = "open"
    /\ written = {}
    /\ lost = [dropped |-> 0, dead |-> 0]

FlushStep(a) ==
    \/ EndDrain(a) \/ DrainTo(a) \/ WriteBatch(a) \/ WriteFails(a)
    \/ Requeue(a) \/ EndRequeue(a)

LogNext ==
    \/ \E e \in Events : EnqueueEvent(e)
    \/ \E a \in Flushers : FlushStep(a)
    \/ Tick \/ BackoffElapses \/ Stop

LogSpec == LogInit /\ [][LogNext]_logVars

\* The timer ticks, a write ends one way or the other, the backoff elapses.
LogFairness ==
    /\ WF_logVars(Tick) /\ WF_logVars(BackoffElapses)
    /\ \A a \in Flushers : WF_logVars(FlushStep(a))

-----------------------------------------------------------------------------
(* Properties *)

LogTypeOK ==
    /\ pending \in Seq(Queued) /\ Len(pending) <= Capacity
    /\ offered \subseteq Events
    /\ flush \in [Flushers -> FlushState]
    /\ gate \in {"open", "closed"}
    /\ written \subseteq Events
    /\ lost \in [dropped : Nat, dead : Nat]

\* What a thread has taken out of the queue and neither written nor given back.
InHand == UNION {EventsOf(flush[a].batch) : a \in Flushers}

Underway == EventsOf(pending) \union InHand

\* An event that was offered and is neither acknowledged nor underway was counted,
\* once: as dropped or as dead-lettered, however batches, requests and the two
\* drains come between one another.  No event is underway twice.
LossIsCounted ==
    /\ Cardinality(offered \ (Underway \union written)) = lost.dropped + lost.dead
    /\ Cardinality(Underway) =
          Len(pending) + Len(flush["flusher"].batch) + Len(flush["stopper"].batch)

\* Even if no insert ever succeeds, no event stays underway for ever: a row that
\* ClickHouse rejects leaves the queue, and so do those behind it.  (A run offers
\* finitely many.)  The exception is what a shutdown leaves behind.
QueueDrains == Underway # {} ~> (Underway = {} \/ flush["stopper"].pc = "ended")

=============================================================================
