------------------------ MODULE RetrainingQueueProofs ------------------------
(***************************************************************************)
(* Theorems about RetrainingQueue, for every choice of models, workers,    *)
(* callers and periods: the queue implements RetrainJobs, and, as long as  *)
(* the reaper takes no claim away, no trigger has two workers.             *)
(***************************************************************************)
EXTENDS RetrainingQueue, WellFoundedInduction, TLAPS

-----------------------------------------------------------------------------
(* The inductive invariant *)

\* Where a run is says what it has: a row from the SELECT on, a label once it
\* trains, and as product nothing or a version of the row's model.
RunOK(w) ==
    /\ worker[w].pc # "idle" => worker[w].row \in Rows
    /\ worker[w].pc = "training" => worker[w].label \in Nat \ {0}
    /\ worker[w].pc # "idle" /\ worker[w].product # 0 =>
          /\ worker[w].product \in DOMAIN candidates
          /\ candidates[worker[w].product].model = queue[worker[w].row].model

\* A trigger that is open has no product yet.
OpenIsEmpty == \A e \in Rows : queue[e].status \in Open => queue[e].product = 0

QueueInv == TypeOK /\ OpenIsEmpty /\ \A w \in Workers : RunOK(w)

-----------------------------------------------------------------------------
(* Lemmas *)

\* A set of naturals that is not empty has a least element.
LEMMA LeastOfNat ==
    ASSUME NEW S \in SUBSET Nat, S # {}
    PROVE  \E e \in S : \A f \in S : e <= f
<1>1. \E e \in S : \A f \in S : ~(<<f, e>> \in OpToRel(<, Nat))
    BY NatLessThanWellFounded, WFMin
<1>2. PICK e \in S : \A f \in S : ~(<<f, e>> \in OpToRel(<, Nat))
    BY <1>1
<1>3. \A f \in S : ~(f < e)
    BY <1>2 DEF OpToRel
<1> QED
    BY <1>3

LEMMA RowTypes ==
    ASSUME TypeOK
    PROVE  /\ queue \in [Rows -> TriggerRow] /\ Rows = 1..Len(queue) /\ Len(queue) \in Nat
           /\ candidates \in [DOMAIN candidates -> Candidate]
           /\ DOMAIN candidates = 1..Len(candidates) /\ Len(candidates) \in Nat
           /\ \A e \in Rows : queue[e].model \in Models
           /\ \A v \in DOMAIN candidates : candidates[v].model \in Models
<1>1. /\ queue \in [1..Len(queue) -> TriggerRow] /\ Rows = 1..Len(queue) /\ Len(queue) \in Nat
      /\ candidates \in [1..Len(candidates) -> Candidate]
      /\ DOMAIN candidates = 1..Len(candidates) /\ Len(candidates) \in Nat
    BY DEF TypeOK, Rows
<1> QED
    BY <1>1 DEF TriggerRow, Candidate

\* What a step may do to the rows without a run noticing: rows stay, and keep
\* their model.
RowsKept ==
    /\ Rows \subseteq Rows'
    /\ \A e \in Rows : queue'[e].model = queue[e].model

\* And to the candidates: they stay as they are, others come.
CandidatesKept ==
    /\ DOMAIN candidates \subseteq DOMAIN candidates'
    /\ \A v \in DOMAIN candidates : candidates'[v].model = candidates[v].model

LEMMA RunsUndisturbed ==
    ASSUME QueueInv, RowsKept, CandidatesKept, NEW w \in Workers, worker'[w] = worker[w]
    PROVE  RunOK(w)'
    BY DEF QueueInv, RunOK, RowsKept, CandidatesKept

\* One row changes, and is still a well formed row of its model.
LEMMA OneRowChanges ==
    ASSUME QueueInv, NEW e \in Rows, NEW row \in TriggerRow,
           queue' = [queue EXCEPT ![e] = row],
           row.model = queue[e].model, row.status \in Open => row.product = 0
    PROVE  RowsKept /\ OpenIsEmpty' /\ queue' \in Seq(TriggerRow) /\ Rows' = Rows
<1>1. Rows' = Rows /\ queue' \in Seq(TriggerRow)
    BY DEF QueueInv, TypeOK, Rows
<1>2. \A f \in Rows : queue'[f] = IF f = e THEN row ELSE queue[f]
    BY RowTypes DEF QueueInv
<1> QED
    BY <1>1, <1>2 DEF RowsKept, OpenIsEmpty, QueueInv

\* One run moves on, and nothing else changes but rows and candidates.
LEMMA OneRunMoves ==
    ASSUME QueueInv, RowsKept, CandidatesKept, OpenIsEmpty',
           queue' \in Seq(TriggerRow), candidates' \in Seq(Candidate), caller' = caller,
           NEW w \in Workers, NEW state \in WorkerState,
           worker' = [worker EXCEPT ![w] = state],
           state.pc # "idle" => state.row \in Rows',
           state.pc = "training" => state.label \in Nat \ {0},
           state.pc # "idle" /\ state.product # 0 =>
              /\ state.product \in DOMAIN candidates'
              /\ candidates'[state.product].model = queue'[state.row].model
    PROVE  QueueInv'
<1>1. /\ worker' \in [Workers -> WorkerState]
      /\ \A x \in Workers : worker'[x] = IF x = w THEN state ELSE worker[x]
    BY DEF QueueInv, TypeOK
<1>2. ASSUME NEW x \in Workers
      PROVE  RunOK(x)'
    <2>1. CASE x = w
        BY <1>1, <2>1 DEF RunOK
    <2>2. CASE x # w
        BY <1>1, <2>2, RunsUndisturbed
    <2> QED
        BY <2>1, <2>2
<1>3. TypeOK'
    BY <1>1 DEF QueueInv, TypeOK
<1> QED
    BY <1>2, <1>3 DEF QueueInv

-----------------------------------------------------------------------------
(* Every step keeps the invariant *)

LEMMA CallerStepKeeps ==
    ASSUME QueueInv, CallerNext
    PROVE  QueueInv' /\ RowsKept /\ CandidatesKept
<1> USE DEF QueueInv
<1>1. ASSUME NEW c \in Callers, NEW m \in Models, NEW type \in Types, NEW p \in Periods \union {0},
             Check(c, m, type, p)
      PROVE  QueueInv' /\ RowsKept /\ CandidatesKept
    <2> DEFINE call == [type |-> type, model |-> m, period |-> p]
    <2>1. call \in EnqueueCall /\ caller' = [caller EXCEPT ![c] = call]
          /\ UNCHANGED <<queue, candidates, worker>>
        BY <1>1 DEF Check, EnqueueCall
    <2>2. caller' \in [Callers -> EnqueueCall \union {NoEnqueue}]
        BY <2>1 DEF TypeOK
    <2>3. RowsKept /\ CandidatesKept /\ OpenIsEmpty'
        BY <2>1 DEF RowsKept, CandidatesKept, OpenIsEmpty, Rows
    <2>4. TypeOK'
        BY <2>1, <2>2 DEF TypeOK
    <2> QED
        BY <2>1, <2>3, <2>4, RunsUndisturbed
<1>2. ASSUME NEW c \in Callers, Enqueue(c)
      PROVE  QueueInv' /\ RowsKept /\ CandidatesKept
    <2>1. caller[c] \in EnqueueCall /\ UNCHANGED <<candidates, worker>>
          /\ caller' = [caller EXCEPT ![c] = NoEnqueue]
        BY <1>2 DEF Enqueue, TypeOK
    <2>2. caller' \in [Callers -> EnqueueCall \union {NoEnqueue}]
        BY <2>1 DEF TypeOK
    <2>3. CASE queue' = queue
        <3>1. RowsKept /\ CandidatesKept /\ OpenIsEmpty' /\ TypeOK'
            BY <2>1, <2>2, <2>3 DEF RowsKept, CandidatesKept, OpenIsEmpty, Rows, TypeOK
        <3> QED
            BY <2>1, <3>1, RunsUndisturbed
    <2>4. CASE queue' # queue
        <3> DEFINE row == [model |-> caller[c].model, type |-> caller[c].type,
                           period |-> caller[c].period, status |-> "queued",
                           age |-> 0, stale |-> FALSE, product |-> 0]
        <3>1. row \in TriggerRow /\ queue' = Append(queue, row)
            BY <1>2, <2>1, <2>4 DEF Enqueue, EnqueueCall, TriggerRow, Statuses, Ages
        <3>2. /\ queue' \in Seq(TriggerRow)
              /\ \A e \in Rows : e \in Rows' /\ queue'[e] = queue[e]
              /\ \A e \in Rows' \ Rows : queue'[e] = row
            BY <3>1, RowTypes DEF TypeOK, Rows
        <3>3. RowsKept /\ CandidatesKept /\ OpenIsEmpty'
            BY <2>1, <3>2 DEF RowsKept, CandidatesKept, OpenIsEmpty
        <3>4. TypeOK'
            BY <2>1, <2>2, <3>2 DEF TypeOK
        <3> QED
            BY <2>1, <3>3, <3>4, RunsUndisturbed
    <2> QED
        BY <2>3, <2>4
<1> QED
    BY <1>1, <1>2 DEF CallerNext

LEMMA RowStepKeeps ==
    ASSUME QueueInv, RowNext \/ Reap
    PROVE  QueueInv' /\ RowsKept /\ CandidatesKept
<1> USE DEF QueueInv
<1>1. UNCHANGED <<candidates, caller, worker>>
    BY DEF RowNext, Cancel, RowAges, ClaimAges, Reap
<1>2. ASSUME RowsKept, OpenIsEmpty', queue' \in Seq(TriggerRow)
      PROVE  QueueInv' /\ RowsKept /\ CandidatesKept
    <2>1. CandidatesKept /\ TypeOK'
        BY <1>1, <1>2 DEF CandidatesKept, TypeOK
    <2> QED
        BY <1>1, <1>2, <2>1, RunsUndisturbed
<1>3. ASSUME NEW e \in Rows, Cancel(e) \/ RowAges(e) \/ ClaimAges(e)
      PROVE  QueueInv' /\ RowsKept /\ CandidatesKept
    <2>1. queue[e] \in TriggerRow
        BY RowTypes
    <2>2. PICK row \in TriggerRow : /\ queue' = [queue EXCEPT ![e] = row]
                                    /\ row.model = queue[e].model /\ row.product = queue[e].product
                                    /\ row.status \in Open => queue[e].status \in Open
        <3>1. CASE Cancel(e)
            <4> DEFINE r == [queue[e] EXCEPT !.status = "cancelled"]
            <4> SUFFICES /\ r \in TriggerRow /\ queue' = [queue EXCEPT ![e] = r]
                         /\ r.model = queue[e].model /\ r.product = queue[e].product
                         /\ r.status = "cancelled"
                BY DEF Open
            <4> QED
                BY <2>1, <3>1 DEF Cancel, SetStatus, TriggerRow, Statuses, Open
        <3>2. CASE RowAges(e)
            <4> DEFINE r == [queue[e] EXCEPT !.age = @ + 1]
            <4>1. queue[e].age + 1 \in Ages
                BY <2>1, <3>2 DEF RowAges, TriggerRow, Ages
            <4>2. /\ r \in TriggerRow
                  /\ r.model = queue[e].model /\ r.product = queue[e].product
                  /\ r.status = queue[e].status
                BY <2>1, <4>1 DEF TriggerRow
            <4>3. queue' = [queue EXCEPT ![e] = r]
                BY <3>2 DEF RowAges
            <4> QED
                BY <4>2, <4>3
        <3>3. CASE ClaimAges(e)
            <4> DEFINE r == [queue[e] EXCEPT !.stale = TRUE]
            <4>1. /\ r \in TriggerRow /\ queue' = [queue EXCEPT ![e] = r]
                  /\ r.model = queue[e].model /\ r.product = queue[e].product
                  /\ r.status = queue[e].status
                BY <2>1, <3>3 DEF ClaimAges, TriggerRow
            <4> QED
                BY <4>1
        <3> QED
            BY <1>3, <3>1, <3>2, <3>3
    <2>3. row.status \in Open => row.product = 0
        BY <2>2 DEF OpenIsEmpty
    <2> QED
        BY <1>2, <2>2, <2>3, OneRowChanges
<1>4. CASE Reap
    <2>1. Rows' = Rows
        BY <1>4 DEF Reap, Rows
    <2>2. \A e \in Rows : /\ queue'[e] \in TriggerRow
                          /\ queue'[e].model = queue[e].model
                          /\ queue'[e].product = queue[e].product
                          /\ queue'[e].status \in Open => queue[e].status \in Open
        <3> SUFFICES ASSUME NEW e \in Rows
                     PROVE  /\ queue'[e] \in TriggerRow
                            /\ queue'[e].model = queue[e].model
                            /\ queue'[e].product = queue[e].product
                            /\ queue'[e].status \in Open => queue[e].status \in Open
            OBVIOUS
        <3>1. queue[e] \in TriggerRow
            BY RowTypes
        <3>2. CASE e \notin StaleClaims
            BY <1>4, <3>1, <3>2 DEF Reap
        <3>3. CASE e \in StaleClaims
            <4>1. queue[e].status = "running"
                BY <3>3 DEF StaleClaims
            <4>2. queue'[e] = [queue[e] EXCEPT !.status = "queued", !.stale = FALSE]
                BY <1>4, <3>3 DEF Reap
            <4> QED
                BY <3>1, <4>1, <4>2 DEF TriggerRow, Statuses, Open
        <3> QED
            BY <3>2, <3>3
    <2>3. queue' \in Seq(TriggerRow)
        <3>1. queue' = [e \in Rows |-> queue'[e]]
            BY <1>4 DEF Reap
        <3>2. queue' \in [1..Len(queue) -> TriggerRow] /\ Len(queue) \in Nat
            BY <2>2, <3>1, RowTypes
        <3> QED
            BY <3>2
    <2>4. RowsKept /\ OpenIsEmpty'
        BY <2>1, <2>2 DEF RowsKept, OpenIsEmpty
    <2> QED
        BY <1>2, <2>3, <2>4
<1> QED
    BY <1>3, <1>4 DEF RowNext

LEMMA WorkerStepKeeps ==
    ASSUME QueueInv, WorkerNext
    PROVE  QueueInv' /\ RowsKept /\ CandidatesKept
<1> USE DEF QueueInv
<1>1. PICK w \in Workers :
          \/ ClaimSelect(w) \/ ClaimUpdate(w) \/ StartTraining(w)
          \/ RegisterCandidate(w) \/ TrainingFails(w) \/ Report(w) \/ Die(w)
    BY DEF WorkerNext
<1>2. /\ caller' = caller /\ worker[w] \in WorkerState
      /\ worker[w].pc # "idle" => worker[w].row \in Rows
    BY <1>1 DEF ClaimSelect, ClaimUpdate, StartTraining, RegisterCandidate, TrainingFails,
                Report, Die, TypeOK, RunOK
<1>3. Idle \in WorkerState /\ Idle.pc = "idle"
    BY DEF Idle, WorkerState
<1>4. ASSUME UNCHANGED <<queue, candidates>>
      PROVE  /\ RowsKept /\ CandidatesKept /\ OpenIsEmpty'
             /\ queue' \in Seq(TriggerRow) /\ candidates' \in Seq(Candidate)
             /\ Rows' = Rows
    BY <1>4 DEF RowsKept, CandidatesKept, OpenIsEmpty, Rows, TypeOK
<1>5. ASSUME Set(w, Idle), RowsKept, CandidatesKept, OpenIsEmpty',
             queue' \in Seq(TriggerRow), candidates' \in Seq(Candidate)
      PROVE  QueueInv' /\ RowsKept /\ CandidatesKept
    BY <1>2, <1>3, <1>5, OneRunMoves DEF Set
<1>6. CASE ClaimSelect(w)
    <2> DEFINE state == [Idle EXCEPT !.pc = "claiming", !.row = Oldest(Claimable)]
    <2>1. Oldest(Claimable) \in Claimable
        <3>1. \E e \in Claimable : \A f \in Claimable : e <= f
            <4>1. Claimable \subseteq Nat /\ Claimable # {}
                BY <1>6, RowTypes DEF ClaimSelect, Claimable
            <4> QED
                BY <4>1, LeastOfNat
        <3> QED
            BY <3>1 DEF Oldest
    <2>2. Oldest(Claimable) \in Rows /\ Oldest(Claimable) \in Nat
        BY <2>1, RowTypes DEF Claimable
    <2>3. state \in WorkerState /\ state.pc = "claiming" /\ state.product = 0
          /\ state.row = Oldest(Claimable)
        BY <2>2 DEF WorkerState, Idle
    <2>4. worker' = [worker EXCEPT ![w] = state] /\ UNCHANGED <<queue, candidates>>
        BY <1>6 DEF ClaimSelect, Set
    <2> HIDE DEF state
    <2> QED
        BY <1>2, <1>4, <2>2, <2>3, <2>4, OneRunMoves
<1>7. CASE ClaimUpdate(w)
    <2>1. CASE UNCHANGED queue /\ Set(w, Idle)
        BY <1>4, <1>5, <1>7, <2>1 DEF ClaimUpdate
    <2> DEFINE e == worker[w].row
               row == [queue[e] EXCEPT !.status = "running", !.stale = FALSE]
               state == [worker[w] EXCEPT !.pc = "claimed"]
    <2>2. CASE /\ queue[e].status = "queued"
               /\ queue' = [queue EXCEPT ![e].status = "running", ![e].stale = FALSE]
               /\ Set(w, state)
        <3>1. e \in Rows /\ queue[e] \in TriggerRow /\ worker[w].pc = "claiming"
              /\ candidates' = candidates
            BY <1>2, <1>7, RowTypes DEF ClaimUpdate
        <3>2. row \in TriggerRow /\ row.model = queue[e].model /\ row.product = queue[e].product
              /\ queue' = [queue EXCEPT ![e] = row]
            BY <2>2, <3>1 DEF TriggerRow, Statuses
        <3>3. queue[e].product = 0
            BY <2>2, <3>1 DEF OpenIsEmpty, Open
        <3>4. RowsKept /\ OpenIsEmpty' /\ queue' \in Seq(TriggerRow) /\ Rows' = Rows
            BY <3>1, <3>2, <3>3, OneRowChanges
        <3>5. CandidatesKept /\ candidates' \in Seq(Candidate)
            BY <3>1 DEF CandidatesKept, TypeOK
        <3>6. state \in WorkerState /\ state.pc = "claimed"
              /\ state.row = worker[w].row /\ state.product = worker[w].product
            BY <1>2 DEF WorkerState
        <3>7. worker' = [worker EXCEPT ![w] = state]
            BY <2>2 DEF Set
        <3>8. RunOK(w)
            BY DEF QueueInv
        <3> HIDE DEF state, row
        <3>9. state.product # 0 =>
                /\ state.product \in DOMAIN candidates'
                /\ candidates'[state.product].model = queue'[state.row].model
            BY <3>1, <3>4, <3>6, <3>8 DEF RunOK, RowsKept
        <3> QED
            BY <1>2, <3>1, <3>4, <3>5, <3>6, <3>7, <3>9, OneRunMoves
    <2> QED
        BY <1>7, <2>1, <2>2 DEF ClaimUpdate
<1>8. ASSUME NEW state \in WorkerState, Set(w, state), UNCHANGED <<queue, candidates>>,
             state.row = worker[w].row, state.product = worker[w].product, worker[w].pc # "idle",
             state.pc = "training" => state.label \in Nat \ {0}
      PROVE  QueueInv' /\ RowsKept /\ CandidatesKept
    <2>1. RunOK(w) /\ worker' = [worker EXCEPT ![w] = state]
        BY <1>8 DEF Set
    <2>2. state.product # 0 =>
             /\ state.product \in DOMAIN candidates'
             /\ candidates'[state.product].model = queue'[state.row].model
        BY <1>8, <2>1 DEF RunOK
    <2> QED
        BY <1>2, <1>4, <1>8, <2>1, <2>2, OneRunMoves
<1>9. CASE StartTraining(w)
    <2>1. PICK label \in 1..MaxCandidates + 1 :
              Set(w, [worker[w] EXCEPT !.pc = "training", !.label = label])
        BY <1>9 DEF StartTraining
    <2> DEFINE state == [worker[w] EXCEPT !.pc = "training", !.label = label]
    <2>2. label \in Nat \ {0}
        BY BoundsAssumption
    <2>3. state \in WorkerState /\ state.row = worker[w].row /\ state.product = worker[w].product
          /\ state.label = label
        BY <1>2, <2>2 DEF WorkerState
    <2>4. worker[w].pc # "idle" /\ UNCHANGED <<queue, candidates>>
        BY <1>9 DEF StartTraining
    <2> QED
        BY <1>8, <2>1, <2>2, <2>3, <2>4
<1>10. CASE TrainingFails(w)
    <2> DEFINE state == [worker[w] EXCEPT !.pc = "reporting"]
    <2>1. state \in WorkerState /\ state.row = worker[w].row /\ state.product = worker[w].product
          /\ state.pc = "reporting"
        BY <1>2 DEF WorkerState
    <2>2. Set(w, state) /\ worker[w].pc # "idle" /\ UNCHANGED <<queue, candidates>>
        BY <1>10 DEF TrainingFails
    <2> QED
        BY <1>8, <2>1, <2>2
<1>11. CASE Die(w)
    BY <1>4, <1>5, <1>11 DEF Die
<1>12. CASE Report(w)
    <2>1. /\ worker[w].pc = "reporting" /\ worker[w].row \in Rows /\ candidates' = candidates
          /\ Complete(worker[w].row, worker[w].product) /\ Set(w, Idle)
        BY <1>2, <1>12 DEF Report
    <2>2. CASE queue' = queue
        BY <1>4, <1>5, <2>1, <2>2
    <2> DEFINE e == worker[w].row
               v == worker[w].product
               row == [queue[e] EXCEPT !.status = IF v # 0 THEN "succeeded" ELSE "failed",
                                       !.product = v]
    <2>3. CASE queue' = [queue EXCEPT ![e].status = IF v # 0 THEN "succeeded" ELSE "failed",
                                      ![e].product = v]
        <3>1. queue[e] \in TriggerRow /\ v \in Nat
            BY <1>2, <2>1, RowTypes DEF WorkerState
        <3>2. row \in TriggerRow /\ row.model = queue[e].model /\ row.status \notin Open
              /\ queue' = [queue EXCEPT ![e] = row]
            BY <2>3, <3>1 DEF TriggerRow, Statuses, Open
        <3>3. RowsKept /\ OpenIsEmpty' /\ queue' \in Seq(TriggerRow)
            BY <2>1, <3>2, OneRowChanges
        <3>4. CandidatesKept /\ candidates' \in Seq(Candidate)
            BY <2>1 DEF CandidatesKept, TypeOK
        <3> QED
            BY <1>5, <2>1, <3>3, <3>4
    <2> QED
        BY <2>1, <2>2, <2>3 DEF Complete
<1>13. CASE RegisterCandidate(w)
    <2> DEFINE m == queue[worker[w].row].model
    <2>1. PICK label \in Nat \ {0} : label = worker[w].label
        BY <1>13 DEF RegisterCandidate, RunOK
    <2>2. worker[w].pc = "training" /\ worker[w].row \in Rows /\ m \in Models /\ queue' = queue
        BY <1>2, <1>13, RowTypes DEF RegisterCandidate
    <2>3. /\ candidates' \in Seq(Candidate) /\ CandidatesKept
          /\ \E v \in DOMAIN candidates' : candidates'[v].model = m /\ candidates'[v].label = label
        <3>1. CASE WithLabel(m, label) # {}
            <4>1. candidates' = candidates
                BY <1>13, <2>1, <3>1 DEF RegisterCandidate, ModelOf
            <4>2. \E v \in DOMAIN candidates : candidates[v].model = m /\ candidates[v].label = label
                BY <3>1 DEF WithLabel
            <4> QED
                BY <4>1, <4>2 DEF CandidatesKept, TypeOK
        <3>2. CASE WithLabel(m, label) = {}
            <4> DEFINE new == [model |-> m, label |-> label, trigger |-> worker[w].row]
            <4>1. candidates' = Append(candidates, new)
                BY <1>13, <2>1, <3>2 DEF RegisterCandidate, ModelOf
            <4>2. new \in Candidate
                BY <2>1, <2>2, RowTypes DEF Candidate
            <4>3. /\ candidates' \in Seq(Candidate)
                  /\ \A v \in DOMAIN candidates : v \in DOMAIN candidates' /\ candidates'[v] = candidates[v]
                  /\ Len(candidates) + 1 \in DOMAIN candidates'
                  /\ candidates'[Len(candidates) + 1] = new
                BY <4>1, <4>2, RowTypes DEF TypeOK
            <4> QED
                BY <4>3 DEF CandidatesKept
        <3> QED
            BY <3>1, <3>2
    <2>4. PICK id : /\ id = RegisteredId(m, label) /\ id \in DOMAIN candidates'
                    /\ candidates'[id].model = m
        BY <2>3 DEF RegisteredId
    <2>5. id \in Nat
        BY <2>3, <2>4
    <2> DEFINE state == [worker[w] EXCEPT !.pc = "reporting", !.product = id]
    <2>6. state \in WorkerState /\ state.row = worker[w].row /\ state.product = id
          /\ state.pc = "reporting"
        BY <1>2, <2>5 DEF WorkerState
    <2>7. worker' = [worker EXCEPT ![w] = state]
        BY <1>13, <2>1, <2>4 DEF RegisterCandidate, ModelOf, Set
    <2>8. RowsKept /\ OpenIsEmpty' /\ queue' \in Seq(TriggerRow) /\ Rows' = Rows
        BY <2>2 DEF RowsKept, OpenIsEmpty, Rows, TypeOK
    <2> HIDE DEF state
    <2> QED
        BY <1>2, <2>2, <2>3, <2>4, <2>6, <2>7, <2>8, OneRunMoves
<1> QED
    BY <1>1, <1>6, <1>7, <1>9, <1>10, <1>11, <1>12, <1>13

LEMMA QueueInvStep == QueueInv /\ [Next]_vars => QueueInv'
<1> SUFFICES ASSUME QueueInv, [Next]_vars
             PROVE  QueueInv'
    OBVIOUS
<1>1. CASE UNCHANGED vars
    <2>1. UNCHANGED <<queue, candidates, caller, worker>>
        BY <1>1 DEF vars
    <2> QED
        BY <2>1 DEF QueueInv, TypeOK, OpenIsEmpty, RunOK, Rows
<1> QED
    BY <1>1, CallerStepKeeps, RowStepKeeps, WorkerStepKeeps DEF Next

LEMMA QueueInvariant == Spec => []QueueInv
<1>1. Init => QueueInv
    <2> SUFFICES ASSUME Init
                 PROVE  QueueInv
        OBVIOUS
    <2>1. queue = << >> /\ candidates = << >> /\ Rows = {}
        BY DEF Init, Rows
    <2>2. TypeOK
        BY <2>1 DEF Init, TypeOK, Idle, WorkerState
    <2>3. OpenIsEmpty /\ \A w \in Workers : RunOK(w)
        BY <2>1 DEF Init, OpenIsEmpty, RunOK, Idle
    <2> QED
        BY <2>2, <2>3 DEF QueueInv
<1> QED
    BY <1>1, QueueInvStep, PTL DEF Spec

\* Every reachable state is well typed, for any number of workers and callers.
THEOREM QueueTypeCorrect == Spec => []TypeOK
<1>1. QueueInv => TypeOK
    BY DEF QueueInv
<1> QED
    BY <1>1, QueueInvariant, PTL

-----------------------------------------------------------------------------
(* One worker per trigger *)

\* Who has claimed a row took it out of the queue.
HeldIsNotQueued ==
    \A w \in Workers : \A e \in Rows : Holds(w, e) => queue[e].status # "queued"

ClaimInv == OneWorkerPerTrigger /\ HeldIsNotQueued

\* A step after which a run holds at most what it held, and no row was queued again.
LEMMA NothingClaimed ==
    ASSUME QueueInv, ClaimInv, Rows \subseteq Rows',
           \A x \in Workers : \A e \in Rows' : Holds(x, e)' => e \in Rows /\ Holds(x, e),
           \A e \in Rows : queue'[e].status = "queued" => queue[e].status = "queued"
    PROVE  ClaimInv'
    BY DEF ClaimInv, OneWorkerPerTrigger, HeldIsNotQueued

\* The reaper, whose cutoff is bound as an integer, returns no claim.
LEMMA NothingReaped ==
    ASSUME TimestampClass = "integer"
    PROVE  StaleClaims = {}
    BY DEF StaleClaims, StartedBeforeCutoff, ColumnAtMostBound, SqliteAtMost, ColumnClass

LEMMA ClaimStep ==
    ASSUME TimestampClass = "integer", QueueInv, ClaimInv, [Next]_vars
    PROVE  ClaimInv'
<1> USE DEF QueueInv
<1>1. ASSUME worker' = worker, Rows \subseteq Rows',
             \A e \in Rows : queue'[e].status = "queued" => queue[e].status = "queued"
      PROVE  ClaimInv'
    <2>1. \A x \in Workers : \A e \in Rows' : Holds(x, e)' => e \in Rows /\ Holds(x, e)
        BY <1>1 DEF Holds, RunOK
    <2> QED
        BY <1>1, <2>1, NothingClaimed
<1>2. CASE CallerNext
    <2>1. worker' = worker /\ (queue' = queue \/ \E row : queue' = Append(queue, row))
        BY <1>2 DEF CallerNext, Check, Enqueue
    <2>2. \A e \in Rows : e \in Rows' /\ queue'[e] = queue[e]
        BY <2>1, RowTypes DEF Rows, TypeOK
    <2> QED
        BY <1>1, <2>1, <2>2
<1>3. CASE RowNext
    <2>1. worker' = worker /\ Rows' = Rows
        BY <1>3, RowTypes DEF RowNext, Cancel, SetStatus, RowAges, ClaimAges, Rows, TypeOK
    <2>2. PICK e \in Rows : Cancel(e) \/ RowAges(e) \/ ClaimAges(e)
        BY <1>3 DEF RowNext
    <2>3. queue[e] \in TriggerRow
        BY RowTypes
    <2>4. \A f \in Rows : queue'[f].status \in {queue[f].status, "cancelled"}
        <3>1. CASE Cancel(e)
            BY <2>3, <3>1, RowTypes DEF Cancel, SetStatus, TriggerRow
        <3>2. CASE RowAges(e)
            BY <2>3, <3>2, RowTypes DEF RowAges, TriggerRow
        <3>3. CASE ClaimAges(e)
            BY <2>3, <3>3, RowTypes DEF ClaimAges, TriggerRow
        <3> QED
            BY <2>2, <3>1, <3>2, <3>3
    <2> QED
        BY <1>1, <2>1, <2>4
<1>4. CASE Reap
    <2>1. \A e \in Rows : queue'[e] = queue[e]
        BY <1>4, NothingReaped DEF Reap
    <2>2. Rows' = Rows /\ worker' = worker
        BY <1>4 DEF Reap, Rows
    <2> QED
        BY <1>1, <2>1, <2>2
<1>5. ASSUME NEW w \in Workers, NEW state \in WorkerState, worker' = [worker EXCEPT ![w] = state],
             Rows' = Rows,
             \A e \in Rows : queue'[e].status = "queued" => queue[e].status = "queued",
             state.pc \in {"claimed", "training", "reporting"} =>
                 worker[w].pc \in {"claimed", "training", "reporting"} /\ state.row = worker[w].row
      PROVE  ClaimInv'
    <2>1. \A x \in Workers : worker'[x] = IF x = w THEN state ELSE worker[x]
        BY <1>5 DEF TypeOK
    <2>2. \A x \in Workers : \A e \in Rows' : Holds(x, e)' => e \in Rows /\ Holds(x, e)
        BY <1>5, <2>1 DEF Holds
    <2> QED
        BY <1>5, <2>2, NothingClaimed
<1>6. Idle \in WorkerState /\ Idle.pc = "idle"
    BY DEF Idle, WorkerState
<1>7. ASSUME UNCHANGED queue
      PROVE  Rows' = Rows /\ \A e \in Rows : queue'[e].status = "queued" => queue[e].status = "queued"
    BY <1>7 DEF Rows
<1>8. ASSUME NEW w \in Workers, ClaimUpdate(w)
      PROVE  ClaimInv'
    <2>1. worker[w] \in WorkerState /\ worker[w].pc = "claiming" /\ worker[w].row \in Rows
        BY <1>8 DEF ClaimUpdate, TypeOK, RunOK
    <2>2. CASE Set(w, Idle) /\ UNCHANGED queue
        BY <1>5, <1>6, <1>7, <2>2 DEF Set
    <2> DEFINE e == worker[w].row
               state == [worker[w] EXCEPT !.pc = "claimed"]
    <2>3. CASE /\ queue[e].status = "queued"
               /\ queue' = [queue EXCEPT ![e].status = "running", ![e].stale = FALSE]
               /\ Set(w, state)
        <3>1. queue[e] \in TriggerRow
            BY <2>1, RowTypes
        <3>2. /\ Rows' = Rows /\ queue'[e].status = "running"
              /\ \A f \in Rows \ {e} : queue'[f] = queue[f]
            BY <2>1, <2>3, <3>1, RowTypes DEF TriggerRow, Rows
        <3>3. state.pc = "claimed" /\ state.row = e
            BY <2>1 DEF WorkerState
        <3>4. \A x \in Workers : worker'[x] = IF x = w THEN state ELSE worker[x]
            BY <2>3 DEF Set, TypeOK
        <3>5. \A x \in Workers : ~Holds(x, e)
            BY <2>1, <2>3 DEF ClaimInv, HeldIsNotQueued
        <3> HIDE DEF state
        <3>6. \A x \in Workers \ {w} : \A f \in Rows : Holds(x, f)' <=> Holds(x, f)
            BY <3>4 DEF Holds
        <3>7. \A f \in Rows : Holds(w, f)' => f = e
            BY <3>3, <3>4 DEF Holds
        <3>8. OneWorkerPerTrigger'
            BY <3>2, <3>5, <3>6, <3>7 DEF ClaimInv, OneWorkerPerTrigger
        <3>9. HeldIsNotQueued'
            BY <3>2, <3>5, <3>6, <3>7 DEF ClaimInv, HeldIsNotQueued
        <3> QED
            BY <3>8, <3>9 DEF ClaimInv
    <2> QED
        BY <1>8, <2>2, <2>3 DEF ClaimUpdate
<1>9. ASSUME NEW w \in Workers, ClaimSelect(w)
      PROVE  ClaimInv'
    <2>1. Oldest(Claimable) \in Nat
        <3>1. Claimable \subseteq Nat /\ Claimable # {}
            BY <1>9, RowTypes DEF ClaimSelect, Claimable
        <3> QED
            BY <3>1, LeastOfNat DEF Oldest
    <2> DEFINE state == [Idle EXCEPT !.pc = "claiming", !.row = Oldest(Claimable)]
    <2>2. state \in WorkerState /\ state.pc = "claiming"
        BY <2>1 DEF Idle, WorkerState
    <2>3. worker' = [worker EXCEPT ![w] = state] /\ UNCHANGED queue
        BY <1>9 DEF ClaimSelect, Set
    <2> HIDE DEF state
    <2> QED
        BY <1>5, <1>7, <2>2, <2>3
<1>10. ASSUME NEW w \in Workers, StartTraining(w) \/ TrainingFails(w) \/ RegisterCandidate(w)
       PROVE  ClaimInv'
    <2>1. worker[w] \in WorkerState /\ worker[w].pc \in {"claimed", "training"} /\ UNCHANGED queue
        BY <1>10 DEF StartTraining, TrainingFails, RegisterCandidate, TypeOK
    <2>2. PICK state : worker' = [worker EXCEPT ![w] = state] /\ state.row = worker[w].row
        <3>1. CASE StartTraining(w)
            <4>1. PICK label \in 1 .. MaxCandidates + 1 :
                      worker' = [worker EXCEPT ![w] = [worker[w] EXCEPT !.pc = "training", !.label = label]]
                BY <3>1 DEF StartTraining, Set
            <4> DEFINE s == [worker[w] EXCEPT !.pc = "training", !.label = label]
            <4>2. s.row = worker[w].row
                BY <2>1 DEF WorkerState
            <4> QED
                BY <4>1, <4>2
        <3>2. CASE TrainingFails(w)
            <4> DEFINE s == [worker[w] EXCEPT !.pc = "reporting"]
            <4>1. s.row = worker[w].row
                BY <2>1 DEF WorkerState
            <4> QED
                BY <3>2, <4>1 DEF TrainingFails, Set
        <3>3. CASE RegisterCandidate(w)
            <4> DEFINE id == RegisteredId(ModelOf(w), worker[w].label)
                       s == [worker[w] EXCEPT !.pc = "reporting", !.product = id]
            <4>1. s.row = worker[w].row
                BY <2>1 DEF WorkerState
            <4> QED
                BY <3>3, <4>1 DEF RegisterCandidate, Set
        <3> QED
            BY <1>10, <3>1, <3>2, <3>3
    <2>3. worker'[w] = state /\ worker' \in [Workers -> WorkerState]
        BY <2>2, QueueInvStep DEF TypeOK
    <2> QED
        BY <1>5, <1>7, <2>1, <2>2, <2>3
<1>11. ASSUME NEW w \in Workers, Report(w) \/ Die(w)
       PROVE  ClaimInv'
    <2>1. worker' = [worker EXCEPT ![w] = Idle] /\ worker[w] \in WorkerState
        BY <1>11 DEF Report, Die, Set, TypeOK
    <2>2. CASE UNCHANGED queue
        BY <1>5, <1>6, <1>7, <2>1, <2>2
    <2>3. CASE Report(w) /\ queue' # queue
        <3> DEFINE e == worker[w].row
                   status == IF worker[w].product # 0 THEN "succeeded" ELSE "failed"
        <3>1. /\ queue' = [queue EXCEPT ![e].status = status, ![e].product = worker[w].product]
              /\ e \in Rows
            BY <2>3 DEF Report, Complete, RunOK
        <3>2. queue[e] \in TriggerRow
            BY <3>1, RowTypes
        <3>3. Rows' = Rows /\ queue'[e].status = status /\ \A f \in Rows \ {e} : queue'[f] = queue[f]
            BY <3>1, <3>2, RowTypes DEF TriggerRow, Rows
        <3>4. status # "queued"
            OBVIOUS
        <3> QED
            BY <1>5, <1>6, <2>1, <3>3, <3>4
    <2> QED
        BY <1>11, <2>2, <2>3 DEF Die
<1>12. CASE UNCHANGED vars
    BY <1>12 DEF vars, ClaimInv, OneWorkerPerTrigger, HeldIsNotQueued, Holds, Rows
<1>13. CASE WorkerNext
    BY <1>8, <1>9, <1>10, <1>11, <1>13 DEF WorkerNext
<1> QED
    BY <1>2, <1>3, <1>4, <1>12, <1>13 DEF Next

\* No trigger is trained by two workers at once, whatever crashes, cancels, lost
\* answers and lost races happen; the reaper's cutoff being bound as an integer,
\* it takes nobody's claim.
THEOREM OneWorker == (TimestampClass = "integer") => (Spec => []OneWorkerPerTrigger)
<1> SUFFICES ASSUME TimestampClass = "integer"
             PROVE  Spec => []OneWorkerPerTrigger
    OBVIOUS
<1>1. Init => ClaimInv
    BY DEF Init, ClaimInv, OneWorkerPerTrigger, HeldIsNotQueued, Rows
<1>2. QueueInv /\ ClaimInv /\ [Next]_vars => ClaimInv'
    BY ClaimStep
<1>3. ClaimInv => OneWorkerPerTrigger
    BY DEF ClaimInv
<1> QED
    BY <1>1, <1>2, <1>3, QueueInvariant, PTL DEF Spec

-----------------------------------------------------------------------------
(* The queue implements RetrainJobs *)

\* The refinement mapping, as in RetrainingQueue.
JobsOf ==
    [e \in Rows |->
        [model   |-> queue[e].model,
         state   |-> IF queue[e].status \in Open THEN "open"
                     ELSE IF queue[e].status = "succeeded" THEN "done"
                     ELSE queue[e].status,
         product |-> queue[e].product]]
VersionsOf == [v \in DOMAIN candidates |-> candidates[v].model]

Ended(j, state, v) == [JobsOf EXCEPT ![j].state = state, ![j].product = v]

\* The steps of RetrainJobs, in terms of the mapping.
AbstractStep ==
    \/ UNCHANGED <<JobsOf, VersionsOf>>
    \/ \E m \in Models :
          \/ JobsOf' = Append(JobsOf, [model |-> m, state |-> "open", product |-> 0])
             /\ UNCHANGED VersionsOf
          \/ VersionsOf' = Append(VersionsOf, m) /\ UNCHANGED JobsOf
    \/ \E j \in DOMAIN JobsOf :
          \/ \E v \in DOMAIN VersionsOf :
                /\ VersionsOf[v] = JobsOf[j].model
                /\ JobsOf[j].state = "open"
                /\ JobsOf' = Ended(j, "done", v)
                /\ UNCHANGED VersionsOf
          \/ \E state \in {"failed", "cancelled"} :
                /\ JobsOf[j].state = "open"
                /\ JobsOf' = Ended(j, state, 0)
                /\ UNCHANGED VersionsOf

LEMMA AbstractStepIsStep == AbstractStep => [Jobs!Next]_(Jobs!vars)
<1>1. ASSUME UNCHANGED <<JobsOf, VersionsOf>>
      PROVE  UNCHANGED Jobs!vars
    BY <1>1, Zenon DEF JobsOf, VersionsOf, Jobs!vars
<1>2. ASSUME NEW m \in Models,
             JobsOf' = Append(JobsOf, [model |-> m, state |-> "open", product |-> 0]),
             UNCHANGED VersionsOf
      PROVE  Jobs!Next
    BY <1>2, Zenon DEF JobsOf, VersionsOf, Jobs!Next, Jobs!Submit
<1>3. ASSUME NEW m \in Models, VersionsOf' = Append(VersionsOf, m), UNCHANGED JobsOf
      PROVE  Jobs!Next
    BY <1>3, Zenon DEF JobsOf, VersionsOf, Jobs!Next, Jobs!Produce
<1>4. ASSUME NEW j \in DOMAIN JobsOf, NEW v \in DOMAIN VersionsOf,
             VersionsOf[v] = JobsOf[j].model, JobsOf[j].state = "open",
             JobsOf' = Ended(j, "done", v),
             UNCHANGED VersionsOf
      PROVE  Jobs!Next
    BY <1>4, Zenon DEF Ended, JobsOf, VersionsOf, Jobs!Next, Jobs!Finish, Jobs!End
<1>5. ASSUME NEW j \in DOMAIN JobsOf, NEW state \in {"failed", "cancelled"},
             JobsOf[j].state = "open",
             JobsOf' = Ended(j, state, 0),
             UNCHANGED VersionsOf
      PROVE  Jobs!Next
    BY <1>5, Zenon DEF Ended, JobsOf, VersionsOf, Jobs!Next, Jobs!Finish, Jobs!End
<1> QED
    BY <1>1, <1>2, <1>3, <1>4, <1>5 DEF AbstractStep

\* Claims, requeues and the passage of time are stutters.
LEMMA SameJobs ==
    ASSUME Rows' = Rows,
           \A e \in Rows : /\ queue'[e].model = queue[e].model
                           /\ queue'[e].product = queue[e].product
                           /\ \/ queue'[e].status = queue[e].status
                              \/ {queue[e].status, queue'[e].status} \subseteq Open
    PROVE  JobsOf' = JobsOf
    BY DEF JobsOf

LEMMA EndedJob ==
    ASSUME NEW e \in Rows, NEW state, NEW v
    PROVE  Ended(e, state, v)
             = [f \in Rows |-> IF f = e THEN [model |-> queue[e].model, state |-> state, product |-> v]
                                        ELSE JobsOf[f]]
<1> DEFINE r == [JobsOf[e] EXCEPT !.state = state, !.product = v]
<1>1. PICK m, old, p : JobsOf[e] = [model |-> m, state |-> old, product |-> p] /\ m = queue[e].model
    BY DEF JobsOf
<1>2. /\ DOMAIN JobsOf = Rows /\ JobsOf = [f \in Rows |-> JobsOf[f]]
    BY DEF JobsOf
<1>3. Ended(e, state, v) = [f \in Rows |-> IF f = e THEN r ELSE JobsOf[f]]
    BY <1>2 DEF Ended
<1>4. r \in [model : {queue[e].model}, state : {state}, product : {v}]
    <2>1. r = [[model |-> m, state |-> old, product |-> p] EXCEPT !.state = state, !.product = v]
        BY <1>1, Zenon
    <2> QED
        BY <1>1, <2>1
<1> HIDE DEF r
<1>5. r = [model |-> r.model, state |-> r.state, product |-> r.product]
    BY <1>4
<1>6. r = [model |-> queue[e].model, state |-> state, product |-> v]
    BY <1>4, <1>5
<1> QED
    BY <1>3, <1>6

\* An open row that ends is a job that ends.
LEMMA RowEnds ==
    ASSUME TypeOK, NEW e \in Rows, NEW row \in TriggerRow,
           queue' = [queue EXCEPT ![e] = row],
           row.model = queue[e].model, queue[e].status \in Open,
           NEW state, NEW v, row.product = v,
           \/ row.status = "succeeded" /\ state = "done"
           \/ row.status = state /\ state \in {"failed", "cancelled"}
    PROVE  /\ e \in DOMAIN JobsOf
           /\ JobsOf[e].model = queue[e].model
           /\ JobsOf[e].state = "open"
           /\ JobsOf' = Ended(e, state, v)
<1>1. Rows' = Rows /\ \A f \in Rows : queue'[f] = IF f = e THEN row ELSE queue[f]
    BY RowTypes DEF TypeOK, Rows
<1>2. \A f \in Rows \ {e} : JobsOf'[f] = JobsOf[f]
    BY <1>1 DEF JobsOf
<1>3. JobsOf'[e] = [model |-> queue[e].model, state |-> state, product |-> v]
    BY <1>1 DEF JobsOf, Open
<1>4. /\ JobsOf[e].model = queue[e].model /\ JobsOf[e].state = "open"
      /\ DOMAIN JobsOf = Rows /\ JobsOf' = [f \in Rows |-> JobsOf'[f]]
    BY <1>1 DEF JobsOf
<1>5. JobsOf' = Ended(e, state, v)
    BY <1>2, <1>3, <1>4, EndedJob
<1> QED
    BY <1>4, <1>5

LEMMA SimulationStep == QueueInv /\ [Next]_vars => AbstractStep
<1> SUFFICES ASSUME QueueInv, [Next]_vars
             PROVE  AbstractStep
    OBVIOUS
<1> USE DEF QueueInv
<1>1. ASSUME UNCHANGED candidates
      PROVE  UNCHANGED VersionsOf
    BY <1>1 DEF VersionsOf
<1>2. ASSUME UNCHANGED queue
      PROVE  UNCHANGED JobsOf
    BY <1>2 DEF JobsOf, Rows
<1>3. CASE UNCHANGED <<queue, candidates>>
    BY <1>1, <1>2, <1>3 DEF AbstractStep
<1>4. ASSUME NEW c \in Callers, Enqueue(c), queue' # queue
      PROVE  AbstractStep
    <2> DEFINE row == [model |-> caller[c].model, type |-> caller[c].type,
                       period |-> caller[c].period, status |-> "queued",
                       age |-> 0, stale |-> FALSE, product |-> 0]
    <2>1. queue' = Append(queue, row) /\ caller[c].model \in Models /\ UNCHANGED candidates
        BY <1>4 DEF Enqueue, TypeOK, EnqueueCall
    <2> DEFINE m == caller[c].model
               job == [model |-> m, state |-> "open", product |-> 0]
               n == Len(queue) + 1
    <2>2. /\ Rows = 1..Len(queue) /\ Len(queue) \in Nat /\ Rows' = 1..n
          /\ \A e \in Rows : queue'[e] = queue[e]
          /\ queue'[n] = row
        BY <2>1, RowTypes DEF Rows, TypeOK
    <2> DEFINE Job == [model : Models, state : {"open", "done", "failed", "cancelled"}, product : Nat]
    <2>3. JobsOf \in Seq(Job) /\ Len(JobsOf) = Len(queue)
        <3>1. \A e \in Rows : queue[e] \in TriggerRow
            BY RowTypes
        <3>2. JobsOf \in [1..Len(queue) -> Job]
            BY <2>2, <3>1 DEF JobsOf, TriggerRow, Statuses, Open
        <3>3. Len(queue) \in Nat
            BY <2>2
        <3> HIDE DEF Job
        <3> QED
            BY <3>2, <3>3
    <2>4. Append(JobsOf, job) = [e \in 1..n |-> IF e = n THEN job ELSE JobsOf[e]]
        BY <2>2, <2>3
    <2>5. \A e \in 1..n : JobsOf'[e] = IF e = n THEN job ELSE JobsOf[e]
        <3>1. JobsOf'[n] = job
            BY <2>2 DEF JobsOf, Open
        <3>2. \A e \in Rows : JobsOf'[e] = JobsOf[e]
            BY <2>2 DEF JobsOf
        <3> QED
            BY <2>2, <3>1, <3>2
    <2>6. JobsOf' = [e \in 1..n |-> JobsOf'[e]]
        BY <2>2 DEF JobsOf
    <2>7. JobsOf' = Append(JobsOf, job)
        BY <2>4, <2>5, <2>6
    <2> QED
        BY <1>1, <2>1, <2>7 DEF AbstractStep
<1>5. ASSUME NEW e \in Rows, Cancel(e)
      PROVE  AbstractStep
    <2> DEFINE row == [queue[e] EXCEPT !.status = "cancelled"]
    <2>1. queue[e] \in TriggerRow /\ queue[e].status \in Open /\ queue[e].product = 0
        BY <1>5, RowTypes DEF Cancel, OpenIsEmpty
    <2>2. /\ row \in TriggerRow /\ row.model = queue[e].model
          /\ row.status = "cancelled" /\ row.product = 0 /\ row.status \notin Open
        BY <2>1 DEF TriggerRow, Statuses, Open
    <2>3. queue' = [queue EXCEPT ![e] = row] /\ UNCHANGED candidates
        BY <1>5 DEF Cancel, SetStatus
    <2> HIDE DEF row
    <2>4. /\ e \in DOMAIN JobsOf /\ JobsOf[e].state = "open"
          /\ JobsOf' = Ended(e, "cancelled", 0)
        BY <2>1, <2>2, <2>3, RowEnds
    <2> QED
        BY <1>1, <2>3, <2>4 DEF AbstractStep
<1>6. ASSUME NEW e \in Rows, RowAges(e) \/ ClaimAges(e)
      PROVE  AbstractStep
    <2>1. queue[e] \in TriggerRow /\ UNCHANGED candidates
        BY <1>6, RowTypes DEF RowAges, ClaimAges
    <2>2. Rows' = Rows
        BY <1>6, RowTypes DEF RowAges, ClaimAges, Rows, TypeOK
    <2>3. \A f \in Rows : /\ queue'[f].model = queue[f].model
                          /\ queue'[f].product = queue[f].product
                          /\ queue'[f].status = queue[f].status
        <3>1. CASE RowAges(e)
            BY <2>1, <3>1, RowTypes DEF RowAges, TriggerRow
        <3>2. CASE ClaimAges(e)
            BY <2>1, <3>2, RowTypes DEF ClaimAges, TriggerRow
        <3> QED
            BY <1>6, <3>1, <3>2
    <2> QED
        BY <1>1, <2>1, <2>2, <2>3, SameJobs DEF AbstractStep
<1>7. CASE Reap
    <2>1. Rows' = Rows /\ UNCHANGED candidates
        BY <1>7 DEF Reap, Rows
    <2>2. \A e \in Rows : /\ queue'[e].model = queue[e].model
                          /\ queue'[e].product = queue[e].product
                          /\ \/ queue'[e].status = queue[e].status
                             \/ {queue[e].status, queue'[e].status} \subseteq Open
        <3> SUFFICES ASSUME NEW e \in Rows
                     PROVE  /\ queue'[e].model = queue[e].model
                            /\ queue'[e].product = queue[e].product
                            /\ \/ queue'[e].status = queue[e].status
                               \/ {queue[e].status, queue'[e].status} \subseteq Open
            OBVIOUS
        <3>1. queue[e] \in TriggerRow
            BY RowTypes
        <3>2. CASE e \notin StaleClaims
            BY <1>7, <3>1, <3>2 DEF Reap
        <3>3. CASE e \in StaleClaims
            <4>1. queue[e].status = "running"
                BY <3>3 DEF StaleClaims
            <4>2. queue'[e] = [queue[e] EXCEPT !.status = "queued", !.stale = FALSE]
                BY <1>7, <3>3 DEF Reap
            <4> QED
                BY <3>1, <4>1, <4>2 DEF TriggerRow, Open
        <3> QED
            BY <3>2, <3>3
    <2> QED
        BY <1>1, <2>1, <2>2, SameJobs DEF AbstractStep
<1>8. ASSUME NEW w \in Workers, ClaimUpdate(w), queue' # queue
      PROVE  AbstractStep
    <2> DEFINE e == worker[w].row
    <2>1. /\ e \in Rows /\ queue[e].status = "queued" /\ UNCHANGED candidates
          /\ queue' = [queue EXCEPT ![e].status = "running", ![e].stale = FALSE]
        BY <1>8 DEF ClaimUpdate, RunOK
    <2>2. queue[e] \in TriggerRow
        BY <2>1, RowTypes
    <2>3. Rows' = Rows
        BY <2>1, RowTypes DEF Rows, TypeOK
    <2>4. \A f \in Rows : /\ queue'[f].model = queue[f].model
                          /\ queue'[f].product = queue[f].product
                          /\ \/ queue'[f].status = queue[f].status
                             \/ {queue[f].status, queue'[f].status} \subseteq Open
        BY <2>1, <2>2, RowTypes DEF TriggerRow, Open
    <2> QED
        BY <1>1, <2>1, <2>3, <2>4, SameJobs DEF AbstractStep
<1>9. ASSUME NEW w \in Workers, Report(w), queue' # queue
      PROVE  AbstractStep
    <2>1. PICK e \in Rows : e = worker[w].row
        BY <1>9 DEF Report, RunOK
    <2>2. PICK v \in Nat : v = worker[w].product
        BY <1>9 DEF Report, TypeOK, WorkerState
    <2> DEFINE status == IF v # 0 THEN "succeeded" ELSE "failed"
               row == [queue[e] EXCEPT !.status = status, !.product = v]
    <2>3. /\ queue[e].status = "running" /\ UNCHANGED candidates
          /\ queue' = [queue EXCEPT ![e].status = status, ![e].product = v]
        BY <1>9, <2>1, <2>2 DEF Report, Complete
    <2>4. queue[e] \in TriggerRow
        BY RowTypes
    <2>5. /\ row \in TriggerRow /\ row.model = queue[e].model /\ row.status = status
          /\ row.product = v /\ queue' = [queue EXCEPT ![e] = row]
        BY <2>3, <2>4 DEF TriggerRow, Statuses
    <2>6. queue[e].status \in Open /\ row.status \notin Open
        BY <2>3, <2>5 DEF Open
    <2>7. v # 0 => v \in DOMAIN candidates /\ candidates[v].model = queue[e].model
        BY <1>9, <2>1, <2>2 DEF Report, RunOK
    <2> HIDE DEF row
    <2>8. CASE v # 0
        <3>1. /\ e \in DOMAIN JobsOf /\ JobsOf[e].state = "open"
              /\ JobsOf[e].model = queue[e].model
              /\ JobsOf' = Ended(e, "done", v)
            BY <2>5, <2>6, <2>8, RowEnds
        <3>2. v \in DOMAIN VersionsOf /\ VersionsOf[v] = JobsOf[e].model
            BY <2>7, <2>8, <3>1 DEF VersionsOf
        <3> QED
            BY <1>1, <2>3, <3>1, <3>2 DEF AbstractStep
    <2>9. CASE v = 0
        <3>1. /\ e \in DOMAIN JobsOf /\ JobsOf[e].state = "open"
              /\ JobsOf' = Ended(e, "failed", 0)
            BY <2>5, <2>6, <2>9, RowEnds
        <3> QED
            BY <1>1, <2>3, <3>1 DEF AbstractStep
    <2> QED
        BY <2>8, <2>9
<1>10. ASSUME NEW w \in Workers, RegisterCandidate(w), candidates' # candidates
       PROVE  AbstractStep
    <2> DEFINE m == queue[worker[w].row].model
               new == [model |-> m, label |-> worker[w].label, trigger |-> worker[w].row]
               n == Len(candidates) + 1
    <2>1. candidates' = Append(candidates, new) /\ UNCHANGED queue
        BY <1>10 DEF RegisterCandidate, ModelOf
    <2>2. m \in Models
        BY <1>10, RowTypes DEF RegisterCandidate, RunOK
    <2>3. /\ DOMAIN candidates = 1..Len(candidates) /\ Len(candidates) \in Nat
          /\ DOMAIN candidates' = 1..n
          /\ \A v \in DOMAIN candidates : candidates'[v] = candidates[v]
          /\ candidates'[n] = new
        BY <2>1, RowTypes DEF TypeOK
    <2>4. VersionsOf \in Seq(Models) /\ Len(VersionsOf) = Len(candidates)
        <3>1. VersionsOf \in [1..Len(candidates) -> Models]
            BY <2>3, RowTypes DEF VersionsOf
        <3> QED
            BY <2>3, <3>1
    <2>5. Append(VersionsOf, m) = [v \in 1..n |-> IF v = n THEN m ELSE VersionsOf[v]]
        BY <2>2, <2>3, <2>4
    <2>6. \A v \in 1..n : VersionsOf'[v] = IF v = n THEN m ELSE VersionsOf[v]
        <3>1. VersionsOf'[n] = m
            BY <2>3 DEF VersionsOf
        <3>2. \A v \in DOMAIN candidates : VersionsOf'[v] = VersionsOf[v]
            BY <2>3 DEF VersionsOf
        <3> QED
            BY <2>3, <3>1, <3>2
    <2>7. VersionsOf' = [v \in 1..n |-> VersionsOf'[v]]
        BY <2>3 DEF VersionsOf
    <2>8. VersionsOf' = Append(VersionsOf, m)
        BY <2>5, <2>6, <2>7
    <2> QED
        BY <1>2, <2>1, <2>2, <2>8 DEF AbstractStep
<1>11. CASE CallerNext
    BY <1>3, <1>4, <1>11 DEF CallerNext, Check, Enqueue
<1>12. CASE WorkerNext
    BY <1>3, <1>8, <1>9, <1>10, <1>12
    DEF WorkerNext, ClaimSelect, ClaimUpdate, StartTraining, RegisterCandidate,
        TrainingFails, Report, Die
<1>13. CASE UNCHANGED vars
    BY <1>3, <1>13 DEF vars
<1> QED
    BY <1>5, <1>6, <1>7, <1>11, <1>12, <1>13 DEF Next, RowNext

\* The queue with its callers, workers, crashes and reaper implements RetrainJobs:
\* a job ends once, and one that is done names a version produced for its model.
THEOREM RefinesRetrainJobs == Spec => ImplementsRetrainJobs
<1>1. Init => Jobs!Init
    BY DEF Init, Jobs!Init, Rows
<1>2. QueueInv /\ [Next]_vars => [Jobs!Next]_(Jobs!vars)
    BY SimulationStep, AbstractStepIsStep
<1> QED
    BY <1>1, <1>2, QueueInvariant, PTL DEF Spec, Jobs!Spec, ImplementsRetrainJobs

=============================================================================
