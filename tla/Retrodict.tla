----------------------------- MODULE Retrodict -----------------------------
(***************************************************************************)
(* The labels of the batted-ball models.  run_pipeline walks the batted    *)
(* balls of pitches page by page with LIMIT and OFFSET, simulates each at  *)
(* every park, in the weather of its game at its own park and in still air *)
(* elsewhere, and inserts the rows.  Pitches are corrected and weather     *)
(* arrives while it runs, it is killed and it is run again.                *)
(*                                                                         *)
(* A ball is a number, in the order of the query; its rows for all parks   *)
(* are one label, written in one block.  Of a label is kept which run      *)
(* wrote it and whether it knew the weather at the home park.              *)
(***************************************************************************)
EXTENDS Integers, FiniteSets

CONSTANTS NumBalls,
          Season,              \* of each ball, not decreasing
          NoPark,              \* balls whose park_id is empty
          PageSize,            \* chunk_size
          MinWeather,          \* games --min-weather-coverage asks for
          MaxRuns, MaxRescores \* bounds

Balls == 1 .. NumBalls

ASSUME RetrodictAssumption ==
    /\ NumBalls \in Nat \ {0} /\ PageSize \in Nat \ {0} /\ MinWeather \in Nat
    /\ Season \in [Balls -> Nat \ {0}]
    /\ \A b, c \in Balls : b < c => Season[b] <= Season[c]
    /\ NoPark \subseteq Balls /\ MaxRuns \in Nat /\ MaxRescores \in Nat

VARIABLES
    event,      \* pitches FINAL: the ball has not come, is scored, or is an error
    observed,   \* weather_observed: the balls whose game has a row
    labels,     \* bbip_retrodicted_labels FINAL
    run,        \* run_pipeline: [pc, id, offset, page, short, weather, start, left]
    runs,       \* runs started, for the bound
    rescores,   \* corrections, for the bound
    done        \* the last run that finished: [id, weather, start, left]

retroVars == <<event, observed, labels, run, runs, rescores, done>>

noLabel == [run |-> 0, air |-> "still"]
runIdle == [pc |-> "idle", id |-> 0, offset |-> 0, page |-> {}, short |-> FALSE,
            weather |-> {}, start |-> {}, left |-> FALSE]
noRun   == [id |-> 0, weather |-> {}, start |-> {}, left |-> FALSE]

RetroInit ==
    /\ event = [b \in Balls |-> "absent"]
    /\ observed = {} /\ labels = [b \in Balls |-> noLabel]
    /\ run = runIdle /\ runs = 0 /\ rescores = 0 /\ done = noRun

RetroTypeOK ==
    /\ event \in [Balls -> {"absent", "scored", "error"}] /\ observed \subseteq Balls
    /\ labels \in [Balls -> [run : 0 .. MaxRuns, air : {"still", "observed"}]]
    /\ run.pc \in {"idle", "page", "insert"} /\ run.page \subseteq Balls
    /\ run.offset \in 0 .. NumBalls + PageSize

(***************************************************************************)
(* The table of pitches.                                                   *)
(***************************************************************************)
\* A ball that leaves the stream while a run pages through it is noted.
Leaves(b) == [run EXCEPT !.left = @ \/ (run.pc # "idle" /\ event[b] = "scored")]

\* A pitch is ingested.
Ingest(b) ==
    /\ event[b] = "absent"
    /\ event' = [event EXCEPT ![b] = "scored"]
    /\ UNCHANGED <<observed, labels, run, runs, rescores, done>>

\* A later version of the pitch says otherwise: a single is scored an error, or
\* the measurement is withdrawn.
Rescore(b, e) ==
    /\ event[b] \in {"scored", "error"} /\ e # event[b]
    /\ rescores < MaxRescores
    /\ rescores' = rescores + 1
    /\ event' = [event EXCEPT ![b] = e]
    /\ run' = Leaves(b)
    /\ UNCHANGED <<observed, labels, runs, done>>

WeatherArrives(b) ==
    /\ event[b] # "absent" /\ b \notin observed
    /\ observed' = observed \union {b}
    /\ UNCHANGED <<event, labels, run, runs, rescores, done>>

(***************************************************************************)
(* The pipeline.                                                           *)
(***************************************************************************)
\* _pitches_query: the scored balls, in order, from an offset on.
EventToOutcome(b) == event[b] = "scored"
Stream == {b \in Balls : EventToOutcome(b)}
RankIn(b, rows) == Cardinality({c \in rows : c < b})
PitchesQuery(offset, limit) ==
    {b \in Stream : RankIn(b, Stream) \in offset .. offset + limit - 1}

\* _row_to_bbip drops a row without a park.
RowToBbip(rows) == rows \ NoPark

\* load_weather_observed, once at the start, and the coverage gate.
LoadWeatherObserved == observed

StartPipeline ==
    /\ run.pc = "idle" /\ runs < MaxRuns
    /\ Cardinality(LoadWeatherObserved) >= MinWeather
    /\ runs' = runs + 1
    /\ run' = [runIdle EXCEPT !.pc = "page", !.id = runs + 1,
                              !.weather = LoadWeatherObserved, !.start = RowToBbip(Stream)]
    /\ UNCHANGED <<event, observed, labels, rescores, done>>

Finished == /\ run' = runIdle
            /\ done' = [id |-> run.id, weather |-> run.weather,
                        start |-> run.start, left |-> run.left]

\* A fault for the mutants: the page is called the last one when fewer rows
\* than a page could be mapped.
ReadPageMapped ==
    /\ run.pc = "page"
    /\ LET rows == PitchesQuery(run.offset, PageSize)
           short == Cardinality(RowToBbip(rows)) < PageSize IN
         CASE rows = {} \/ (RowToBbip(rows) = {} /\ short) -> Finished
           [] OTHER ->
                /\ run' = [run EXCEPT !.pc = "insert", !.offset = @ + PageSize,
                                      !.page = RowToBbip(rows), !.short = short]
                /\ UNCHANGED done
    /\ UNCHANGED <<event, observed, labels, runs, rescores>>

\* stream_bbips: a page of which no row could be mapped yields nothing.
ReadPage ==
    /\ run.pc = "page"
    /\ LET rows == PitchesQuery(run.offset, PageSize)
           short == Cardinality(rows) < PageSize IN
         CASE rows = {} \/ (RowToBbip(rows) = {} /\ short) -> Finished
           [] rows # {} /\ RowToBbip(rows) = {} /\ ~short ->
                run' = [run EXCEPT !.offset = @ + PageSize] /\ UNCHANGED done
           [] OTHER ->
                /\ run' = [run EXCEPT !.pc = "insert", !.offset = @ + PageSize,
                                      !.page = RowToBbip(rows), !.short = short]
                /\ UNCHANGED done
    /\ UNCHANGED <<event, observed, labels, runs, rescores>>

\* The air of a ball at its home park; at the others it is still.
AtmosphereAt(b, isHome, games) == IF isHome /\ b \in games THEN "observed" ELSE "still"

\* One ball at all parks: one label.
RetrodictBip(b) == [run |-> run.id, air |-> AtmosphereAt(b, TRUE, run.weather)]

\* The page at once.
RetrodictBatch(page) == [b \in Balls |-> IF b \in page THEN RetrodictBip(b) ELSE labels[b]]

InsertResults ==
    /\ run.pc = "insert"
    /\ labels' = RetrodictBatch(run.page)
    /\ IF run.short THEN Finished
       ELSE run' = [run EXCEPT !.pc = "page", !.page = {}] /\ UNCHANGED done
    /\ UNCHANGED <<event, observed, runs, rescores>>

KillPipeline ==
    /\ run.pc # "idle"
    /\ run' = runIdle
    /\ UNCHANGED <<event, observed, labels, runs, rescores, done>>

TableNext ==
    \E b \in Balls :
        \/ Ingest(b)
        \/ WeatherArrives(b)
        \/ \E e \in {"absent", "scored", "error"} : Rescore(b, e)

PipelineNext ==
    \/ StartPipeline
    \/ ReadPage
    \/ InsertResults
    \/ KillPipeline

(***************************************************************************)
(* The offset counts rows of a stream that changes while it is paged       *)
(* through.  A run that finishes has nevertheless labelled every ball that *)
(* was there from its start, with the weather known then, as long as no    *)
(* ball left the stream before the run ended: balls that come in, rows     *)
(* that cannot be mapped and earlier runs that were killed lose nothing.   *)
(***************************************************************************)
LabelledWhenDone ==
    ~done.left =>
        \A b \in done.start :
            /\ labels[b].run >= done.id
            /\ b \in done.weather => labels[b].air = "observed"
=============================================================================
