--------------------------- MODULE MCTrainingData ---------------------------
(* Four questions that share no actor, side by side: pitches and weather    *)
(* come in; one flight is computed twice; balls are labelled while others   *)
(* come in; and trainers read a table that an earlier run labelled in part. *)
EXTENDS WeatherBackfill, BattedBall, FlightOutcome, TLC

CONSTANTS p1, p2, zero, g1, g2

VARIABLE part

MCGameOf == p1 :> g1 @@ p2 :> g2 @@ zero :> g2
MCFeeds == {[condition |-> "roof closed", temp |-> TRUE, wind |-> "5 mph out"],
            [condition |-> "", temp |-> FALSE, wind |-> ""]}

\* Exchanging the two pitches together with their games changes nothing.
Symmetry == {p1 :> p2 @@ p2 :> p1 @@ g1 :> g2 @@ g2 :> g1,
             p1 :> p1 @@ p2 :> p2 @@ g1 :> g1 @@ g2 :> g2}

MCSeason == <<1, 1, 2, 2>>

BeforeARun ==
    /\ event = [b \in Balls |-> IF b <= 2 THEN "scored" ELSE "absent"] /\ observed = {1}
    /\ labels = [b \in Balls |-> noLabel]
    /\ run = runIdle /\ runs = 0 /\ rescores = 0 /\ done = noRun

AfterARun ==
    /\ event = [b \in Balls |-> "scored"] /\ observed = Balls
    /\ \E labelled \in SUBSET (Balls \ NoPark) :
          labels = [b \in Balls |-> IF b \in labelled THEN [run |-> 1, air |-> "observed"]
                                    ELSE noLabel]
    /\ run = runIdle /\ runs = 1 /\ rescores = 0 /\ done = noRun

FlightStill ==
    /\ fence = CHOOSE f \in Fences : TRUE
    /\ fair = TRUE /\ pos = <<[r |-> 0, z |-> 1]>> /\ landed = FALSE
    /\ kernel = KernelStart(1)

MCInit ==
    /\ IngestInit /\ TrainInit
    /\ \/ part = "ingest" /\ FlightStill /\ RetroInit
       \/ part = "flight" /\ FlightInit /\ RetroInit
       \/ part = "labels" /\ FlightStill /\ BeforeARun
       \/ part = "train" /\ FlightStill /\ AfterARun

ingestVars == <<vars, weatherVars>>

MCNext ==
    /\ UNCHANGED part
    /\ \/ part = "ingest" /\ IngestNext /\ UNCHANGED <<flightVars, retroVars, trainVars>>
       \/ part = "flight" /\ FlightNext /\ UNCHANGED <<ingestVars, retroVars, trainVars>>
       \/ part = "labels" /\ (TableNext \/ PipelineNext)
                          /\ UNCHANGED <<ingestVars, flightVars, trainVars>>
       \/ part = "train" /\ BattedBallNext /\ UNCHANGED <<ingestVars, flightVars>>

MCSpec == MCInit /\ [][MCNext]_<<ingestVars, flightVars, retroVars, trainVars, part>>
=============================================================================
