-------------------------- MODULE MCTrainingRelease -------------------------
(* Questions that share no state, side by side: folds are built, or pitch   *)
(* types materialised, and cross-validated; bundles are trained, exported   *)
(* and registered; the fold store is fetched; evidence for a promotion is   *)
(* collected; and an experiment on pitch sequences is run.                  *)
EXTENDS TrainingFolds, Bundles, FoldStore, Promotion, PitchSequences

VARIABLE part

\* A builder is told the last season or, as tier_1_2 by default, the one before.
MCMaxYears == {LastSeason - 1, LastSeason}

\* Seven pitches of five seasons, three of them in one game, of one pitcher or
\* two; the outcomes of two of them are in OUTCOME_CLASSES or not.
MCSeasonOf == <<1, 1, 1, 2, 3, 4, 5>>
MCGameOf   == <<1, 1, 1, 2, 3, 4, 5>>
MCLogs ==
    {[pitcher |-> <<1>> \o others, type |-> <<1>> \o types \o <<1, 1, 1, 1>>,
      known |-> [i \in 1 .. 7 |-> i \notin unknown]] :
        others \in [1 .. 6 -> {1, 2}], types \in [1 .. 2 -> {1, 2}], unknown \in {{}, {2, 5}}}

\* The default, a span that reaches the holdout season, a split whose training
\* seasons overlap the validation season, and one whose test season is first.
MCRequests ==
    {DefaultRequest,
     [from |-> 1, to |-> 5, train |-> {}, val |-> 4, test |-> 5],
     [from |-> 2, to |-> 4, train |-> {2, 3}, val |-> 3, test |-> 4],
     [from |-> 1, to |-> 4, train |-> {}, val |-> 4, test |-> 3]}

MCInit ==
    /\ FoldsInit /\ FoldStoreInit
    /\ part \in {"folds", "types", "bundles", "store", "evidence", "sequences"}
    /\ Init /\ (part # "bundles" => family = "pitch_post")
    /\ PromoInit /\ (part # "evidence" => evaluated = "mlp")
    /\ SeqInit /\ (part # "sequences" => pitchLog = CHOOSE log \in MCLogs : TRUE)

MCNext ==
    /\ UNCHANGED part
    /\ \/ part = "folds" /\ (BuildNext \/ CVNext) /\ UNCHANGED <<vars, storeVars, promoVars, seqVars>>
       \/ part = "types" /\ (MaterializeNext \/ CVNext) /\ UNCHANGED <<vars, storeVars, promoVars, seqVars>>
       \/ part = "bundles" /\ Next /\ UNCHANGED <<foldVars, storeVars, promoVars, seqVars>>
       \/ part = "store" /\ FoldStoreNext /\ UNCHANGED <<foldVars, vars, promoVars, seqVars>>
       \/ part = "evidence" /\ PromoNext /\ UNCHANGED <<foldVars, vars, storeVars, seqVars>>
       \/ part = "sequences" /\ SeqNext /\ UNCHANGED <<foldVars, vars, storeVars, promoVars>>

MCSpec == MCInit /\ [][MCNext]_<<foldVars, vars, storeVars, promoVars, seqVars, part>>
=============================================================================
