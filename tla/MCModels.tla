------------------------------ MODULE MCModels ------------------------------
(* Questions that share no state, side by side: the rows of the registry and *)
(* the routing table; where the files of versions are; the calibration alert *)
(* of a model; the directories that batted-ball models are made in; and the  *)
(* native sessions of loaded models.                                         *)
EXTENDS Registry, Snapshots, DriftAlerts, ArtifactFiles, ModelSessions, TLC

CONSTANTS pre, lr,      \* a primary head and its LR baseline
          h1, h2,       \* two feature-schema hashes
          i1, i2,       \* two worker processes, or two request threads
          v1, v2        \* two versions that serve

VARIABLE part

PreToH1 == pre :> h1
PreToLr == pre :> lr
MCParkOrder == <<"A", "B">>

\* Processes and threads are alike, and so are the versions that serve.
Symmetry == Permutations({i1, i2}) \union Permutations({v1, v2})

MCInit ==
    /\ part \in {"registry", "snapshots", "alerts", "artifacts", "sessions"}
    /\ Init /\ SnapshotInit /\ AlertInit /\ SessionInit
    /\ ArtifactInit /\ (part # "artifacts" => family = "network")

MCNext ==
    /\ UNCHANGED part
    /\ \/ /\ part = "registry" /\ Next
          /\ UNCHANGED <<snapshotVars, alertVars, artifactVars, sessionVars>>
       \/ /\ part = "snapshots" /\ SnapshotNext
          /\ UNCHANGED <<vars, alertVars, artifactVars, sessionVars>>
       \/ /\ part = "alerts" /\ AlertNext
          /\ UNCHANGED <<vars, snapshotVars, artifactVars, sessionVars>>
       \/ /\ part = "artifacts" /\ ArtifactNext
          /\ UNCHANGED <<vars, snapshotVars, alertVars, sessionVars>>
       \/ /\ part = "sessions" /\ SessionNext
          /\ UNCHANGED <<vars, snapshotVars, alertVars, artifactVars>>

MCSpec == MCInit /\ [][MCNext]_<<vars, snapshotVars, alertVars, artifactVars, sessionVars, part>>
=============================================================================
