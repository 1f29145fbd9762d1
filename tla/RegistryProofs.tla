--------------------------- MODULE RegistryProofs ---------------------------
(***************************************************************************)
(* Theorems about Registry, for every choice of models, hashes, mappings   *)
(* and bounds: what serves at every moment, what the registry never undoes *)
(* (the schema a model pinned, how a champion came to serve, who moved     *)
(* traffic to a challenger), and that the three tables implement           *)
(* ServingContract.                                                        *)
(***************************************************************************)
EXTENDS Registry, WellFoundedInduction, TLAPS

-----------------------------------------------------------------------------
(* What the writes of one table do *)

\* The table after SetStage: the same versions, and only v's stage changed.
LEMMA SetStageEffect ==
    ASSUME NEW s \in Seq(VersionRow), NEW v \in DOMAIN s, NEW t \in Stages
    PROVE  LET r == SetStage(s, v, t)
           IN /\ r \in Seq(VersionRow)
              /\ DOMAIN r = DOMAIN s
              /\ \A w \in DOMAIN s :
                    /\ r[w].model = s[w].model
                    /\ r[w].schema = s[w].schema
                    /\ r[w].stage = IF w = v THEN t ELSE s[w].stage
<1>1. s \in [1..Len(s) -> VersionRow] /\ DOMAIN s = 1..Len(s) /\ Len(s) \in Nat
    OBVIOUS
<1>2. [s[v] EXCEPT !.stage = t] \in VersionRow
    BY <1>1 DEF VersionRow
<1>3. SetStage(s, v, t) \in [1..Len(s) -> VersionRow]
    BY <1>1, <1>2 DEF SetStage
<1>4. SetStage(s, v, t) \in Seq(VersionRow)
    BY <1>1, <1>3
<1>5. \A w \in DOMAIN s :
        SetStage(s, v, t)[w] = IF w = v THEN [s[v] EXCEPT !.stage = t] ELSE s[w]
    BY <1>1 DEF SetStage
<1>6. \A w \in DOMAIN s : s[w] \in VersionRow
    BY <1>1
<1> QED
    BY <1>1, <1>3, <1>4, <1>5, <1>6 DEF VersionRow

\* The table after ArchiveWhere: the versions of S are archived, nothing else.
LEMMA ArchiveWhereEffect ==
    ASSUME NEW s \in Seq(VersionRow), NEW S
    PROVE  LET r == ArchiveWhere(s, S)
           IN /\ r \in Seq(VersionRow)
              /\ DOMAIN r = DOMAIN s
              /\ Len(r) = Len(s)
              /\ \A w \in DOMAIN s :
                    /\ r[w].model = s[w].model
                    /\ r[w].schema = s[w].schema
                    /\ r[w].stage = IF w \in S THEN "ARCHIVED" ELSE s[w].stage
<1>1. s \in [1..Len(s) -> VersionRow] /\ DOMAIN s = 1..Len(s) /\ Len(s) \in Nat
    OBVIOUS
<1>2. \A w \in DOMAIN s : s[w] \in VersionRow /\ [s[w] EXCEPT !.stage = "ARCHIVED"] \in VersionRow
    BY <1>1 DEF VersionRow, Stages
<1>3. ArchiveWhere(s, S) \in [1..Len(s) -> VersionRow]
    BY <1>1, <1>2 DEF ArchiveWhere
<1>4. ArchiveWhere(s, S) \in Seq(VersionRow) /\ Len(ArchiveWhere(s, S)) = Len(s)
    BY <1>1, <1>3
<1>5. \A w \in DOMAIN s :
        ArchiveWhere(s, S)[w] = IF w \in S THEN [s[w] EXCEPT !.stage = "ARCHIVED"] ELSE s[w]
    BY <1>1 DEF ArchiveWhere
<1> QED
    BY <1>1, <1>2, <1>3, <1>4, <1>5 DEF VersionRow

\* The table after an insert: the old rows and a CANDIDATE as the last one.
LEMMA InsertEffect ==
    ASSUME NEW s \in Seq(VersionRow), NEW m \in Models, NEW h \in Schemas
    PROVE  LET r == Append(s, NewVersion(m, h))
           IN /\ r \in Seq(VersionRow)
              /\ DOMAIN r = DOMAIN s \union {Len(s) + 1}
              /\ Len(s) + 1 \notin DOMAIN s
              /\ \A w \in DOMAIN s : r[w] = s[w]
              /\ r[Len(s) + 1].model = m
              /\ r[Len(s) + 1].schema = h
              /\ r[Len(s) + 1].stage = "CANDIDATE"
<1>1. NewVersion(m, h) \in VersionRow
    BY DEF NewVersion, VersionRow, Stages
<1> QED
    BY <1>1 DEF NewVersion

\* Every routing row the services write is well formed.
LEMMA UpsertType ==
    ASSUME TypeOK, NEW m \in Models, NEW row \in RoutingRow
    PROVE  /\ Upsert(m, row) \in [Routed \union {m} -> RoutingRow]
           /\ DOMAIN Upsert(m, row) = Routed \union {m}
           /\ Routed \union {m} \subseteq Models
           /\ Upsert(m, row)[m] = row
           /\ \A n \in Routed \ {m} : Upsert(m, row)[n] = routing[n]
    BY DEF TypeOK, Upsert

\* After the write: the row of m is the new one, the others are as they were.
LEMMA UpsertEffect ==
    ASSUME TypeOK, NEW m \in Models, NEW row \in RoutingRow,
           routing' = Upsert(m, row)
    PROVE  /\ Routed' = Routed \union {m}
           /\ routing'[m] = row
           /\ \A n \in Routed \ {m} : routing'[n] = routing[n]
<1>1. /\ DOMAIN Upsert(m, row) = Routed \union {m}
      /\ Upsert(m, row)[m] = row
      /\ \A n \in Routed \ {m} : Upsert(m, row)[n] = routing[n]
    BY UpsertType
<1>2. Routed' = DOMAIN Upsert(m, row)
    BY DEF Routed
<1> QED
    BY <1>1, <1>2

LEMMA UpsertKeepsType ==
    ASSUME TypeOK, NEW m \in Models, NEW row \in RoutingRow,
           routing' = Upsert(m, row),
           mv' \in Seq(VersionRow), experiments' = experiments
    PROVE  TypeOK'
<1>1. DOMAIN routing' = Routed \union {m} /\ routing' \in [Routed \union {m} -> RoutingRow]
    BY UpsertType
<1> QED
    BY <1>1 DEF TypeOK, Routed

LEMMA ChampionOnlyType ==
    ASSUME NEW v \in Nat \ {0}
    PROVE  ChampionOnly(v) \in RoutingRow
    BY TrafficAssumption DEF ChampionOnly, RoutingRow, NoVersion, Modes

LEMMA RowForChampionType ==
    ASSUME TypeOK, NEW m \in Models, NEW v \in Nat \ {0}
    PROVE  RowForChampion(m, v) \in RoutingRow
<1>1. CASE m \notin Routed
    BY <1>1, ChampionOnlyType DEF RowForChampion
<1>2. CASE m \in Routed
    <2>1. routing[m] \in RoutingRow
        BY <1>2 DEF TypeOK
    <2> QED
        BY <1>2, <2>1, ChampionOnlyType, TrafficAssumption DEF RowForChampion, RoutingRow, Modes
<1> QED
    BY <1>1, <1>2

-----------------------------------------------------------------------------
(* Type correctness *)

LEMMA VersionIds ==
    ASSUME TypeOK, NEW v \in Versions
    PROVE  /\ v \in Nat \ {0}
           /\ mv[v] \in VersionRow
           /\ mv[v].model \in Models
           /\ mv[v].stage \in Stages
<1>1. mv \in [1..Len(mv) -> VersionRow] /\ Versions = 1..Len(mv) /\ Len(mv) \in Nat
    BY DEF TypeOK, Versions
<1> QED
    BY <1>1 DEF VersionRow

\* TypeOK is kept by every step.
LEMMA TypeStep == TypeOK /\ [Next]_vars => TypeOK'
<1> SUFFICES ASSUME TypeOK, [Next]_vars
             PROVE  TypeOK'
    OBVIOUS
<1>1. ASSUME NEW m \in Models, NEW h \in Schemas, Register(m, h)
      PROVE  TypeOK'
    BY <1>1, InsertEffect DEF Register, TypeOK, Routed
<1>2. ASSUME NEW m \in Models, NEW h \in Schemas, RegisterWithBootstrap(m, h)
      PROVE  TypeOK'
    <2>1. ArchiveWhere(mv, OfModel(m)) \in Seq(VersionRow)
        BY ArchiveWhereEffect DEF TypeOK
    <2>2. mv' \in Seq(VersionRow)
        BY <1>2, <2>1, InsertEffect DEF RegisterWithBootstrap
    <2>3. routing' \in [Routed \ {m} -> RoutingRow] /\ DOMAIN routing' = Routed \ {m}
        BY <1>2 DEF RegisterWithBootstrap, WithoutRow, TypeOK
    <2> QED
        BY <1>2, <2>2, <2>3 DEF RegisterWithBootstrap, TypeOK, Routed
<1>3. ASSUME NEW v \in Versions, Promote(v)
      PROVE  TypeOK'
    <2> DEFINE m == mv[v].model
               retired == ArchiveWhere(mv, Champions(m) \ {v})
    <2>1. v \in Nat \ {0} /\ m \in Models
        BY VersionIds
    <2>2. retired \in Seq(VersionRow) /\ v \in DOMAIN retired
        BY ArchiveWhereEffect DEF TypeOK, Versions
    <2>3. mv' = SetStage(retired, v, "CHAMPION")
        BY <1>3 DEF Promote
    <2>4. mv' \in Seq(VersionRow)
        BY <2>2, <2>3, SetStageEffect DEF Stages
    <2>5. routing' = Upsert(m, RowForChampion(m, v)) /\ experiments' = experiments
        BY <1>3 DEF Promote
    <2>6. RowForChampion(m, v) \in RoutingRow
        BY <2>1, RowForChampionType
    <2> QED
        BY <2>1, <2>4, <2>5, <2>6, UpsertKeepsType
<1>4. ASSUME NEW v \in Versions, NEW s \in {"SHADOW", "ARCHIVED"}, Dethrone(v, s)
      PROVE  TypeOK'
    <2>1. mv' \in Seq(VersionRow)
        BY <1>4, SetStageEffect DEF Dethrone, TypeOK, Versions, Stages
    <2>2. routing' \in [Routed \ {mv[v].model} -> RoutingRow]
          /\ DOMAIN routing' = Routed \ {mv[v].model}
        BY <1>4 DEF Dethrone, WithoutRow, TypeOK
    <2> QED
        BY <1>4, <2>1, <2>2 DEF Dethrone, TypeOK, Routed
<1>5. ASSUME NEW v \in Versions, NEW s \in {"SHADOW", "ARCHIVED"}, Move(v, s)
      PROVE  TypeOK'
    <2> DEFINE m == mv[v].model
    <2>1. mv' \in Seq(VersionRow) /\ experiments' = experiments
        BY <1>5, SetStageEffect DEF Move, TypeOK, Versions, Stages
    <2>2. CASE routing' = routing
        BY <2>1, <2>2 DEF TypeOK, Routed
    <2>3. CASE m \in Routed /\ routing' = Upsert(m, ChampionOnly(routing[m].champion))
        <3>1. m \in Models /\ routing[m].champion \in Nat \ {0}
            BY <2>3 DEF TypeOK, RoutingRow
        <3>2. ChampionOnly(routing[m].champion) \in RoutingRow
            BY <3>1, ChampionOnlyType
        <3> QED
            BY <2>1, <2>3, <3>1, <3>2, UpsertKeepsType
    <2> QED
        BY <1>5, <2>2, <2>3 DEF Move
<1>6. ASSUME NEW m \in Models, NEW row \in RoutingRow,
             routing' = Upsert(m, row), UNCHANGED <<mv, experiments>>
      PROVE  TypeOK'
    BY <1>6, UpsertKeepsType DEF TypeOK
<1>7. ASSUME NEW m \in Models, m \in Routed
      PROVE  routing[m] \in RoutingRow /\ routing[m].champion \in Nat \ {0}
    BY <1>7 DEF TypeOK, RoutingRow
<1>8. ASSUME NEW m \in Models, NEW v \in Versions, SetChallenger(m, v)
      PROVE  TypeOK'
    <2>1. m \in Routed /\ v \in Nat
        BY <1>8, VersionIds DEF SetChallenger, CarriesChampion
    <2>2. [routing[m] EXCEPT !.challenger = v, !.pct = 0] \in RoutingRow
        BY <1>7, <2>1, TrafficAssumption DEF RoutingRow
    <2> QED
        BY <1>8, <1>6, <2>1, <2>2 DEF SetChallenger
<1>9. ASSUME NEW m \in Models, ClearChallenger(m)
      PROVE  TypeOK'
    <2>1. m \in Routed
        BY <1>9 DEF ClearChallenger, CarriesChampion
    <2> QED
        BY <1>9, <1>6, <1>7, <2>1, ChampionOnlyType DEF ClearChallenger
<1>10. ASSUME NEW m \in Models, NEW p \in TrafficPcts, SetTrafficPct(m, p)
       PROVE  TypeOK'
    <2>1. m \in Routed
        BY <1>10 DEF SetTrafficPct, CarriesChampion
    <2>2. [routing[m] EXCEPT !.pct = p] \in RoutingRow
        BY <1>7, <2>1 DEF RoutingRow
    <2> QED
        BY <1>10, <1>6, <2>1, <2>2 DEF SetTrafficPct
<1>11. ASSUME NEW m \in Models, NEW mode \in Modes, SetMode(m, mode)
       PROVE  TypeOK'
    <2>1. m \in Routed
        BY <1>11 DEF SetMode, CarriesChampion
    <2>2. [routing[m] EXCEPT !.mode = mode,
                             !.pct = IF mode = "SHADOW" THEN 0 ELSE routing[m].pct] \in RoutingRow
        BY <1>7, <2>1, TrafficAssumption DEF RoutingRow
    <2> QED
        BY <1>11, <1>6, <2>1, <2>2 DEF SetMode
<1>12. ASSUME ExperimentNext
       PROVE  TypeOK'
    <2>1. ASSUME NEW m \in Models, NEW c \in Versions, NEW d \in Versions,
                 NEW status \in Statuses
          PROVE  Experiment(m, c, d, status) \in ExperimentRow
        BY <2>1, VersionIds DEF Experiment, ExperimentRow
    <2>2. ASSUME NEW m \in Models, NEW c \in Versions, NEW d \in Versions,
                 StartExperiment(m, c, d) \/ ImportOfflineGate(m, c, d)
          PROVE  TypeOK'
        <3>1. PICK status \in Statuses :
                experiments' = Append(experiments, Experiment(m, c, d, status))
            BY <2>2 DEF StartExperiment, ImportOfflineGate, Statuses
        <3>2. UNCHANGED <<mv, routing>>
            BY <2>2 DEF StartExperiment, ImportOfflineGate
        <3> QED
            BY <2>1, <3>1, <3>2 DEF TypeOK, Routed
    <2>3. ASSUME NEW e \in DOMAIN experiments, NEW row \in ExperimentRow,
                 experiments' = [experiments EXCEPT ![e] = row],
                 UNCHANGED <<mv, routing>>
          PROVE  TypeOK'
        BY <2>3 DEF TypeOK, Routed
    <2>4. ASSUME NEW e \in DOMAIN experiments, NEW status \in Statuses,
                 FinishExperiment(e, status)
          PROVE  TypeOK'
        <3>1. experiments[e] \in ExperimentRow
            BY <2>4 DEF TypeOK
        <3>2. [experiments[e] EXCEPT !.status = status] \in ExperimentRow
            BY <3>1 DEF ExperimentRow
        <3>3. experiments' = [experiments EXCEPT ![e] = [experiments[e] EXCEPT !.status = status]]
            BY <2>4 DEF FinishExperiment
        <3> QED
            BY <2>3, <2>4, <3>2, <3>3 DEF FinishExperiment
    <2>5. ASSUME NEW e \in DOMAIN experiments, EvidenceAges(e)
          PROVE  TypeOK'
        <3>1. experiments[e] \in ExperimentRow
            BY <2>5 DEF TypeOK
        <3>2. [experiments[e] EXCEPT !.fresh = FALSE] \in ExperimentRow
            BY <3>1 DEF ExperimentRow
        <3>3. experiments' = [experiments EXCEPT ![e] = [experiments[e] EXCEPT !.fresh = FALSE]]
            BY <2>5 DEF EvidenceAges
        <3> QED
            BY <2>3, <2>5, <3>2, <3>3 DEF EvidenceAges
    <2> QED
        BY <1>12, <2>2, <2>4, <2>5 DEF ExperimentNext
<1>13. CASE UNCHANGED vars
    BY <1>13 DEF vars, TypeOK, Routed
<1> QED
    BY <1>1, <1>2, <1>3, <1>4, <1>5, <1>8, <1>9, <1>10, <1>11, <1>12, <1>13
    DEF Next, RegistryNext, RoutingNext

\* Every reachable state of the registry is well typed: ids are row ids, a
\* routing row always names a champion, stages and modes are the known ones.
THEOREM TypeCorrect == Spec => []TypeOK
<1>1. Init => TypeOK
    BY DEF Init, TypeOK, Routed
<1> QED
    BY <1>1, TypeStep, PTL DEF Spec

-----------------------------------------------------------------------------
(* Who serves: the stage column and the routing table agree *)

\* The three statements need each other: the row is removed when *its*
\* champion leaves, so it must name the only one; and a challenger cannot be
\* archived as a prior champion because its stage is SHADOW.
ServingInv == OneChampionPerModel /\ RoutedIffChampion /\ ChallengerIsShadow

\* One version of m changes its stage; champions of other models stay.
LEMMA ChampionsAfterStage ==
    ASSUME TypeOK, NEW v \in Versions, NEW s \in Stages, mv' = SetStage(mv, v, s)
    PROVE  /\ Versions' = Versions
           /\ \A w \in Versions : mv'[w].model = mv[w].model
           /\ mv'[v].stage = s
           /\ \A w \in Versions \ {v} : mv'[w].stage = mv[w].stage
           /\ \A n \in Models : OfModel(n)' = OfModel(n)
           /\ \A n \in Models : n # mv[v].model => Champions(n)' = Champions(n)
           /\ Champions(mv[v].model)' =
                 IF s = "CHAMPION" THEN Champions(mv[v].model) \union {v}
                                   ELSE Champions(mv[v].model) \ {v}
<1>1. /\ Versions' = Versions
      /\ \A w \in Versions : mv'[w].model = mv[w].model
      /\ \A w \in Versions : mv'[w].stage = IF w = v THEN s ELSE mv[w].stage
    BY SetStageEffect DEF TypeOK, Versions
<1> QED
    BY <1>1 DEF OfModel, Champions

\* The serving state after a step that writes no version's stage.
LEMMA ServingAfterRouting ==
    ASSUME TypeOK, ServingInv, UNCHANGED mv,
           NEW m \in Routed, NEW row \in RoutingRow, routing' = Upsert(m, row),
           row.champion = routing[m].champion,
           row.challenger # NoVersion =>
               /\ row.challenger \in OfModel(m)
               /\ mv[row.challenger].stage = "SHADOW"
    PROVE  ServingInv'
<1>1. m \in Models /\ Routed' = Routed
    BY UpsertType DEF TypeOK, Routed
<1>2. routing'[m] = row /\ \A n \in Routed \ {m} : routing'[n] = routing[n]
    BY <1>1, UpsertType
<1>3. \A n \in Models : OfModel(n)' = OfModel(n) /\ Champions(n)' = Champions(n)
    BY DEF OfModel, Champions, Versions
<1>4. OneChampionPerModel'
    BY <1>3 DEF ServingInv, OneChampionPerModel
<1>5. RoutedIffChampion'
    BY <1>1, <1>2, <1>3 DEF ServingInv, RoutedIffChampion
<1>6. ChallengerIsShadow'
    BY <1>1, <1>2, <1>3 DEF ServingInv, ChallengerIsShadow, TypeOK
<1> QED
    BY <1>4, <1>5, <1>6 DEF ServingInv

\* The serving state after the row of m, whose champion has left, is removed.
LEMMA ServingAfterRemoval ==
    ASSUME TypeOK, ServingInv, NEW m \in Models,
           Versions \subseteq Versions',
           \A w \in Versions : mv'[w].model = mv[w].model,
           \A w \in Versions : mv[w].model # m => mv'[w].stage = mv[w].stage,
           \A w \in Versions' \ Versions : mv'[w].stage = "CANDIDATE",
           Champions(m)' = {},
           routing' = WithoutRow(m)
    PROVE  ServingInv'
<1>1. Routed' = Routed \ {m} /\ \A n \in Routed \ {m} : routing'[n] = routing[n]
    BY DEF WithoutRow, Routed
<1>2. \A n \in Models \ {m} : Champions(n)' = Champions(n)
    BY DEF Champions, OfModel, TypeOK
<1>3. \A n \in Models : OfModel(n) \subseteq OfModel(n)'
    BY DEF OfModel
<1>4. OneChampionPerModel'
    BY <1>2 DEF ServingInv, OneChampionPerModel
<1>5. RoutedIffChampion'
    BY <1>1, <1>2 DEF ServingInv, RoutedIffChampion
<1>6. ASSUME NEW n \in Routed', routing'[n].challenger # NoVersion
      PROVE  /\ routing'[n].challenger \in OfModel(n)'
             /\ mv'[routing'[n].challenger].stage = "SHADOW"
    <2> DEFINE c == routing[n].challenger
    <2>1. n \in Routed /\ n # m /\ n \in Models /\ routing'[n].challenger = c
        BY <1>1, <1>6 DEF TypeOK
    <2>2. c \in OfModel(n) /\ mv[c].stage = "SHADOW"
        BY <1>6, <2>1 DEF ServingInv, ChallengerIsShadow
    <2> QED
        BY <1>3, <2>1, <2>2 DEF OfModel
<1> QED
    BY <1>4, <1>5, <1>6 DEF ServingInv, ChallengerIsShadow

LEMMA ServingStep == TypeOK /\ ServingInv /\ [Next]_vars => ServingInv'
<1> SUFFICES ASSUME TypeOK, ServingInv, [Next]_vars
             PROVE  ServingInv'
    OBVIOUS
<1>1. ASSUME NEW m \in Models, NEW h \in Schemas, Register(m, h)
      PROVE  ServingInv'
    <2>1. /\ Versions \subseteq Versions'
          /\ \A w \in Versions : mv'[w] = mv[w]
          /\ \A w \in Versions' \ Versions : mv'[w].stage = "CANDIDATE"
        BY <1>1, InsertEffect DEF Register, TypeOK, Versions
    <2>2. \A n \in Models : Champions(n)' = Champions(n) /\ OfModel(n) \subseteq OfModel(n)'
        BY <2>1 DEF Champions, OfModel
    <2>3. routing' = routing /\ Routed' = Routed /\ Routed \subseteq Models
        BY <1>1 DEF Register, Routed, TypeOK
    <2>4. OneChampionPerModel' /\ RoutedIffChampion'
        BY <2>2, <2>3 DEF ServingInv, OneChampionPerModel, RoutedIffChampion
    <2>5. ChallengerIsShadow'
        BY <2>1, <2>2, <2>3 DEF ServingInv, ChallengerIsShadow, OfModel
    <2> QED
        BY <2>4, <2>5 DEF ServingInv
<1>2. ASSUME NEW m \in Models, NEW h \in Schemas, RegisterWithBootstrap(m, h)
      PROVE  ServingInv'
    <2> DEFINE archived == ArchiveWhere(mv, OfModel(m))
    <2>1. /\ archived \in Seq(VersionRow)
          /\ DOMAIN archived = Versions
          /\ \A w \in Versions :
                /\ archived[w].model = mv[w].model
                /\ archived[w].stage = IF w \in OfModel(m) THEN "ARCHIVED" ELSE mv[w].stage
        BY ArchiveWhereEffect DEF TypeOK, Versions
    <2>2. mv' = Append(archived, NewVersion(m, h)) /\ routing' = WithoutRow(m)
        BY <1>2 DEF RegisterWithBootstrap
    <2> HIDE DEF archived
    <2>3. /\ Versions \subseteq Versions'
          /\ \A w \in Versions : mv'[w] = archived[w]
          /\ \A w \in Versions' \ Versions : mv'[w].stage = "CANDIDATE"
        BY <2>1, <2>2, InsertEffect DEF Versions
    <2>4. Champions(m)' = {}
        BY <2>1, <2>3 DEF Champions, OfModel
    <2>5. \A w \in Versions : mv[w].model # m => mv'[w].stage = mv[w].stage
        BY <2>1, <2>3 DEF OfModel
    <2>6. \A w \in Versions : mv'[w].model = mv[w].model
        BY <2>1, <2>3
    <2> QED
        BY <2>2, <2>3, <2>4, <2>5, <2>6, ServingAfterRemoval
<1>3. ASSUME NEW v \in Versions, Promote(v)
      PROVE  ServingInv'
    <2>0. PICK m \in Models : m = mv[v].model
        BY VersionIds
    <2>p. PICK prior : prior = Champions(m) \ {v}
        OBVIOUS
    <2>r. PICK row : row = RowForChampion(m, v)
        OBVIOUS
    <2> DEFINE retired == ArchiveWhere(mv, prior)
    <2>1. v \in Nat \ {0} /\ row \in RoutingRow
        BY <2>r, VersionIds, RowForChampionType
    <2>2. /\ retired \in Seq(VersionRow)
          /\ DOMAIN retired = Versions
          /\ \A w \in Versions :
                /\ retired[w].model = mv[w].model
                /\ retired[w].stage = IF w \in prior THEN "ARCHIVED" ELSE mv[w].stage
        BY ArchiveWhereEffect DEF TypeOK, Versions
    <2>3. mv' = SetStage(retired, v, "CHAMPION") /\ routing' = Upsert(m, row)
        BY <1>3, <2>0, <2>p, <2>r DEF Promote
    <2> HIDE DEF retired
    <2>4. /\ Versions' = Versions
          /\ \A w \in Versions : mv'[w].model = mv[w].model
          /\ mv'[v].stage = "CHAMPION"
          /\ \A w \in Versions \ {v} :
                mv'[w].stage = IF w \in prior THEN "ARCHIVED" ELSE mv[w].stage
        <3>1. v \in DOMAIN retired /\ "CHAMPION" \in Stages
            BY <2>2 DEF Stages
        <3>2. /\ DOMAIN mv' = DOMAIN retired
              /\ \A w \in DOMAIN retired :
                    /\ mv'[w].model = retired[w].model
                    /\ mv'[w].stage = IF w = v THEN "CHAMPION" ELSE retired[w].stage
            BY <2>2, <2>3, <3>1, SetStageEffect
        <3>3. Versions' = DOMAIN mv'
            BY DEF Versions
        <3> QED
            BY <2>2, <3>2, <3>3
    <2>5. Champions(m)' = {v}
        BY <2>0, <2>4, <2>p DEF Champions, OfModel
    <2>6. \A n \in Models \ {m} : Champions(n)' = Champions(n)
        BY <2>0, <2>4, <2>p DEF Champions, OfModel
    <2>7. /\ Routed' = Routed \union {m}
          /\ routing'[m] = row
          /\ \A n \in Routed \ {m} : routing'[n] = routing[n]
        BY <2>1, <2>3, UpsertEffect
    <2>8. row.champion = v
        <3>1. CASE m \in Routed
            <4>1. routing[m] \in RoutingRow
                BY <3>1 DEF TypeOK
            <4> QED
                BY <2>r, <3>1, <4>1 DEF RowForChampion, ChampionOnly, RoutingRow
        <3>2. CASE m \notin Routed
            BY <2>r, <3>2 DEF RowForChampion, ChampionOnly
        <3> QED
            BY <3>1, <3>2
    <2>9. row.challenger # NoVersion =>
              m \in Routed /\ row.challenger = routing[m].challenger /\ row.challenger # v
        <3>1. CASE m \in Routed
            <4>1. routing[m] \in RoutingRow
                BY <3>1 DEF TypeOK
            <4> QED
                BY <2>r, <3>1, <4>1 DEF RowForChampion, ChampionOnly, RoutingRow
        <3>2. CASE m \notin Routed
            BY <2>r, <3>2 DEF RowForChampion, ChampionOnly
        <3> QED
            BY <3>1, <3>2
    <2>10. OneChampionPerModel'
        BY <2>5, <2>6 DEF ServingInv, OneChampionPerModel
    <2>11. RoutedIffChampion'
        BY <2>5, <2>6, <2>7, <2>8 DEF ServingInv, RoutedIffChampion
    <2>12. ASSUME NEW n \in Routed', routing'[n].challenger # NoVersion
           PROVE  /\ routing'[n].challenger \in OfModel(n)'
                  /\ mv'[routing'[n].challenger].stage = "SHADOW"
        <3> DEFINE c == routing[n].challenger
        <3>1. n \in Routed /\ routing'[n].challenger = c /\ c # NoVersion /\ (n = m => c # v)
            BY <2>7, <2>9, <2>12
        <3>2. c \in OfModel(n) /\ mv[c].stage = "SHADOW"
            BY <3>1 DEF ServingInv, ChallengerIsShadow
        <3>3. c \in Versions /\ mv[c].model = n
            BY <3>2 DEF OfModel
        <3>4. c # v
            BY <2>0, <3>1, <3>3
        <3>5. c \notin prior
            BY <2>p, <3>2 DEF Champions
        <3> QED
            BY <2>4, <3>1, <3>2, <3>3, <3>4, <3>5 DEF OfModel
    <2> QED
        BY <2>10, <2>11, <2>12 DEF ServingInv, ChallengerIsShadow
<1>4. ASSUME NEW v \in Versions, NEW s \in {"SHADOW", "ARCHIVED"}, Dethrone(v, s)
      PROVE  ServingInv'
    <2>0. PICK m \in Models : m = mv[v].model
        BY VersionIds
    <2>1. mv' = SetStage(mv, v, s) /\ routing' = WithoutRow(m) /\ s \in Stages \ {"CHAMPION"}
        BY <1>4, <2>0 DEF Dethrone, Stages
    <2>2. v \in Champions(m)
        BY <1>4, <2>0 DEF Dethrone, Champions, OfModel
    <2>3. Champions(m)' = Champions(m) \ {v}
        BY <2>0, <2>1, ChampionsAfterStage
    <2>4. Champions(m)' = {}
        BY <2>2, <2>3 DEF ServingInv, OneChampionPerModel
    <2>5. /\ Versions' = Versions
          /\ \A w \in Versions : mv'[w].model = mv[w].model
          /\ \A w \in Versions : mv[w].model # m => mv'[w].stage = mv[w].stage
        BY <2>0, <2>1, ChampionsAfterStage
    <2> QED
        BY <2>1, <2>4, <2>5, ServingAfterRemoval
<1>5. ASSUME NEW v \in Versions, NEW s \in {"SHADOW", "ARCHIVED"}, Move(v, s)
      PROVE  ServingInv'
    <2>0. PICK m \in Models : m = mv[v].model
        BY VersionIds
    <2> DEFINE inSlot == m \in Routed /\ routing[m].challenger = v
    <2>1. mv' = SetStage(mv, v, s) /\ s \in Stages \ {"CHAMPION"} /\ v \in OfModel(m)
        BY <1>5, <2>0 DEF Move, Stages, OfModel
    <2>2. v \notin Champions(m)
        BY <1>5 DEF Move, Champions
    <2>c. Champions(m)' = Champions(m) \ {v}
        BY <2>0, <2>1, ChampionsAfterStage
    <2>3. /\ \A n \in Models : Champions(n)' = Champions(n) /\ OfModel(n)' = OfModel(n)
          /\ \A w \in Versions \ {v} : mv'[w].stage = mv[w].stage
        <3>1. /\ \A n \in Models : OfModel(n)' = OfModel(n)
              /\ \A n \in Models : n # m => Champions(n)' = Champions(n)
              /\ \A w \in Versions \ {v} : mv'[w].stage = mv[w].stage
            BY <2>0, <2>1, ChampionsAfterStage
        <3>2. Champions(m)' = Champions(m)
            BY <2>2, <2>c
        <3> QED
            BY <3>1, <3>2
    <2>4. OneChampionPerModel'
        BY <2>3 DEF ServingInv, OneChampionPerModel
    <2>5. CASE s = "ARCHIVED" /\ inSlot
        <3>0. PICK row : row = ChampionOnly(routing[m].champion)
            OBVIOUS
        <3>1. m \in Routed /\ routing[m].champion \in Nat \ {0}
            BY <2>5 DEF TypeOK, RoutingRow
        <3>2. routing' = Upsert(m, row) /\ row \in RoutingRow
            BY <1>5, <2>0, <2>5, <3>0, <3>1, ChampionOnlyType DEF Move
        <3>3. /\ Routed' = Routed
              /\ routing'[m] = row
              /\ \A n \in Routed \ {m} : routing'[n] = routing[n]
            BY <3>1, <3>2, UpsertEffect
        <3>4. row.champion = routing[m].champion /\ row.challenger = NoVersion
            BY <3>0 DEF ChampionOnly
        <3>5. RoutedIffChampion'
            BY <2>3, <3>3, <3>4 DEF ServingInv, RoutedIffChampion
        <3>6. \A n \in Routed \ {m} : n \in Models /\ v \notin OfModel(n)
            BY <2>1 DEF TypeOK, OfModel
        <3>7. ChallengerIsShadow'
            BY <2>3, <3>3, <3>4, <3>6 DEF ServingInv, ChallengerIsShadow, OfModel
        <3> QED
            BY <2>4, <3>5, <3>7 DEF ServingInv
    <2>6. CASE ~(s = "ARCHIVED" /\ inSlot)
        <3>1. routing' = routing /\ Routed' = Routed /\ Routed \subseteq Models
            BY <1>5, <2>0, <2>6 DEF Move, Routed, TypeOK
        <3>2. RoutedIffChampion'
            BY <2>3, <3>1 DEF ServingInv, RoutedIffChampion
        <3>3. ASSUME NEW n \in Routed, routing[n].challenger = v, v # NoVersion
              PROVE  FALSE
            <4>1. v \in OfModel(n) /\ mv[v].stage = "SHADOW"
                BY <3>3 DEF ServingInv, ChallengerIsShadow
            <4>2. n = m /\ inSlot
                BY <2>0, <3>3, <4>1 DEF OfModel
            <4>3. s = "ARCHIVED"
                BY <1>5, <4>1 DEF Move, CanTransitionTo, LegalTargets
            <4> QED
                BY <2>6, <4>2, <4>3
        <3>4. ChallengerIsShadow'
            BY <2>3, <3>1, <3>3 DEF ServingInv, ChallengerIsShadow, OfModel
        <3> QED
            BY <2>4, <3>2, <3>4 DEF ServingInv
    <2> QED
        BY <2>5, <2>6
<1>6. ASSUME NEW m \in Models, NEW v \in Versions, SetChallenger(m, v)
      PROVE  ServingInv'
    <2>1. /\ m \in Routed /\ routing[m] \in RoutingRow
          /\ v \in Nat /\ v \in OfModel(m) /\ mv[v].stage = "SHADOW"
        BY <1>6, VersionIds DEF SetChallenger, CarriesChampion, TypeOK, OfModel
    <2>2. [routing[m] EXCEPT !.challenger = v, !.pct = 0] \in RoutingRow
        BY <2>1, TrafficAssumption DEF RoutingRow
    <2> QED
        BY <1>6, <2>1, <2>2, ServingAfterRouting DEF SetChallenger, RoutingRow
<1>7. ASSUME NEW m \in Models, ClearChallenger(m)
      PROVE  ServingInv'
    <2>1. m \in Routed /\ routing[m].champion \in Nat \ {0}
        BY <1>7 DEF ClearChallenger, CarriesChampion, TypeOK, RoutingRow
    <2>2. ChampionOnly(routing[m].champion) \in RoutingRow
        BY <2>1, ChampionOnlyType
    <2> QED
        BY <1>7, <2>1, <2>2, ServingAfterRouting DEF ClearChallenger, ChampionOnly
<1>8. ASSUME NEW m \in Models, NEW p \in TrafficPcts, SetTrafficPct(m, p)
      PROVE  ServingInv'
    <2>1. m \in Routed /\ routing[m] \in RoutingRow
        BY <1>8 DEF SetTrafficPct, CarriesChampion, TypeOK
    <2>2. [routing[m] EXCEPT !.pct = p] \in RoutingRow
        BY <2>1 DEF RoutingRow
    <2> QED
        BY <1>8, <2>1, <2>2, ServingAfterRouting
        DEF SetTrafficPct, RoutingRow, ServingInv, ChallengerIsShadow
<1>9. ASSUME NEW m \in Models, NEW mode \in Modes, SetMode(m, mode)
      PROVE  ServingInv'
    <2> DEFINE row == [routing[m] EXCEPT
                          !.mode = mode,
                          !.pct = IF mode = "SHADOW" THEN 0 ELSE routing[m].pct]
    <2>1. m \in Routed /\ routing[m] \in RoutingRow
        BY <1>9 DEF SetMode, CarriesChampion, TypeOK
    <2>2. /\ row \in RoutingRow
          /\ row.champion = routing[m].champion
          /\ row.challenger = routing[m].challenger
        BY <2>1, TrafficAssumption DEF RoutingRow
    <2>3. routing' = Upsert(m, row) /\ UNCHANGED mv
        BY <1>9 DEF SetMode
    <2> HIDE DEF row
    <2> QED
        BY <2>1, <2>2, <2>3, ServingAfterRouting DEF ServingInv, ChallengerIsShadow
<1>10. CASE UNCHANGED <<mv, routing>>
    BY <1>10
    DEF ServingInv, OneChampionPerModel, RoutedIffChampion, ChallengerIsShadow,
        Champions, OfModel, Versions, Routed
<1>11. ExperimentNext \/ UNCHANGED vars => UNCHANGED <<mv, routing>>
    BY DEF ExperimentNext, StartExperiment, ImportOfflineGate, FinishExperiment,
           EvidenceAges, vars
<1> QED
    BY <1>1, <1>2, <1>3, <1>4, <1>5, <1>6, <1>7, <1>8, <1>9, <1>10, <1>11
    DEF Next, RegistryNext, RoutingNext

LEMMA ServingInvariant == Spec => [](TypeOK /\ ServingInv)
<1>1. Init => TypeOK /\ ServingInv
    BY DEF Init, TypeOK, ServingInv, OneChampionPerModel, RoutedIffChampion,
           ChallengerIsShadow, Champions, OfModel, Versions, Routed
<1>2. (TypeOK /\ ServingInv) /\ [Next]_vars => (TypeOK /\ ServingInv)'
    BY TypeStep, ServingStep
<1> QED
    BY <1>1, <1>2, PTL DEF Spec

\* At every moment a model has at most one champion, and its routing row exists
\* exactly while it has one and names it.
THEOREM ServingConsistent == Spec => [](OneChampionPerModel /\ RoutedIffChampion)
<1>1. ServingInv => OneChampionPerModel /\ RoutedIffChampion
    BY DEF ServingInv
<1> QED
    BY <1>1, ServingInvariant, PTL

\* The challenger slot of a routing row holds a SHADOW version of the same model
\* or nothing: no promotion, archival, reset or deletion leaves another behind.
THEOREM ChallengersShadow == Spec => []ChallengerIsShadow
<1>1. ServingInv => ChallengerIsShadow
    BY DEF ServingInv
<1> QED
    BY <1>1, ServingInvariant, PTL

-----------------------------------------------------------------------------
(***************************************************************************)
(* What a whole history of the registry cannot do.                         *)
(***************************************************************************)
(* What a step does to the versions *)

LEMMA LeastVersion ==
    ASSUME NEW S \in SUBSET Nat, S # {}
    PROVE  \E v \in S : \A w \in S : v <= w
<1>1. \E v \in S : \A w \in S : ~ (<<w, v>> \in OpToRel(<, Nat))
    BY NatLessThanWellFounded, WFMin
<1>2. PICK v \in S : \A w \in S : ~ (<<w, v>> \in OpToRel(<, Nat))
    BY <1>1
<1>3. \A w \in S : ~ (w < v)
    BY <1>2 DEF OpToRel
<1> QED
    BY <1>3

\* A model with a live version has pinned a hash.
LEMMA LiveIsPinned ==
    ASSUME TypeOK, NEW m \in Models, Live(m) # {}
    PROVE  BootstrapHash(m) # {}
<1>1. Live(m) \in SUBSET Nat
    BY VersionIds DEF Live, OfModel
<1>2. \E v \in Live(m) : \A w \in Live(m) : v <= w
    BY <1>1, LeastVersion
<1> QED
    BY <1>2 DEF BootstrapHash

\* What every step does to the versions it finds, and what it may add.
Keeps ==
    /\ Versions \subseteq Versions'
    /\ \A w \in Versions :
          /\ mv'[w].model = mv[w].model
          /\ mv'[w].schema = mv[w].schema
          /\ mv[w].stage = "ARCHIVED" => mv'[w].stage = "ARCHIVED"
          /\ mv'[w].stage = "CHAMPION" => mv[w].stage = "CHAMPION" \/ Promote(w)

Adds ==
    \A w \in Versions' \ Versions :
       /\ mv'[w].stage = "CANDIDATE"
       /\ \A x \in Versions : x < w
       /\ \A x \in Versions' \ Versions : x = w
       /\ \/ \A x \in OfModel(mv'[w].model) : mv'[x].stage = "ARCHIVED"
          \/ \E x \in Live(mv'[w].model) : mv[x].schema = mv'[w].schema

LEMMA NewVersionAdds ==
    ASSUME TypeOK, NEW m \in Models, NEW h \in Schemas,
           NEW old \in Seq(VersionRow), Len(old) = Len(mv),
           \A w \in Versions : /\ old[w].model = mv[w].model
                               /\ old[w].schema = mv[w].schema
                               /\ old[w].stage \in {mv[w].stage, "ARCHIVED"},
           mv' = Append(old, NewVersion(m, h)),
           \/ \A x \in OfModel(m) : old[x].stage = "ARCHIVED"
           \/ \E x \in Live(m) : mv[x].schema = h
    PROVE  Keeps /\ Adds
<1> DEFINE n == Len(mv) + 1
<1>1. /\ Versions = 1..Len(mv) /\ Len(mv) \in Nat /\ DOMAIN old = Versions
    BY DEF Versions, TypeOK
<1>2. /\ Versions' = Versions \union {n} /\ n \notin Versions
      /\ \A w \in Versions : mv'[w] = old[w]
      /\ mv'[n].model = m /\ mv'[n].schema = h /\ mv'[n].stage = "CANDIDATE"
    BY <1>1, InsertEffect DEF Versions
<1>3. Keeps
    BY <1>2 DEF Keeps
<1>4. OfModel(m) \subseteq Versions
    BY DEF OfModel
<1>5. Adds
    BY <1>1, <1>2, <1>4 DEF Adds
<1> QED
    BY <1>3, <1>5

\* A step that rewrites stages only.
LEMMA StagesKeep ==
    ASSUME Versions' = Versions,
           \A w \in Versions :
               /\ mv'[w].model = mv[w].model
               /\ mv'[w].schema = mv[w].schema
               /\ mv[w].stage = "ARCHIVED" => mv'[w].stage = "ARCHIVED"
               /\ mv'[w].stage = "CHAMPION" => mv[w].stage = "CHAMPION" \/ Promote(w)
    PROVE  Keeps /\ Adds
    BY DEF Keeps, Adds

\* One version moves to a stage it may move to.
LEMMA MoveKeeps ==
    ASSUME TypeOK, NEW v \in Versions, NEW s \in {"SHADOW", "ARCHIVED"},
           CanTransitionTo(v, s), mv' = SetStage(mv, v, s)
    PROVE  Keeps /\ Adds
<1>0. mv \in Seq(VersionRow) /\ s \in Stages /\ v \in DOMAIN mv
    BY DEF TypeOK, Stages, Versions
<1>1. /\ Versions' = Versions
      /\ \A w \in Versions :
            /\ mv'[w].model = mv[w].model
            /\ mv'[w].schema = mv[w].schema
            /\ mv'[w].stage = IF w = v THEN s ELSE mv[w].stage
    BY <1>0, SetStageEffect DEF Versions
<1>2. mv[v].stage # "ARCHIVED"
    BY VersionIds DEF CanTransitionTo, LegalTargets
<1> QED
    BY <1>1, <1>2, StagesKeep

\* What a promotion writes to the versions.
LEMMA PromoteEffect ==
    ASSUME TypeOK, NEW v \in Versions, Promote(v),
           NEW prior, prior = Champions(mv[v].model) \ {v}
    PROVE  /\ Versions' = Versions
           /\ mv[v].stage \in {"CANDIDATE", "SHADOW"}
           /\ \A w \in Versions :
                 /\ mv'[w].model = mv[w].model
                 /\ mv'[w].schema = mv[w].schema
                 /\ mv'[w].stage = IF w = v THEN "CHAMPION"
                                   ELSE IF w \in prior THEN "ARCHIVED" ELSE mv[w].stage
<1> DEFINE retired == ArchiveWhere(mv, prior)
<1>1. /\ retired \in Seq(VersionRow)
      /\ DOMAIN retired = Versions
      /\ \A w \in Versions :
            /\ retired[w].model = mv[w].model
            /\ retired[w].schema = mv[w].schema
            /\ retired[w].stage = IF w \in prior THEN "ARCHIVED" ELSE mv[w].stage
    BY ArchiveWhereEffect DEF TypeOK, Versions
<1>2. mv' = SetStage(retired, v, "CHAMPION")
    BY DEF Promote
<1> HIDE DEF retired
<1>3. v \in DOMAIN retired /\ "CHAMPION" \in Stages
    BY <1>1 DEF Stages
<1>4. /\ DOMAIN mv' = DOMAIN retired
      /\ \A w \in DOMAIN retired :
            /\ mv'[w].model = retired[w].model
            /\ mv'[w].schema = retired[w].schema
            /\ mv'[w].stage = IF w = v THEN "CHAMPION" ELSE retired[w].stage
    BY <1>1, <1>2, <1>3, SetStageEffect
<1>5. CanTransitionTo(v, "CHAMPION") /\ mv[v].stage \in Stages
    BY VersionIds DEF Promote
<1>6. mv[v].stage \in {"CANDIDATE", "SHADOW"}
    BY <1>5 DEF CanTransitionTo, LegalTargets, Stages
<1>7. Versions' = DOMAIN mv'
    BY DEF Versions
<1> QED
    BY <1>1, <1>4, <1>6, <1>7

LEMMA VersionsStep == TypeOK /\ [Next]_vars => Keeps /\ Adds
<1> SUFFICES ASSUME TypeOK, [Next]_vars
             PROVE  Keeps /\ Adds
    OBVIOUS
<1>1. ASSUME NEW m \in Models, NEW h \in Schemas, Register(m, h)
      PROVE  Keeps /\ Adds
    <2>1. mv' = Append(mv, NewVersion(m, h)) /\ SchemaAccepted(m, h) /\ mv \in Seq(VersionRow)
        BY <1>1 DEF Register, TypeOK
    <2>2. \/ \A x \in OfModel(m) : mv[x].stage = "ARCHIVED"
          \/ \E x \in Live(m) : mv[x].schema = h
        <3>1. CASE Live(m) = {}
            BY <3>1 DEF Live
        <3>2. CASE Live(m) # {}
            <4>1. h \in BootstrapHash(m)
                BY <2>1, <3>2, LiveIsPinned DEF SchemaAccepted
            <4> QED
                BY <4>1 DEF BootstrapHash
        <3> QED
            BY <3>1, <3>2
    <2> QED
        BY <2>1, <2>2, NewVersionAdds
<1>2. ASSUME NEW m \in Models, NEW h \in Schemas, RegisterWithBootstrap(m, h)
      PROVE  Keeps /\ Adds
    <2> DEFINE old == ArchiveWhere(mv, OfModel(m))
    <2>1. /\ old \in Seq(VersionRow) /\ Len(old) = Len(mv)
          /\ \A w \in Versions :
                /\ old[w].model = mv[w].model
                /\ old[w].schema = mv[w].schema
                /\ old[w].stage = IF w \in OfModel(m) THEN "ARCHIVED" ELSE mv[w].stage
        BY ArchiveWhereEffect DEF TypeOK, Versions
    <2>2. mv' = Append(old, NewVersion(m, h))
        BY <1>2 DEF RegisterWithBootstrap
    <2> HIDE DEF old
    <2>3. \A x \in OfModel(m) : old[x].stage = "ARCHIVED"
        BY <2>1 DEF OfModel
    <2> QED
        BY <2>1, <2>2, <2>3, NewVersionAdds
<1>3. ASSUME NEW v \in Versions, Promote(v)
      PROVE  Keeps /\ Adds
    <2>1. PICK prior : prior = Champions(mv[v].model) \ {v}
        OBVIOUS
    <2>2. /\ Versions' = Versions
          /\ mv[v].stage # "ARCHIVED"
          /\ \A w \in Versions :
                /\ mv'[w].model = mv[w].model
                /\ mv'[w].schema = mv[w].schema
                /\ mv'[w].stage = IF w = v THEN "CHAMPION"
                                  ELSE IF w \in prior THEN "ARCHIVED" ELSE mv[w].stage
        BY <1>3, <2>1, PromoteEffect
    <2>3. ASSUME NEW w \in Versions
          PROVE  /\ mv[w].stage = "ARCHIVED" => mv'[w].stage = "ARCHIVED"
                 /\ mv'[w].stage = "CHAMPION" => mv[w].stage = "CHAMPION" \/ Promote(w)
        BY <1>3, <2>2
    <2> QED
        BY <2>2, <2>3, StagesKeep
<1>4. ASSUME NEW v \in Versions, NEW s \in {"SHADOW", "ARCHIVED"}, Dethrone(v, s) \/ Move(v, s)
      PROVE  Keeps /\ Adds
    BY <1>4, MoveKeeps DEF Dethrone, Move
<1>5. CASE UNCHANGED mv
    BY <1>5, StagesKeep DEF Versions
<1>6. RoutingNext \/ ExperimentNext \/ UNCHANGED vars => UNCHANGED mv
    BY DEF RoutingNext, SetChallenger, ClearChallenger, SetTrafficPct, SetMode,
           ExperimentNext, StartExperiment, ImportOfflineGate, FinishExperiment,
           EvidenceAges, vars
<1> QED
    BY <1>1, <1>2, <1>3, <1>4, <1>5, <1>6 DEF Next, RegistryNext

-----------------------------------------------------------------------------
(* Rule 7: one schema hash per model *)

LEMMA SchemaStep == TypeOK /\ OneLiveSchema /\ [Next]_vars => OneLiveSchema'
<1> SUFFICES ASSUME TypeOK, OneLiveSchema, [Next]_vars,
                    NEW m \in Models, NEW v \in Live(m)', NEW w \in Live(m)'
             PROVE  mv'[v].schema = mv'[w].schema
    BY DEF OneLiveSchema
<1>1. Keeps /\ Adds
    BY VersionsStep
<1>2. \A x \in Live(m)' : /\ x \in Versions' /\ mv'[x].model = m /\ mv'[x].stage # "ARCHIVED"
                          /\ x \in Versions => x \in Live(m)
    BY <1>1 DEF Keeps, Live, OfModel
<1>3. ASSUME NEW x \in Live(m)', NEW y \in Live(m)', x \in Versions, y \notin Versions
      PROVE  mv'[x].schema = mv'[y].schema
    <2>1. x \in Live(m) /\ x \in OfModel(m) /\ mv'[x].stage # "ARCHIVED"
        BY <1>2, <1>3 DEF Live
    <2>2. y \in Versions' \ Versions /\ mv'[y].model = m
        BY <1>2, <1>3
    <2>3. \E z \in Live(m) : mv[z].schema = mv'[y].schema
        BY <1>1, <2>1, <2>2 DEF Adds
    <2> QED
        BY <1>1, <2>1, <2>3, <1>3 DEF OneLiveSchema, Keeps
<1>4. CASE v \in Versions /\ w \in Versions
    BY <1>1, <1>2, <1>4 DEF OneLiveSchema, Keeps
<1>5. CASE v \notin Versions /\ w \notin Versions
    BY <1>1, <1>2, <1>5 DEF Adds
<1> QED
    BY <1>3, <1>4, <1>5

\* All live versions of a model share one feature-schema hash, whatever was
\* archived, reset or promoted meanwhile.
THEOREM SchemaIsPinned == Spec => []OneLiveSchema
<1>1. Init => TypeOK /\ OneLiveSchema
    BY DEF Init, TypeOK, OneLiveSchema, Live, OfModel, Versions, Routed
<1>2. (TypeOK /\ OneLiveSchema) /\ [Next]_vars => (TypeOK /\ OneLiveSchema)'
    BY TypeStep, SchemaStep
<1> QED
    BY <1>1, <1>2, PTL DEF Spec

-----------------------------------------------------------------------------
(* Rule 5: no champion is ungated *)

\* An experiment that passed stays a pass of the same challenger.
LEMMA PassesStay ==
    ASSUME TypeOK, [Next]_vars, NEW e \in DOMAIN experiments,
           experiments[e].status = "passed"
    PROVE  /\ e \in DOMAIN experiments'
           /\ experiments'[e].model = experiments[e].model
           /\ experiments'[e].challenger = experiments[e].challenger
           /\ experiments'[e].status = "passed"
<1>0. /\ experiments \in Seq(ExperimentRow)
      /\ \A x \in DOMAIN experiments : experiments[x] \in ExperimentRow
    BY DEF TypeOK
<1>1. CASE UNCHANGED experiments
    BY <1>1
<1>2. ASSUME NEW m \in Models, NEW c \in Versions, NEW d \in Versions,
             StartExperiment(m, c, d) \/ ImportOfflineGate(m, c, d)
      PROVE  e \in DOMAIN experiments' /\ experiments'[e] = experiments[e]
    <2>1. PICK status \in Statuses :
            experiments' = Append(experiments, Experiment(m, c, d, status))
        BY <1>2 DEF StartExperiment, ImportOfflineGate, Statuses
    <2>2. Experiment(m, c, d, status) \in ExperimentRow
        BY VersionIds DEF Experiment, ExperimentRow
    <2> QED
        BY <1>0, <2>1, <2>2
<1>3. ASSUME NEW f \in DOMAIN experiments, NEW status \in Statuses, FinishExperiment(f, status)
      PROVE  e \in DOMAIN experiments' /\ experiments'[e] = experiments[e]
    BY <1>0, <1>3 DEF FinishExperiment
<1>4. ASSUME NEW f \in DOMAIN experiments, EvidenceAges(f)
      PROVE  /\ e \in DOMAIN experiments'
             /\ experiments'[e].model = experiments[e].model
             /\ experiments'[e].challenger = experiments[e].challenger
             /\ experiments'[e].status = "passed"
    BY <1>0, <1>4 DEF EvidenceAges, ExperimentRow
<1>5. RegistryNext \/ RoutingNext \/ UNCHANGED vars => UNCHANGED experiments
    BY DEF RegistryNext, Register, RegisterWithBootstrap, Promote, Dethrone, Move,
           RoutingNext, SetChallenger, ClearChallenger, SetTrafficPct, SetMode, vars
<1> QED
    BY <1>1, <1>2, <1>3, <1>4, <1>5 DEF Next, ExperimentNext

\* What ChampionEarned asks of one champion.
Passed(m, v) ==
    \E e \in DOMAIN experiments :
       /\ experiments[e].model = m
       /\ experiments[e].challenger = v
       /\ experiments[e].status = "passed"

First(m, v) == \A w \in OfModel(m) : v <= w

LEMMA EarnedStep == TypeOK /\ ChampionEarned /\ [Next]_vars => ChampionEarned'
<1> SUFFICES ASSUME TypeOK, ChampionEarned, [Next]_vars,
                    NEW m \in Models, NEW v \in Champions(m)'
             PROVE  First(m, v)' \/ Passed(m, v)'
    BY Zenon DEF ChampionEarned, First, Passed
<1>1. Keeps /\ Adds
    BY VersionsStep
<1>2. v \in Versions' /\ mv'[v].model = m /\ mv'[v].stage = "CHAMPION"
    BY DEF Champions, OfModel
<1>3. v \in Versions /\ v \in OfModel(m)
    BY <1>1, <1>2 DEF Adds, Keeps, OfModel
<1>4. Passed(m, v) => Passed(m, v)'
    <2>1. ASSUME NEW e \in DOMAIN experiments, experiments[e].model = m,
                 experiments[e].challenger = v, experiments[e].status = "passed"
          PROVE  Passed(m, v)'
        BY <2>1, PassesStay DEF Passed
    <2> QED
        BY <2>1 DEF Passed
<1>5. First(m, v) => First(m, v)'
    <2> SUFFICES ASSUME First(m, v), NEW w \in OfModel(m)'
                 PROVE  v <= w
        BY DEF First
    <2>1. w \in Versions' /\ mv'[w].model = m
        BY DEF OfModel
    <2>2. CASE w \in Versions
        BY <1>1, <2>1, <2>2 DEF First, OfModel, Keeps
    <2>3. CASE w \notin Versions
        <3>1. v < w
            BY <1>1, <1>3, <2>1, <2>3 DEF Adds
        <3>2. v \in Nat /\ Versions' \subseteq Nat
            BY <1>3, TypeStep, VersionIds DEF Versions, TypeOK
        <3> QED
            BY <2>1, <3>1, <3>2
    <2> QED
        BY <2>2, <2>3
<1>6. First(m, v) \/ Passed(m, v)
    <2>1. CASE mv[v].stage = "CHAMPION"
        <3>1. v \in Champions(m)
            BY <1>3, <2>1 DEF Champions
        <3> QED
            BY <3>1 DEF ChampionEarned, First, Passed
    <2>2. CASE Promote(v)
        <3>1. mv[v].model = m /\ PromotionCriteriaMet(v) /\ v \in Nat
            BY <1>3, <2>2, VersionIds DEF Promote, OfModel
        <3>2. OfModel(m) = {v} => First(m, v)
            BY <3>1 DEF First
        <3> QED
            BY <3>1, <3>2 DEF PromotionCriteriaMet, Passed
    <2> QED
        BY <1>1, <1>2, <1>3, <2>1, <2>2 DEF Keeps
<1> QED
    BY <1>4, <1>5, <1>6

\* Every champion passed an experiment of its model, or is the first version
\* the model ever registered: no sequence of resets, archivals and rollbacks
\* makes an ungated champion.
THEOREM ChampionsAreEarned == Spec => []ChampionEarned
<1>1. Init => TypeOK /\ ChampionEarned
    BY DEF Init, TypeOK, ChampionEarned, Champions, OfModel, Versions, Routed
<1>2. (TypeOK /\ ChampionEarned) /\ [Next]_vars => (TypeOK /\ ChampionEarned)'
    BY TypeStep, EarnedStep
<1> QED
    BY <1>1, <1>2, PTL DEF Spec

-----------------------------------------------------------------------------
(* Traffic moves only by an admin's act *)

\* A row in mode SHADOW carries no traffic.
RowIsDeliberate(row) == row.pct > 0 => row.mode = "AB"
TrafficInv == \A m \in Routed : RowIsDeliberate(routing[m])

\* What a step may do to the row of a model that keeps one.
RowChange(old, new) ==
    /\ RowIsDeliberate(new)
    /\ new.pct = 0 \/ (new.champion = old.champion /\ new.challenger = old.challenger)

TrafficChange ==
    /\ \A m \in Routed' \ Routed : RowIsDeliberate(routing'[m])
    /\ \A m \in Routed \intersect Routed' : RowChange(routing[m], routing'[m])

LEMMA UpsertTraffic ==
    ASSUME TypeOK, TrafficInv, NEW m \in Models, NEW row \in RoutingRow,
           routing' = Upsert(m, row), RowIsDeliberate(row),
           m \in Routed => RowChange(routing[m], row)
    PROVE  TrafficChange
<1>1. /\ Routed' = Routed \union {m}
      /\ routing'[m] = row
      /\ \A n \in Routed \ {m} : routing'[n] = routing[n]
    BY UpsertEffect
<1>2. \A n \in Routed : RowChange(routing[n], routing[n])
    BY DEF TrafficInv, RowChange
<1> QED
    BY <1>1, <1>2 DEF TrafficChange

LEMMA RemovalTraffic ==
    ASSUME TrafficInv, NEW m, routing' = WithoutRow(m)
    PROVE  TrafficChange
<1>1. Routed' = Routed \ {m} /\ \A n \in Routed \ {m} : routing'[n] = routing[n]
    BY DEF WithoutRow, Routed
<1> QED
    BY <1>1 DEF TrafficChange, TrafficInv, RowChange

\* The row a promotion leaves: no traffic, unless nothing in it changed.
LEMMA PromotedRow ==
    ASSUME TypeOK, TrafficInv, NEW m \in Models, NEW v \in Nat \ {0}
    PROVE  LET row == RowForChampion(m, v)
           IN /\ RowIsDeliberate(row)
              /\ row.champion = v
              /\ m \in Routed => RowChange(routing[m], row)
<1>1. CASE m \notin Routed
    BY <1>1 DEF RowForChampion, ChampionOnly, RowIsDeliberate
<1>2. CASE m \in Routed
    <2>1. routing[m] \in RoutingRow /\ RowIsDeliberate(routing[m])
        BY <1>2 DEF TypeOK, TrafficInv
    <2>2. CASE routing[m].challenger \in {v, NoVersion}
        BY <1>2, <2>2 DEF RowForChampion, ChampionOnly, RowIsDeliberate, RowChange
    <2>3. CASE routing[m].challenger \notin {v, NoVersion} /\ routing[m].champion = v
        BY <1>2, <2>1, <2>3 DEF RowForChampion, RowChange
    <2>4. CASE routing[m].challenger \notin {v, NoVersion} /\ routing[m].champion # v
        <3> DEFINE new == [routing[m] EXCEPT !.champion = v, !.pct = 0, !.mode = "SHADOW"]
        <3>1. RowForChampion(m, v) = new
            BY <1>2, <2>4 DEF RowForChampion
        <3>2. new.champion = v /\ new.pct = 0
            BY <2>1 DEF RoutingRow
        <3> QED
            BY <3>1, <3>2 DEF RowIsDeliberate, RowChange
    <2> QED
        BY <2>2, <2>3, <2>4
<1> QED
    BY <1>1, <1>2

LEMMA TrafficStep == TypeOK /\ TrafficInv /\ [Next]_vars => TrafficChange
<1> SUFFICES ASSUME TypeOK, TrafficInv, [Next]_vars
             PROVE  TrafficChange
    OBVIOUS
<1>1. ASSUME NEW m \in Models, m \in Routed
      PROVE  /\ routing[m] \in RoutingRow /\ RowIsDeliberate(routing[m])
             /\ routing[m].champion \in Nat \ {0}
    BY <1>1 DEF TypeOK, TrafficInv, RoutingRow
<1>2. ASSUME NEW m \in Models, m \in Routed, routing' = Upsert(m, ChampionOnly(routing[m].champion))
      PROVE  TrafficChange
    <2>1. PICK row \in RoutingRow : row = ChampionOnly(routing[m].champion)
        BY <1>1, <1>2, ChampionOnlyType
    <2>2. row.pct = 0
        BY <2>1 DEF ChampionOnly
    <2>3. RowIsDeliberate(row) /\ RowChange(routing[m], row)
        BY <2>2 DEF RowIsDeliberate, RowChange
    <2> QED
        BY <1>2, <2>1, <2>3, UpsertTraffic
<1>3. CASE UNCHANGED routing
    BY <1>3 DEF TrafficChange, TrafficInv, RowChange, Routed
<1>4. ASSUME NEW v \in Versions, Promote(v)
      PROVE  TrafficChange
    <2>1. PICK m \in Models : m = mv[v].model
        BY VersionIds
    <2>2. v \in Nat \ {0}
        BY VersionIds
    <2>3. PICK row \in RoutingRow : row = RowForChampion(m, v)
        BY <2>2, RowForChampionType
    <2>4. routing' = Upsert(m, row)
        BY <1>4, <2>1, <2>3 DEF Promote
    <2> QED
        BY <2>2, <2>3, <2>4, PromotedRow, UpsertTraffic
<1>5. ASSUME NEW v \in Versions, NEW s \in {"SHADOW", "ARCHIVED"}, Move(v, s)
      PROVE  TrafficChange
    <2>1. PICK m \in Models : m = mv[v].model
        BY VersionIds
    <2> QED
        BY <1>2, <1>3, <1>5, <2>1 DEF Move
<1>6. ASSUME NEW m \in Models, NEW v \in Versions, SetChallenger(m, v)
      PROVE  TrafficChange
    <2>1. m \in Routed /\ v \in Nat /\ routing[m] \in RoutingRow
        BY <1>1, <1>6, VersionIds DEF SetChallenger, CarriesChampion
    <2> DEFINE row == [routing[m] EXCEPT !.challenger = v, !.pct = 0]
    <2>2. row \in RoutingRow /\ row.pct = 0
        BY <2>1, TrafficAssumption DEF RoutingRow
    <2>3. routing' = Upsert(m, row)
        BY <1>6 DEF SetChallenger
    <2> HIDE DEF row
    <2>4. RowIsDeliberate(row) /\ RowChange(routing[m], row)
        BY <2>2 DEF RowIsDeliberate, RowChange
    <2> QED
        BY <2>2, <2>3, <2>4, UpsertTraffic
<1>7. ASSUME NEW m \in Models, NEW p \in TrafficPcts, SetTrafficPct(m, p)
      PROVE  TrafficChange
    <2>1. m \in Routed /\ routing[m] \in RoutingRow /\ routing[m].mode \in Modes
        BY <1>1, <1>7 DEF SetTrafficPct, CarriesChampion, RoutingRow
    <2> DEFINE row == [routing[m] EXCEPT !.pct = p]
    <2>2. /\ row \in RoutingRow /\ row.pct = p /\ row.mode = routing[m].mode
          /\ row.champion = routing[m].champion /\ row.challenger = routing[m].challenger
        BY <2>1 DEF RoutingRow
    <2>3. routing' = Upsert(m, row) /\ (routing[m].mode = "SHADOW" => p = 0)
        BY <1>7 DEF SetTrafficPct
    <2> HIDE DEF row
    <2>4. RowIsDeliberate(row) /\ RowChange(routing[m], row)
        BY <2>1, <2>2, <2>3 DEF RowIsDeliberate, RowChange, Modes
    <2> QED
        BY <2>2, <2>3, <2>4, UpsertTraffic
<1>8. ASSUME NEW m \in Models, NEW mode \in Modes, SetMode(m, mode)
      PROVE  TrafficChange
    <2>1. m \in Routed /\ routing[m] \in RoutingRow
        BY <1>1, <1>8 DEF SetMode, CarriesChampion
    <2> DEFINE row == [routing[m] EXCEPT
                          !.mode = mode,
                          !.pct = IF mode = "SHADOW" THEN 0 ELSE routing[m].pct]
    <2>2. /\ row \in RoutingRow /\ row.mode = mode
          /\ row.pct = IF mode = "SHADOW" THEN 0 ELSE routing[m].pct
          /\ row.champion = routing[m].champion /\ row.challenger = routing[m].challenger
        BY <2>1, TrafficAssumption DEF RoutingRow
    <2>3. routing' = Upsert(m, row)
        BY <1>8 DEF SetMode
    <2> HIDE DEF row
    <2>4. RowIsDeliberate(row) /\ RowChange(routing[m], row)
        BY <2>1, <2>2 DEF RowIsDeliberate, RowChange, Modes
    <2> QED
        BY <2>2, <2>3, <2>4, UpsertTraffic
<1>9. ASSUME NEW m \in Models, ClearChallenger(m)
      PROVE  TrafficChange
    BY <1>2, <1>9 DEF ClearChallenger, CarriesChampion
<1>10. ASSUME NEW m, routing' = WithoutRow(m)
       PROVE  TrafficChange
    BY <1>10, RemovalTraffic
<1>11. CASE RegistryNext
    BY <1>3, <1>4, <1>5, <1>10, <1>11 DEF RegistryNext, Register, RegisterWithBootstrap, Dethrone
<1>12. CASE RoutingNext
    BY <1>6, <1>7, <1>8, <1>9, <1>12 DEF RoutingNext
<1>13. CASE ExperimentNext \/ UNCHANGED vars
    BY <1>3, <1>13 DEF ExperimentNext, StartExperiment, ImportOfflineGate,
                       FinishExperiment, EvidenceAges, vars
<1> QED
    BY <1>11, <1>12, <1>13 DEF Next

\* A step that changes who is champion or challenger leaves no traffic on the
\* slot, and traffic needs mode AB: a promotion or a new challenger never
\* inherits the percentage an admin gave to another version.
THEOREM TrafficNeedsAnAct == Spec => TrafficIsDeliberate
<1> DEFINE Deliberate ==
        \A m \in Models : m \in Routed /\ m \in Routed' =>
          LET old == routing[m]
              new == routing'[m]
          IN /\ new.pct > 0 => new.mode = "AB"
             /\ <<new.champion, new.challenger>> # <<old.champion, old.challenger>>
                   => new.pct = 0
<1>1. Init => TypeOK /\ TrafficInv
    BY DEF Init, TypeOK, TrafficInv, Routed
<1>2. (TypeOK /\ TrafficInv) /\ [Next]_vars => (TypeOK /\ TrafficInv)'
    <2>1. TrafficChange => TrafficInv'
        BY DEF TrafficChange, TrafficInv, RowChange
    <2> QED
        BY <2>1, TypeStep, TrafficStep
<1>3. TypeOK /\ TrafficInv /\ [Next]_vars => [Deliberate]_vars
    <2>1. TrafficChange => Deliberate
        BY DEF TrafficChange, RowChange, RowIsDeliberate
    <2> QED
        BY <2>1, TrafficStep
<1> QED
    BY <1>1, <1>2, <1>3, PTL DEF Spec, TrafficIsDeliberate

-----------------------------------------------------------------------------
(* The tables implement ServingContract: every step of a service is one    *)
(* step of the contract or leaves its three variables alone.               *)

\* The contract's variables, as the instance in Registry maps them.
OwnerOf == [v \in Versions |-> mv[v].model]
ServingOf == [m \in Models |-> IF m \in Routed THEN routing[m].champion ELSE 0]
RetiredOf == {v \in Versions : mv[v].stage = "ARCHIVED"}

AbstractStep ==
    \/ UNCHANGED <<OwnerOf, ServingOf, RetiredOf>>
    \/ \E m \in Models :
          \/ /\ OwnerOf' = Append(OwnerOf, m)
             /\ UNCHANGED <<ServingOf, RetiredOf>>
          \/ /\ ServingOf[m] # 0
             /\ ServingOf' = [ServingOf EXCEPT ![m] = 0]
             /\ RetiredOf' \in {RetiredOf, RetiredOf \union {ServingOf[m]}}
             /\ UNCHANGED OwnerOf
          \/ /\ OwnerOf' = Append(OwnerOf, m)
             /\ ServingOf' = [ServingOf EXCEPT ![m] = 0]
             /\ RetiredOf' = RetiredOf \union {v \in DOMAIN OwnerOf : OwnerOf[v] = m}
    \/ \E m \in Models, v \in DOMAIN OwnerOf :
          /\ OwnerOf[v] = m
          /\ v \notin RetiredOf
          /\ v # ServingOf[m]
          /\ ServingOf' = [ServingOf EXCEPT ![m] = v]
          /\ RetiredOf' = RetiredOf \union ({ServingOf[m]} \ {0})
          /\ UNCHANGED OwnerOf
    \/ \E v \in DOMAIN OwnerOf :
          /\ \A m \in Models : ServingOf[m] # v
          /\ RetiredOf' = RetiredOf \union {v}
          /\ UNCHANGED <<OwnerOf, ServingOf>>

LEMMA AbstractStepIsStep == AbstractStep => [Contract!Next]_(Contract!vars)
<1>1. ASSUME UNCHANGED <<OwnerOf, ServingOf, RetiredOf>>
      PROVE  UNCHANGED Contract!vars
    BY <1>1, Zenon DEF OwnerOf, ServingOf, RetiredOf, Contract!vars
<1>2. ASSUME NEW m \in Models, OwnerOf' = Append(OwnerOf, m), UNCHANGED <<ServingOf, RetiredOf>>
      PROVE  Contract!Next
    BY <1>2, Zenon DEF OwnerOf, ServingOf, RetiredOf, Contract!Next, Contract!Release
<1>3. ASSUME NEW m \in Models, ServingOf[m] # 0,
             ServingOf' = [ServingOf EXCEPT ![m] = 0],
             RetiredOf' \in {RetiredOf, RetiredOf \union {ServingOf[m]}},
             UNCHANGED OwnerOf
      PROVE  Contract!Next
    BY <1>3, Zenon DEF OwnerOf, ServingOf, RetiredOf, Contract!Next, Contract!Withdraw
<1>4. ASSUME NEW m \in Models, OwnerOf' = Append(OwnerOf, m),
             ServingOf' = [ServingOf EXCEPT ![m] = 0],
             RetiredOf' = RetiredOf \union {v \in DOMAIN OwnerOf : OwnerOf[v] = m}
      PROVE  Contract!Next
    BY <1>4, Zenon DEF OwnerOf, ServingOf, RetiredOf, Contract!Next, Contract!Reset, Contract!Versions
<1>5. ASSUME NEW m \in Models, NEW v \in DOMAIN OwnerOf, OwnerOf[v] = m,
             v \notin RetiredOf, v # ServingOf[m],
             ServingOf' = [ServingOf EXCEPT ![m] = v],
             RetiredOf' = RetiredOf \union ({ServingOf[m]} \ {0}),
             UNCHANGED OwnerOf
      PROVE  Contract!Next
    BY <1>5, Zenon DEF OwnerOf, ServingOf, RetiredOf, Contract!Next, Contract!Serve, Contract!Versions
<1>6. ASSUME NEW v \in DOMAIN OwnerOf, \A m \in Models : ServingOf[m] # v,
             RetiredOf' = RetiredOf \union {v},
             UNCHANGED <<OwnerOf, ServingOf>>
      PROVE  Contract!Next
    BY <1>6, Zenon DEF OwnerOf, ServingOf, RetiredOf, Contract!Next, Contract!Retire, Contract!Versions
<1> QED
    BY <1>1, <1>2, <1>3, <1>4, <1>5, <1>6 DEF AbstractStep

-----------------------------------------------------------------------------
(* How the three change *)

LEMMA SameOwners ==
    ASSUME Versions' = Versions, \A w \in Versions : mv'[w].model = mv[w].model
    PROVE  OwnerOf' = OwnerOf
    BY DEF OwnerOf

LEMMA AppendIsFunction ==
    ASSUME NEW S, NEW s \in Seq(S), NEW x \in S
    PROVE  Append(s, x) = [i \in 1..Len(s) + 1 |-> IF i = Len(s) + 1 THEN x ELSE s[i]]
<1>1. PICK t : t = Append(s, x)
    OBVIOUS
<1>2. /\ t \in Seq(S)
      /\ Len(t) = Len(s) + 1
      /\ \A i \in 1..Len(s) + 1 : t[i] = IF i = Len(s) + 1 THEN x ELSE s[i]
    BY <1>1
<1>3. t \in [1..Len(s) + 1 -> S]
    BY <1>2
<1> QED
    BY <1>1, <1>2, <1>3

LEMMA OwnerAppended ==
    ASSUME TypeOK, NEW m \in Models, NEW h \in Schemas,
           NEW old \in Seq(VersionRow), Len(old) = Len(mv),
           \A w \in Versions : old[w].model = mv[w].model,
           mv' = Append(old, NewVersion(m, h))
    PROVE  OwnerOf' = Append(OwnerOf, m)
<1> DEFINE n == Len(mv) + 1
<1>1. /\ Versions = 1..Len(mv) /\ Len(mv) \in Nat /\ DOMAIN old = Versions
    BY DEF Versions, TypeOK
<1>2. /\ Versions' = 1..n
      /\ \A w \in Versions : mv'[w].model = mv[w].model
      /\ mv'[n].model = m
    BY <1>1, InsertEffect DEF Versions
<1>3. OwnerOf \in [1..Len(mv) -> Models]
    BY <1>1, VersionIds DEF OwnerOf
<1>4. OwnerOf \in Seq(Models) /\ Len(OwnerOf) = Len(mv)
    BY <1>1, <1>3
<1>5. Append(OwnerOf, m) = [v \in 1..n |-> IF v = n THEN m ELSE OwnerOf[v]]
    BY <1>1, <1>4, AppendIsFunction
<1>6. OwnerOf' = [v \in 1..n |-> mv'[v].model]
    BY <1>2 DEF OwnerOf
<1>7. \A v \in 1..n : mv'[v].model = IF v = n THEN m ELSE OwnerOf[v]
    BY <1>1, <1>2 DEF OwnerOf
<1> QED
    BY <1>5, <1>6, <1>7

LEMMA SameServing ==
    ASSUME Routed' = Routed, \A m \in Routed : routing'[m].champion = routing[m].champion
    PROVE  ServingOf' = ServingOf
    BY DEF ServingOf

LEMMA ServingRemoved ==
    ASSUME NEW m \in Models, routing' = WithoutRow(m)
    PROVE  ServingOf' = [ServingOf EXCEPT ![m] = 0]
<1>1. Routed' = Routed \ {m} /\ \A n \in Routed \ {m} : routing'[n] = routing[n]
    BY DEF WithoutRow, Routed
<1> QED
    BY <1>1 DEF ServingOf

\* The row of m is written with champion v.
LEMMA ServingWritten ==
    ASSUME TypeOK, NEW m \in Models, NEW row \in RoutingRow, routing' = Upsert(m, row)
    PROVE  ServingOf' = [ServingOf EXCEPT ![m] = row.champion]
<1>1. /\ Routed' = Routed \union {m}
      /\ routing'[m] = row
      /\ \A n \in Routed \ {m} : routing'[n] = routing[n]
    BY UpsertEffect
<1> QED
    BY <1>1 DEF ServingOf

\* A write that carries the champion forward.
LEMMA ServingCarried ==
    ASSUME TypeOK, NEW m \in Models, m \in Routed, NEW row \in RoutingRow,
           row.champion = routing[m].champion, routing' = Upsert(m, row)
    PROVE  ServingOf' = ServingOf
<1>1. /\ Routed' = Routed \union {m}
      /\ routing'[m] = row
      /\ \A n \in Routed \ {m} : routing'[n] = routing[n]
    BY UpsertEffect
<1> QED
    BY <1>1, SameServing

\* One version moves to stage s, which is not CHAMPION.
LEMMA MovedVersion ==
    ASSUME TypeOK, NEW v \in Versions, NEW s \in {"SHADOW", "ARCHIVED"},
           mv[v].stage # "ARCHIVED", mv' = SetStage(mv, v, s)
    PROVE  /\ OwnerOf' = OwnerOf
           /\ RetiredOf' = IF s = "ARCHIVED" THEN RetiredOf \union {v} ELSE RetiredOf
<1>0. mv \in Seq(VersionRow) /\ s \in Stages /\ v \in DOMAIN mv
    BY DEF TypeOK, Stages, Versions
<1>1. /\ Versions' = Versions
      /\ \A w \in Versions :
            /\ mv'[w].model = mv[w].model
            /\ mv'[w].stage = IF w = v THEN s ELSE mv[w].stage
    BY <1>0, SetStageEffect DEF Versions
<1> QED
    BY <1>1, SameOwners DEF RetiredOf

LEMMA Carries ==
    ASSUME TypeOK, NEW m \in Models, m \in Routed
    PROVE  /\ routing[m] \in RoutingRow
           /\ routing[m].champion \in Nat \ {0}
           /\ ServingOf[m] = routing[m].champion
    BY DEF TypeOK, RoutingRow, ServingOf

-----------------------------------------------------------------------------
LEMMA SimulationStep == TypeOK /\ ServingInv /\ [Next]_vars => AbstractStep
<1> SUFFICES ASSUME TypeOK, ServingInv, [Next]_vars
             PROVE  AbstractStep
    OBVIOUS
<1>1. ASSUME UNCHANGED mv, UNCHANGED ServingOf
      PROVE  AbstractStep
    <2>1. OwnerOf' = OwnerOf /\ RetiredOf' = RetiredOf
        BY <1>1 DEF OwnerOf, RetiredOf, Versions
    <2> QED
        BY <1>1, <2>1 DEF AbstractStep
<1>2. UNCHANGED routing => UNCHANGED ServingOf
    BY DEF ServingOf, Routed
<1>3. ASSUME NEW m \in Models, NEW h \in Schemas, Register(m, h)
      PROVE  AbstractStep
    <2>1. OwnerOf' = Append(OwnerOf, m)
        BY <1>3, OwnerAppended DEF Register, TypeOK
    <2>2. /\ Versions \subseteq Versions'
          /\ \A w \in Versions : mv'[w] = mv[w]
          /\ \A w \in Versions' \ Versions : mv'[w].stage = "CANDIDATE"
        BY <1>3, InsertEffect DEF Register, TypeOK, Versions
    <2>3. RetiredOf' = RetiredOf
        BY <2>2 DEF RetiredOf
    <2>4. UNCHANGED ServingOf
        BY <1>2, <1>3 DEF Register
    <2> QED
        BY <2>1, <2>3, <2>4 DEF AbstractStep
<1>4. ASSUME NEW m \in Models, NEW h \in Schemas, RegisterWithBootstrap(m, h)
      PROVE  AbstractStep
    <2> DEFINE old == ArchiveWhere(mv, OfModel(m))
    <2>1. /\ old \in Seq(VersionRow) /\ Len(old) = Len(mv) /\ DOMAIN old = Versions
          /\ \A w \in Versions :
                /\ old[w].model = mv[w].model
                /\ old[w].stage = IF w \in OfModel(m) THEN "ARCHIVED" ELSE mv[w].stage
        BY ArchiveWhereEffect DEF TypeOK, Versions
    <2>2. mv' = Append(old, NewVersion(m, h)) /\ routing' = WithoutRow(m)
        BY <1>4 DEF RegisterWithBootstrap
    <2> HIDE DEF old
    <2>3. OwnerOf' = Append(OwnerOf, m)
        BY <2>1, <2>2, OwnerAppended
    <2>4. /\ Versions \subseteq Versions'
          /\ \A w \in Versions : mv'[w] = old[w]
          /\ \A w \in Versions' \ Versions : mv'[w].stage = "CANDIDATE"
        BY <2>1, <2>2, InsertEffect DEF Versions
    <2>5. RetiredOf' = RetiredOf \union OfModel(m)
        BY <2>1, <2>4 DEF RetiredOf, OfModel
    <2>6. OfModel(m) = {v \in DOMAIN OwnerOf : OwnerOf[v] = m}
        BY DEF OfModel, OwnerOf
    <2> QED
        BY <2>2, <2>3, <2>5, <2>6, ServingRemoved DEF AbstractStep
<1>5. ASSUME NEW v \in Versions, Promote(v)
      PROVE  AbstractStep
    <2>1. PICK m \in Models : m = mv[v].model
        BY VersionIds
    <2>2. PICK prior : prior = Champions(m) \ {v}
        OBVIOUS
    <2>3. PICK row \in RoutingRow : row = RowForChampion(m, v)
        BY RowForChampionType, VersionIds
    <2>4. /\ Versions' = Versions
          /\ mv[v].stage \in {"CANDIDATE", "SHADOW"}
          /\ \A w \in Versions :
                /\ mv'[w].model = mv[w].model
                /\ mv'[w].stage = IF w = v THEN "CHAMPION"
                                  ELSE IF w \in prior THEN "ARCHIVED" ELSE mv[w].stage
        BY <1>5, <2>1, <2>2, PromoteEffect
    <2>5. routing' = Upsert(m, row) /\ row.champion = v
        <3>1. CASE m \in Routed
            <4>1. routing[m] \in RoutingRow
                BY <3>1 DEF TypeOK
            <4> QED
                BY <1>5, <2>1, <2>3, <3>1, <4>1 DEF Promote, RowForChampion, ChampionOnly, RoutingRow
        <3>2. CASE m \notin Routed
            BY <1>5, <2>1, <2>3, <3>2 DEF Promote, RowForChampion, ChampionOnly
        <3> QED
            BY <3>1, <3>2
    <2>6. ServingOf' = [ServingOf EXCEPT ![m] = v]
        BY <2>5, ServingWritten
    <2>7. v \notin Champions(m)
        BY <2>4 DEF Champions
    <2>8. Champions(m) = {ServingOf[m]} \ {0}
        <3>1. CASE m \in Routed
            <4>1. ServingOf[m] \in Champions(m) /\ ServingOf[m] # 0
                BY <3>1, Carries DEF ServingInv, RoutedIffChampion
            <4>2. \A w \in Champions(m) : w = ServingOf[m]
                BY <4>1 DEF ServingInv, OneChampionPerModel
            <4> QED
                BY <4>1, <4>2
        <3>2. CASE m \notin Routed
            BY <3>2 DEF ServingInv, RoutedIffChampion, ServingOf
        <3> QED
            BY <3>1, <3>2
    <2>9. prior = {ServingOf[m]} \ {0} /\ prior \subseteq Versions
        BY <2>2, <2>7, <2>8 DEF Champions, OfModel
    <2>10. RetiredOf' = RetiredOf \union ({ServingOf[m]} \ {0})
        BY <2>4, <2>9, <2>2 DEF RetiredOf
    <2>11. OwnerOf' = OwnerOf /\ v \in DOMAIN OwnerOf /\ OwnerOf[v] = m
        BY <2>1, <2>4, SameOwners DEF OwnerOf
    <2>12. v \notin RetiredOf /\ v # ServingOf[m]
        BY <2>4, <2>7, <2>8, VersionIds DEF RetiredOf
    <2> QED
        BY <2>6, <2>10, <2>11, <2>12 DEF AbstractStep
<1>6. ASSUME NEW v \in Versions, NEW s \in {"SHADOW", "ARCHIVED"}, Dethrone(v, s)
      PROVE  AbstractStep
    <2>1. PICK m \in Models : m = mv[v].model
        BY VersionIds
    <2>2. /\ mv' = SetStage(mv, v, s) /\ routing' = WithoutRow(m)
          /\ mv[v].stage # "ARCHIVED" /\ v \in Champions(m)
        BY <1>6, <2>1 DEF Dethrone, Champions, OfModel
    <2>3. ServingOf[m] = v /\ v # 0
        <3>1. m \in Routed /\ routing[m].champion \in Champions(m)
            BY <2>2 DEF ServingInv, RoutedIffChampion
        <3> QED
            BY <2>2, <3>1, Carries DEF ServingInv, OneChampionPerModel
    <2>4. /\ OwnerOf' = OwnerOf
          /\ RetiredOf' \in {RetiredOf, RetiredOf \union {ServingOf[m]}}
        BY <2>2, <2>3, MovedVersion
    <2>5. ServingOf' = [ServingOf EXCEPT ![m] = 0]
        BY <2>2, ServingRemoved
    <2> QED
        BY <2>3, <2>4, <2>5 DEF AbstractStep
<1>7. ASSUME NEW v \in Versions, NEW s \in {"SHADOW", "ARCHIVED"}, Move(v, s)
      PROVE  AbstractStep
    <2>1. PICK m \in Models : m = mv[v].model
        BY VersionIds
    <2>2. /\ mv' = SetStage(mv, v, s) /\ mv[v].stage # "CHAMPION" /\ CanTransitionTo(v, s)
        BY <1>7 DEF Move
    <2>3. mv[v].stage # "ARCHIVED"
        BY <2>2, VersionIds DEF CanTransitionTo, LegalTargets
    <2>4. ServingOf' = ServingOf
        <3>1. CASE UNCHANGED routing
            BY <1>2, <3>1
        <3>2. CASE m \in Routed /\ routing' = Upsert(m, ChampionOnly(routing[m].champion))
            <4>1. PICK row \in RoutingRow : row = ChampionOnly(routing[m].champion)
                BY <3>2, Carries, ChampionOnlyType
            <4>2. row.champion = routing[m].champion
                BY <4>1 DEF ChampionOnly
            <4> QED
                BY <3>2, <4>1, <4>2, ServingCarried
        <3> QED
            BY <1>7, <2>1, <3>1, <3>2 DEF Move
    <2>5. \A n \in Models : ServingOf[n] # v
        <3> SUFFICES ASSUME NEW n \in Models, ServingOf[n] = v
                     PROVE  FALSE
            OBVIOUS
        <3>1. n \in Routed
            BY VersionIds DEF ServingOf
        <3>2. v \in Champions(n)
            BY <3>1, Carries DEF ServingInv, RoutedIffChampion
        <3> QED
            BY <2>2, <3>2 DEF Champions
    <2>6. /\ OwnerOf' = OwnerOf
          /\ RetiredOf' = IF s = "ARCHIVED" THEN RetiredOf \union {v} ELSE RetiredOf
        BY <2>2, <2>3, MovedVersion
    <2>7. v \in DOMAIN OwnerOf
        BY DEF OwnerOf
    <2> QED
        BY <2>4, <2>5, <2>6, <2>7 DEF AbstractStep
<1>8. ASSUME NEW m \in Models, m \in Routed, NEW row \in RoutingRow,
             row.champion = routing[m].champion, routing' = Upsert(m, row),
             UNCHANGED mv
      PROVE  AbstractStep
    BY <1>1, <1>8, ServingCarried
<1>9. ASSUME NEW m \in Models, NEW v \in Versions, SetChallenger(m, v)
      PROVE  AbstractStep
    <2>1. m \in Routed /\ v \in Nat /\ routing[m] \in RoutingRow
        BY <1>9, Carries, VersionIds DEF SetChallenger, CarriesChampion
    <2> DEFINE row == [routing[m] EXCEPT !.challenger = v, !.pct = 0]
    <2>2. row \in RoutingRow /\ row.champion = routing[m].champion
        BY <2>1, TrafficAssumption DEF RoutingRow
    <2>3. routing' = Upsert(m, row) /\ UNCHANGED mv
        BY <1>9 DEF SetChallenger
    <2> HIDE DEF row
    <2> QED
        BY <1>8, <2>1, <2>2, <2>3
<1>10. ASSUME NEW m \in Models, ClearChallenger(m)
       PROVE  AbstractStep
    <2>1. m \in Routed
        BY <1>10 DEF ClearChallenger, CarriesChampion
    <2>2. PICK row \in RoutingRow : row = ChampionOnly(routing[m].champion)
        BY <2>1, Carries, ChampionOnlyType
    <2>3. row.champion = routing[m].champion
        BY <2>2 DEF ChampionOnly
    <2> QED
        BY <1>8, <1>10, <2>1, <2>2, <2>3 DEF ClearChallenger
<1>11. ASSUME NEW m \in Models, NEW p \in TrafficPcts, SetTrafficPct(m, p)
       PROVE  AbstractStep
    <2>1. m \in Routed /\ routing[m] \in RoutingRow
        BY <1>11, Carries DEF SetTrafficPct, CarriesChampion
    <2> DEFINE row == [routing[m] EXCEPT !.pct = p]
    <2>2. row \in RoutingRow /\ row.champion = routing[m].champion
        BY <2>1 DEF RoutingRow
    <2>3. routing' = Upsert(m, row) /\ UNCHANGED mv
        BY <1>11 DEF SetTrafficPct
    <2> HIDE DEF row
    <2> QED
        BY <1>8, <2>1, <2>2, <2>3
<1>12. ASSUME NEW m \in Models, NEW mode \in Modes, SetMode(m, mode)
       PROVE  AbstractStep
    <2>1. m \in Routed /\ routing[m] \in RoutingRow
        BY <1>12, Carries DEF SetMode, CarriesChampion
    <2> DEFINE row == [routing[m] EXCEPT
                          !.mode = mode,
                          !.pct = IF mode = "SHADOW" THEN 0 ELSE routing[m].pct]
    <2>2. row \in RoutingRow /\ row.champion = routing[m].champion
        BY <2>1, TrafficAssumption DEF RoutingRow
    <2>3. routing' = Upsert(m, row) /\ UNCHANGED mv
        BY <1>12 DEF SetMode
    <2> HIDE DEF row
    <2> QED
        BY <1>8, <2>1, <2>2, <2>3
<1>13. CASE ExperimentNext \/ UNCHANGED vars
    <2>1. UNCHANGED <<mv, routing>>
        BY <1>13 DEF ExperimentNext, StartExperiment, ImportOfflineGate,
                     FinishExperiment, EvidenceAges, vars
    <2> QED
        BY <1>1, <1>2, <2>1
<1> QED
    BY <1>3, <1>4, <1>5, <1>6, <1>7, <1>9, <1>10, <1>11, <1>12, <1>13
    DEF Next, RegistryNext, RoutingNext

\* What reads the registry may rely on the serving contract: each model serves
\* at most one of its own versions, and a retired version never serves again.
THEOREM RefinesServingContract == Spec => ImplementsServingContract
<1>1. Init => Contract!Init
    BY DEF Init, Contract!Init, Versions, Routed
<1>2. Init => TypeOK /\ ServingInv
    BY DEF Init, TypeOK, ServingInv, OneChampionPerModel, RoutedIffChampion,
           ChallengerIsShadow, Champions, OfModel, Versions, Routed
<1>3. (TypeOK /\ ServingInv) /\ [Next]_vars => (TypeOK /\ ServingInv)'
    BY TypeStep, ServingStep
<1>4. TypeOK /\ ServingInv /\ [Next]_vars => [Contract!Next]_(Contract!vars)
    BY SimulationStep, AbstractStepIsStep
<1> QED
    BY <1>1, <1>2, <1>3, <1>4, PTL DEF Spec, Contract!Spec, ImplementsServingContract
=============================================================================
