------------------------------ MODULE Registry ------------------------------
(***************************************************************************)
(* The model registry: the tables model_versions, model_routing and        *)
(* experiment_results of registry.sqlite, and the transactions that write  *)
(* them (RegistryService, RoutingService, ExperimentService and            *)
(* OfflineGateImportService).                                              *)
(*                                                                         *)
(* Every service method is one @Transactional unit on SQLite, which admits *)
(* one writer at a time and fails a transaction whose reads another writer *)
(* has overtaken, so a method is one action.  A method that throws leaves  *)
(* the three tables as they were: its failures are the action's guards.    *)
(* The triggers of V020/V021 and the unique index of V016 are not guards   *)
(* here: the invariants below hold without them, that is, they never abort *)
(* a write of these services.                                              *)
(*                                                                         *)
(* The files of a version (local disk, R2) are the subject of Snapshots.   *)
(***************************************************************************)
EXTENDS Naturals, Sequences

CONSTANTS
    Models,           \* model names
    Schemas,          \* feature-schema hashes
    CanonicalHash,    \* CanonicalHash[m]: the /contracts hash of a mapped family
    BaselineFor,      \* BaselineFor[m]: the LR baseline of a primary head
    TrafficPcts,      \* challenger traffic percentages an admin may ask for
    MaxVersions,      \* bound: rows of model_versions
    MaxExperiments    \* bound: rows of experiment_results

ASSUME MappingsAssumption ==
    /\ DOMAIN CanonicalHash \subseteq Models
    /\ \A m \in DOMAIN CanonicalHash : CanonicalHash[m] \in Schemas
    /\ DOMAIN BaselineFor \subseteq Models
    /\ \A m \in DOMAIN BaselineFor : BaselineFor[m] \in Models \ {m}

ASSUME TrafficAssumption ==
    /\ TrafficPcts \subseteq 0..100
    /\ 0 \in TrafficPcts

ASSUME BoundsAssumption == MaxVersions \in Nat /\ MaxExperiments \in Nat

VARIABLES
    mv,               \* model_versions: mv[v] is the row with id v
    routing,          \* model_routing: routing[m] for the models that have a row
    experiments       \* experiment_results: experiments[e] is the row with id e

vars == <<mv, routing, experiments>>

Stages == {"CANDIDATE", "SHADOW", "CHAMPION", "ARCHIVED"}
Modes == {"SHADOW", "AB"}
Statuses == {"running", "passed", "failed", "aborted"}
NoVersion == 0        \* the NULL of challenger_version_id; ids start at 1

VersionRow == [model : Models, schema : Schemas, stage : Stages]
RoutingRow == [champion : Nat \ {0}, challenger : Nat, pct : TrafficPcts, mode : Modes]
\* fresh: ended_at is within PROMOTION_EVIDENCE_MAX_AGE (30 days)
ExperimentRow == [model : Models, champion : Nat \ {0}, challenger : Nat \ {0},
                  status : Statuses, fresh : BOOLEAN]

-----------------------------------------------------------------------------
(* Reads *)

Versions == DOMAIN mv
OfModel(m) == {v \in Versions : mv[v].model = m}
Live(m) == {v \in OfModel(m) : mv[v].stage # "ARCHIVED"}
Champions(m) == {v \in OfModel(m) : mv[v].stage = "CHAMPION"}
Routed == DOMAIN routing

(***************************************************************************)
(* A definition whose comment begins with "Fault" is a variant of the one  *)
(* that follows it, wrong in one way this code has been or could be wrong. *)
(* No specification uses it.  PROJECT.json names, for each property, the   *)
(* fault that breaks it.                                                   *)
(***************************************************************************)

\* Fault: an archived version can be brought back as SHADOW.
RevivingTargets ==
    [CANDIDATE |-> {"SHADOW", "CHAMPION", "ARCHIVED"},
     SHADOW    |-> {"CHAMPION", "ARCHIVED"},
     CHAMPION  |-> {"SHADOW", "ARCHIVED"},
     ARCHIVED  |-> {"SHADOW"}]

\* The stages each stage may move to; ARCHIVED is terminal.
LegalTargets ==
    [CANDIDATE |-> {"SHADOW", "CHAMPION", "ARCHIVED"},
     SHADOW    |-> {"CHAMPION", "ARCHIVED"},
     CHAMPION  |-> {"SHADOW", "ARCHIVED"},
     ARCHIVED  |-> {}]

CanTransitionTo(v, s) == s \in LegalTargets[mv[v].stage]

\* The hash the earliest live version pinned, as a set that is empty when no
\* version of m is live.
BootstrapHash(m) ==
    {mv[v].schema : v \in {w \in Live(m) : \A x \in Live(m) : w <= x}}

\* Fault: every registration is compared with the canonical contract only.
SchemaMatchesContract(m, h) ==
    m \in DOMAIN CanonicalHash => h = CanonicalHash[m]

\* A first live version must match the family's canonical contract, if it has
\* one; a later version must match the pinned hash.
SchemaAccepted(m, h) ==
    IF BootstrapHash(m) = {}
    THEN m \in DOMAIN CanonicalHash => h = CanonicalHash[m]
    ELSE h \in BootstrapHash(m)

\* Rule 9: a primary head needs a baseline that is registered, not serving.
BaselineRegistered(m) ==
    m \in DOMAIN BaselineFor => Live(BaselineFor[m]) # {}

\* Fault: the exemption counts live versions, so archiving the others reopens it.
PromotionCriteriaOfLive(v) ==
    LET m == mv[v].model
    IN \/ Live(m) = {v}
       \/ \E e \in DOMAIN experiments :
             /\ experiments[e].model = m
             /\ experiments[e].challenger = v
             /\ experiments[e].status = "passed"
             /\ experiments[e].fresh
             /\ \A c \in Champions(m) : experiments[e].champion = c

\* Rule 5: a fresh pass of v, against the current champion if there is one.
\* The only version a model ever had is exempt.
PromotionCriteriaMet(v) ==
    LET m == mv[v].model
    IN \/ OfModel(m) = {v}
       \/ \E e \in DOMAIN experiments :
             /\ experiments[e].model = m
             /\ experiments[e].challenger = v
             /\ experiments[e].status = "passed"
             /\ experiments[e].fresh
             /\ \A c \in Champions(m) : experiments[e].champion = c

\* The guard of every routing write: the champion it stores or carries
\* forward is a version of this model at stage CHAMPION.
ChampionAtStage(versions, m, v) ==
    /\ v \in DOMAIN versions
    /\ versions[v].model = m
    /\ versions[v].stage = "CHAMPION"

-----------------------------------------------------------------------------
(* Writes of one table *)

NewVersion(m, h) == [model |-> m, schema |-> h, stage |-> "CANDIDATE"]

SetStage(versions, v, s) == [versions EXCEPT ![v].stage = s]

ArchiveWhere(versions, S) ==
    [v \in DOMAIN versions |->
        IF v \in S THEN [versions[v] EXCEPT !.stage = "ARCHIVED"]
                   ELSE versions[v]]

ChampionOnly(v) ==
    [champion |-> v, challenger |-> NoVersion, pct |-> 0, mode |-> "SHADOW"]

Upsert(m, row) ==
    [n \in Routed \union {m} |-> IF n = m THEN row ELSE routing[n]]

WithoutRow(m) == [n \in Routed \ {m} |-> routing[n]]

\* Fault: a surviving challenger keeps its traffic under the new champion.
RowKeepingTraffic(m, v) ==
    IF m \notin Routed THEN ChampionOnly(v)
    ELSE IF routing[m].challenger \in {v, NoVersion} THEN ChampionOnly(v)
    ELSE [routing[m] EXCEPT !.champion = v]

\* The row after v became champion of m: the slot is emptied if v was the
\* challenger, and a challenger that survives a change of champion keeps its
\* slot but not its traffic.
RowForChampion(m, v) ==
    IF m \notin Routed THEN ChampionOnly(v)
    ELSE IF routing[m].challenger \in {v, NoVersion} THEN ChampionOnly(v)
    ELSE IF routing[m].champion # v
         THEN [routing[m] EXCEPT !.champion = v, !.pct = 0, !.mode = "SHADOW"]
         ELSE routing[m]

-----------------------------------------------------------------------------
(* RegistryService *)

Init ==
    /\ mv = << >>
    /\ routing = << >>
    /\ experiments = << >>

\* A new (name, version).  Registering a known one returns its row unchanged.
Register(m, h) ==
    /\ Len(mv) < MaxVersions
    /\ SchemaAccepted(m, h)
    /\ mv' = Append(mv, NewVersion(m, h))
    /\ UNCHANGED <<routing, experiments>>

\* The schema reset: archive all versions of m, drop its routing row, and
\* register under any hash.
RegisterWithBootstrap(m, h) ==
    /\ Len(mv) < MaxVersions
    /\ mv' = Append(ArchiveWhere(mv, OfModel(m)), NewVersion(m, h))
    /\ routing' = WithoutRow(m)
    /\ UNCHANGED experiments

\* transitionStage(v, CHAMPION): archive the prior champion, flip v, repoint
\* the routing row.
Promote(v) ==
    LET m == mv[v].model
        retired == ArchiveWhere(mv, Champions(m) \ {v})
    IN /\ CanTransitionTo(v, "CHAMPION")
       /\ BaselineRegistered(m)
       /\ PromotionCriteriaMet(v)
       /\ mv' = SetStage(retired, v, "CHAMPION")
       /\ ChampionAtStage(mv', m, v)
       /\ routing' = Upsert(m, RowForChampion(m, v))
       /\ UNCHANGED experiments

\* Fault: the routing row outlives the champion.
DethroneKeepingRow(v, s) ==
    /\ mv[v].stage = "CHAMPION"
    /\ CanTransitionTo(v, s)
    /\ mv' = SetStage(mv, v, s)
    /\ UNCHANGED <<routing, experiments>>

\* transitionStage(v, s) for a champion v: the controlled rollback to SHADOW,
\* or the direct retirement of a serving version.
Dethrone(v, s) ==
    /\ mv[v].stage = "CHAMPION"
    /\ CanTransitionTo(v, s)
    /\ mv' = SetStage(mv, v, s)
    /\ routing' = WithoutRow(mv[v].model)
    /\ UNCHANGED experiments

\* Fault: an archived challenger keeps its slot.
MoveKeepingSlot(v, s) ==
    /\ mv[v].stage # "CHAMPION"
    /\ CanTransitionTo(v, s)
    /\ mv' = SetStage(mv, v, s)
    /\ UNCHANGED <<routing, experiments>>

\* transitionStage(v, s) for a version that is not, and does not become, a
\* champion.  Archiving the routed challenger clears its slot.
Move(v, s) ==
    LET m == mv[v].model
        inSlot == m \in Routed /\ routing[m].challenger = v
    IN /\ mv[v].stage # "CHAMPION"
       /\ CanTransitionTo(v, s)
       /\ mv' = SetStage(mv, v, s)
       /\ IF s = "ARCHIVED" /\ inSlot
          THEN /\ ChampionAtStage(mv', m, routing[m].champion)
               /\ routing' = Upsert(m, ChampionOnly(routing[m].champion))
          ELSE UNCHANGED routing
       /\ UNCHANGED experiments

-----------------------------------------------------------------------------
(* RoutingService: the admin writes.  Each carries the champion forward. *)

CarriesChampion(m) == m \in Routed /\ ChampionAtStage(mv, m, routing[m].champion)

SetChallenger(m, v) ==
    /\ CarriesChampion(m)
    /\ v # routing[m].champion
    /\ v \in Versions
    /\ mv[v].stage = "SHADOW"
    /\ mv[v].model = m
    /\ routing' = Upsert(m, [routing[m] EXCEPT !.challenger = v, !.pct = 0])
    /\ UNCHANGED <<mv, experiments>>

ClearChallenger(m) ==
    /\ CarriesChampion(m)
    /\ routing' = Upsert(m, ChampionOnly(routing[m].champion))
    /\ UNCHANGED <<mv, experiments>>

SetTrafficPct(m, p) ==
    /\ CarriesChampion(m)
    /\ routing[m].mode = "SHADOW" => p = 0
    /\ routing' = Upsert(m, [routing[m] EXCEPT !.pct = p])
    /\ UNCHANGED <<mv, experiments>>

SetMode(m, mode) ==
    /\ CarriesChampion(m)
    /\ routing' = Upsert(m, [routing[m] EXCEPT
                        !.mode = mode,
                        !.pct = IF mode = "SHADOW" THEN 0 ELSE routing[m].pct])
    /\ UNCHANGED <<mv, experiments>>

-----------------------------------------------------------------------------
(* ExperimentService and OfflineGateImportService *)

Experiment(m, c, d, status) ==
    [model |-> m, champion |-> c, challenger |-> d, status |-> status,
     fresh |-> TRUE]

\* The two ids differ and exist (foreign keys); nothing else ties them to m.
StartExperiment(m, c, d) ==
    /\ Len(experiments) < MaxExperiments
    /\ c # d
    /\ ~ \E e \in DOMAIN experiments :
            experiments[e].model = m /\ experiments[e].status = "running"
    /\ experiments' = Append(experiments, Experiment(m, c, d, "running"))
    /\ UNCHANGED <<mv, routing>>

\* complete (passed or failed, by the verdict) and abort.
FinishExperiment(e, status) ==
    /\ experiments[e].status = "running"
    /\ status # "running"
    /\ experiments' = [experiments EXCEPT ![e].status = status]
    /\ UNCHANGED <<mv, routing>>

\* A reviewed offline gate enters as a pass: against the current champion, or
\* against a live baseline version when the model has no champion.
ImportOfflineGate(m, c, d) ==
    /\ Len(experiments) < MaxExperiments
    /\ c # d
    /\ IF Champions(m) # {}
       THEN c \in Champions(m)
       ELSE m \in DOMAIN BaselineFor /\ c \in Live(BaselineFor[m])
    /\ d \in OfModel(m)
    /\ experiments' = Append(experiments, Experiment(m, c, d, "passed"))
    /\ UNCHANGED <<mv, routing>>

\* Thirty days go by after the end of e.
EvidenceAges(e) ==
    /\ experiments[e].status = "passed"
    /\ experiments[e].fresh
    /\ experiments' = [experiments EXCEPT ![e].fresh = FALSE]
    /\ UNCHANGED <<mv, routing>>

-----------------------------------------------------------------------------
RegistryNext ==
    \/ \E m \in Models, h \in Schemas : Register(m, h) \/ RegisterWithBootstrap(m, h)
    \/ \E v \in Versions : Promote(v)
    \/ \E v \in Versions, s \in {"SHADOW", "ARCHIVED"} : Dethrone(v, s) \/ Move(v, s)

RoutingNext ==
    \E m \in Models :
        \/ \E v \in Versions : SetChallenger(m, v)
        \/ ClearChallenger(m)
        \/ \E p \in TrafficPcts : SetTrafficPct(m, p)
        \/ \E mode \in Modes : SetMode(m, mode)

ExperimentNext ==
    \/ \E m \in Models, c, d \in Versions :
          StartExperiment(m, c, d) \/ ImportOfflineGate(m, c, d)
    \/ \E e \in DOMAIN experiments :
          \/ \E status \in Statuses : FinishExperiment(e, status)
          \/ EvidenceAges(e)

Next == RegistryNext \/ RoutingNext \/ ExperimentNext

Spec == Init /\ [][Next]_vars

-----------------------------------------------------------------------------
(* Properties *)

TypeOK ==
    /\ mv \in Seq(VersionRow)
    /\ Routed \subseteq Models
    /\ routing \in [Routed -> RoutingRow]
    /\ experiments \in Seq(ExperimentRow)

\* A model has at most one champion, through promotions, rollbacks, resets and
\* retirements (the rule that the unique index of V016 backs).
OneChampionPerModel ==
    \A m \in Models : \A v, w \in Champions(m) : v = w

\* A model has a routing row exactly while it has a champion, and the row
\* names it: the registry and the router never disagree about who serves.
RoutedIffChampion ==
    \A m \in Models :
        /\ m \in Routed <=> Champions(m) # {}
        /\ m \in Routed => routing[m].champion \in Champions(m)

\* The challenger slot holds a SHADOW version of the same model or nothing, so
\* neither shadow legs nor A/B traffic reach a retired or foreign version.  The
\* boot check (RoutingIntegrityCheck) refuses to start in any other state.
ChallengerIsShadow ==
    \A m \in Routed :
        routing[m].challenger # NoVersion =>
            /\ routing[m].challenger \in OfModel(m)
            /\ mv[routing[m].challenger].stage = "SHADOW"

\* Real traffic moves to a challenger by an admin's deliberate act only: a step
\* that changes who is champion or who is challenger leaves no traffic on the
\* slot, and traffic needs mode AB.
TrafficIsDeliberate ==
    [][\A m \in Models : m \in Routed /\ m \in Routed' =>
          LET old == routing[m]
              new == routing'[m]
          IN /\ new.pct > 0 => new.mode = "AB"
             /\ <<new.champion, new.challenger>> # <<old.champion, old.challenger>>
                   => new.pct = 0]_vars

\* No champion is ungated: it passed an experiment of its model, or it is the
\* first version its model ever registered (rule 5 and its one exemption, which
\* neither a reset nor the archival of the first version reopens).
ChampionEarned ==
    \A m \in Models : \A v \in Champions(m) :
        \/ \A w \in OfModel(m) : v <= w
        \/ \E e \in DOMAIN experiments :
              /\ experiments[e].model = m
              /\ experiments[e].challenger = v
              /\ experiments[e].status = "passed"

\* All live versions of a model share one feature-schema hash (rule 7), also
\* after resets and after the version that pinned the hash was archived.
OneLiveSchema ==
    \A m \in Models : \A v, w \in Live(m) : mv[v].schema = mv[w].schema

\* The registry implements the serving contract: owner is the model column,
\* the version in service is the routing row's champion, ARCHIVED is retired.
Contract == INSTANCE ServingContract WITH
    owner   <- [v \in Versions |-> mv[v].model],
    serving <- [m \in Models |-> IF m \in Routed THEN routing[m].champion ELSE 0],
    retired <- {v \in Versions : mv[v].stage = "ARCHIVED"}
ImplementsServingContract == Contract!Spec

=============================================================================
