--------------------------- MODULE WeatherBackfill --------------------------
(***************************************************************************)
(* weather_backfill: for every game found in pitches and not yet in        *)
(* weather_observed, fetch the game's observed weather and insert it, in   *)
(* batches.  It runs beside the pull and the transform of Ingest.          *)
(***************************************************************************)
EXTENDS Ingest

CONSTANTS GameOf,       \* the game of a key
          Retries,      \* tries of one HTTP request
          BatchSize,    \* rows of one INSERT
          Feeds         \* the weather blocks the MLB feed may carry

\* A weather block: what "condition" says, whether "temp" holds a number, and
\* the shape of the "wind" text.
Winds == {"", "indoor", "calm", "0 mph", "5 mph", "5 mph out", "text"}
Feed == [condition : {"", "open", "roof closed"}, temp : BOOLEAN, wind : Winds]

ASSUME WeatherAssumption ==
    /\ BatchSize \in Nat \ {0} /\ Retries \in Nat \ {0} /\ Feeds \subseteq Feed
    /\ DOMAIN GameOf = Keys

Games == {GameOf[p] : p \in Keys}
none == -1       \* SQL NULL, Python None

VARIABLES
    weather,     \* weather_observed FINAL: game -> row, a partial function
    backfill     \* the backfill: [pc, games, todo, buffer, missing]

weatherVars == <<weather, backfill>>

idle == [pc |-> "idle", games |-> {}, todo |-> {}, buffer |-> {}, missing |-> {}]

(***************************************************************************)
(* Parsing one feed.                                                       *)
(***************************************************************************)
ParseWind(wind) ==
    CASE wind = ""          -> [speed |-> none, label |-> "",        indoor |-> FALSE]
      [] wind = "indoor"    -> [speed |-> 0,    label |-> "Indoors", indoor |-> TRUE]
      [] wind = "calm"      -> [speed |-> 0,    label |-> "Calm",    indoor |-> FALSE]
      [] wind = "0 mph"     -> [speed |-> 0,    label |-> "Calm",    indoor |-> FALSE]
      [] wind = "5 mph"     -> [speed |-> 5,    label |-> "",        indoor |-> FALSE]
      [] wind = "5 mph out" -> [speed |-> 5,    label |-> "Out",     indoor |-> FALSE]
      [] wind = "text"      -> [speed |-> none, label |-> "text",    indoor |-> FALSE]

\* None, or one value: a set of at most one element.
NoWeather == {}

WeatherFromFeed(feed) ==
    LET wind   == ParseWind(feed.wind)
        indoor == wind.indoor \/ feed.condition = "roof closed"
        speed  == IF indoor THEN 0 ELSE wind.speed
        label  == IF indoor /\ wind.label = "" THEN "Indoors" ELSE wind.label
    IN  IF ~feed.temp /\ speed = none /\ label = "" /\ ~indoor THEN NoWeather
        ELSE {[condition |-> feed.condition, speed |-> speed, indoor |-> indoor]}

\* _http_get_json: the first try that is not an error decides; 404 is final.
HttpGetJson(tries, document) ==
    LET settled == {i \in DOMAIN tries : tries[i] # "error"}
    IN  IF settled = {} \/ tries[Min(settled)] = "404" THEN {} ELSE {document}

FetchGameWeather(tries, feed) ==
    UNION {WeatherFromFeed(document) : document \in HttpGetJson(tries, feed)}

(***************************************************************************)
(* The command.                                                            *)
(***************************************************************************)
DistinctGames == {GameOf[k[2]] : k \in Cleaned}

StartBackfill ==
    /\ backfill.pc = "idle"
    /\ backfill' = [idle EXCEPT !.pc = "fetch", !.games = DistinctGames,
                                  !.todo = DistinctGames \ DOMAIN weather]
    /\ UNCHANGED <<vars, weather>>

\* _insert_weather, into a ReplacingMergeTree keyed on game_id.
InsertWeather(rows) ==
    LET games == {r[1] : r \in rows} IN
    weather' = [g \in games \union DOMAIN weather |->
                   IF g \in games THEN (CHOOSE r \in rows : r[1] = g)[2] ELSE weather[g]]

\* A game without weather, or whose request failed for good, is counted as
\* missing; the others are buffered, and a full buffer is inserted at once.
FetchGame(game) ==
    /\ backfill.pc = "fetch" /\ game \in backfill.todo
    /\ \E tries \in [1 .. Retries -> {"ok", "404", "error"}], feed \in Feeds :
        LET found  == FetchGameWeather(tries, feed)
            buffer == backfill.buffer \union ({game} \X found)
        IN  IF found = NoWeather
            THEN /\ backfill' = [backfill EXCEPT !.todo = @ \ {game}, !.missing = @ \union {game}]
                 /\ UNCHANGED weather
            ELSE /\ backfill' = [backfill EXCEPT !.todo = @ \ {game},
                                 !.buffer = IF Cardinality(buffer) >= BatchSize THEN {} ELSE buffer]
                 /\ IF Cardinality(buffer) >= BatchSize THEN InsertWeather(buffer)
                                                        ELSE UNCHANGED weather
    /\ UNCHANGED vars

\* A fault for the mutants: the tail that fills no batch is forgotten.
FlushNothing ==
    /\ backfill.pc = "fetch" /\ backfill.todo = {}
    /\ backfill' = [backfill EXCEPT !.pc = "done", !.buffer = {}]
    /\ UNCHANGED <<vars, weather>>

FlushBuffer ==
    /\ backfill.pc = "fetch" /\ backfill.todo = {}
    /\ backfill' = [backfill EXCEPT !.pc = "done", !.buffer = {}]
    /\ InsertWeather(backfill.buffer)
    /\ UNCHANGED vars

BackfillEnds ==
    /\ backfill.pc = "done"
    /\ backfill' = idle
    /\ UNCHANGED <<vars, weather>>

KillBackfill ==
    /\ backfill.pc = "fetch"
    /\ backfill' = idle
    /\ UNCHANGED <<vars, weather>>

BackfillNext == StartBackfill \/ (\E g \in Games : FetchGame(g)) \/ FlushBuffer
                \/ BackfillEnds \/ KillBackfill

IngestInit == Init /\ weather = <<>> /\ backfill = idle
IngestNext == (Next /\ UNCHANGED weatherVars) \/ BackfillNext
IngestSpec == IngestInit /\ [][IngestNext]_<<vars, weatherVars>>

(***************************************************************************)
(* Properties.                                                             *)
(***************************************************************************)
\* A backfill that ran to its end has written a row for every game it set out
\* to fetch and did not count as missing: none is lost in the buffer, and no
\* crash of an earlier backfill makes a later one skip a game without a row.
BackfillIsComplete ==
    backfill.pc = "done" => backfill.games \subseteq DOMAIN weather \union backfill.missing

=============================================================================
