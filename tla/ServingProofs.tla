---------------------------- MODULE ServingProofs ----------------------------
(***************************************************************************)
(* Theorems about ModelSessions and PredictionLog, for every finite set of *)
(* request threads, any versions, any number of sessions, and any limits   *)
(* of the log.                                                             *)
(***************************************************************************)
EXTENDS ModelSessions, PredictionLog, FiniteSetTheorems, TLAPS

-----------------------------------------------------------------------------
(* The inductive invariant *)

\* The threads that are inside a native call on s.
InsideOf(s) == {r \in Requests : request[r].pc = "inside" /\ request[r].session = s}

\* The monitor's book-keeping of one guard, n calls being inside.
GuardOK(g, n) ==
    /\ g \in Guard
    /\ g.inFlight = n
    /\ g.claimed => g.retired
    /\ g.closes <= 1
    /\ g.closes = 1 => g.claimed
    /\ \A c \in Closers : g.closer[c] = "closing" => g.claimed /\ g.closes = 0
    /\ ~(g.closer["listener"] = "closing" /\ g.closer["sweep"] = "closing")
    /\ g.claimed /\ g.inFlight > 0 => g.forced
    /\ ~g.removed => g.closer["listener"] = "none"

\* A thread past its load holds a session that exists.
HoldsSession ==
    \A r \in Requests :
        request[r].pc \in {"recheck", "call", "inside"} => request[r].session \in Sessions

SweepAfterClose == loader.sweep # "none" => loader.closed

\* What is cached has not been removed, and is cached once: an entry is handed
\* to the listener once only.
CachedOnce ==
    /\ \A v \in Cached : cache[v] \in Sessions /\ ~sessions[cache[v]].removed
    /\ \A v, w \in Cached : cache[v] = cache[w] => v = w

SessionInv ==
    /\ SessionTypeOK /\ HoldsSession /\ SweepAfterClose /\ CachedOnce
    /\ \A s \in Sessions : GuardOK(sessions[s], Cardinality(InsideOf(s)))

-----------------------------------------------------------------------------
(* Lemmas *)

\* Counting a thread in and counting it out.
LEMMA CountIn ==
    ASSUME NEW S \in SUBSET Requests, NEW r \in Requests, r \notin S
    PROVE  Cardinality(S \union {r}) = Cardinality(S) + 1
<1>1. IsFiniteSet(S)
    BY RequestsAssumption, FS_Subset
<1> QED
    BY <1>1, FS_AddElement

LEMMA CountOut ==
    ASSUME NEW S \in SUBSET Requests, NEW r \in S
    PROVE  Cardinality(S \ {r}) = Cardinality(S) - 1
<1>1. IsFiniteSet(S)
    BY RequestsAssumption, FS_Subset
<1> QED
    BY <1>1, FS_RemoveElement

LEMMA CountIsNat ==
    ASSUME NEW S \in SUBSET Requests
    PROVE  Cardinality(S) \in Nat
<1>1. IsFiniteSet(S)
    BY RequestsAssumption, FS_Subset
<1> QED
    BY <1>1, FS_CardinalityType

LEMMA SessionIds ==
    ASSUME SessionTypeOK
    PROVE  /\ Sessions = 1..Len(sessions)
           /\ Len(sessions) \in Nat
           /\ \A s \in Sessions : sessions[s] \in Guard
    BY DEF SessionTypeOK, Sessions

\* A step that rewrites the guard of one session only.
LEMMA OneGuardChanges ==
    ASSUME SessionInv, NEW s \in Sessions, NEW g,
           sessions' = [sessions EXCEPT ![s] = g],
           GuardOK(g, Cardinality(InsideOf(s)')),
           \A x \in Sessions \ {s} : InsideOf(x)' = InsideOf(x)
    PROVE  /\ sessions' \in Seq(Guard) /\ Len(sessions') = Len(sessions)
           /\ Sessions' = Sessions
           /\ \A x \in Sessions' : GuardOK(sessions'[x], Cardinality(InsideOf(x)'))
<1>1. Sessions = 1..Len(sessions) /\ Len(sessions) \in Nat /\ sessions \in Seq(Guard)
    BY SessionIds DEF SessionInv, SessionTypeOK
<1>2. g \in Guard
    BY DEF GuardOK
<1>3. sessions' \in Seq(Guard) /\ Len(sessions') = Len(sessions)
    BY <1>1, <1>2
<1>4. Sessions' = Sessions
    BY <1>1, <1>3 DEF Sessions
<1>5. \A x \in Sessions : sessions'[x] = IF x = s THEN g ELSE sessions[x]
    BY <1>1 DEF Sessions
<1> QED
    BY <1>3, <1>4, <1>5 DEF SessionInv


\* Where the threads are, after one thread has moved.
LEMMA ThreadMoves ==
    ASSUME SessionInv, NEW r \in Requests, NEW q \in RequestState,
           request' = [request EXCEPT ![r] = q]
    PROVE  /\ request' \in [Requests -> RequestState]
           /\ \A x \in Requests : request'[x] = IF x = r THEN q ELSE request[x]
           /\ \A s : InsideOf(s)' = IF q.pc = "inside" /\ q.session = s
                                    THEN InsideOf(s) \union {r} ELSE InsideOf(s) \ {r}
    BY DEF SessionInv, SessionTypeOK, InsideOf

\* What a thread that is not at rest knows.
LEMMA ThreadType ==
    ASSUME SessionInv, NEW r \in Requests, request[r].pc # "idle"
    PROVE  /\ request[r] \in [pc : {"load", "recheck", "reload", "call", "inside"},
                              version : Keys, session : Nat]
           /\ request[r].version \in Keys
           /\ request[r].session \in Nat
           /\ request[r].pc \in {"recheck", "call", "inside"} => request[r].session \in Sessions
<1>1. request[r] \in RequestState
    BY DEF SessionInv, SessionTypeOK
<1>2. request[r] # AtRest
    BY DEF AtRest
<1>3. request[r] \in [pc : {"load", "recheck", "reload", "call", "inside"},
                      version : Keys, session : Nat]
    BY <1>1, <1>2 DEF RequestState
<1> QED
    BY <1>3 DEF SessionInv, HoldsSession

\* A thread outside every native call goes back to rest.
LEMMA GivesUp ==
    ASSUME SessionInv, NEW r \in Requests, request[r].pc # "inside", GiveUp(r)
    PROVE  /\ request' \in [Requests -> RequestState]
           /\ \A s : InsideOf(s)' = InsideOf(s)
           /\ Sessions' = Sessions => HoldsSession'
<1>1. AtRest \in RequestState /\ AtRest.pc = "idle"
    BY DEF AtRest, RequestState
<1>2. /\ request' \in [Requests -> RequestState]
      /\ \A x \in Requests : request'[x] = IF x = r THEN AtRest ELSE request[x]
    BY <1>1 DEF GiveUp, SessionInv, SessionTypeOK
<1>3. \A s : InsideOf(s)' = InsideOf(s)
    BY <1>1, <1>2 DEF InsideOf
<1> QED
    BY <1>1, <1>2, <1>3 DEF HoldsSession, SessionInv

\* A thread outside every native call goes on, and not into one.
LEMMA GoesOn ==
    ASSUME SessionInv, NEW r \in Requests, request[r].pc \notin {"idle", "inside"},
           NEW pc \in {"load", "recheck", "reload", "call"}, NEW s \in Nat,
           request' = [request EXCEPT ![r].pc = pc, ![r].session = s],
           Sessions \subseteq Sessions', pc \in {"recheck", "call"} => s \in Sessions'
    PROVE  /\ request' \in [Requests -> RequestState]
           /\ \A x : InsideOf(x)' = InsideOf(x)
           /\ HoldsSession'
<1> DEFINE q == [request[r] EXCEPT !.pc = pc, !.session = s]
<1>1. q \in RequestState /\ q.pc = pc /\ q.session = s
    BY ThreadType DEF RequestState
<1>2. request' = [request EXCEPT ![r] = q]
    BY ThreadType DEF SessionInv, SessionTypeOK
<1>3. /\ request' \in [Requests -> RequestState]
      /\ \A x \in Requests : request'[x] = IF x = r THEN q ELSE request[x]
    BY <1>1, <1>2 DEF SessionInv, SessionTypeOK
<1>4. \A x : InsideOf(x)' = InsideOf(x)
    BY <1>1, <1>3 DEF InsideOf
<1> QED
    BY <1>1, <1>3, <1>4 DEF HoldsSession, SessionInv

\* An entry leaves the cache: its guard is as sound as it was.
LEMMA RemovedIsSound ==
    ASSUME NEW g, NEW n, GuardOK(g, n), ~g.removed
    PROVE  GuardOK([g EXCEPT !.removed = TRUE, !.closer.listener = "called"], n)
    BY DEF GuardOK, Guard, Closers


\* A claim: nobody else is closing, and nobody has closed.
LEMMA ClaimIsSound ==
    ASSUME NEW g, NEW n, GuardOK(g, n), ~g.claimed,
           NEW c \in Closers, g.closer[c] # "none"
    PROVE  GuardOK([g EXCEPT !.retired = TRUE, !.claimed = TRUE,
                             !.forced = (g.inFlight > 0), !.closer[c] = "closing"], n)
<1> DEFINE k == [g.closer EXCEPT ![c] = "closing"]
           h == [g EXCEPT !.retired = TRUE, !.claimed = TRUE,
                          !.forced = (g.inFlight > 0), !.closer[c] = "closing"]
<1>1. g \in Guard /\ g.closer \in [Closers -> {"none", "called", "draining", "closing"}]
    BY DEF GuardOK, Guard
<1>2. (g.inFlight > 0) \in BOOLEAN
    OBVIOUS
<1>3. /\ k \in [Closers -> {"none", "called", "draining", "closing"}]
      /\ \A d \in Closers : k[d] = IF d = c THEN "closing" ELSE g.closer[d]
    BY <1>1
<1>4. /\ h \in Guard
      /\ h.retired = TRUE /\ h.claimed = TRUE /\ h.closer = k
      /\ h.inFlight = g.inFlight /\ h.closes = g.closes /\ h.removed = g.removed
    BY <1>1, <1>2, <1>3 DEF Guard
<1>5. h.inFlight > 0 => h.forced
    BY <1>1 DEF Guard
<1>6. g.closes = 0
    BY <1>1 DEF GuardOK, Guard
<1>7. \A d \in Closers : g.closer[d] # "closing"
    BY DEF GuardOK
<1>8. c \in {"listener", "sweep"} /\ "listener" \in Closers /\ "sweep" \in Closers
    BY DEF Closers
<1>9. ~(k["listener"] = "closing" /\ k["sweep"] = "closing")
    BY <1>3, <1>7, <1>8
<1>10. ~h.removed => k["listener"] = "none"
    BY <1>3, <1>4, <1>8 DEF GuardOK
<1> HIDE DEF h, k
<1>11. GuardOK(h, n)
    BY <1>4, <1>5, <1>6, <1>9, <1>10 DEF GuardOK
<1> QED
    BY <1>11 DEF h

\* The close itself: the first, by the one closer that claimed it.
LEMMA CloseIsSound ==
    ASSUME NEW g, NEW n, GuardOK(g, n), NEW c \in Closers, g.closer[c] = "closing"
    PROVE  GuardOK([g EXCEPT !.closes = 1, !.closer[c] = "none"], n)
<1> DEFINE k == [g.closer EXCEPT ![c] = "none"]
           h == [g EXCEPT !.closes = 1, !.closer[c] = "none"]
<1>1. g \in Guard /\ g.closer \in [Closers -> {"none", "called", "draining", "closing"}]
    BY DEF GuardOK, Guard
<1>2. g.closes = 0 /\ g.claimed
    BY DEF GuardOK
<1>3. /\ k \in [Closers -> {"none", "called", "draining", "closing"}]
      /\ \A d \in Closers : k[d] = IF d = c THEN "none" ELSE g.closer[d]
    BY <1>1
<1>4. /\ h \in Guard
      /\ h.closes = 1 /\ h.closer = k
      /\ h.inFlight = g.inFlight /\ h.retired = g.retired /\ h.claimed = g.claimed
      /\ h.removed = g.removed /\ h.forced = g.forced
    BY <1>1, <1>3 DEF Guard
<1>5. c \in {"listener", "sweep"} /\ "listener" \in Closers /\ "sweep" \in Closers
    BY DEF Closers
<1>6. \A d \in Closers : k[d] # "closing"
    BY <1>3, <1>5 DEF GuardOK, Closers
<1>7. ~h.removed => k["listener"] = "none"
    BY <1>3, <1>4, <1>5 DEF GuardOK
<1> HIDE DEF h, k
<1>8. GuardOK(h, n)
    BY <1>2, <1>4, <1>5, <1>6, <1>7 DEF GuardOK
<1> QED
    BY <1>8 DEF h

-----------------------------------------------------------------------------
(* Every step keeps the invariant *)

\* A step of a closer: the guard of one session changes, and nothing else.
LEMMA CloserStepKeeps ==
    ASSUME SessionInv, NEW c \in Closers, NEW s \in Sessions,
           Retire(c, s) \/ LoseClaim(c, s) \/ Claim(c, s) \/ NativeClose(c, s)
    PROVE  SessionInv' /\ \A x \in Sessions : sessions'[x].removed = sessions[x].removed
<1> DEFINE n == Cardinality(InsideOf(s))
           Guards == /\ sessions' \in Seq(Guard) /\ Len(sessions') = Len(sessions)
                     /\ Sessions' = Sessions
                     /\ \A x \in Sessions' : GuardOK(sessions'[x], Cardinality(InsideOf(x)'))
                     /\ \A x \in Sessions : sessions'[x].removed = sessions[x].removed
<1>1. GuardOK(sessions[s], n) /\ sessions[s] \in Guard
    BY DEF SessionInv, GuardOK
<1>2. \A x : InsideOf(x)' = InsideOf(x)
    BY DEF InsideOf, Retire, LoseClaim, Claim, NativeClose
<1>3. ASSUME NEW g, GuardOK(g, n), g.removed = sessions[s].removed,
             sessions' = [sessions EXCEPT ![s] = g]
      PROVE  Guards
    <2>1. \A x \in Sessions : sessions'[x] = IF x = s THEN g ELSE sessions[x]
        BY <1>3, SessionIds DEF SessionInv, SessionTypeOK, Sessions
    <2> QED
        BY <1>2, <1>3, <2>1, OneGuardChanges
<1>4. ASSUME Guards
      PROVE  SessionInv' /\ \A x \in Sessions : sessions'[x].removed = sessions[x].removed
    <2>1. UNCHANGED <<cache, loader, request>>
        BY DEF Retire, LoseClaim, Claim, NativeClose
    <2>2. SessionTypeOK' /\ HoldsSession' /\ SweepAfterClose'
        BY <1>4, <2>1 DEF SessionInv, SessionTypeOK, HoldsSession, SweepAfterClose
    <2>3. CachedOnce'
        BY <1>4, <2>1 DEF SessionInv, CachedOnce, Cached
    <2> QED
        BY <1>4, <2>2, <2>3 DEF SessionInv
<1>5. CASE SetCloser(c, s, "none") /\ (sessions[s].closer[c] = "closing" => FALSE)
    <2> DEFINE g == [sessions[s] EXCEPT !.closer[c] = "none"]
    <2>1. GuardOK(g, n) /\ g.removed = sessions[s].removed
        BY <1>1 DEF GuardOK, Guard, Closers
    <2>2. sessions' = [sessions EXCEPT ![s] = g]
        BY <1>5 DEF SetCloser
    <2> QED
        BY <1>3, <1>4, <2>1, <2>2
<1>6. CASE /\ sessions' = Claimed(c, s)
           /\ ~sessions[s].claimed /\ sessions[s].closer[c] \in {"called", "draining"}
    <2> DEFINE g == [sessions[s] EXCEPT !.retired = TRUE, !.claimed = TRUE,
                                        !.forced = (sessions[s].inFlight > 0),
                                        !.closer[c] = "closing"]
    <2>1. GuardOK(g, n)
        BY <1>1, <1>6, ClaimIsSound
    <2>3. g.removed = sessions[s].removed
        BY <1>1 DEF Guard
    <2>2. sessions' = [sessions EXCEPT ![s] = g]
        <3>1. s \in DOMAIN sessions /\ sessions[s] \in Guard
            BY <1>1 DEF SessionInv, SessionTypeOK, Sessions
        <3> QED
            BY <1>6, <3>1 DEF Claimed, Guard
    <2> QED
        BY <1>3, <1>4, <2>1, <2>2, <2>3
<1>7. CASE /\ sessions' = [sessions EXCEPT ![s].retired = TRUE, ![s].closer[c] = "draining"]
           /\ ~sessions[s].claimed /\ sessions[s].closer[c] = "called"
    <2> DEFINE g == [sessions[s] EXCEPT !.retired = TRUE, !.closer[c] = "draining"]
    <2>1. GuardOK(g, n) /\ g.removed = sessions[s].removed
        BY <1>1, <1>7 DEF GuardOK, Guard, Closers
    <2>2. sessions' = [sessions EXCEPT ![s] = g]
        BY <1>7, SessionIds DEF SessionInv, Sessions
    <2> QED
        BY <1>3, <1>4, <2>1, <2>2
<1>8. CASE NativeClose(c, s)
    <2> DEFINE g == [sessions[s] EXCEPT !.closes = 1, !.closer[c] = "none"]
    <2>4. sessions[s].closes + 1 = 1
        BY <1>1, <1>8 DEF NativeClose, GuardOK
    <2>1. GuardOK(g, n)
        BY <1>1, <1>8, CloseIsSound DEF NativeClose
    <2>3. g.removed = sessions[s].removed
        BY <1>1 DEF Guard
    <2>2. sessions' = [sessions EXCEPT ![s] = g]
        BY <1>8, <2>4, SessionIds DEF NativeClose, SessionInv, Sessions
    <2> QED
        BY <1>3, <1>4, <2>1, <2>2, <2>3
<1> QED
    BY <1>5, <1>6, <1>7, <1>8 DEF Retire, LoseClaim, Claim, MayClaim

\* An entry leaves the cache: its guard goes to the listener, no other changes.
LEMMA RemovalKeeps ==
    ASSUME SessionInv, NEW v \in Cached, NEW s, s = cache[v],
           sessions' = Removed(s), cache' = [cache EXCEPT ![v] = 0],
           \A x \in Sessions : InsideOf(x)' = InsideOf(x)
    PROVE  /\ sessions' \in Seq(Guard) /\ Len(sessions') = Len(sessions)
           /\ Sessions' = Sessions
           /\ \A x \in Sessions' : GuardOK(sessions'[x], Cardinality(InsideOf(x)'))
           /\ cache' \in [Keys -> 0..Len(sessions')]
           /\ CachedOnce'
<1> DEFINE g == [sessions[s] EXCEPT !.removed = TRUE, !.closer.listener = "called"]
<1>1. s \in Sessions /\ ~sessions[s].removed /\ v \in Keys
    BY DEF SessionInv, CachedOnce, Cached
<1>2. GuardOK(sessions[s], Cardinality(InsideOf(s)))
    BY <1>1 DEF SessionInv
<1>3. GuardOK(g, Cardinality(InsideOf(s)'))
    BY <1>1, <1>2, RemovedIsSound
<1>4. sessions' = [sessions EXCEPT ![s] = g]
    <2>1. s \in DOMAIN sessions /\ sessions[s] \in Guard
        BY <1>1 DEF SessionInv, SessionTypeOK, Sessions
    <2> QED
        BY <2>1 DEF Removed, Guard
<1> HIDE DEF g
<1>5. /\ sessions' \in Seq(Guard) /\ Len(sessions') = Len(sessions)
      /\ Sessions' = Sessions
      /\ \A x \in Sessions' : GuardOK(sessions'[x], Cardinality(InsideOf(x)'))
    BY <1>1, <1>3, <1>4, OneGuardChanges
<1>6. \A x \in Sessions \ {s} : sessions'[x] = sessions[x]
    BY <1>1, <1>4 DEF SessionInv, SessionTypeOK, Sessions
<1>7. /\ cache' \in [Keys -> 0..Len(sessions)]
      /\ \A w \in Keys : cache'[w] = IF w = v THEN 0 ELSE cache[w]
    BY <1>1 DEF SessionInv, SessionTypeOK
<1>8. Cached' = Cached \ {v}
    BY <1>7 DEF Cached
<1>9. \A w \in Cached \ {v} : cache[w] \in Sessions \ {s} /\ ~sessions[cache[w]].removed
    BY DEF SessionInv, CachedOnce
<1>10. \A w \in Cached' : w \in Keys /\ w \in Cached /\ w # v /\ cache'[w] = cache[w]
    BY <1>7, <1>8 DEF Cached
<1>11. CachedOnce'
    <2>1. \A w \in Cached' : cache'[w] \in Sessions' /\ ~sessions'[cache'[w]].removed
        BY <1>5, <1>6, <1>9, <1>10
    <2>2. \A w, x \in Cached' : cache'[w] = cache'[x] => w = x
        BY <1>10 DEF SessionInv, CachedOnce
    <2> QED
        BY <2>1, <2>2 DEF CachedOnce
<1> QED
    BY <1>5, <1>7, <1>11

\* A step that leaves the guards and the threads inside as they are.
LEMMA GuardsKept ==
    ASSUME SessionInv, UNCHANGED sessions, \A x : InsideOf(x)' = InsideOf(x)
    PROVE  /\ Sessions' = Sessions
           /\ \A x \in Sessions' : GuardOK(sessions'[x], Cardinality(InsideOf(x)'))
    BY DEF SessionInv, Sessions

\* A step of a request thread.
LEMMA RequestStepKeeps ==
    ASSUME SessionInv, NEW r \in Requests, NEW v \in Keys,
           \/ GetLive(r, v) \/ CacheGet(r) \/ LoadFails(r)
           \/ Recheck(r) \/ Enter(r) \/ Leave(r)
    PROVE  SessionInv'
<1> USE DEF SessionInv
<1>1. CASE GetLive(r, v)
    <2> DEFINE q == [pc |-> "load", version |-> v, session |-> 0]
    <2>1. q \in RequestState /\ request' = [request EXCEPT ![r] = q] /\ q.pc = "load"
        BY <1>1 DEF GetLive, RequestState
    <2>2. /\ request' \in [Requests -> RequestState]
          /\ \A x \in Requests : request'[x] = IF x = r THEN q ELSE request[x]
        BY <2>1 DEF SessionTypeOK
    <2>3. \A x : InsideOf(x)' = InsideOf(x)
        BY <1>1, <2>1, <2>2 DEF InsideOf, GetLive
    <2>4. UNCHANGED <<sessions, cache, loader>>
        BY <1>1 DEF GetLive
    <2>5. HoldsSession'
        BY <2>1, <2>2, <2>4 DEF HoldsSession, Sessions
    <2>6. CachedOnce' /\ SweepAfterClose' /\ SessionTypeOK'
        BY <2>2, <2>4 DEF CachedOnce, Cached, Sessions, SweepAfterClose, SessionTypeOK
    <2> QED
        BY <2>3, <2>4, <2>5, <2>6, GuardsKept
<1>2. CASE LoadFails(r)
    <2>1. UNCHANGED <<sessions, cache, loader>> /\ GiveUp(r) /\ request[r].pc # "inside"
        BY <1>2 DEF LoadFails
    <2>2. /\ request' \in [Requests -> RequestState]
          /\ \A x : InsideOf(x)' = InsideOf(x)
          /\ HoldsSession'
        BY <2>1, GivesUp DEF Sessions
    <2>3. CachedOnce' /\ SweepAfterClose' /\ SessionTypeOK'
        BY <2>1, <2>2 DEF CachedOnce, Cached, Sessions, SweepAfterClose, SessionTypeOK
    <2> QED
        BY <2>1, <2>2, <2>3, GuardsKept
<1>3. CASE CacheGet(r)
    <2> DEFINE w == request[r].version
               after == IF request[r].pc = "load" THEN "recheck" ELSE "call"
    <2>1. /\ request[r].pc \notin {"idle", "inside"} /\ after \in {"recheck", "call"}
          /\ UNCHANGED loader
        BY <1>3 DEF CacheGet
    <2>2. w \in Keys
        BY <2>1, ThreadType
    <2>3. CASE cache[w] # 0
        <3>1. w \in Cached /\ cache[w] \in Sessions /\ cache[w] \in Nat
            BY <2>2, <2>3, SessionIds DEF CachedOnce, Cached
        <3>2. /\ request' = [request EXCEPT ![r].pc = after, ![r].session = cache[w]]
              /\ UNCHANGED <<sessions, cache>>
            BY <1>3, <2>3 DEF CacheGet
        <3>3. /\ request' \in [Requests -> RequestState]
              /\ \A x : InsideOf(x)' = InsideOf(x)
              /\ HoldsSession'
            BY <2>1, <3>1, <3>2, GoesOn DEF Sessions
        <3>4. CachedOnce' /\ SweepAfterClose' /\ SessionTypeOK'
            BY <2>1, <3>2, <3>3 DEF CachedOnce, Cached, Sessions, SweepAfterClose, SessionTypeOK
        <3> QED
            BY <3>2, <3>3, <3>4, GuardsKept
    <2>4. CASE cache[w] = 0
        <3>11. PICK n \in Nat : n = Len(sessions) + 1
            BY SessionIds
        <3>1. /\ Len(sessions) < MaxSessions
              /\ sessions' = Append(sessions, Opened)
              /\ cache' = [cache EXCEPT ![w] = n]
              /\ request' = [request EXCEPT ![r].pc = after, ![r].session = n]
            BY <1>3, <2>4, <3>11 DEF CacheGet
        <3>2. Opened \in Guard
            BY DEF Opened, Guard
        <3>3. /\ sessions' \in Seq(Guard) /\ Len(sessions') = n
              /\ Sessions' = Sessions \union {n} /\ n \notin Sessions /\ n \in Nat \ {0}
              /\ \A x \in Sessions : sessions'[x] = sessions[x]
              /\ sessions'[n] = Opened
            BY <3>1, <3>2, <3>11, SessionIds DEF SessionTypeOK, Sessions
        <3>4. /\ request' \in [Requests -> RequestState]
              /\ \A x : InsideOf(x)' = InsideOf(x)
              /\ HoldsSession'
            BY <2>1, <3>1, <3>3, GoesOn
        <3>5. /\ cache' \in [Keys -> 0..n]
              /\ \A k \in Keys : cache'[k] = IF k = w THEN n ELSE cache[k]
            BY <2>2, <3>1, <3>3 DEF SessionTypeOK
        <3>6. InsideOf(n) = {}
            BY <3>3 DEF InsideOf, HoldsSession
        <3>7. GuardOK(Opened, Cardinality(InsideOf(n)'))
            <4>1. Cardinality(InsideOf(n)') = 0
                BY <3>4, <3>6, FS_EmptySet
            <4>2. GuardOK(Opened, 0)
                BY <3>2 DEF GuardOK, Opened, Closers
            <4> QED
                BY <4>1, <4>2
        <3>8. \A x \in Sessions' : GuardOK(sessions'[x], Cardinality(InsideOf(x)'))
            BY <3>3, <3>4, <3>7
        <3>9. CachedOnce'
            <4>1. Cached' = Cached \union {w}
                BY <2>2, <3>3, <3>5 DEF Cached
            <4>2. \A k \in Cached : k \in Keys /\ k # w /\ cache'[k] = cache[k] /\ cache[k] \in Sessions
                BY <2>4, <3>5 DEF Cached, CachedOnce
            <4>3. cache'[w] = n /\ ~sessions'[n].removed
                BY <2>2, <3>3, <3>5 DEF Opened
            <4>4. \A k \in Cached' : cache'[k] \in Sessions' /\ ~sessions'[cache'[k]].removed
                BY <3>3, <4>1, <4>2, <4>3 DEF CachedOnce
            <4>5. \A k, l \in Cached' : cache'[k] = cache'[l] => k = l
                BY <3>3, <4>1, <4>2, <4>3 DEF CachedOnce
            <4> QED
                BY <4>4, <4>5 DEF CachedOnce
        <3>10. SessionTypeOK' /\ SweepAfterClose'
            BY <2>1, <3>1, <3>3, <3>4, <3>5, SessionIds, CacheAssumption
            DEF SessionTypeOK, SweepAfterClose
        <3> QED
            BY <3>4, <3>8, <3>9, <3>10
    <2> QED
        BY <2>3, <2>4
<1>4. CASE Recheck(r)
    <2> DEFINE s == request[r].session
               w == request[r].version
    <2>1. request[r].pc = "recheck" /\ s \in Sessions /\ s \in Nat /\ w \in Keys /\ UNCHANGED loader
        BY <1>4, ThreadType DEF Recheck
    <2>2. ASSUME NEW pc \in {"reload", "call"}, GoTo(r, pc), Sessions' = Sessions
          PROVE  /\ request' \in [Requests -> RequestState]
                 /\ \A x : InsideOf(x)' = InsideOf(x)
                 /\ HoldsSession'
        <3>1. request' = [request EXCEPT ![r].pc = pc, ![r].session = s]
            BY <2>1, <2>2, ThreadType DEF GoTo, SessionTypeOK
        <3> QED
            BY <2>1, <2>2, <3>1, GoesOn
    <2>3. PICK pc \in {"reload", "call"} : GoTo(r, pc)
        BY <1>4 DEF Recheck
    <2>4. CASE UNCHANGED <<sessions, cache>>
        <3>1. Sessions' = Sessions
            BY <2>4 DEF Sessions
        <3>2. CachedOnce' /\ SweepAfterClose' /\ SessionTypeOK'
            BY <2>1, <2>2, <2>3, <2>4, <3>1
            DEF CachedOnce, Cached, Sessions, SweepAfterClose, SessionTypeOK
        <3> QED
            BY <2>2, <2>3, <2>4, <3>1, <3>2, GuardsKept
    <2>5. CASE cache[w] = s /\ sessions' = Removed(s) /\ cache' = [cache EXCEPT ![w] = 0]
        <3>1. w \in Cached
            BY <2>1, <2>5, SessionIds DEF Cached
        <3>2. Sessions' = Sessions
            BY <2>5 DEF Removed, Sessions, SessionTypeOK
        <3>3. \A x : InsideOf(x)' = InsideOf(x)
            BY <2>2, <2>3, <3>2
        <3>4. /\ sessions' \in Seq(Guard) /\ Len(sessions') = Len(sessions)
              /\ \A x \in Sessions' : GuardOK(sessions'[x], Cardinality(InsideOf(x)'))
              /\ cache' \in [Keys -> 0..Len(sessions')]
              /\ CachedOnce'
            BY <2>5, <3>1, <3>3, RemovalKeeps
        <3>5. SessionTypeOK' /\ SweepAfterClose'
            BY <2>1, <2>2, <2>3, <3>2, <3>4 DEF SessionTypeOK, SweepAfterClose
        <3> QED
            BY <2>2, <2>3, <3>2, <3>4, <3>5
    <2> QED
        BY <1>4, <2>4, <2>5 DEF Recheck, RemoveIfSame
<1>5. ASSUME NEW s \in Sessions, s = request[r].session, request[r].pc \in {"call", "inside"},
             NEW m \in Nat, m = Cardinality(InsideOf(s)'),
             sessions' = [sessions EXCEPT ![s].inFlight = m],
             sessions[s].claimed => m <= sessions[s].inFlight,
             \A x \in Sessions \ {s} : InsideOf(x)' = InsideOf(x),
             UNCHANGED <<cache, loader>>, request' \in [Requests -> RequestState],
             \A x \in Requests : request'[x] # request[x] =>
                 request'[x].pc = "idle" \/ request'[x].session = s
      PROVE  SessionInv'
    <2> DEFINE g == [sessions[s] EXCEPT !.inFlight = m]
    <2>1. GuardOK(sessions[s], Cardinality(InsideOf(s))) /\ sessions[s] \in Guard
        BY DEF GuardOK
    <2>2. GuardOK(g, m) /\ g.removed = sessions[s].removed
        BY <1>5, <2>1 DEF GuardOK, Guard, Closers
    <2>3. sessions' = [sessions EXCEPT ![s] = g]
        BY <1>5 DEF SessionTypeOK, Sessions
    <2>4. /\ sessions' \in Seq(Guard) /\ Len(sessions') = Len(sessions)
          /\ Sessions' = Sessions
          /\ \A x \in Sessions' : GuardOK(sessions'[x], Cardinality(InsideOf(x)'))
        BY <1>5, <2>2, <2>3, OneGuardChanges
    <2>5. \A x \in Sessions : sessions'[x].removed = sessions[x].removed
        BY <2>2, <2>3, SessionIds DEF SessionTypeOK, Sessions
    <2>6. HoldsSession'
        BY <1>5, <2>4 DEF HoldsSession
    <2>7. CachedOnce' /\ SweepAfterClose' /\ SessionTypeOK'
        BY <1>5, <2>4, <2>5 DEF CachedOnce, Cached, SweepAfterClose, SessionTypeOK
    <2> QED
        BY <2>4, <2>6, <2>7
<1>6. CASE Enter(r) /\ sessions[request[r].session].retired
    <2>1. UNCHANGED <<sessions, cache, loader>> /\ GiveUp(r) /\ request[r].pc # "inside"
        BY <1>6 DEF Enter
    <2>2. /\ request' \in [Requests -> RequestState]
          /\ \A x : InsideOf(x)' = InsideOf(x)
          /\ HoldsSession'
        BY <2>1, GivesUp DEF Sessions
    <2>3. CachedOnce' /\ SweepAfterClose' /\ SessionTypeOK'
        BY <2>1, <2>2 DEF CachedOnce, Cached, Sessions, SweepAfterClose, SessionTypeOK
    <2> QED
        BY <2>1, <2>2, <2>3, GuardsKept
<1>7. CASE Enter(r) /\ ~sessions[request[r].session].retired
    <2>1. PICK s \in Sessions : s = request[r].session
        BY <1>7, ThreadType DEF Enter
    <2>2. request[r].pc = "call" /\ UNCHANGED <<cache, loader>> /\ ~sessions[s].retired
          /\ sessions' = [sessions EXCEPT ![s].inFlight = @ + 1]
        BY <1>7, <2>1 DEF Enter
    <2> DEFINE q == [request[r] EXCEPT !.pc = "inside"]
    <2>3. q \in RequestState /\ q.pc = "inside" /\ q.session = s
        BY <2>1, <2>2, ThreadType DEF RequestState
    <2>4. request' = [request EXCEPT ![r] = q]
        BY <1>7 DEF Enter, GoTo, SessionTypeOK
    <2>5. /\ request' \in [Requests -> RequestState]
          /\ \A x \in Requests : request'[x] = IF x = r THEN q ELSE request[x]
        BY <2>3, <2>4 DEF SessionTypeOK
    <2>6. r \notin InsideOf(s) /\ InsideOf(s)' = InsideOf(s) \union {r}
          /\ \A x \in Sessions \ {s} : InsideOf(x)' = InsideOf(x)
        BY <2>2, <2>3, <2>5 DEF InsideOf
    <2>7. InsideOf(s) \in SUBSET Requests /\ InsideOf(s)' \in SUBSET Requests
        BY DEF InsideOf
    <2>8. sessions[s].inFlight = Cardinality(InsideOf(s)) /\ ~sessions[s].claimed
        BY <2>2 DEF GuardOK
    <2>9. PICK m \in Nat : m = Cardinality(InsideOf(s)') /\ m = sessions[s].inFlight + 1
        BY <2>6, <2>7, <2>8, CountIn, CountIsNat
    <2>10. sessions' = [sessions EXCEPT ![s].inFlight = m]
        BY <2>2, <2>9
    <2> QED
        BY <1>5, <2>1, <2>2, <2>3, <2>5, <2>6, <2>8, <2>9, <2>10
<1>8. CASE Leave(r)
    <2>1. PICK s \in Sessions : s = request[r].session
        BY <1>8, ThreadType DEF Leave
    <2>2. request[r].pc = "inside" /\ UNCHANGED <<cache, loader>>
          /\ sessions' = [sessions EXCEPT ![s].inFlight = @ - 1]
        BY <1>8, <2>1 DEF Leave
    <2>3. AtRest \in RequestState /\ AtRest.pc = "idle"
        BY DEF AtRest, RequestState
    <2>4. request' = [request EXCEPT ![r] = AtRest]
        BY <1>8 DEF Leave, GiveUp
    <2>5. /\ request' \in [Requests -> RequestState]
          /\ \A x \in Requests : request'[x] = IF x = r THEN AtRest ELSE request[x]
        BY <2>3, <2>4 DEF SessionTypeOK
    <2>6. r \in InsideOf(s) /\ InsideOf(s)' = InsideOf(s) \ {r}
          /\ \A x \in Sessions \ {s} : InsideOf(x)' = InsideOf(x)
        BY <2>1, <2>2, <2>3, <2>5 DEF InsideOf
    <2>7. InsideOf(s) \in SUBSET Requests /\ InsideOf(s)' \in SUBSET Requests
        BY DEF InsideOf
    <2>8. sessions[s].inFlight = Cardinality(InsideOf(s))
        BY DEF GuardOK
    <2>9. PICK m \in Nat : m = Cardinality(InsideOf(s)') /\ m = sessions[s].inFlight - 1
        BY <2>6, <2>7, <2>8, CountOut, CountIsNat
    <2>10. sessions' = [sessions EXCEPT ![s].inFlight = m]
        BY <2>2, <2>9
    <2>11. m <= sessions[s].inFlight
        BY <2>7, <2>8, <2>9, CountIsNat
    <2>12. \A x \in Requests : request'[x] # request[x] =>
                request'[x].pc = "idle" \/ request'[x].session = s
        BY <2>3, <2>5
    <2> QED
        BY <1>5, <2>1, <2>2, <2>5, <2>6, <2>9, <2>10, <2>11, <2>12
<1> QED
    BY <1>1, <1>2, <1>3, <1>4, <1>6, <1>7, <1>8

\* Size eviction and the steps of the shutdown.
LEMMA CacheStepKeeps ==
    ASSUME SessionInv,
           \/ \E v \in Keys : Evict(v) \/ SweepKey(v)
           \/ Shutdown \/ InvalidateAll
    PROVE  SessionInv'
<1> USE DEF SessionInv
<1>1. request' = request /\ \A x : InsideOf(x)' = InsideOf(x)
    BY DEF Evict, SweepKey, Shutdown, InvalidateAll, InsideOf
<1>2. ASSUME NEW v \in Keys, Evict(v)
      PROVE  SessionInv'
    <2>1. PICK s : s = cache[v]
        OBVIOUS
    <2>2. v \in Cached /\ sessions' = Removed(s) /\ cache' = [cache EXCEPT ![v] = 0] /\ loader' = loader
        BY <1>2, <2>1 DEF Evict, Cached
    <2>3. /\ sessions' \in Seq(Guard) /\ Len(sessions') = Len(sessions)
          /\ Sessions' = Sessions
          /\ \A x \in Sessions' : GuardOK(sessions'[x], Cardinality(InsideOf(x)'))
          /\ cache' \in [Keys -> 0..Len(sessions')]
          /\ CachedOnce'
        BY <1>1, <2>1, <2>2, RemovalKeeps
    <2>4. SessionTypeOK' /\ HoldsSession' /\ SweepAfterClose'
        BY <1>1, <2>2, <2>3 DEF SessionTypeOK, HoldsSession, SweepAfterClose
    <2> QED
        BY <2>3, <2>4
<1>3. CASE Shutdown
    <2>1. UNCHANGED <<sessions, cache>> /\ loader' = [closed |-> TRUE, sweep |-> "walk", unswept |-> Keys]
        BY <1>3 DEF Shutdown
    <2>2. SessionTypeOK' /\ HoldsSession' /\ SweepAfterClose' /\ CachedOnce'
        BY <1>1, <2>1 DEF SessionTypeOK, HoldsSession, SweepAfterClose, CachedOnce, Cached, Sessions
    <2> QED
        BY <1>1, <2>1, <2>2, GuardsKept
<1>4. ASSUME NEW v \in Keys, SweepKey(v)
      PROVE  SessionInv'
    <2>1. /\ loader.sweep = "walk" /\ ~SweepBusy
          /\ loader' = [loader EXCEPT !.unswept = @ \ {v}] /\ cache' = cache
        BY <1>4 DEF SweepKey
    <2>2. loader' \in [closed : BOOLEAN, sweep : {"none", "walk", "done"}, unswept : SUBSET Keys]
          /\ SweepAfterClose'
        BY <2>1 DEF SessionTypeOK, SweepAfterClose
    <2>3. CASE cache[v] = 0
        <3>1. sessions' = sessions
            BY <1>4, <2>3 DEF SweepKey
        <3>2. SessionTypeOK' /\ HoldsSession' /\ CachedOnce'
            BY <1>1, <2>1, <2>2, <3>1 DEF SessionTypeOK, HoldsSession, CachedOnce, Cached, Sessions
        <3> QED
            BY <1>1, <2>2, <3>1, <3>2, GuardsKept
    <2>4. CASE cache[v] # 0
        <3>1. PICK s \in Sessions : s = cache[v]
            BY <2>4 DEF CachedOnce, Cached
        <3> DEFINE g == [sessions[s] EXCEPT !.closer["sweep"] = "called"]
        <3>2. sessions' = [sessions EXCEPT ![s] = g]
            BY <1>4, <2>4, <3>1 DEF SweepKey, SetCloser
        <3>3. sessions[s].closer["sweep"] = "none" /\ GuardOK(sessions[s], Cardinality(InsideOf(s)))
            BY <2>1 DEF SweepBusy
        <3>4. GuardOK(g, Cardinality(InsideOf(s))) /\ g.removed = sessions[s].removed
            BY <3>3 DEF GuardOK, Guard, Closers
        <3>5. /\ sessions' \in Seq(Guard) /\ Len(sessions') = Len(sessions)
              /\ Sessions' = Sessions
              /\ \A x \in Sessions' : GuardOK(sessions'[x], Cardinality(InsideOf(x)'))
            BY <1>1, <3>2, <3>4, OneGuardChanges
        <3>6. \A x \in Sessions : sessions'[x].removed = sessions[x].removed
            BY <3>2, <3>4, SessionIds DEF SessionTypeOK, Sessions
        <3>7. SessionTypeOK' /\ HoldsSession' /\ CachedOnce'
            BY <1>1, <2>1, <2>2, <3>5, <3>6 DEF SessionTypeOK, HoldsSession, CachedOnce, Cached
        <3> QED
            BY <2>2, <3>5, <3>7
    <2> QED
        BY <2>3, <2>4
<1>5. CASE InvalidateAll
    <2> DEFINE Out(s) == \E v \in Cached : cache[v] = s
               Gone(s) == [sessions[s] EXCEPT !.removed = TRUE, !.closer.listener = "called"]
    <2>1. /\ sessions' = [s \in Sessions |-> IF Out(s) THEN Removed(s)[s] ELSE sessions[s]]
          /\ cache' = [v \in Keys |-> 0] /\ loader' = [loader EXCEPT !.sweep = "done"]
          /\ loader.sweep = "walk"
        BY <1>5 DEF InvalidateAll
    <2>2. \A s \in Sessions : Removed(s)[s] = Gone(s)
        BY SessionIds DEF Removed, Sessions
    <2>3. \A s \in Sessions : Out(s) => GuardOK(Gone(s), Cardinality(InsideOf(s)))
        BY RemovedIsSound DEF CachedOnce
    <2> HIDE DEF Gone, Out
    <2>4. \A s \in Sessions : GuardOK(sessions'[s], Cardinality(InsideOf(s)')) /\ sessions'[s] \in Guard
        BY <1>1, <2>1, <2>2, <2>3 DEF GuardOK
    <2>5. sessions' \in Seq(Guard) /\ Len(sessions') = Len(sessions) /\ Sessions' = Sessions
        BY <2>1, <2>4, SessionIds DEF Sessions
    <2>6. cache' \in [Keys -> 0..Len(sessions')] /\ CachedOnce'
        BY <2>1, <2>5, SessionIds DEF CachedOnce, Cached
    <2>7. SessionTypeOK' /\ HoldsSession' /\ SweepAfterClose'
        BY <1>1, <2>1, <2>5, <2>6 DEF SessionTypeOK, HoldsSession, SweepAfterClose
    <2> QED
        BY <2>4, <2>5, <2>6, <2>7
<1> QED
    BY <1>2, <1>3, <1>4, <1>5

LEMMA SessionInvStep == SessionInv /\ [SessionNext]_sessionVars => SessionInv'
<1> SUFFICES ASSUME SessionInv, [SessionNext]_sessionVars
             PROVE  SessionInv'
    OBVIOUS
<1>1. CASE RequestNext
    <2>1. PICK r \in Requests :
              (\E v \in Keys : GetLive(r, v)) \/ CacheGet(r) \/ LoadFails(r)
              \/ Recheck(r) \/ Enter(r) \/ Leave(r)
        BY <1>1 DEF RequestNext
    <2>2. CASE \E v \in Keys : GetLive(r, v)
        BY <2>2, RequestStepKeeps
    <2>3. CASE CacheGet(r) \/ LoadFails(r) \/ Recheck(r) \/ Enter(r) \/ Leave(r)
        <3>1. request[r].pc # "idle"
            BY <2>3 DEF CacheGet, LoadFails, Recheck, Enter, Leave
        <3>2. request[r].version \in Keys
            BY <3>1, ThreadType
        <3> QED
            BY <2>3, <3>2, RequestStepKeeps
    <2> QED
        BY <2>1, <2>2, <2>3
<1>2. CASE CloserNext
    BY <1>2, CloserStepKeeps DEF CloserNext
<1>3. CASE (\E v \in Keys : Evict(v) \/ SweepKey(v)) \/ Shutdown \/ InvalidateAll
    BY <1>3, CacheStepKeeps
<1>4. CASE UNCHANGED sessionVars
    <2>1. UNCHANGED <<sessions, cache, loader, request>>
        BY <1>4 DEF sessionVars
    <2> QED
        BY <2>1 DEF SessionInv, SessionTypeOK, HoldsSession, SweepAfterClose, CachedOnce,
                    Cached, Sessions, InsideOf
<1> QED
    BY <1>1, <1>2, <1>3, <1>4 DEF SessionNext

LEMMA SessionInvariant == SessionSpec => []SessionInv
<1>1. SessionInit => SessionInv
    <2> SUFFICES ASSUME SessionInit
                 PROVE  SessionInv
        OBVIOUS
    <2>1. Sessions = {} /\ Len(sessions) = 0 /\ sessions \in Seq(Guard)
        BY DEF SessionInit, Sessions
    <2>2. SessionTypeOK
        BY <2>1, CacheAssumption DEF SessionInit, SessionTypeOK, RequestState, AtRest
    <2>3. HoldsSession /\ SweepAfterClose /\ CachedOnce
        BY DEF SessionInit, HoldsSession, SweepAfterClose, CachedOnce, Cached, AtRest
    <2> QED
        BY <2>1, <2>2, <2>3 DEF SessionInv
<1> QED
    BY <1>1, SessionInvStep, PTL DEF SessionSpec

-----------------------------------------------------------------------------
(* The theorems *)

\* Every reachable state is well typed: no guard ever counts below zero, however
\* calls, closes and evictions interleave.
THEOREM SessionTypeCorrect == SessionSpec => []SessionTypeOK
<1>1. SessionInv => SessionTypeOK
    BY DEF SessionInv
<1> QED
    BY <1>1, SessionInvariant, PTL

\* A native session is closed at most once, by the listener or by the sweep, and
\* not under a call that is inside, unless the drain bound expired over that call.
THEOREM SessionsCloseOnce == SessionSpec => []CloseIsExclusive
<1>1. SessionInv => CloseIsExclusive
    BY DEF SessionInv, GuardOK, CloseIsExclusive
<1> QED
    BY <1>1, SessionInvariant, PTL

\* What the guard counts is what is inside: a guard that is idle has no thread in
\* a native call, for any number of threads.
THEOREM CountsAreCalls ==
    SessionSpec => [](\A s \in Sessions : sessions[s].inFlight = 0 => InsideOf(s) = {})
<1>1. SessionInv => \A s \in Sessions : sessions[s].inFlight = 0 => InsideOf(s) = {}
    <2> SUFFICES ASSUME SessionInv, NEW s \in Sessions, sessions[s].inFlight = 0
                 PROVE  InsideOf(s) = {}
        OBVIOUS
    <2>1. Cardinality(InsideOf(s)) = 0
        BY DEF SessionInv, GuardOK
    <2>2. InsideOf(s) \in SUBSET Requests
        BY DEF InsideOf
    <2>3. IsFiniteSet(InsideOf(s))
        BY <2>2, RequestsAssumption, FS_Subset
    <2> QED
        BY <2>1, <2>3, FS_EmptySet
<1> QED
    BY <1>1, SessionInvariant, PTL

\* A session leaves the cache retired, over the size or in the shutdown: a thread
\* with a stale session never drops the fresh one cached under the same key.
THEOREM FreshStaysCached == SessionSpec => FreshIsKept
<1> DEFINE Kept == \A s \in Sessions :
                      sessions'[s].removed /\ ~sessions[s].removed
                          => \/ sessions[s].retired
                             \/ Cardinality(Cached) > CacheSize
                             \/ loader.closed
<1>1. SessionInv /\ [SessionNext]_sessionVars => [Kept]_sessionVars
    <2> SUFFICES ASSUME SessionInv, SessionNext, NEW s \in Sessions,
                        sessions'[s].removed, ~sessions[s].removed
                 PROVE  \/ sessions[s].retired
                        \/ Cardinality(Cached) > CacheSize
                        \/ loader.closed
        OBVIOUS
    <2>1. sessions \in Seq(Guard) /\ Sessions = 1..Len(sessions) /\ Len(sessions) \in Nat
          /\ sessions[s] \in Guard
        BY SessionIds DEF SessionInv, SessionTypeOK
    <2>2. ASSUME NEW x \in Sessions, sessions' = Removed(x)
          PROVE  s = x
        BY <2>1, <2>2 DEF Removed, Sessions
    <2>3. sessions' # sessions
        OBVIOUS
    <2>4. CASE RequestNext
        <3>1. PICK r \in Requests : CacheGet(r) \/ Recheck(r) \/ Enter(r) \/ Leave(r)
            BY <2>3, <2>4 DEF RequestNext, GetLive, LoadFails
        <3>2. request[r].pc # "idle"
            BY <3>1 DEF CacheGet, Recheck, Enter, Leave
        <3>3. request[r].pc \in {"recheck", "call", "inside"} => request[r].session \in Sessions
            BY <3>2, ThreadType
        <3>4. CASE CacheGet(r)
            BY <2>1, <2>3, <3>4 DEF CacheGet, Sessions
        <3>5. CASE Recheck(r)
            BY <2>1, <2>2, <2>3, <3>3, <3>5 DEF Recheck, RemoveIfSame
        <3>6. CASE Enter(r) \/ Leave(r)
            BY <2>1, <2>3, <3>3, <3>6 DEF Enter, Leave, Guard, Sessions
        <3> QED
            BY <3>1, <3>4, <3>5, <3>6
    <2>5. CASE CloserNext
        <3>1. PICK c \in Closers, x \in Sessions :
                  Retire(c, x) \/ LoseClaim(c, x) \/ Claim(c, x) \/ NativeClose(c, x)
            BY <2>5 DEF CloserNext
        <3> QED
            BY <3>1, CloserStepKeeps
    <2>6. CASE \E v \in Keys : Evict(v) \/ SweepKey(v)
        <3>1. PICK v \in Keys : Evict(v) \/ SweepKey(v)
            BY <2>6
        <3>2. CASE Evict(v)
            BY <3>2 DEF Evict
        <3>3. CASE SweepKey(v)
            BY <3>3 DEF SessionInv, SweepAfterClose, SweepKey
        <3> QED
            BY <3>1, <3>2, <3>3
    <2>7. CASE Shutdown \/ InvalidateAll
        BY <2>3, <2>7 DEF Shutdown, InvalidateAll, SessionInv, SweepAfterClose
    <2> QED
        BY <2>4, <2>5, <2>6, <2>7 DEF SessionNext
<1> QED
    BY <1>1, SessionInvariant, PTL DEF SessionSpec, FreshIsKept

-----------------------------------------------------------------------------
(***************************************************************************)
(* The prediction log: queues of events.                                   *)
(***************************************************************************)
\* No event is in a queue twice.
Distinct(s) == \A i, j \in DOMAIN s : s[i].event = s[j].event => i = j

DistinctUpTo(s, l) == \A i, j \in 1 .. l : s[i].event = s[j].event => i = j

LEMMA EventsOfIndex ==
    ASSUME NEW s \in Seq(Queued)
    PROVE  /\ EventsOf(s) = {s[i].event : i \in 1 .. Len(s)} /\ Len(s) \in Nat
           /\ Distinct(s) <=> DistinctUpTo(s, Len(s))
BY DEF EventsOf, ToSet, Distinct, DistinctUpTo

\* Of l places of s, a begins with the first n and b with the others.
CutAt(s, l, n, a, b) ==
    /\ l \in Nat /\ n \in 0 .. l
    /\ \A i \in 1 .. n : a[i] = s[i]
    /\ \A i \in 1 .. l - n : b[i] = s[n + i]

LEMMA Pieces ==
    ASSUME NEW s, NEW l, NEW n, NEW a, NEW b, CutAt(s, l, n, a, b), DistinctUpTo(s, l)
    PROVE  /\ \A i \in 1 .. l : \/ i \in 1 .. n /\ a[i] = s[i]
                                \/ i - n \in 1 .. l - n /\ b[i - n] = s[i]
           /\ \A i \in 1 .. n : i \in 1 .. l /\ s[i] = a[i]
           /\ \A i \in 1 .. l - n : n + i \in 1 .. l /\ s[n + i] = b[i]
           /\ \A i \in 1 .. n, j \in 1 .. l - n : a[i].event # b[j].event
           /\ DistinctUpTo(a, n) /\ DistinctUpTo(b, l - n)
<1> USE DEF CutAt, DistinctUpTo
<1>1. \A i \in 1 .. n : i \in 1 .. l /\ s[i] = a[i]
    OBVIOUS
<1>2. \A i \in 1 .. l - n : n + i \in 1 .. l /\ s[n + i] = b[i]
    OBVIOUS
<1>3. \A i \in 1 .. l : i \notin 1 .. n => i - n \in 1 .. l - n /\ n + (i - n) = i
    OBVIOUS
<1>4. \A i \in 1 .. n, j \in 1 .. l - n : i # n + j
    OBVIOUS
<1>5. \A i, j \in 1 .. l - n : n + i = n + j => i = j
    OBVIOUS
<1>6. \A i \in 1 .. l : \/ i \in 1 .. n /\ a[i] = s[i]
                        \/ i - n \in 1 .. l - n /\ b[i - n] = s[i]
    BY <1>3
<1> QED
    BY <1>1, <1>2, <1>4, <1>5, <1>6

LEMMA EventsOfAppend ==
    ASSUME NEW s \in Seq(Queued), NEW q \in Queued, Distinct(s), q.event \notin EventsOf(s)
    PROVE  /\ Append(s, q) \in Seq(Queued) /\ Len(Append(s, q)) = Len(s) + 1
           /\ EventsOf(Append(s, q)) = EventsOf(s) \union {q.event} /\ Distinct(Append(s, q))
<1> DEFINE t == Append(s, q)
<1>1. /\ t \in Seq(Queued) /\ Len(t) = Len(s) + 1 /\ t[Len(s) + 1] = q /\ Len(s) \in Nat
      /\ \A i \in 1 .. Len(s) : t[i] = s[i]
    OBVIOUS
<1> HIDE DEF t
<1>2. PICK l \in Nat : l = Len(s)
    BY <1>1
<1>3. EventsOf(t) = {t[i].event : i \in 1 .. l + 1} /\ EventsOf(s) = {s[i].event : i \in 1 .. l}
    BY <1>1, <1>2, EventsOfIndex
<1>4. (\A i \in 1 .. l + 1 : i \in 1 .. l \/ i = l + 1) /\ (\A i \in 1 .. l : i \in 1 .. l + 1)
      /\ l + 1 \in 1 .. l + 1
    OBVIOUS
<1>5. t[l + 1] = q /\ \A i \in 1 .. l : t[i] = s[i]
    BY <1>1, <1>2
<1>6. EventsOf(t) = EventsOf(s) \union {q.event}
    BY <1>3, <1>4, <1>5
<1>7. DistinctUpTo(s, l)
    BY <1>2, EventsOfIndex
<1>8. \A i \in 1 .. l : s[i].event # q.event
    BY <1>3
<1>9. DistinctUpTo(t, l + 1)
    BY <1>4, <1>5, <1>7, <1>8 DEF DistinctUpTo
<1> QED
    BY <1>1, <1>2, <1>6, <1>9, EventsOfIndex DEF t

LEMMA EventsOfSplit ==
    ASSUME NEW s \in Seq(Queued), NEW n \in 0 .. Len(s), Distinct(s)
    PROVE  LET a == SubSeq(s, 1, n)
               b == SubSeq(s, n + 1, Len(s)) IN
           /\ a \in Seq(Queued) /\ b \in Seq(Queued) /\ Len(a) + Len(b) = Len(s) /\ Len(b) = Len(s) - n
           /\ EventsOf(s) = EventsOf(a) \union EventsOf(b)
           /\ EventsOf(a) \intersect EventsOf(b) = {}
           /\ Distinct(a) /\ Distinct(b)
<1> DEFINE a == SubSeq(s, 1, n)
           b == SubSeq(s, n + 1, Len(s))
<1>1. /\ Len(s) \in Nat
      /\ a \in Seq(Queued) /\ Len(a) = n /\ b \in Seq(Queued) /\ Len(b) = Len(s) - n
      /\ \A i \in 1 .. n : a[i] = s[i]
      /\ \A i \in 1 .. Len(s) - n : b[i] = s[n + i]
    OBVIOUS
<1> HIDE DEF a, b
<1>2. PICK l \in Nat : l = Len(s)
    BY <1>1
<1>3. /\ \A i \in 1 .. l : \/ i \in 1 .. n /\ a[i] = s[i]
                           \/ i - n \in 1 .. l - n /\ b[i - n] = s[i]
      /\ \A i \in 1 .. n : i \in 1 .. l /\ s[i] = a[i]
      /\ \A i \in 1 .. l - n : n + i \in 1 .. l /\ s[n + i] = b[i]
      /\ \A i \in 1 .. n, j \in 1 .. l - n : a[i].event # b[j].event
      /\ DistinctUpTo(a, n) /\ DistinctUpTo(b, l - n)
    <2>1. CutAt(s, l, n, a, b)
        BY <1>1, <1>2 DEF CutAt
    <2>2. DistinctUpTo(s, l)
        BY <1>2, EventsOfIndex
    <2> QED
        BY <2>1, <2>2, Pieces
<1>4. /\ EventsOf(s) = {s[i].event : i \in 1 .. l}
      /\ EventsOf(a) = {a[i].event : i \in 1 .. n}
      /\ EventsOf(b) = {b[i].event : i \in 1 .. l - n}
    BY <1>1, <1>2, EventsOfIndex
<1>5. Distinct(a) /\ Distinct(b)
    BY <1>1, <1>2, <1>3, EventsOfIndex
<1>6. Len(a) + Len(b) = Len(s)
    BY <1>1
<1>7. EventsOf(s) = EventsOf(a) \union EventsOf(b)
    <2>1. ASSUME NEW i \in 1 .. l PROVE s[i].event \in EventsOf(a) \union EventsOf(b)
        <3>1. CASE i \in 1 .. n /\ a[i] = s[i]
            BY <1>4, <3>1
        <3>2. CASE i - n \in 1 .. l - n /\ b[i - n] = s[i]
            BY <1>4, <3>2
        <3> QED
            BY <1>3, <3>1, <3>2
    <2>2. ASSUME NEW i \in 1 .. n PROVE a[i].event \in EventsOf(s)
        BY <1>3, <1>4
    <2>3. ASSUME NEW i \in 1 .. l - n PROVE b[i].event \in EventsOf(s)
        BY <1>3, <1>4
    <2> QED
        BY <1>4, <2>1, <2>2, <2>3
<1>8. EventsOf(a) \intersect EventsOf(b) = {}
    BY <1>3, <1>4
<1> QED
    BY <1>1, <1>5, <1>6, <1>7, <1>8 DEF a, b

LEMMA EventsOfTail ==
    ASSUME NEW s \in Seq(Queued), s # << >>, Distinct(s)
    PROVE  /\ Head(s) \in Queued /\ Tail(s) \in Seq(Queued) /\ Len(Tail(s)) = Len(s) - 1
           /\ EventsOf(s) = EventsOf(Tail(s)) \union {Head(s).event}
           /\ Head(s).event \notin EventsOf(Tail(s)) /\ Distinct(Tail(s))
<1> DEFINE t == Tail(s)
<1>1. /\ Len(s) \in Nat /\ Len(s) >= 1 /\ Head(s) = s[1] /\ Head(s) \in Queued
      /\ t \in Seq(Queued) /\ Len(t) = Len(s) - 1
      /\ \A i \in 1 .. Len(s) - 1 : t[i] = s[1 + i]
    OBVIOUS
<1> HIDE DEF t
<1>2. PICK l \in Nat : l = Len(s)
    BY <1>1
<1>3. /\ \A i \in 1 .. l : \/ i \in 1 .. 1
                           \/ i - 1 \in 1 .. l - 1 /\ t[i - 1] = s[i]
      /\ \A i \in 1 .. l - 1 : 1 + i \in 1 .. l /\ s[1 + i] = t[i]
      /\ \A i \in 1 .. 1, j \in 1 .. l - 1 : s[i].event # t[j].event
      /\ DistinctUpTo(t, l - 1)
    <2>1. CutAt(s, l, 1, s, t)
        BY <1>1, <1>2 DEF CutAt
    <2>2. DistinctUpTo(s, l)
        BY <1>2, EventsOfIndex
    <2>3. /\ \A i \in 1 .. l : \/ i \in 1 .. 1 /\ s[i] = s[i]
                               \/ i - 1 \in 1 .. l - 1 /\ t[i - 1] = s[i]
          /\ \A i \in 1 .. 1 : i \in 1 .. l /\ s[i] = s[i]
          /\ \A i \in 1 .. l - 1 : 1 + i \in 1 .. l /\ s[1 + i] = t[i]
          /\ \A i \in 1 .. 1, j \in 1 .. l - 1 : s[i].event # t[j].event
          /\ DistinctUpTo(s, 1) /\ DistinctUpTo(t, l - 1)
        BY <2>1, <2>2, Pieces
    <2> QED
        BY <2>1, <2>2, <2>3
<1>4. (\A i \in 1 .. 1 : i = 1) /\ 1 \in 1 .. 1 /\ 1 \in 1 .. l
    BY <1>1, <1>2
<1>5. EventsOf(s) = {s[i].event : i \in 1 .. l} /\ EventsOf(t) = {t[i].event : i \in 1 .. l - 1}
    BY <1>1, <1>2, EventsOfIndex
<1>6. Distinct(t)
    BY <1>1, <1>2, <1>3, EventsOfIndex
<1>7. EventsOf(s) = EventsOf(t) \union {Head(s).event}
    <2>1. ASSUME NEW i \in 1 .. l PROVE s[i].event \in EventsOf(t) \union {Head(s).event}
        <3>1. CASE i \in 1 .. 1
            BY <1>1, <1>4, <3>1
        <3>2. CASE i - 1 \in 1 .. l - 1 /\ t[i - 1] = s[i]
            BY <1>5, <3>2
        <3> QED
            BY <1>3, <3>1, <3>2
    <2>2. ASSUME NEW i \in 1 .. l - 1 PROVE t[i].event \in EventsOf(s)
        BY <1>3, <1>5
    <2>3. Head(s).event \in EventsOf(s)
        BY <1>1, <1>4, <1>5
    <2> QED
        BY <1>5, <2>1, <2>2, <2>3
<1>8. Head(s).event \notin EventsOf(t)
    BY <1>1, <1>3, <1>4, <1>5
<1> QED
    BY <1>1, <1>6, <1>7, <1>8 DEF t

\* A queue without repetitions has as many events as places.
LEMMA EventsOfCardinality ==
    ASSUME NEW s \in Seq(Queued), Distinct(s)
    PROVE  IsFiniteSet(EventsOf(s)) /\ Cardinality(EventsOf(s)) = Len(s)
<1>1. PICK l \in Nat : l = Len(s)
    BY EventsOfIndex
<1>2. EventsOf(s) = {s[i].event : i \in 1 .. l}
      /\ DistinctUpTo(s, l)
    BY <1>1, EventsOfIndex
<1> DEFINE f == [i \in 1 .. l |-> s[i].event]
<1>3. f \in Bijection(1 .. l, EventsOf(s))
    BY <1>2 DEF DistinctUpTo, Bijection, Injection, Surjection, IsInjective
<1>4. ExistsBijection(1 .. l, EventsOf(s))
    BY <1>3 DEF ExistsBijection
<1> QED
    BY <1>1, <1>4, FS_CountingElements, FS_NatBijection

(***************************************************************************)
(* The prediction log: the invariant.                                      *)
(***************************************************************************)
\* An event is in one place of one queue, and a thread that is not writing or
\* giving back holds none.
QueuesOK ==
    /\ Distinct(pending)
    /\ \A a \in Flushers :
          /\ flush[a].pc \in {"idle", "drain", "ended"} => flush[a].batch = << >>
          /\ Distinct(flush[a].batch)
          /\ EventsOf(pending) \intersect EventsOf(flush[a].batch) = {}
          /\ \A b \in Flushers \ {a} : EventsOf(flush[a].batch) \intersect EventsOf(flush[b].batch) = {}

\* What is underway was offered and is not acknowledged; the rest was counted.
AccountsOK ==
    /\ IsFiniteSet(offered) /\ written \subseteq offered
    /\ Underway \subseteq offered \ written
    /\ Cardinality(offered \ (Underway \union written)) = lost.dropped + lost.dead

LEMMA NoEvents == << >> \in Seq(Queued) /\ EventsOf(<< >>) = {} /\ Distinct(<< >>)
BY DEF EventsOf, ToSet, Distinct

LEMMA TwoFlushers ==
    ASSUME NEW a \in Flushers
    PROVE  \E b \in Flushers \ {a} : Flushers = {a, b}
BY DEF Flushers

LEMMA UnderwayOf ==
    ASSUME NEW a \in Flushers, NEW b \in Flushers \ {a}
    PROVE  Underway = EventsOf(pending) \union EventsOf(flush[a].batch) \union EventsOf(flush[b].batch)
<1>1. Flushers = {a, b}
    BY DEF Flushers
<1> QED
    BY <1>1 DEF Underway, InHand

\* Steps that move no event.
LEMMA StillKeeps ==
    ASSUME LogTypeOK, QueuesOK, AccountsOK, UNCHANGED <<pending, offered, written, lost>>,
           \A a \in Flushers : flush'[a].batch = flush[a].batch
    PROVE  AccountsOK'
<1>1. Underway' = Underway
    BY DEF Underway, InHand
<1> QED
    BY <1>1 DEF AccountsOK

\* What leaves the queues is acknowledged or counted.
LEMMA Acknowledged ==
    ASSUME AccountsOK, NEW gone, gone \subseteq Underway, Underway' = Underway \ gone,
           offered' = offered, written' = written \union gone, lost' = lost
    PROVE  AccountsOK'
<1>1. offered' \ (Underway' \union written') = offered \ (Underway \union written)
    BY DEF AccountsOK
<1> QED
    BY <1>1 DEF AccountsOK

LEMMA Counted ==
    ASSUME AccountsOK, LogTypeOK, NEW e \in Underway, Underway' = Underway \ {e},
           offered' = offered, written' = written,
           lost' \in [dropped : Nat, dead : Nat],
           lost'.dropped + lost'.dead = lost.dropped + lost.dead + 1
    PROVE  AccountsOK'
<1> DEFINE rest == offered \ (Underway \union written)
<1>1. offered' \ (Underway' \union written') = rest \union {e} /\ e \notin rest
    BY DEF AccountsOK
<1>2. IsFiniteSet(rest)
    BY FS_Difference DEF AccountsOK
<1>3. Cardinality(rest \union {e}) = Cardinality(rest) + 1
    BY <1>1, <1>2, FS_AddElement
<1> QED
    BY <1>1, <1>3 DEF AccountsOK

LEMMA EnqueueKeeps ==
    ASSUME LogTypeOK, QueuesOK, AccountsOK, NEW e \in Events, EnqueueEvent(e)
    PROVE  LogTypeOK' /\ QueuesOK' /\ AccountsOK'
<1> DEFINE q == [event |-> e, attempts |-> 0]
<1>1. e \notin offered /\ offered' = offered \union {e} /\ UNCHANGED <<flush, gate, written>>
    BY DEF EnqueueEvent
<1>2. e \notin Underway /\ e \notin written /\ IsFiniteSet(offered') /\ written' \subseteq offered'
    BY <1>1, FS_AddElement DEF AccountsOK
<1>3. CASE Len(pending) < Capacity
    <2>1. pending' = Append(pending, q) /\ lost' = lost
        BY <1>3 DEF EnqueueEvent
    <2>2. q \in Queued /\ q.event = e /\ pending \in Seq(Queued) /\ Distinct(pending)
          /\ e \notin EventsOf(pending)
        BY <1>2 DEF Queued, LogTypeOK, QueuesOK, Underway
    <2>3. /\ pending' \in Seq(Queued) /\ Len(pending') = Len(pending) + 1
          /\ EventsOf(pending') = EventsOf(pending) \union {e} /\ Distinct(pending')
        BY <2>1, <2>2, EventsOfAppend
    <2>4. LogTypeOK'
        BY <1>1, <1>3, <2>1, <2>3, LogAssumption DEF LogTypeOK
    <2>5. Underway' = Underway \union {e}
        BY <1>1, <2>3 DEF Underway, InHand
    <2>6. \A a \in Flushers : e \notin EventsOf(flush[a].batch)
        BY <1>2 DEF Underway, InHand
    <2>8. QueuesOK'
        BY <1>1, <2>3, <2>6 DEF QueuesOK
    <2>7. AccountsOK'
        <3>1. offered' \ (Underway' \union written') = offered \ (Underway \union written)
            BY <1>1, <2>5
        <3> QED
            BY <1>1, <1>2, <2>1, <2>5, <3>1 DEF AccountsOK
    <2> QED
        BY <2>4, <2>7, <2>8
<1>4. CASE ~(Len(pending) < Capacity)
    <2>1. lost' = [lost EXCEPT !.dropped = @ + 1] /\ pending' = pending
        BY <1>4 DEF EnqueueEvent
    <2>2. Underway' = Underway /\ QueuesOK'
        BY <1>1, <2>1 DEF Underway, InHand, QueuesOK
    <2>3. lost' \in [dropped : Nat, dead : Nat]
          /\ lost'.dropped + lost'.dead = lost.dropped + lost.dead + 1
        BY <2>1 DEF LogTypeOK
    <2>4. LogTypeOK'
        BY <1>1, <2>1, <2>3 DEF LogTypeOK
    <2>5. AccountsOK'
        <3> DEFINE rest == offered \ (Underway \union written)
        <3>1. offered' \ (Underway' \union written') = rest \union {e} /\ e \notin rest
            BY <1>1, <1>2, <2>2
        <3>2. IsFiniteSet(rest)
            BY FS_Difference DEF AccountsOK
        <3>3. Cardinality(rest \union {e}) = Cardinality(rest) + 1
            BY <3>1, <3>2, FS_AddElement
        <3> QED
            BY <1>1, <1>2, <2>2, <2>3, <3>1, <3>3 DEF AccountsOK
    <2> QED
        BY <2>2, <2>4, <2>5
<1> QED
    BY <1>3, <1>4

LEMMA FlushType ==
    ASSUME LogTypeOK, NEW a \in Flushers
    PROVE  /\ flush[a] \in FlushState /\ flush[a].batch \in Seq(Queued)
           /\ pending \in Seq(Queued) /\ Len(pending) \in Nat /\ Len(pending) <= Capacity
BY DEF LogTypeOK, FlushState

\* Two threads keep their queues apart.
LEMMA QueuesApart ==
    ASSUME NEW a \in Flushers, NEW b \in Flushers \ {a},
           Distinct(pending'), Distinct(flush'[a].batch), Distinct(flush'[b].batch),
           EventsOf(pending') \intersect EventsOf(flush'[a].batch) = {},
           EventsOf(pending') \intersect EventsOf(flush'[b].batch) = {},
           EventsOf(flush'[a].batch) \intersect EventsOf(flush'[b].batch) = {},
           flush'[a].pc \in {"idle", "drain", "ended"} => flush'[a].batch = << >>,
           flush'[b].pc \in {"idle", "drain", "ended"} => flush'[b].batch = << >>
    PROVE  QueuesOK'
<1>1. Flushers = {a, b}
    BY DEF Flushers
<1> QED
    BY <1>1 DEF QueuesOK

LEMMA DrainKeeps ==
    ASSUME LogTypeOK, QueuesOK, AccountsOK, NEW a \in Flushers, DrainTo(a)
    PROVE  LogTypeOK' /\ QueuesOK' /\ AccountsOK'
<1>1. PICK b \in Flushers \ {a} : Flushers = {a, b}
    BY TwoFlushers
<1>2. PICK n : n = IF Len(pending) < FlushBatchSize THEN Len(pending) ELSE FlushBatchSize
    OBVIOUS
<1>3. n \in 0 .. Len(pending) /\ Capacity \in Nat
    BY <1>2, FlushType, LogAssumption
<1>4. /\ flush[a].batch = << >>
      /\ flush' = [flush EXCEPT ![a].pc = "write", ![a].batch = SubSeq(pending, 1, n)]
      /\ pending' = SubSeq(pending, n + 1, Len(pending))
      /\ UNCHANGED <<offered, gate, written, lost>>
    BY <1>2 DEF DrainTo, QueuesOK
<1>5. /\ SubSeq(pending, 1, n) \in Seq(Queued) /\ pending' \in Seq(Queued)
      /\ Len(pending') = Len(pending) - n
      /\ EventsOf(pending) = EventsOf(SubSeq(pending, 1, n)) \union EventsOf(pending')
      /\ EventsOf(SubSeq(pending, 1, n)) \intersect EventsOf(pending') = {}
      /\ Distinct(SubSeq(pending, 1, n)) /\ Distinct(pending')
    BY <1>3, <1>4, FlushType, EventsOfSplit DEF QueuesOK
<1>6. PICK batch : batch = SubSeq(pending, 1, n)
    OBVIOUS
<1>7. /\ flush' \in [Flushers -> FlushState] /\ flush'[a].batch = batch /\ flush'[b] = flush[b]
      /\ flush'[a].pc = "write"
    <2>1. flush' = [flush EXCEPT ![a] = [flush[a] EXCEPT !.pc = "write", !.batch = batch]]
        BY <1>4, <1>6
    <2>2. [flush[a] EXCEPT !.pc = "write", !.batch = batch] \in FlushState
        BY <1>5, <1>6, FlushType DEF FlushState
    <2>3. flush' \in [Flushers -> FlushState] /\ flush'[b] = flush[b]
          /\ flush'[a] = [flush[a] EXCEPT !.pc = "write", !.batch = batch]
        BY <1>1, <2>1, <2>2 DEF LogTypeOK
    <2> QED
        BY <2>3, FlushType DEF FlushState
<1>8. LogTypeOK'
    BY <1>3, <1>4, <1>5, <1>7, FlushType DEF LogTypeOK
<1>9. QueuesOK'
    <2>1. /\ EventsOf(pending) \intersect EventsOf(flush[b].batch) = {} /\ Distinct(flush[b].batch)
          /\ flush[b].pc \in {"idle", "drain", "ended"} => flush[b].batch = << >>
        BY DEF QueuesOK
    <2> QED
        BY <1>5, <1>6, <1>7, <2>1, QueuesApart
<1>10. Underway' = Underway
    <2>1. Underway' = EventsOf(pending') \union EventsOf(flush'[a].batch) \union EventsOf(flush'[b].batch)
        BY <1>1 DEF Underway, InHand
    <2> QED
        BY <1>1, <1>4, <1>5, <1>6, <1>7, <2>1, UnderwayOf, NoEvents
<1>11. AccountsOK'
    BY <1>4, <1>10 DEF AccountsOK
<1> QED
    BY <1>8, <1>9, <1>11

LEMMA WriteKeeps ==
    ASSUME LogTypeOK, QueuesOK, AccountsOK, NEW a \in Flushers, WriteBatch(a)
    PROVE  LogTypeOK' /\ QueuesOK' /\ AccountsOK'
<1>1. PICK b \in Flushers \ {a} : Flushers = {a, b}
    BY TwoFlushers
<1>2. /\ written' = written \union EventsOf(flush[a].batch) /\ gate' = "open"
      /\ flush' = [flush EXCEPT ![a].pc = "drain", ![a].batch = << >>,
                                ![a].flushed = IF a = "flusher" THEN @ + 1 ELSE @]
      /\ UNCHANGED <<pending, offered, lost>>
    BY DEF WriteBatch
<1>3. PICK n \in Nat : n = IF a = "flusher" THEN flush[a].flushed + 1 ELSE flush[a].flushed
    BY FlushType DEF FlushState
<1>4. /\ flush' \in [Flushers -> FlushState] /\ flush'[b] = flush[b]
      /\ flush'[a].batch = << >> /\ flush'[a].pc = "drain"
    <2>1. flush' = [flush EXCEPT ![a] = [flush[a] EXCEPT !.pc = "drain", !.batch = << >>, !.flushed = n]]
        BY <1>2, <1>3
    <2>2. [flush[a] EXCEPT !.pc = "drain", !.batch = << >>, !.flushed = n] \in FlushState
        BY <1>3, FlushType, NoEvents DEF FlushState
    <2>3. /\ flush' \in [Flushers -> FlushState] /\ flush'[b] = flush[b]
          /\ flush'[a] = [flush[a] EXCEPT !.pc = "drain", !.batch = << >>, !.flushed = n]
        BY <1>1, <2>1, <2>2 DEF LogTypeOK
    <2> QED
        BY <2>3, FlushType DEF FlushState
<1>5. EventsOf(flush[a].batch) \subseteq Underway /\ Underway \subseteq offered
    BY DEF Underway, InHand, AccountsOK
<1>6. LogTypeOK'
    BY <1>2, <1>4, <1>5 DEF LogTypeOK
<1>7. QueuesOK'
    <2>1. /\ EventsOf(pending) \intersect EventsOf(flush[b].batch) = {} /\ Distinct(flush[b].batch)
          /\ flush[b].pc \in {"idle", "drain", "ended"} => flush[b].batch = << >>
          /\ Distinct(pending)
        BY DEF QueuesOK
    <2> QED
        BY <1>2, <1>4, <2>1, QueuesApart, NoEvents
<1>8. Underway' = Underway \ EventsOf(flush[a].batch)
    <2>1. Underway' = EventsOf(pending') \union EventsOf(flush'[a].batch) \union EventsOf(flush'[b].batch)
        BY <1>1 DEF Underway, InHand
    <2>2. Underway = EventsOf(pending) \union EventsOf(flush[a].batch) \union EventsOf(flush[b].batch)
        BY <1>1, UnderwayOf
    <2>3. /\ EventsOf(pending) \intersect EventsOf(flush[a].batch) = {}
          /\ EventsOf(flush[a].batch) \intersect EventsOf(flush[b].batch) = {}
        BY <1>1 DEF QueuesOK
    <2> QED
        BY <1>2, <1>4, <2>1, <2>2, <2>3, NoEvents
<1>9. AccountsOK'
    BY <1>2, <1>5, <1>8, Acknowledged
<1> QED
    BY <1>6, <1>7, <1>9

LEMMA RequeueKeeps ==
    ASSUME LogTypeOK, QueuesOK, AccountsOK, NEW a \in Flushers, Requeue(a)
    PROVE  LogTypeOK' /\ QueuesOK' /\ AccountsOK'
<1>1. PICK b \in Flushers \ {a} : Flushers = {a, b}
    BY TwoFlushers
<1>2. PICK q : q = Head(flush[a].batch)
    OBVIOUS
<1>3. PICK rest : rest = Tail(flush[a].batch)
    OBVIOUS
<1>4. /\ q \in Queued /\ rest \in Seq(Queued) /\ Distinct(rest)
      /\ EventsOf(flush[a].batch) = EventsOf(rest) \union {q.event} /\ q.event \notin EventsOf(rest)
    BY <1>2, <1>3, FlushType, EventsOfTail DEF Requeue, QueuesOK
<1>5. /\ flush[a].pc = "requeue" /\ RequeueEvent(q)
      /\ flush' = [flush EXCEPT ![a] = [flush[a] EXCEPT !.batch = rest]]
      /\ UNCHANGED <<offered, gate, written>>
    BY <1>2, <1>3 DEF Requeue
<1>6. /\ flush' \in [Flushers -> FlushState] /\ flush'[b] = flush[b]
      /\ flush'[a].batch = rest /\ flush'[a].pc = "requeue"
    <2>1. [flush[a] EXCEPT !.batch = rest] \in FlushState
        BY <1>4, FlushType DEF FlushState
    <2>2. /\ flush' \in [Flushers -> FlushState] /\ flush'[b] = flush[b]
          /\ flush'[a] = [flush[a] EXCEPT !.batch = rest]
        BY <1>1, <1>5, <2>1 DEF LogTypeOK
    <2> QED
        BY <1>5, <2>2, FlushType DEF FlushState
<1>7. /\ Distinct(pending) /\ Distinct(flush[b].batch)
      /\ EventsOf(pending) \intersect EventsOf(flush[a].batch) = {}
      /\ EventsOf(pending) \intersect EventsOf(flush[b].batch) = {}
      /\ EventsOf(flush[a].batch) \intersect EventsOf(flush[b].batch) = {}
      /\ flush[b].pc \in {"idle", "drain", "ended"} => flush[b].batch = << >>
    BY <1>1 DEF QueuesOK
<1>8. Underway' = EventsOf(pending') \union EventsOf(rest) \union EventsOf(flush[b].batch)
    BY <1>1, <1>6 DEF Underway, InHand
<1>9. Underway = EventsOf(pending) \union EventsOf(flush[a].batch) \union EventsOf(flush[b].batch)
    BY <1>1, UnderwayOf
<1>10. CASE /\ Len(pending) < Capacity /\ lost' = lost
            /\ pending' = Append(pending, [q EXCEPT !.attempts = Tries(q)])
    <2> DEFINE r == [q EXCEPT !.attempts = Tries(q)]
    <2>0. Tries(q) \in Nat
        BY <1>4 DEF Queued, Tries
    <2>1. r \in Queued /\ r.event = q.event
        BY <1>4, <2>0 DEF Queued
    <2> HIDE DEF r
    <2>2. q.event \notin EventsOf(pending)
        BY <1>4, <1>7
    <2>3. /\ pending' \in Seq(Queued) /\ Len(pending') = Len(pending) + 1
          /\ EventsOf(pending') = EventsOf(pending) \union {q.event} /\ Distinct(pending')
        BY <1>7, <1>10, <2>1, <2>2, FlushType, EventsOfAppend DEF r
    <2>4. LogTypeOK'
        BY <1>5, <1>6, <1>10, <2>3, LogAssumption DEF LogTypeOK
    <2>5. QueuesOK'
        BY <1>4, <1>6, <1>7, <2>3, QueuesApart
    <2>6. Underway' = Underway
        BY <1>4, <1>8, <1>9, <2>3
    <2> QED
        BY <1>5, <1>10, <2>4, <2>5, <2>6 DEF AccountsOK
<1>11. CASE /\ pending' = pending
            /\ \/ lost' = [lost EXCEPT !.dead = @ + 1] \/ lost' = [lost EXCEPT !.dropped = @ + 1]
    <2>1. /\ lost' \in [dropped : Nat, dead : Nat]
          /\ lost'.dropped + lost'.dead = lost.dropped + lost.dead + 1
        BY <1>11 DEF LogTypeOK
    <2>2. LogTypeOK'
        BY <1>5, <1>6, <1>11, <2>1 DEF LogTypeOK
    <2>3. QueuesOK'
        BY <1>4, <1>6, <1>7, <1>11, QueuesApart
    <2>4. q.event \in Underway /\ Underway' = Underway \ {q.event}
        BY <1>4, <1>7, <1>8, <1>9, <1>11
    <2>5. AccountsOK'
        BY <1>5, <2>1, <2>4, Counted
    <2> QED
        BY <2>2, <2>3, <2>5
<1> QED
    <2>1. Tries(q) \in Nat /\ MaxWriteAttempts \in Nat
        BY <1>4, LogAssumption DEF Tries, Queued
    <2>2. Len(pending) \in Nat /\ Capacity \in Nat
        BY FlushType, LogAssumption
    <2>3. CASE Tries(q) >= MaxWriteAttempts
        BY <1>5, <1>11, <2>1, <2>3 DEF RequeueEvent
    <2>4. CASE Tries(q) < MaxWriteAttempts /\ Len(pending) < Capacity
        BY <1>5, <1>10, <2>1, <2>4 DEF RequeueEvent
    <2>5. CASE Tries(q) < MaxWriteAttempts /\ ~(Len(pending) < Capacity)
        BY <1>5, <1>11, <2>1, <2>5 DEF RequeueEvent
    <2> QED
        BY <2>1, <2>3, <2>4, <2>5

\* The steps that change where a thread is, and no queue.
LEMMA ThreadsKeep ==
    ASSUME LogTypeOK, QueuesOK, AccountsOK,
           \/ Tick \/ Stop \/ BackoffElapses
           \/ \E a \in Flushers : EndDrain(a) \/ WriteFails(a) \/ EndRequeue(a)
    PROVE  LogTypeOK' /\ QueuesOK' /\ AccountsOK'
<1>1. UNCHANGED <<pending, offered, written, lost>> /\ gate' \in {"open", "closed"}
    BY DEF Tick, Stop, BackoffElapses, EndDrain, WriteFails, EndRequeue, LogTypeOK
<1>2. SUFFICES ASSUME flush' # flush
               PROVE  /\ flush' \in [Flushers -> FlushState]
                      /\ \A a \in Flushers :
                            /\ flush'[a].batch = flush[a].batch
                            /\ flush'[a].pc \in {"idle", "drain", "ended"} => flush[a].batch = << >>
    <2>1. CASE flush' = flush
        BY <1>1, <2>1 DEF LogTypeOK, QueuesOK, AccountsOK, Underway, InHand
    <2>2. ASSUME flush' \in [Flushers -> FlushState],
                 \A a \in Flushers :
                    /\ flush'[a].batch = flush[a].batch
                    /\ flush'[a].pc \in {"idle", "drain", "ended"} => flush[a].batch = << >>
          PROVE  LogTypeOK' /\ QueuesOK' /\ AccountsOK'
        <3>1. LogTypeOK'
            BY <1>1, <2>2 DEF LogTypeOK
        <3>2. QueuesOK'
            BY <1>1, <2>2 DEF QueuesOK
        <3> QED
            BY <1>1, <2>2, <3>1, <3>2, StillKeeps
    <2> QED
        BY <2>1, <2>2
<1>3. PICK a \in Flushers :
          \/ (a = "flusher" /\ Tick) \/ (a = "stopper" /\ Stop)
          \/ EndDrain(a) \/ WriteFails(a) \/ EndRequeue(a)
    BY <1>2 DEF BackoffElapses, Flushers
<1>4. flush[a].pc \in {"idle", "drain", "ended"} => flush[a].batch = << >>
    BY DEF QueuesOK
<1>5. \E new \in FlushState :
          /\ flush' = [flush EXCEPT ![a] = new] /\ new.batch = flush[a].batch
          /\ new.pc \in {"idle", "drain", "ended"} => flush[a].batch = << >>
    <2>1. CASE a = "flusher" /\ Tick
        <3> DEFINE new == [flush[a] EXCEPT !.pc = "drain", !.flushed = 0]
        <3>1. new \in FlushState /\ new.batch = flush[a].batch
            BY FlushType DEF FlushState
        <3>2. flush' = [flush EXCEPT ![a] = new] /\ flush[a].batch = << >>
            BY <1>4, <2>1 DEF Tick
        <3> QED
            BY <3>1, <3>2
    <2>2. CASE a = "stopper" /\ Stop
        <3> DEFINE new == [flush[a] EXCEPT !.pc = "drain"]
        <3>1. new \in FlushState /\ new.batch = flush[a].batch
            BY FlushType DEF FlushState
        <3>2. flush' = [flush EXCEPT ![a] = new] /\ flush[a].batch = << >>
            BY <1>4, <2>2 DEF Stop
        <3> QED
            BY <3>1, <3>2
    <2>3. CASE EndDrain(a)
        <3> DEFINE new == [flush[a] EXCEPT !.pc = IF a = "flusher" THEN "idle" ELSE "ended"]
        <3>1. new \in FlushState /\ new.batch = flush[a].batch
            BY FlushType DEF FlushState
        <3>2. flush' = [flush EXCEPT ![a] = new] /\ flush[a].batch = << >>
            BY <1>4, <2>3 DEF EndDrain
        <3> QED
            BY <3>1, <3>2
    <2>4. CASE WriteFails(a)
        <3> DEFINE new == [flush[a] EXCEPT !.pc = "requeue"]
        <3>1. new \in FlushState /\ new.batch = flush[a].batch /\ new.pc = "requeue"
            BY FlushType DEF FlushState
        <3>2. flush' = [flush EXCEPT ![a] = new]
            BY <2>4 DEF WriteFails
        <3> QED
            BY <3>1, <3>2
    <2>5. CASE EndRequeue(a)
        <3>1. PICK n \in Nat : n = IF a = "stopper" THEN flush[a].failed + 1 ELSE flush[a].failed
            BY FlushType DEF FlushState
        <3> DEFINE new == [flush[a] EXCEPT !.pc = IF a = "flusher" THEN "idle" ELSE "drain",
                                           !.failed = n]
        <3>2. new \in FlushState /\ new.batch = flush[a].batch
            BY FlushType DEF FlushState
        <3>3. flush' = [flush EXCEPT ![a] = new] /\ flush[a].batch = << >>
            BY <2>5, <3>1 DEF EndRequeue
        <3> QED
            BY <3>2, <3>3
    <2> QED
        BY <1>3, <2>1, <2>2, <2>3, <2>4, <2>5
<1> QED
    BY <1>5 DEF LogTypeOK, QueuesOK

LEMMA DisjointUnion ==
    ASSUME NEW S, NEW T, IsFiniteSet(S), IsFiniteSet(T), S \intersect T = {}
    PROVE  IsFiniteSet(S \union T) /\ Cardinality(S \union T) = Cardinality(S) + Cardinality(T)
<1>1. /\ IsFiniteSet(S \union T)
      /\ Cardinality(S \union T) = Cardinality(S) + Cardinality(T) - Cardinality(S \intersect T)
    BY FS_Union
<1>2. Cardinality(S \intersect T) = 0
    BY FS_EmptySet
<1>3. Cardinality(S) \in Nat /\ Cardinality(T) \in Nat
    BY FS_CardinalityType
<1> QED
    BY <1>1, <1>2, <1>3

LEMMA LogInvHolds == LogSpec => [](LogTypeOK /\ QueuesOK /\ AccountsOK)
<1>1. LogInit => LogTypeOK /\ QueuesOK /\ AccountsOK
    <2> SUFFICES ASSUME LogInit PROVE LogTypeOK /\ QueuesOK /\ AccountsOK
        OBVIOUS
    <2>1. /\ pending = << >> /\ \A a \in Flushers : flush[a] = Resting
          /\ flush \in [Flushers -> FlushState]
        BY DEF LogInit, Resting, FlushState
    <2>2. Resting.batch = << >>
        BY DEF Resting
    <2>3. Underway = {}
        BY <2>1, <2>2, NoEvents DEF Underway, InHand
    <2>4. LogTypeOK
        BY <2>1, LogAssumption DEF LogInit, LogTypeOK
    <2>5. QueuesOK
        BY <2>1, <2>2, NoEvents DEF QueuesOK
    <2>6. AccountsOK
        BY <2>3, FS_EmptySet DEF LogInit, AccountsOK
    <2> QED
        BY <2>4, <2>5, <2>6
<1>2. LogTypeOK /\ QueuesOK /\ AccountsOK /\ [LogNext]_logVars
          => LogTypeOK' /\ QueuesOK' /\ AccountsOK'
    <2> SUFFICES ASSUME LogTypeOK, QueuesOK, AccountsOK, [LogNext]_logVars
        PROVE  LogTypeOK' /\ QueuesOK' /\ AccountsOK'
        OBVIOUS
    <2>1. CASE \E e \in Events : EnqueueEvent(e)
        BY <2>1, EnqueueKeeps
    <2>2. CASE \E a \in Flushers : DrainTo(a) \/ WriteBatch(a) \/ Requeue(a)
        BY <2>2, DrainKeeps, WriteKeeps, RequeueKeeps
    <2>3. CASE \/ Tick \/ Stop \/ BackoffElapses
               \/ \E a \in Flushers : EndDrain(a) \/ WriteFails(a) \/ EndRequeue(a)
        BY <2>3, ThreadsKeep
    <2>4. CASE UNCHANGED logVars
        BY <2>4 DEF logVars, LogTypeOK, QueuesOK, AccountsOK, Underway, InHand
    <2> QED
        BY <2>1, <2>2, <2>3, <2>4 DEF LogNext, FlushStep
<1> QED
    BY <1>1, <1>2, PTL DEF LogSpec

\* Every prediction that was offered and is neither acknowledged nor underway was
\* counted once, for any queue, batch and retry limits and however requests, the
\* flusher and the final drain come between one another; none is underway twice.
THEOREM LossesAreCounted == LogSpec => []LossIsCounted
<1>1. LogTypeOK /\ QueuesOK /\ AccountsOK => LossIsCounted
    <2> SUFFICES ASSUME LogTypeOK, QueuesOK, AccountsOK PROVE LossIsCounted
        OBVIOUS
    <2> DEFINE p == EventsOf(pending)
               f == EventsOf(flush["flusher"].batch)
               s == EventsOf(flush["stopper"].batch)
    <2>1. "flusher" \in Flushers /\ "stopper" \in Flushers \ {"flusher"}
        BY DEF Flushers
    <2>2. Underway = (p \union f) \union s
        BY <2>1, UnderwayOf
    <2>3. p \intersect f = {} /\ (p \union f) \intersect s = {}
        BY <2>1 DEF QueuesOK
    <2>4. /\ IsFiniteSet(p) /\ Cardinality(p) = Len(pending)
          /\ IsFiniteSet(f) /\ Cardinality(f) = Len(flush["flusher"].batch)
          /\ IsFiniteSet(s) /\ Cardinality(s) = Len(flush["stopper"].batch)
        BY <2>1, FlushType, EventsOfCardinality DEF QueuesOK
    <2> HIDE DEF p, f, s
    <2>5. IsFiniteSet(p \union f) /\ Cardinality(p \union f) = Cardinality(p) + Cardinality(f)
        BY <2>3, <2>4, DisjointUnion
    <2>6. Cardinality(Underway) = Cardinality(p \union f) + Cardinality(s)
        BY <2>2, <2>3, <2>4, <2>5, DisjointUnion
    <2> QED
        BY <2>4, <2>5, <2>6 DEF LossIsCounted, AccountsOK
<1> QED
    BY <1>1, LogInvHolds, PTL
=============================================================================
