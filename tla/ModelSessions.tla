---------------------------- MODULE ModelSessions ----------------------------
(***************************************************************************)
(* The cache of loaded models and the guard of each native session         *)
(* (ModelLoader, SessionGuard): request threads that load, re-check and    *)
(* call a model, the cache that evicts, the listener that closes what was  *)
(* removed on another thread, and the sweep of the shutdown.               *)
(*                                                                         *)
(* A load is atomic per key in the cache, and so is each synchronized      *)
(* block of the guard; everything else interleaves.  The drain bound is a  *)
(* closer that may stop waiting at any moment.  The five caches are alike  *)
(* and share no session: one of them is modelled.  A native close that     *)
(* throws is logged, and counts as the close.                              *)
(***************************************************************************)
EXTENDS Naturals, Sequences, FiniteSets

CONSTANTS
    Requests,         \* threads that ask for a model
    Keys,         \* version ids, the keys of the cache
    CacheSize,        \* maximumSize
    MaxSessions       \* bound: sessions ever opened

ASSUME CacheAssumption == CacheSize \in Nat \ {0} /\ MaxSessions \in Nat
ASSUME RequestsAssumption == IsFiniteSet(Requests)

VARIABLES
    sessions,         \* sessions[s]: the guard of the s-th session opened
    cache,            \* the session cached for a version; 0 for none
    loader,           \* the flag "closed" and where the shutdown sweep is
    request           \* request[r]: where the thread r is

sessionVars == <<sessions, cache, loader, request>>

Closers == {"listener", "sweep"}

\* removed: the cache no longer has it.  closer: where each thread that may
\* close it is.  forced: the drain bound expired over calls in flight.
Guard == [inFlight : Nat, retired : BOOLEAN, claimed : BOOLEAN,
          removed : BOOLEAN, closes : Nat, forced : BOOLEAN,
          closer : [Closers -> {"none", "called", "draining", "closing"}]]

Opened == [inFlight |-> 0, retired |-> FALSE, claimed |-> FALSE,
           removed |-> FALSE, closes |-> 0, forced |-> FALSE,
           closer |-> [c \in Closers |-> "none"]]

AtRest == [pc |-> "idle"]
RequestState == [pc : {"load", "recheck", "reload", "call", "inside"},
                 version : Keys, session : Nat] \union {AtRest}

Sessions == DOMAIN sessions
Cached == {v \in Keys : cache[v] # 0}

-----------------------------------------------------------------------------
(* A request: getLive, then the native call inside the guard *)

GoTo(r, pc) == request' = [request EXCEPT ![r].pc = pc]
GiveUp(r) == request' = [request EXCEPT ![r] = AtRest]

\* getLive refuses once the shutdown has begun.
GetLive(r, v) ==
    /\ request[r].pc = "idle"
    /\ ~loader.closed
    /\ request' = [request EXCEPT ![r] = [pc |-> "load", version |-> v, session |-> 0]]
    /\ UNCHANGED <<sessions, cache, loader>>

\* cache.get: the cached session, or a new one.
CacheGet(r) ==
    LET v == request[r].version
        after == IF request[r].pc = "load" THEN "recheck" ELSE "call"
    IN /\ request[r].pc \in {"load", "reload"}
       /\ IF cache[v] # 0
          THEN /\ request' = [request EXCEPT ![r].pc = after, ![r].session = cache[v]]
               /\ UNCHANGED <<sessions, cache>>
          ELSE /\ Len(sessions) < MaxSessions
               /\ sessions' = Append(sessions, Opened)
               /\ cache' = [cache EXCEPT ![v] = Len(sessions) + 1]
               /\ request' = [request EXCEPT ![r].pc = after, ![r].session = Len(sessions) + 1]
       /\ UNCHANGED loader

\* No such version, archived to the bucket, or a file that does not load.
LoadFails(r) ==
    /\ request[r].pc \in {"load", "reload"}
    /\ cache[request[r].version] = 0
    /\ GiveUp(r)
    /\ UNCHANGED <<sessions, cache, loader>>

\* An entry leaves the cache: the listener will be called on another thread.
Removed(s) == [sessions EXCEPT ![s].removed = TRUE, ![s].closer.listener = "called"]

\* Fault: invalidate(versionId), whichever session the key has by now.
RemoveKey(v, s) ==
    /\ sessions' = IF cache[v] # 0 THEN Removed(cache[v]) ELSE sessions
    /\ cache' = [cache EXCEPT ![v] = 0]

\* asMap().remove(versionId, m): only if the key still has this session.
RemoveIfSame(v, s) ==
    IF cache[v] = s
    THEN /\ sessions' = Removed(s)
         /\ cache' = [cache EXCEPT ![v] = 0]
    ELSE UNCHANGED <<sessions, cache>>

\* A retired session is dropped and the version is loaded once more; what the
\* second load returns is not checked again.
Recheck(r) ==
    LET s == request[r].session
    IN /\ request[r].pc = "recheck"
       /\ IF sessions[s].retired
          THEN RemoveIfSame(request[r].version, s) /\ GoTo(r, "reload")
          ELSE GoTo(r, "call") /\ UNCHANGED <<sessions, cache>>
       /\ UNCHANGED loader

\* withSession: a retired guard refuses (503), another counts the call in.
Enter(r) ==
    LET s == request[r].session
    IN /\ request[r].pc = "call"
       /\ IF sessions[s].retired
          THEN GiveUp(r) /\ UNCHANGED sessions
          ELSE GoTo(r, "inside") /\ sessions' = [sessions EXCEPT ![s].inFlight = @ + 1]
       /\ UNCHANGED <<cache, loader>>

\* The native call returns, if ever, and is counted out.
Leave(r) ==
    /\ request[r].pc = "inside"
    /\ sessions' = [sessions EXCEPT ![request[r].session].inFlight = @ - 1]
    /\ GiveUp(r)
    /\ UNCHANGED <<cache, loader>>

-----------------------------------------------------------------------------
(* The cache *)

\* Size eviction runs some time after the insert, and may take any entry.
Evict(v) ==
    /\ cache[v] # 0
    /\ Cardinality(Cached) > CacheSize
    /\ sessions' = Removed(cache[v])
    /\ cache' = [cache EXCEPT ![v] = 0]
    /\ UNCHANGED <<loader, request>>

-----------------------------------------------------------------------------
(* closeWhenIdle, by the listener or by the sweep *)

SetCloser(c, s, pc) == sessions' = [sessions EXCEPT ![s].closer[c] = pc]

Claimed(c, s) == [sessions EXCEPT ![s].retired = TRUE,
                                  ![s].claimed = TRUE,
                                  ![s].forced = (sessions[s].inFlight > 0),
                                  ![s].closer[c] = "closing"]

\* The guard is retired.  Another has claimed the close, or it is idle and this
\* one does, or there are calls to wait for, and the monitor is released.
Retire(c, s) ==
    /\ sessions[s].closer[c] = "called"
    /\ \/ sessions[s].claimed /\ SetCloser(c, s, "none")
       \/ ~sessions[s].claimed /\ sessions[s].inFlight = 0 /\ sessions' = Claimed(c, s)
       \/ /\ ~sessions[s].claimed /\ sessions[s].inFlight > 0
          /\ sessions' = [sessions EXCEPT ![s].retired = TRUE, ![s].closer[c] = "draining"]
    /\ UNCHANGED <<cache, loader, request>>

\* Another closer claimed the close while this one waited.
LoseClaim(c, s) ==
    /\ sessions[s].closer[c] = "draining"
    /\ sessions[s].claimed
    /\ SetCloser(c, s, "none")
    /\ UNCHANGED <<cache, loader, request>>

\* Fault: the wait ends when the session is idle, and is not bounded.
DrainedOnly(s) == sessions[s].inFlight = 0

\* Idle, or the drain timeout has passed, or the thread is interrupted.
DrainOver(s) == TRUE

\* Fault: the claim of another closer is looked at only on entry.
MayStillClaim(s) == TRUE

\* The monitor was released while waiting, so the claim is checked again.
MayClaim(s) == ~sessions[s].claimed

\* The wait is over: claim the close.
Claim(c, s) ==
    /\ sessions[s].closer[c] = "draining"
    /\ DrainOver(s) /\ MayClaim(s)
    /\ sessions' = Claimed(c, s)
    /\ UNCHANGED <<cache, loader, request>>

\* The close action, outside the monitor.
NativeClose(c, s) ==
    /\ sessions[s].closer[c] = "closing"
    /\ sessions' = [sessions EXCEPT ![s].closes = @ + 1, ![s].closer[c] = "none"]
    /\ UNCHANGED <<cache, loader, request>>

-----------------------------------------------------------------------------
(* @PreDestroy close() *)

Shutdown ==
    /\ ~loader.closed
    /\ loader' = [closed |-> TRUE, sweep |-> "walk", unswept |-> Keys]
    /\ UNCHANGED <<sessions, cache, request>>

SweepBusy == \E s \in Sessions : sessions[s].closer["sweep"] # "none"

\* The walk of closeAll: what each key has when it is reached is closed first.
SweepKey(v) ==
    /\ loader.sweep = "walk" /\ v \in loader.unswept /\ ~SweepBusy
    /\ loader' = [loader EXCEPT !.unswept = @ \ {v}]
    /\ IF cache[v] # 0 THEN SetCloser("sweep", cache[v], "called") ELSE UNCHANGED sessions
    /\ UNCHANGED <<cache, request>>

InvalidateAll ==
    /\ loader.sweep = "walk" /\ loader.unswept = {} /\ ~SweepBusy
    /\ loader' = [loader EXCEPT !.sweep = "done"]
    /\ sessions' = [s \in Sessions |->
                       IF \E v \in Cached : cache[v] = s THEN Removed(s)[s] ELSE sessions[s]]
    /\ cache' = [v \in Keys |-> 0]
    /\ UNCHANGED request

-----------------------------------------------------------------------------
SessionInit ==
    /\ sessions = << >>
    /\ cache = [v \in Keys |-> 0]
    /\ loader = [closed |-> FALSE, sweep |-> "none", unswept |-> {}]
    /\ request = [r \in Requests |-> AtRest]

RequestNext ==
    \E r \in Requests :
        \/ \E v \in Keys : GetLive(r, v)
        \/ CacheGet(r) \/ LoadFails(r) \/ Recheck(r) \/ Enter(r) \/ Leave(r)

CloserNext ==
    \E c \in Closers, s \in Sessions :
        Retire(c, s) \/ LoseClaim(c, s) \/ Claim(c, s) \/ NativeClose(c, s)

SessionNext ==
    \/ RequestNext \/ CloserNext
    \/ \E v \in Keys : Evict(v) \/ SweepKey(v)
    \/ Shutdown \/ InvalidateAll

SessionSpec == SessionInit /\ [][SessionNext]_sessionVars

\* The cache's executor runs the listener, and a drain is bounded.  A native
\* call need not return.
CloserStep(c, s) ==
    s \in Sessions /\ (Retire(c, s) \/ LoseClaim(c, s) \/ Claim(c, s) \/ NativeClose(c, s))

CloserFairness ==
    \A c \in Closers, s \in 1..MaxSessions : WF_sessionVars(CloserStep(c, s))

-----------------------------------------------------------------------------
(* Properties *)

SessionTypeOK ==
    /\ sessions \in Seq(Guard) /\ Len(sessions) <= MaxSessions
    /\ cache \in [Keys -> 0..Len(sessions)]
    /\ loader \in [closed : BOOLEAN, sweep : {"none", "walk", "done"}, unswept : SUBSET Keys]
    /\ request \in [Requests -> RequestState]

\* The memory of a session is released once, and under no call that is inside,
\* unless the drain bound expired over that very call: whichever of the listener
\* and the sweep comes first, and however calls enter between a look and a step.
CloseIsExclusive ==
    \A s \in Sessions :
        /\ sessions[s].closes <= 1
        /\ sessions[s].closes = 1 /\ sessions[s].inFlight > 0 => sessions[s].forced

\* A session leaves the cache because it is retired, because the cache is over its
\* size, or in the shutdown: a request that holds a stale session never drops the
\* fresh one that another thread has loaded under the same key.
FreshIsKept ==
    [][\A s \in Sessions :
          sessions'[s].removed /\ ~sessions[s].removed
              => \/ sessions[s].retired
                 \/ Cardinality(Cached) > CacheSize
                 \/ loader.closed]_sessionVars

LeftOpen == {s \in Sessions : sessions[s].removed /\ sessions[s].closes = 0}

\* What the cache drops is closed at last, even if a native call never returns.
\* (A run opens finitely many sessions, and a closed one stays closed.)
RemovedIsClosed == LeftOpen # {} ~> LeftOpen = {}

\* "Without this, a load racing the @PreDestroy sweep would repopulate the cache
\* with a fresh session nothing ever closes": when the shutdown is over and nobody
\* is doing anything, every session has been closed.
NothingOutlivesShutdown ==
    (/\ loader.sweep = "done"
     /\ \A r \in Requests : request[r].pc = "idle"
     /\ \A s \in Sessions : \A c \in Closers : sessions[s].closer[c] = "none")
        => \A s \in Sessions : sessions[s].closes > 0

=============================================================================
