--------------------------- MODULE ServingContract ---------------------------
(***************************************************************************)
(* What the model registry promises to everything that reads it, whatever  *)
(* tables it keeps: each model serves at most one of its own versions, and *)
(* a version that has been retired never serves again.  A version can be   *)
(* withdrawn without being retired (a rolled back champion) and may then   *)
(* serve a second time.                                                    *)
(*                                                                         *)
(* Registry.tla, which keeps the stage of a version and the routing row of *)
(* its model in two tables, implements this specification.                 *)
(***************************************************************************)
EXTENDS Naturals, Sequences

CONSTANT Models                 \* the model families ("pitch_outcome_pre", ...)

VARIABLES owner,                \* owner[v]: the model that version v belongs to
          serving,              \* serving[m]: the version m serves, 0 if none
          retired               \* the versions that may never serve again

vars == <<owner, serving, retired>>

Versions == DOMAIN owner

Init ==
    /\ owner = << >>
    /\ serving = [m \in Models |-> 0]
    /\ retired = {}

\* A new version of m becomes known; it serves nobody yet.
Release(m) ==
    /\ owner' = Append(owner, m)
    /\ UNCHANGED <<serving, retired>>

\* m starts to serve v.  The version it served until now, if any, retires.
Serve(m, v) ==
    /\ v \in Versions /\ owner[v] = m
    /\ v \notin retired
    /\ v # serving[m]
    /\ serving' = [serving EXCEPT ![m] = v]
    /\ retired' = retired \union ({serving[m]} \ {0})
    /\ UNCHANGED owner

\* m stops serving, and the version it served is kept or retired.
Withdraw(m) ==
    /\ serving[m] # 0
    /\ serving' = [serving EXCEPT ![m] = 0]
    /\ retired' \in {retired, retired \union {serving[m]}}
    /\ UNCHANGED owner

\* A version that does not serve retires.
Retire(v) ==
    /\ v \in Versions
    /\ \A m \in Models : serving[m] # v
    /\ retired' = retired \union {v}
    /\ UNCHANGED <<owner, serving>>

\* m starts over: all its versions retire, it serves nothing, and the new
\* version is released in the same step.
Reset(m) ==
    /\ owner' = Append(owner, m)
    /\ serving' = [serving EXCEPT ![m] = 0]
    /\ retired' = retired \union {v \in Versions : owner[v] = m}

Next ==
    \/ \E m \in Models : Release(m) \/ Withdraw(m) \/ Reset(m)
    \/ \E m \in Models, v \in Versions : Serve(m, v)
    \/ \E v \in Versions : Retire(v)

Spec == Init /\ [][Next]_vars
=============================================================================
