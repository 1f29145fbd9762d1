--------------------------- MODULE FlightOutcome ---------------------------
(***************************************************************************)
(* What becomes of a batted ball, computed twice.  The reference records a  *)
(* whole flight (simulate) and walks the record (classify_outcome); the    *)
(* fused kernel keeps one step of the flight and decides on the fly.  The  *)
(* labels come from the kernel, the tests and the plots from the reference. *)
(*                                                                         *)
(* The flight is a straight one, so that distance and height are enough:   *)
(* off a straight line the kernel takes the fence in the direction of the  *)
(* crossing and the reference in that of the landing, a difference the     *)
(* source states.  The physics of a step is any step of bounded size.      *)
(* Fractions are pairs <<numerator, denominator>>.                         *)
(***************************************************************************)
EXTENDS Integers, Sequences

CONSTANTS FenceDists, FenceHeights,  \* the fence in the ball's direction
          ContactHeights,            \* initial_height_m
          MaxSteps,                  \* n_steps_max
          MaxReach, MaxRise, MaxDrop,\* bounds: what one step of dt can do
          HomeRunMargin,             \* 20 ft above the fence
          WallHang, CatchHang,       \* 4.5 s, 4 s
          CatchDist, DoubleDist, SingleDist   \* 250, 320, 150 ft

\* A step of 5 ms drops a ball by less than any fence is high.
ASSUME FlightAssumption ==
    /\ FenceDists \subseteq Nat \ {0} /\ FenceHeights \subseteq Nat
    /\ ContactHeights \subseteq Nat \ {0}
    /\ MaxSteps \in Nat \ {0} /\ MaxReach \in Nat /\ MaxRise \in Nat /\ MaxDrop \in Nat
    /\ {HomeRunMargin, WallHang, CatchHang, CatchDist, DoubleDist, SingleDist} \subseteq Nat
    /\ \A h \in FenceHeights : MaxDrop <= h

Outcomes == {"out", "single", "double", "home_run"}

\* What the interpolation of a park's polyline gives in one direction.
Fences == [dist : FenceDists, height : FenceHeights]

VARIABLES
    fence,      \* the fence in the direction of the flight
    fair,       \* the direction is within the foul lines
    pos,        \* the record: <<[r, z], ...>>, the contact first
    landed,     \* integrate_single found a landing step
    kernel      \* the fused loop: [step, r, z, cross, landing, hang, done]

flightVars == <<fence, fair, pos, landed, kernel>>

noCross == <<0, 0>>

\* The loop's registers at contact.
KernelStart(h) == [step |-> 0, r |-> 0, z |-> h, cross |-> noCross,
                   landing |-> <<0, 1>>, hang |-> <<0, 1>>, done |-> FALSE]

FlightInit ==
    /\ fence \in Fences
    /\ fair \in BOOLEAN
    /\ \E h \in ContactHeights :
          /\ pos = <<[r |-> 0, z |-> h]>>
          /\ kernel = KernelStart(h)
    /\ landed = FALSE

\* a / b > c, a / b >= c, for b > 0.
Above(q, c)   == q[1] > c * q[2]
AtLeast(q, c) == q[1] >= c * q[2]

\* The height at distance d of the segment from p to q.
HeightAt(p, q, d) ==
    IF q.r = p.r THEN <<q.z, 1>>
    ELSE <<p.z * (q.r - p.r) + (d - p.r) * (q.z - p.z), q.r - p.r>>

\* Where, and when, the segment from p to q, the n-th, comes to the ground.
GroundAt(p, q)    == <<p.r * (p.z - q.z) + p.z * (q.r - p.r), p.z - q.z>>
TimeAt(p, q, n)   == <<(n - 1) * (p.z - q.z) + p.z, p.z - q.z>>

\* The decision both make from the same measures.  A triple would need a
\* sprint of 28 ft/s, and every runner is given 27.
Decide(isFair, landing, hang, cross) ==
    CASE ~isFair -> "out"
      [] isFair /\ AtLeast(landing, fence.dist) /\ cross # noCross
            /\ Above(cross, fence.height + HomeRunMargin) -> "home_run"
      [] isFair /\ AtLeast(landing, fence.dist) /\ cross # noCross
            /\ Above(cross, fence.height) /\ ~Above(cross, fence.height + HomeRunMargin) ->
            IF AtLeast(hang, WallHang) THEN "out" ELSE "double"
      [] OTHER ->
            IF AtLeast(hang, CatchHang) /\ AtLeast(landing, CatchDist) THEN "out"
            ELSE IF AtLeast(landing, DoubleDist) THEN "double"
            ELSE IF AtLeast(landing, SingleDist) THEN "single" ELSE "out"

(***************************************************************************)
(* The reference.                                                          *)
(***************************************************************************)
LastSample == pos[Len(pos)]
Before == pos[Len(pos) - 1]

\* _landing_xy_ft: the last sample itself when it lies on the ground.
LandingXY == IF Before.z > 0 /\ LastSample.z < 0 THEN GroundAt(Before, LastSample) ELSE <<LastSample.r, 1>>

\* _trajectory_from_states: the time of the same crossing.
HangTime == TimeAt(Before, LastSample, Len(pos) - 1)

\* _crossing_height_at_fence: the first segment that reaches the fence.
CrossingHeight ==
    LET reached == {i \in 2 .. Len(pos) : pos[i].r >= fence.dist} IN
    IF reached = {} THEN noCross
    ELSE LET i == CHOOSE j \in reached : \A k \in reached : j <= k
         IN HeightAt(pos[i - 1], pos[i], fence.dist)

ClassifyOutcome ==
    IF landed THEN Decide(fair, LandingXY, HangTime, CrossingHeight) ELSE "out"

(***************************************************************************)
(* The kernel, one step at a time.                                         *)
(***************************************************************************)
\* A fault for the mutants: the crossing is taken at the end of the step.
KernelCrossLate(q) ==
    IF kernel.cross = noCross /\ q.z > 0 /\ q.r >= fence.dist THEN <<q.z, 1>> ELSE kernel.cross

KernelCross(q) ==
    IF kernel.cross = noCross /\ q.z > 0 /\ q.r >= fence.dist
    THEN HeightAt([r |-> kernel.r, z |-> kernel.z], q, fence.dist)
    ELSE kernel.cross

KernelStep(q) ==
    LET p == [r |-> kernel.r, z |-> kernel.z] IN
    IF q.z <= 0 /\ kernel.z > 0
    THEN [kernel EXCEPT !.step = @ + 1, !.cross = KernelCross(q), !.done = TRUE,
                        !.landing = GroundAt(p, q), !.hang = TimeAt(p, q, kernel.step + 1)]
    ELSE [kernel EXCEPT !.step = @ + 1, !.cross = KernelCross(q), !.r = q.r, !.z = q.z]

KernelOutcome ==
    IF kernel.done THEN Decide(fair, kernel.landing, kernel.hang, kernel.cross) ELSE "out"

(***************************************************************************)
(* One step of the flight, which both see.                                 *)
(***************************************************************************)
Step(q) ==
    /\ ~landed /\ Len(pos) <= MaxSteps
    /\ q.r - LastSample.r \in 0 .. MaxReach
    /\ q.z - LastSample.z \in (-MaxDrop) .. MaxRise
    /\ pos' = Append(pos, q)
    /\ landed' = (q.z <= 0 /\ LastSample.z > 0)
    /\ kernel' = KernelStep(q)
    /\ UNCHANGED <<fence, fair>>

FlightNext ==
    \E dr \in 0 .. MaxReach, dz \in (-MaxDrop) .. MaxRise :
        Step([r |-> LastSample.r + dr, z |-> LastSample.z + dz])

FlightSpec == FlightInit /\ [][FlightNext]_flightVars

(***************************************************************************)
(* The kernel is called a port of the reference (_fused.py).  Whatever the *)
(* flight and wherever its samples fall, on the fence, on the ground or    *)
(* over both in one step, the two give the ball the same outcome.          *)
(***************************************************************************)
FusedAgrees ==
    (landed \/ Len(pos) > MaxSteps) =>
        ClassifyOutcome \in Outcomes /\ ClassifyOutcome = KernelOutcome
=============================================================================
