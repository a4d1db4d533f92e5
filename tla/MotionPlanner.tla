---------------------------- MODULE MotionPlanner ----------------------------
(***************************************************************************)
(* planMoves of the in-process estimator (Kinematics.cpp): how fast each    *)
(* move of the print may be entered and left.  Three passes over the moves: *)
(* forwards for the corners, backwards for what can still be braked, and    *)
(* forwards for what can be reached, which also picks the velocity profile. *)
(*                                                                         *)
(* Every velocity is kept as its SQUARE, which is what the passes compare   *)
(* and add to: v^2 + 2 a d.  A move is what the passes read of it: the      *)
(* square of the velocity its geometry and the machine's limits allow, the  *)
(* square of the corner velocity with the move before it, and 2 a d.        *)
(***************************************************************************)
EXTENDS Integers, Sequences, FiniteSetsExt

CONSTANTS
    Prints,         \* the sequences of moves that may be planned
    Scale           \* lookaheadScale in twentieths, clamped to 1 .. 20

\* maxVelocity, the corner velocity and 2 * acceleration * distance.
PlannedMove == [cap : Nat \ {0}, corner : Nat, full : Nat]

ASSUME MotionAssumption ==
    /\ Prints \subseteq Seq(PlannedMove)
    /\ Scale \in 1 .. 20

VARIABLES
    moves,          \* the print
    pass,           \* junctions, backward, forward, planned
    index,          \* the move the pass is at
    junction,       \* maxJunctionEntry
    entry, exit,    \* entryVelocity and exitVelocity
    shape           \* the branch trapezoidTime takes

motionVars == <<moves, pass, index, junction, entry, exit, shape>>

N == Len(moves)
Smaller(a, b) == IF a <= b THEN a ELSE b

\* Mutant of Gain: minimumCruiseRatio - 1 instead of 1 - minimumCruiseRatio.
GainSwapped(m) == (m.full * (Scale - 20)) \div 20

\* What a move can add to the square of a velocity, with the reduced acceleration.
Gain(m) == (m.full * Scale) \div 20

-----------------------------------------------------------------------------

MotionInit ==
    /\ moves \in Prints
    /\ pass = IF N = 0 THEN "planned" ELSE "junctions"
    /\ index = 1
    /\ junction = [i \in 1 .. N |-> 0]
    /\ entry = [i \in 1 .. N |-> 0]
    /\ exit = [i \in 1 .. N |-> 0]
    /\ shape = [i \in 1 .. N |-> "none"]

\* Mutant of Corner: the corner at the end of the move before, not at its own start.
CornerOfPrevious(i) == Smaller(moves[i - 1].corner, Smaller(moves[i - 1].cap, moves[i].cap))

\* No corner is passed faster than either of its moves.
Corner(i) == Smaller(moves[i].corner, Smaller(moves[i - 1].cap, moves[i].cap))

\* The print starts from rest.
LimitJunction ==
    /\ pass = "junctions" /\ index <= N
    /\ junction' = [junction EXCEPT ![index] = IF index = 1 THEN 0 ELSE Corner(index)]
    /\ IF index < N THEN index' = index + 1 /\ UNCHANGED pass
       ELSE index' = N /\ pass' = "backward"
    /\ UNCHANGED <<moves, entry, exit, shape>>

\* The print ends at rest.
NextEntry(i) == IF i = N THEN 0 ELSE entry[i + 1]

\* Mutant of Braking: only the corner counts, not what lies behind it.
BrakingIgnored(i) == Smaller(junction[i], moves[i].cap)

\* What still allows the next move to be entered as planned.
Braking(i) ==
    Smaller(Smaller(junction[i], moves[i].cap), NextEntry(i) + Gain(moves[i]))

Backward ==
    /\ pass = "backward" /\ index >= 1
    /\ entry' = [entry EXCEPT ![index] = Braking(index)]
    /\ IF index > 1 THEN index' = index - 1 /\ UNCHANGED pass
       ELSE index' = 1 /\ pass' = "forward"
    /\ UNCHANGED <<moves, junction, exit, shape>>

\* Mutant of Reached: the entry stays what the backward pass made it.
ReachedUnchecked(i) == entry[i]

\* A move is not entered faster than the one before it could be left.
Reached(i) == IF i > 1 THEN Smaller(entry[i], exit[i - 1]) ELSE entry[i]

\* Mutant of Leaving: the move is left as fast as it can be.
LeavingFast(i, in) == Smaller(in + Gain(moves[i]), moves[i].cap)

Leaving(i, in) ==
    Smaller(Smaller(in + Gain(moves[i]), moves[i].cap), NextEntry(i))

\* trapezoidTime, which times with the full acceleration: the move cruises if
\* it is long enough to accelerate to its velocity and brake again.
Shape(m, in, out) ==
    IF (m.cap - in) + (m.cap - out) <= m.full THEN "cruise" ELSE "triangle"

Forward ==
    /\ pass = "forward" /\ index <= N
    /\ LET in == Reached(index)
           out == Leaving(index, in)
       IN  /\ entry' = [entry EXCEPT ![index] = in]
           /\ exit' = [exit EXCEPT ![index] = out]
           /\ shape' = [shape EXCEPT ![index] = Shape(moves[index], in, out)]
    /\ index' = index + 1
    /\ pass' = IF index = N THEN "planned" ELSE pass
    /\ UNCHANGED <<moves, junction>>

MotionNext == LimitJunction \/ Backward \/ Forward

MotionSpec == MotionInit /\ [][MotionNext]_motionVars

-----------------------------------------------------------------------------
(***************************************************************************)
(* Properties                                                              *)
(***************************************************************************)

MotionTypeOK ==
    /\ moves \in Seq(PlannedMove)
    /\ pass \in {"junctions", "backward", "forward", "planned"}
    /\ index \in 1 .. (N + 1)
    /\ junction \in [1 .. N -> Nat]
    /\ entry \in [1 .. N -> Nat]
    /\ exit \in [1 .. N -> Nat]
    /\ shape \in [1 .. N -> {"none", "cruise", "triangle"}]

\* The moves the forward pass has timed.
Timed == {i \in 1 .. N : shape[i] # "none"}

\* The tool does not jump: the print starts and ends at rest, and each move is
\* entered exactly as fast as the one before it is left, although the two values
\* come from two passes in opposite directions.
VelocityIsContinuous ==
    pass = "planned" /\ N > 0 =>
        /\ entry[1] = 0 /\ exit[N] = 0
        /\ \A i \in 1 .. (N - 1) : exit[i] = entry[i + 1]

\* No move is entered or left faster than its own limits or its corner allow.
WithinLimits ==
    \A i \in Timed :
        /\ entry[i] <= moves[i].cap /\ exit[i] <= moves[i].cap
        /\ i > 1 => entry[i] <= moves[i].corner /\ entry[i] <= moves[i - 1].cap

\* Every move is long enough for its change of velocity, so the profile it is
\* timed with exists: no acceleration beyond the limit, no negative time.
ChangeIsReachable ==
    \A i \in Timed :
        /\ entry[i] <= exit[i] + Gain(moves[i])
        /\ exit[i] <= entry[i] + Gain(moves[i])

\* The corners of the print, its two ends at rest included.
CornerLimit(i) ==
    IF i = 1 \/ i = N + 1 THEN 0
    ELSE Smaller(moves[i].corner, Smaller(moves[i - 1].cap, moves[i].cap))
Gains == [k \in 1 .. N |-> Gain(moves[k])]
GainBetween(i, j) == MapThenSumSet(LAMBDA k : Gains[k], i .. (j - 1))

\* The plan is the fastest there is: a corner is passed as fast as the tightest
\* corner before or behind it allows over the moves between them.
PlanIsFastest ==
    pass = "planned" =>
        \A i \in 1 .. N :
            entry[i] = Min({CornerLimit(j) + GainBetween(j, i) : j \in 1 .. i}
                           \cup {CornerLimit(j) + GainBetween(i, j) : j \in i .. (N + 1)})
=============================================================================
