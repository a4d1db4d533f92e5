-------------------------- MODULE InProcessEstimator --------------------------
(***************************************************************************)
(* estimateMoves (Kinematics.cpp): MoveExtractor's moves, given the limits  *)
(* of the machine, go through MotionPlanner's three passes.                 *)
(*                                                                         *)
(* Between the two, planMoves turns each move into what the passes read.    *)
(* Velocities are squared, and a move lies along one of the axes or pushes  *)
(* filament only, so two moves meet straight, head on or at a right angle.  *)
(***************************************************************************)
EXTENDS MoveExtractor, MotionPlanner

\* Velocities and accelerations, [velocity, acceleration, zVelocity,
\* zAcceleration, eVelocity, eAcceleration, squareCorner, instantCorner].
CONSTANT Limits

LimitNames == {"velocity", "acceleration", "zVelocity", "zAcceleration",
               "eVelocity", "eAcceleration", "squareCorner", "instantCorner"}

ASSUME EstimatorAssumption == Limits \in [LimitNames -> Nat \ {0}]

estimatorVars == <<body, pos, feedrate, absolutePositioning, print,
                   moves, pass, index, junction, entry, exit, shape>>

Distance(a, b) == IF a < b THEN b - a ELSE a - b
Travel(m) == Distance(m.from[1], m.to[1]) + Distance(m.from[2], m.to[2])
Filament(m) == Distance(m.extrude, 0)
Climbs(m) == m.from[1] = m.to[1] /\ m.from[2] # m.to[2]

Requested(m) ==
    IF m.feed <= 0 THEN Limits.velocity
    ELSE IF Travel(m) > 0 THEN Smaller(m.feed, Limits.velocity)
    ELSE m.feed

\* The smaller of a limit, `own`, and what the limit of the Z axis and the
\* extruder's, which is in mm of filament, leave of the travel.
Limited(m, own, z, e) ==
    LET onAxis == IF Climbs(m) THEN Smaller(own, z) ELSE own
    IN  IF Travel(m) = 0 THEN Smaller(own, e)
        ELSE IF Filament(m) = 0 THEN onAxis
        ELSE Smaller(onAxis, (e * Travel(m)) \div Filament(m))

MaxVelocity(m) ==
    LET v == Limited(m, Requested(m), Limits.zVelocity, Limits.eVelocity)
    IN  IF v = 0 THEN 1 ELSE v
Acceleration(m) ==
    Limited(m, Limits.acceleration, Limits.zAcceleration, Limits.eAcceleration)
Length(m) == IF Travel(m) > 0 THEN Travel(m) ELSE Filament(m)

Sign(a, b) == IF a < b THEN 1 ELSE IF a > b THEN -1 ELSE 0
Unit(m) == <<Sign(m.from[1], m.to[1]), Sign(m.from[2], m.to[2])>>

\* junctionVelocity at the angles there are: none at a reversal, the square
\* corner velocity at a right angle (at the machine's full acceleration), and the
\* slower move's on a straight line.  A move that only pushes filament breaks the
\* chain.
JunctionVelocity2(a, b) ==
    LET cosine == Unit(a)[1] * Unit(b)[1] + Unit(a)[2] * Unit(b)[2]
        slower == Smaller(MaxVelocity(a), MaxVelocity(b))
    IN  IF Travel(a) = 0 \/ Travel(b) = 0
        THEN Limits.instantCorner * Limits.instantCorner
        ELSE IF cosine < 0 THEN 0
        ELSE IF cosine > 0 THEN slower * slower
        ELSE (Limits.squareCorner * Limits.squareCorner * Acceleration(b))
                 \div Limits.acceleration

Prepared ==
    [i \in DOMAIN print |->
        [cap |-> MaxVelocity(print[i]) * MaxVelocity(print[i]),
         corner |-> IF i = 1 THEN 0 ELSE JunctionVelocity2(print[i - 1], print[i]),
         full |-> 2 * Acceleration(print[i]) * Length(print[i])]]

-----------------------------------------------------------------------------

\* A print is extracted first, unless it was given as moves.
EstimatorInit == ExtractorInit /\ MotionInit

Extracting == moves = <<>>

Extract ==
    /\ Extracting
    /\ ReadBodyLine
    /\ UNCHANGED motionVars

\* The end of the body: planMoves is called.
BeginPlanning ==
    /\ Extracting /\ print # <<>>
    /\ moves' = Prepared
    /\ pass' = "junctions" /\ index' = 1
    /\ junction' = [i \in DOMAIN print |-> 0]
    /\ entry' = [i \in DOMAIN print |-> 0] /\ exit' = [i \in DOMAIN print |-> 0]
    /\ shape' = [i \in DOMAIN print |-> "none"]
    /\ UNCHANGED extractorVars

Plan == MotionNext /\ UNCHANGED extractorVars

EstimatorNext == Extract \/ BeginPlanning \/ Plan

EstimatorSpec == EstimatorInit /\ [][EstimatorNext]_estimatorVars
=============================================================================
