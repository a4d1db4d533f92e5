------------------------ MODULE MCInProcessEstimator ------------------------
(* Prints of up to three free moves, slow and fast ones, and of four fast ones: *)
(* short ones that can hardly change their velocity and long ones, corners from *)
(* a full stop to none.  And bodies of a few lines, whose moves are what        *)
(* extractMoves makes.                                                         *)
EXTENDS InProcessEstimator

MovesUpTo(caps) == [cap : caps, corner : {0, 5, 30}, full : {3, 16}]
MCPrints ==
    UNION {[1 .. n -> MovesUpTo({4, 18})] : n \in 0 .. 3} \cup [1 .. 4 -> MovesUpTo({18})]

Line(kind, words) == [kind |-> kind, words |-> words, text |-> ""]

\* Extrusions, a travel, a hop, a retraction, one that wipes, an unretraction.
MCMotions ==
    {Line("move", words) : words \in
        {[X |-> 2, E |-> 1], [X |-> 4, E |-> 2, F |-> 3], [X |-> 0], [Z |-> 2],
         [E |-> -2], [X |-> 1, E |-> -1], [E |-> 2], [F |-> 2]}}
MCBodyLines ==
    MCMotions \cup {Line("arc", [X |-> 4]),
                    Line("arc", [X |-> 4, E |-> 2]), Line("G90", <<>>), Line("G91", <<>>),
                    Line("G92", [X |-> 1]), Line("other", <<>>)}

MCLimits ==
    [velocity |-> 5, acceleration |-> 4, zVelocity |-> 1, zAcceleration |-> 2,
     eVelocity |-> 2, eAcceleration |-> 3, squareCorner |-> 2, instantCorner |-> 1]
=============================================================================
