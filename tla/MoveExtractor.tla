---------------------------- MODULE MoveExtractor ----------------------------
(***************************************************************************)
(* extractMoves of the in-process estimator (Kinematics.cpp): from the      *)
(* lines of a print body to the moves the tool makes.  The plane is one     *)
(* axis, X; a position is <<x, z>>.                                         *)
(*                                                                         *)
(* It reads a line by rules of its own, and not by isExtrudingMove, which   *)
(* the scanner and the rewriter count filament by.  What it counts, less    *)
(* what estimateMoves suppresses, is the filament coordinate of the plan.   *)
(***************************************************************************)
EXTENDS GcodeText, Sequences, Suppression

CONSTANTS
    BodyLines,      \* the lines a body may consist of
    MaxBody,        \* bound on the length of a body
    Chords          \* the chords an arc is divided into

ASSUME ExtractorAssumption ==
    /\ \A line \in BodyLines : IsLine(line)
    /\ MaxBody \in Nat /\ Chords \in Nat \ {0}

Position == Int \X Int
ToolMove == [from : Position, to : Position, extrude : Int, feed : Int]

VARIABLES
    body,           \* the lines read
    pos, feedrate, absolutePositioning,
    print           \* moves: what has been extracted

extractorVars == <<body, pos, feedrate, absolutePositioning, print>>

ExtractorInit ==
    /\ body = <<>>
    /\ pos = <<0, 0>> /\ feedrate = 0 /\ absolutePositioning = TRUE
    /\ print = <<>>

Consume(line) ==
    /\ Len(body) < MaxBody
    /\ body' = Append(body, line)

\* Whatever is neither a motion nor one of the modes.  M82 sets a flag that is
\* read where both its values do the same.
SkipLine(line) ==
    /\ line.kind \notin {"move", "arc", "G90", "G91", "G92"}
    /\ Consume(line)
    /\ UNCHANGED <<pos, feedrate, absolutePositioning, print>>

SetPositioning(line) ==
    /\ line.kind \in {"G90", "G91"}
    /\ Consume(line)
    /\ absolutePositioning' = (line.kind = "G90")
    /\ UNCHANGED <<pos, feedrate, print>>

\* G92 renames the position without a move.
ResetPosition(line) ==
    /\ line.kind = "G92"
    /\ Consume(line)
    /\ pos' = <<Word(line, "X", pos[1]), Word(line, "Z", pos[2])>>
    /\ UNCHANGED <<feedrate, absolutePositioning, print>>

IsMotion(line) == line.kind \in {"move", "arc"}
IsBare(line) == \A letter \in {"X", "Z", "E"} : ~Has(line, letter)

\* "G1 F9000" sets the feedrate and produces nothing.
SetFeedrate(line) ==
    /\ IsMotion(line) /\ IsBare(line)
    /\ Consume(line)
    /\ feedrate' = Word(line, "F", feedrate)
    /\ UNCHANGED <<pos, absolutePositioning, print>>

Along(at, line, letter) ==
    IF absolutePositioning THEN Word(line, letter, at) ELSE at + Word(line, letter, 0)

TargetOf(line) == <<Along(pos[1], line, "X"), Along(pos[2], line, "Z")>>

\* A straight line; one that neither travels nor extrudes makes no move.
MoveLinear(line) ==
    /\ line.kind = "move" /\ ~IsBare(line)
    /\ Consume(line)
    /\ feedrate' = Word(line, "F", feedrate)
    /\ pos' = TargetOf(line)
    /\ print' = IF pos' = pos /\ Word(line, "E", 0) = 0 THEN print
                ELSE Append(print, [from |-> pos, to |-> pos', feed |-> feedrate',
                                    extrude |-> Word(line, "E", 0)])
    /\ UNCHANGED absolutePositioning

\* The k-th point of an arc.  Its height is added to a position that has moved
\* with the chords before, so a helix climbs dz, then 2 dz, then 3 dz.
ArcPoint(line, k) ==
    LET dx == TargetOf(line)[1] - pos[1]
        dz == (TargetOf(line)[2] - pos[2]) \div Chords
    IN  <<pos[1] + (dx * k) \div Chords, pos[2] + dz * ((k * (k + 1)) \div 2)>>

\* An arc becomes chords that share its filament.  A full circle, which ends
\* where it starts, has no place on one axis.
MoveArc(line) ==
    /\ line.kind = "arc" /\ TargetOf(line)[1] # pos[1]
    /\ Consume(line)
    /\ feedrate' = Word(line, "F", feedrate)
    /\ pos' = ArcPoint(line, Chords)
    /\ print' = print \o
           [k \in 1 .. Chords |->
               [from |-> ArcPoint(line, k - 1), to |-> ArcPoint(line, k),
                extrude |-> Word(line, "E", 0) \div Chords, feed |-> feedrate']]
    /\ UNCHANGED absolutePositioning

ReadBodyLine ==
    \E line \in BodyLines :
        \/ SkipLine(line) \/ SetPositioning(line) \/ ResetPosition(line)
        \/ SetFeedrate(line) \/ MoveLinear(line) \/ MoveArc(line)

-----------------------------------------------------------------------------
(***************************************************************************)
(* Properties                                                              *)
(***************************************************************************)

TotalOf(s) == MapThenSumSet(LAMBDA k : s[k], DOMAIN s)

\* The filament coordinate the plan is drawn over: what the moves extrude once
\* retractions and what undoes them are suppressed.
Laid == Samples([k \in DOMAIN print |-> print[k].extrude])
PlannedFilament == TotalOf(Laid)

\* The one the rewriter looks the plan up at.
Counted == [n \in DOMAIN body |-> IF IsExtrudingMove(body[n]) THEN Word(body[n], "E", 0) ELSE 0]
RewrittenFilament == TotalOf(Counted)

\* What every line of the body pushes through the nozzle, retractions included.
Pushed == [n \in DOMAIN body |-> IF IsMotion(body[n]) THEN Word(body[n], "E", 0) ELSE 0]

\* How slicers retract: filament is pushed without travel right behind a
\* retraction, however many moves that took, and at no other time.
RetractsInPairs ==
    \A n \in DOMAIN body :
        Pushed[n] > 0 => (RetractedBefore(Pushed, n) <=> ~Has(body[n], "X"))

ExtrudesOnArcs == \E n \in DOMAIN body : body[n].kind = "arc" /\ Pushed[n] # 0

\* "The rewriter's filament counter MUST track the analyser's exactly": behind
\* every line of a body that retracts in pairs the estimator has laid down as
\* much filament as the rewriter has counted, as long as no arc extrudes.
CountersAgree ==
    RetractsInPairs /\ ~ExtrudesOnArcs => PlannedFilament = RewrittenFilament
=============================================================================
