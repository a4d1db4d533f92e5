-------------------------- MODULE RewriteThenCompare --------------------------
(***************************************************************************)
(* The rewriter, and the compare command reading what it writes: the file   *)
(* that the one produces line by line is the file the other one extracts    *)
(* its curve from.                                                          *)
(***************************************************************************)
EXTENDS GcodeRewriter, CurveCompare

VARIABLE curve          \* extracted from the lines written so far

comparedVars == <<rewriterVars, curve>>

ExtractAll(c, lines) == Extract(Extract(Extract(c, lines[1]), lines[2]), lines[3])

ComparedInit == RewriterInit /\ curve = NewCurve

ExtractWritten == curve' = ExtractAll(curve, written')

ComparedNext == RewriterNext /\ ExtractWritten

ComparedSpec == ComparedInit /\ [][ComparedNext]_comparedVars

-----------------------------------------------------------------------------

\* Looking the extracted curve up where the file has come to gives the target
\* the printer has there: the command that came last, also when several commands
\* lie at one position.  At the very first command's position the lookup gives
\* the first of them instead, and a start macro's temperature is not in the
\* curve.
CurveReadsBack ==
    /\ curve.points # <<>> /\ ~startMacroRewritten
    /\ curve.points[1].usedFilament < curve.usedFilament
    => CommandedAt(curve.points, curve.usedFilament) = printed.target

Shifted(points, offset) ==
    [i \in DOMAIN points |-> [points[i] EXCEPT !.temperature = @ + offset]]
Mirrored(points, level) ==
    [i \in DOMAIN points |-> [points[i] EXCEPT !.temperature = level - @]]

\* "A curve that trends the wrong way ... indicates a real misunderstanding of the
\* algorithm. A constant offset does not": the curve of a finished file, shifted as
\* another calibration would, differs by nothing but the offset; upside down, it
\* is as negatively correlated as it can be.
OnlyTheShapeCounts ==
    LET c == curve.points
        shifted == Compared(c, Shifted(c, 70))
        mirrored == Compared(c, Mirrored(c, 8000))
    IN  status = "done" /\ Overlap(c, c) =>
            /\ shifted.squaredError = 0 /\ shifted.maxDifference = 0
            /\ shifted.meanOffset = -70 * Samples
            /\ shifted.covariance = shifted.varianceA
            /\ shifted.varianceA = shifted.varianceB
            /\ mirrored.covariance = -mirrored.varianceA
            /\ mirrored.varianceA = mirrored.varianceB
=============================================================================
