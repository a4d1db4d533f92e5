--------------------------- MODULE ScanThenRewrite ---------------------------
(***************************************************************************)
(* The two passes over one file (runProcess in main.cpp, runToPlan and the  *)
(* process handler in WebUI.cpp): scan it, give up if the scan reports an   *)
(* error, plan, and rewrite it within the bounds the scan found.            *)
(*                                                                         *)
(* Each pass counts extruded filament on its own.  The plan the rewriter    *)
(* looks up and the layers the planner cooled are positions in that count,  *)
(* so the whole tool rests on the two counts being one.  Which plan the     *)
(* planner computes does not matter here: it is any member of Plans.        *)
(***************************************************************************)
EXTENDS GcodeScanner

CONSTANTS Plans, Options, Filament, FilamentArea, HasStartMacro, PollPeriod

VARIABLES
    plan, options, status, lineNumber, layerHeight, lineWidth, feature,
    usedFilament, slicerFeedrate, posX, lastEmittedTemp, lastEmittedPa,
    headerMarkerWritten, startMacroRewritten, warned, written, sliced, printed

R == INSTANCE GcodeRewriter WITH Scans <- {}

rewriteState ==
    <<plan, options, status, lineNumber, layerHeight, lineWidth, feature,
      usedFilament, slicerFeedrate, posX, lastEmittedTemp, lastEmittedPa,
      headerMarkerWritten, startMacroRewritten, warned, written, sliced, printed>>
vars == <<scannerVars, rewriteState>>

Init ==
    /\ ScannerInit
    /\ plan \in Plans /\ options \in Options
    /\ R!FreshCall

ScanPass == ScannerNext /\ UNCHANGED rewriteState

\* The rewriter reads the file the scanner read.
NextLine ==
    /\ lineNumber < Len(file)
    /\ R!RewriteLine(file[lineNumber + 1])

\* diagnostics.hasErrors() ends the run before anything is written.
RewritePass ==
    /\ ~scanning /\ errors = {}
    /\ R!Refuse \/ R!Begin \/ R!Cancel \/ R!EndOfFile \/ NextLine
    /\ UNCHANGED <<file, errors, scanning, trail>>

Next == ScanPass \/ RewritePass

Spec == Init /\ [][Next]_vars

-----------------------------------------------------------------------------

\* The filament the scanner had counted behind line n.
CountedByScan(n) == IF n = 0 THEN 0 ELSE trail[n]

\* The coordinate is shared: behind every line the rewriter has counted exactly
\* the filament the scanner had counted behind the same line.
CoordinatesAgree ==
    status \in {"rewriting", "done"} => usedFilament = CountedByScan(lineNumber)

\* The rewriter reaches every layer marker at the position the scanner recorded
\* for that layer, so the cooling planned for a layer is applied to that layer.
LayersReachedInPlace ==
    status = "rewriting" =>
        \A k \in DOMAIN scan.layers :
            scan.layers[k].line = lineNumber =>
                usedFilament = scan.layers[k].usedFilament

\* A file that is rewritten to its end consumed the scanned body's filament.
WholeBodyRewritten ==
    status = "done" => usedFilament = scan.bodyFilament
=============================================================================
