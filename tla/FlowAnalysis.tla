----------------------------- MODULE FlowAnalysis -----------------------------
(***************************************************************************)
(* From the output of the external estimator to the timeline: estimateMoves *)
(* and analyseFlow as the process command and /api/process call them        *)
(* (main.cpp, WebUI.cpp).  MoveDump's parser reads the dump to its end; if   *)
(* it reports no error, its moves are FlowTimeline's, in their order.       *)
(*                                                                         *)
(* analyseFlow is a library function as well, called on moves from          *)
(* elsewhere: `origin` says where the moves of this call come from.         *)
(***************************************************************************)
EXTENDS MoveDump, FlowTimeline

VARIABLE origin

Origins == {"dump", "caller"}

analysisVars == <<dumpVars, timelineVars, origin>>

AnalysisInit == DumpInit /\ TimelineInit /\ origin \in Origins

Parse ==
    /\ origin = "dump"
    /\ DumpNext
    /\ UNCHANGED <<timelineVars, origin>>

\* The parser has returned moves, and the caller goes on with them.
HasMoves == origin = "dump" => ~parsing /\ diagnosis # "error"

NextMove ==
    /\ HasMoves
    /\ origin = "dump" => given.moves < Len(moves)
    /\ TakeMove
    /\ origin = "dump" => move' = moves[given.moves + 1]
    /\ UNCHANGED <<dumpVars, origin>>

Split == (FillBucket \/ EmitBucket) /\ UNCHANGED <<dumpVars, origin>>

Finish ==
    /\ HasMoves
    /\ origin = "dump" => given.moves = Len(moves)
    /\ Return
    /\ UNCHANGED <<dumpVars, origin>>

AnalysisNext == Parse \/ NextMove \/ Split \/ Finish

AnalysisSpec == AnalysisInit /\ [][AnalysisNext]_analysisVars
=============================================================================
