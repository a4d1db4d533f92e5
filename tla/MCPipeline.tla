------------------------------ MODULE MCPipeline ------------------------------
(* The two ways a print goes, each on inputs of its own while the other has not  *)
(* begun: file, scan and rewrite; and moves, timeline and plan.                  *)
EXTENDS MCScanThenRewrite, MCAnalysisThenPlan

VARIABLE part

NoMoves ==
    /\ AnalysisInit /\ PlanAwaited /\ origin = "dump"
    /\ extruder = Extruder(7, 3, 1, 20)
    /\ filament = Calibration(<<1, 5, 10>>, <<200, 215, 235>>, 5)

BothInit ==
    \/ part = "file" /\ Init /\ NoMoves
    \/ part = "moves" /\ Init /\ MCInit

BothNext ==
    /\ UNCHANGED part
    /\ \/ part = "file" /\ Next /\ UNCHANGED pipelineVars
       \/ part = "moves" /\ MCNext /\ UNCHANGED vars

BothSpec == BothInit /\ [][BothNext]_<<part, vars, pipelineVars>>
===============================================================================
