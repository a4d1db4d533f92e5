-------------------------- MODULE AnalysisThenPlan --------------------------
(***************************************************************************)
(* From the estimator's dump to the temperature plan, as the process        *)
(* command and the web handlers run it (main.cpp, WebUI.cpp): the dump is   *)
(* parsed, its moves analysed, and the timeline handed to the planner with   *)
(* the layers of the scan and the profiles of the user.                     *)
(*                                                                         *)
(* planTemperature is a library function as well: `origin` says whether the *)
(* timeline of this call is the analysis' or its caller's own.              *)
(***************************************************************************)
EXTENDS FlowAnalysis, TemperaturePlanner

pipelineVars == <<analysisVars, plannerVars>>

PlanAwaited ==
    /\ At("awaited")
    /\ timeline = <<>> /\ layers = <<>>
    /\ extruder \in Extruders /\ filament \in Filaments

PipelineInit ==
    \/ AnalysisInit /\ PlanAwaited
    \/ DumpInit /\ TimelineInit /\ origin = "timeline" /\ PlannerInit

Analyse ==
    /\ origin # "timeline"
    /\ AnalysisNext
    /\ UNCHANGED plannerVars

\* What the scan found the layers to be is any of the lists.
HandOver ==
    /\ origin = "dump" /\ returned /\ stage = "awaited"
    /\ timeline' = seconds
    /\ layers' \in LayerLists
    /\ stage' = "called"
    /\ UNCHANGED <<analysisVars, extruder, filament, flow, desired, durations, cursor,
                   bucket, achievable>>

PlanStep == PlannerNext /\ UNCHANGED analysisVars

PipelineNext == Analyse \/ HandOver \/ PlanStep

PipelineSpec == PipelineInit /\ [][PipelineNext]_pipelineVars

-----------------------------------------------------------------------------

\* The values of both components have their types, the planner's input included
\* that the analysis made.
PipelineTypeOK == TimelineTypeOK /\ PlannerTypeOK
=============================================================================
