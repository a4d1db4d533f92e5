------------------------- MODULE MCAnalysisThenPlan -------------------------
(* For the analysis: dumps of retractions and extrusions; and moves shorter     *)
(* than, as long as and longer than one and two buckets of five ticks, with no  *)
(* flow, a little and a lot, one that takes no time.  For the planner: timelines *)
(* of three seconds, every order of slow and fast seconds, travel seconds that  *)
(* use no filament, layers of any length down to none.  For both: the timeline  *)
(* of the dumps of FewerPlans.                                                  *)
EXTENDS AnalysisThenPlan

MCFlows == {-1, 0, 4}
MCMoves == [duration : {0, 1, 2, 5, 7, 13}, flow : {0, 1, 4}]

Sorted(s) == \A i, j \in DOMAIN s : i < j => s[i] <= s[j]

Second(i, flows, used) ==
    [time |-> 4 * i, averageFlow |-> flows[1], maxFlow |-> flows[2],
     usedFilament |-> used]

BucketFlows == {<<0, 0>>, <<2, 6>>, <<9, 12>>}
Filaments3 == {u \in [1 .. 3 -> 0 .. 3] : Sorted(u)}
MCTimelines ==
    {<<>>} \cup {[i \in 1 .. 3 |-> Second(i, f[i], u[i])] :
                     f \in [1 .. 3 -> BucketFlows], u \in Filaments3}

\* For the layers: one flow, every way to use up to six units of filament.
LayerTimelines ==
    {[i \in 1 .. 3 |-> Second(i, <<2, 6>>, u[i])] :
         u \in {w \in [1 .. 3 -> 0 .. 6] : Sorted(w)}}

Extruder(rise, fall, window, drop) ==
    [maxRise |-> rise, maxFall |-> fall, smoothingWindow |-> window,
     coolingLayerTime |-> 6, coolingMaxDrop |-> drop]

Calibration(flows, temps, bias) ==
    [lowFlow |-> flows[1], midFlow |-> flows[2], highFlow |-> flows[3],
     lowTemp |-> temps[1], midTemp |-> temps[2], highTemp |-> temps[3],
     lowAdvance |-> 0, midAdvance |-> 0, highAdvance |-> 0,
     adjustPressureAdvance |-> FALSE, speedQualityBias |-> bias]

\* The curve: flows of every order, hotends that heat, cool and smooth, one of
\* them refused; calibrations with a plateau, out of range, refused.
CurveJob ==
    [timelines |-> MCTimelines, layers |-> {<<>>, <<0, 1>>, <<0, 2, 2>>},
     extruders |-> {Extruder(7, 3, 1, 0), Extruder(7, 3, 3, 20), Extruder(0, 3, 1, 0)},
     filaments |-> {Calibration(<<1, 5, 10>>, <<200, 215, 235>>, 5),
                    Calibration(<<1, 5, 10>>, <<200, 200, 230>>, 12),
                    Calibration(<<1, 5, 10>>, <<230, 210, 200>>, 5)}]

\* The layers: three of them anywhere on every timeline.
LayerJob ==
    [timelines |-> LayerTimelines,
     layers |-> {l \in [1 .. 3 -> 0 .. 6] : l[1] = 0 /\ Sorted(l)},
     extruders |-> {Extruder(50, 50, 1, 20)},
     filaments |-> {Calibration(<<1, 5, 10>>, <<200, 215, 235>>, 0)}]

\* The calibrations themselves: flat, even and steep segments, each at least as
\* fine in temperature as in flow or constant.
CalibrationJob ==
    [timelines |-> {<<>>}, layers |-> {<<>>}, extruders |-> {Extruder(7, 3, 1, 0)},
     filaments |->
        {Calibration(flows, temps, 5) :
            flows \in {<<1, 4, 9>>, <<2, 9, 11>>, <<1, 12, 20>>},
            temps \in {<<195, 215, 235>>, <<200, 211, 260>>, <<200, 240, 251>>,
                       <<210, 210, 240>>, <<210, 240, 240>>, <<220, 220, 220>>}}]

PipelineLayers == <<0, 8, 8, 20>>

PlannerJobs == {CurveJob, LayerJob, CalibrationJob}
AllTimelines == UNION {job.timelines : job \in PlannerJobs}
AllLayers == {PipelineLayers} \cup UNION {job.layers : job \in PlannerJobs}
AllExtruders == {Extruder(7, 3, 1, 20)} \cup UNION {job.extruders : job \in PlannerJobs}
AllFilaments == UNION {job.filaments : job \in PlannerJobs}

\* The planner's own callers, with the inputs of one job at a time.
CallerInit ==
    /\ DumpInit /\ TimelineInit /\ origin = "timeline"
    /\ \E job \in PlannerJobs :
          /\ timeline \in job.timelines /\ layers \in job.layers
          /\ extruder \in job.extruders /\ filament \in job.filaments
          /\ At("called")

AnalysedInit ==
    /\ AnalysisInit /\ PlanAwaited
    /\ extruder = Extruder(7, 3, 1, 20)
    /\ filament = Calibration(<<1, 5, 10>>, <<200, 215, 235>>, 5)

MCInit == AnalysedInit \/ CallerInit

\* A plan for the pairs of lines an estimator writes, and for every shorter dump.
FewerPlans == layers' = PipelineLayers /\ (WellFormed \/ Len(dump) < 5)

\* Dumps of five lines in any order, and of three pairs: the third one may undo
\* the retraction of the first.
FewerDumps == dump' = dump \/ Len(dump') < MaxDump \/ WellFormed'

MCNext == PipelineNext /\ (HandOver => FewerPlans) /\ FewerDumps

MCSpec == MCInit /\ [][MCNext]_pipelineVars
=============================================================================
