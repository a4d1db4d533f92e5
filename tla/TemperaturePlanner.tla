-------------------------- MODULE TemperaturePlanner --------------------------
(***************************************************************************)
(* planTemperature (TemperaturePlanner.cpp): from the per-second flow        *)
(* timeline to the temperature curve that is written to the file.  One      *)
(* action per stage, and one per bucket where the code carries state from   *)
(* one bucket to the next (the layer cursor, the slew limiter).             *)
(*                                                                         *)
(* Every quantity is an integer; a quotient is rounded down.                *)
(***************************************************************************)
EXTENDS FilamentCurve, FlowSeconds, FiniteSetsExt

CONSTANTS
    Timelines,      \* sequences of FlowSecond
    LayerLists,     \* sequences of the layers' starts, in filament
    Extruders,      \* ExtruderProfile
    Filaments       \* FilamentProfile

ExtruderProfile ==
    [maxRise : Int, maxFall : Int,          \* rates times the bucket's width
     smoothingWindow : Int, coolingLayerTime : Int, coolingMaxDrop : Int]

ASSUME PlannerAssumption ==
    /\ Timelines \subseteq Seq(FlowSecond)
    /\ LayerLists \subseteq Seq(Nat)
    /\ Extruders \subseteq ExtruderProfile
    /\ Filaments \subseteq FilamentProfile

\* What timeAtFilament bisects is sorted, and so are the layers: both sequences
\* are written in the order of the print.
ASSUME OrderOfThePrint ==
    /\ \A t \in Timelines : \A i, j \in DOMAIN t :
          i < j => t[i].time < t[j].time /\ t[i].usedFilament <= t[j].usedFilament
    /\ \A l \in LayerLists : \A i, j \in DOMAIN l : i < j => l[i] <= l[j]

\* The unit of a temperature is no coarser than that of a flow: a segment of a
\* curve has at least as many of the one as of the other.
ASSUME UnitsOfACurve ==
    \A f \in Filaments :
        /\ f.lowTemp < f.midTemp => f.midFlow - f.lowFlow <= f.midTemp - f.lowTemp
        /\ f.midTemp < f.highTemp => f.highFlow - f.midFlow <= f.highTemp - f.midTemp

VARIABLES
    timeline, layers, extruder, filament,    \* the inputs of the call
    stage,                                  \* where the call stands
    flow,                                   \* blendedFlow, then smoothedFlow
    desired,                                \* desiredTemperature
    durations,                              \* seconds per layer
    cursor, bucket,                         \* the layer and bucket of a loop
    achievable                              \* achievableTemperature

plannerInputs == <<timeline, layers, extruder, filament>>
plannerVars == <<timeline, layers, extruder, filament, stage, flow, desired,
                 durations, cursor, bucket, achievable>>

-----------------------------------------------------------------------------

\* ExtruderProfile::validate adds no error.
ValidExtruder(x) == x.maxRise > 0 /\ x.maxFall > 0

\* biasFraction in tenths, clamped.
Bias(f) == IF f.speedQualityBias < 0 THEN 0
           ELSE IF f.speedQualityBias > 10 THEN 10
           ELSE f.speedQualityBias

Blend(second, f) ==
    second.averageFlow
        + ((second.maxFlow - second.averageFlow) * Bias(f)) \div 10

\* The buckets of a centred window that exist.
Neighbours(i, n, window) ==
    {j \in 1 .. n : i - window \div 2 <= j /\ j <= i + window \div 2}

\* Mutant of MovingAverage: only where the whole window exists.
MovingAverageValid(values, window) ==
    [i \in 1 .. (Len(values) - (window \div 2)) |->
        MapThenSumSet(LAMBDA j : values[j], Neighbours(i, Len(values), window))
            \div Cardinality(Neighbours(i, Len(values), window))]

\* Divided by the count actually summed.
MovingAverage(values, window) ==
    [i \in DOMAIN values |->
        LET near == Neighbours(i, Len(values), window)
        IN  MapThenSumSet(LAMBDA j : values[j], near) \div Cardinality(near)]

\* Elapsed time at a filament position, interpolated between two buckets; the
\* lower one ends before the position, so the gap is never empty.
TimeAtFilament(used) ==
    LET n == Len(timeline)
        hi == Min({i \in 1 .. n : timeline[i].usedFilament >= used})
        gap == timeline[hi].usedFilament - timeline[hi - 1].usedFilament
    IN  IF used <= timeline[1].usedFilament THEN 0
        ELSE IF used >= timeline[n].usedFilament THEN timeline[n].time
        ELSE timeline[hi - 1].time
             + ((timeline[hi].time - timeline[hi - 1].time)
                  * (used - timeline[hi - 1].usedFilament)) \div gap

AtLeastZero(x) == IF x < 0 THEN 0 ELSE x

\* Mutant of LayerDuration: the last layer ends where it starts.
LayerDurationOpenEnd(k) ==
    AtLeastZero((IF k < Len(layers) THEN TimeAtFilament(layers[k + 1])
                 ELSE TimeAtFilament(layers[k]))
                - TimeAtFilament(layers[k]))

LayerDuration(k) ==
    AtLeastZero((IF k < Len(layers) THEN TimeAtFilament(layers[k + 1])
                 ELSE timeline[Len(timeline)].time)
                - TimeAtFilament(layers[k]))

\* The shorter the layer, the less time it has to solidify.
CoolingDrop(layerTime) ==
    IF layerTime >= extruder.coolingLayerTime THEN 0
    ELSE IF layerTime <= 0 THEN extruder.coolingMaxDrop
    ELSE (extruder.coolingMaxDrop * (extruder.coolingLayerTime - layerTime))
             \div extruder.coolingLayerTime

\* Mutant of Floored: the drop is applied without the calibrated floor.
Unfloored(temperature) == temperature

\* Never below the calibrated floor.
Floored(temperature) ==
    IF temperature < filament.lowTemp THEN filament.lowTemp ELSE temperature

\* Mutant of Slew: cooling is driven as heating is.
SlewSymmetric(previous, wanted) ==
    IF wanted > previous + extruder.maxRise THEN previous + extruder.maxRise
    ELSE IF wanted < previous - extruder.maxRise THEN previous - extruder.maxRise
    ELSE wanted

\* As far towards the wanted temperature as one bucket allows.
Slew(previous, wanted) ==
    IF wanted > previous + extruder.maxRise THEN previous + extruder.maxRise
    ELSE IF wanted < previous - extruder.maxFall THEN previous - extruder.maxFall
    ELSE wanted

-----------------------------------------------------------------------------

\* The call stands at its first or before it, and has done nothing.
At(first) ==
    /\ stage = first
    /\ flow = <<>> /\ desired = <<>> /\ durations = <<>>
    /\ cursor = 1 /\ bucket = 1
    /\ achievable = <<>>

PlannerInit ==
    /\ timeline \in Timelines /\ layers \in LayerLists
    /\ extruder \in Extruders /\ filament \in Filaments
    /\ At("called")

\* Invalid calibration, or no extrusion in the file: an empty plan.
RefusePlan ==
    /\ stage = "called"
    /\ \/ ~ValidFilament(filament)
       \/ ~ValidExtruder(extruder)
       \/ timeline = <<>>
    /\ stage' = "refused"
    /\ UNCHANGED <<plannerInputs, flow, desired, durations, cursor, bucket, achievable>>

BlendFlow ==
    /\ stage = "called"
    /\ ValidFilament(filament) /\ ValidExtruder(extruder) /\ timeline # <<>>
    /\ stage' = "blended"
    /\ flow' = [i \in DOMAIN timeline |-> Blend(timeline[i], filament)]
    /\ UNCHANGED <<plannerInputs, desired, durations, cursor, bucket, achievable>>

SmoothFlow ==
    /\ stage = "blended"
    /\ stage' = "smoothed"
    /\ flow' = MovingAverage(flow, IF extruder.smoothingWindow < 1 THEN 1
                                   ELSE extruder.smoothingWindow)
    /\ UNCHANGED <<plannerInputs, desired, durations, cursor, bucket, achievable>>

CoolingEnabled == extruder.coolingMaxDrop > 0 /\ extruder.coolingLayerTime > 0

\* Flow to temperature; then either the layers are timed or slewing begins.
MapFlow ==
    /\ stage = "smoothed"
    /\ desired' = [i \in DOMAIN flow |-> FlowToTemperature(filament, flow[i])]
    /\ IF CoolingEnabled /\ layers # <<>>
       THEN /\ stage' = "cooling"
            /\ durations' = [k \in DOMAIN layers |-> LayerDuration(k)]
       ELSE /\ stage' = "slewing"
            /\ UNCHANGED durations
    /\ UNCHANGED <<plannerInputs, flow, cursor, bucket, achievable>>

\* Mutant of NextCursor: at most one layer further per bucket.
NextCursorOnce(used) ==
    IF cursor < Len(layers) /\ used >= layers[cursor + 1] THEN cursor + 1 ELSE cursor

\* The layer the cursor moves on to for a bucket that ends at `used`.
NextCursor(used) ==
    Min({k \in cursor .. Len(layers) : k = Len(layers) \/ used < layers[k + 1]})

CoolBucket ==
    /\ stage = "cooling" /\ bucket <= Len(timeline)
    /\ cursor' = NextCursor(timeline[bucket].usedFilament)
    /\ desired' = [desired EXCEPT ![bucket] = Floored(@ - CoolingDrop(durations[cursor']))]
    /\ bucket' = bucket + 1
    /\ UNCHANGED <<plannerInputs, stage, flow, durations, achievable>>

Cooled ==
    /\ stage = "cooling" /\ bucket > Len(timeline)
    /\ stage' = "slewing"
    /\ bucket' = 1
    /\ UNCHANGED <<plannerInputs, flow, desired, durations, cursor, achievable>>

\* The first bucket is not constrained: the nozzle is heated before the print.
SlewBucket ==
    /\ stage = "slewing" /\ bucket <= Len(desired)
    /\ achievable' = Append(achievable,
                            IF bucket = 1 THEN desired[1]
                            ELSE Slew(achievable[bucket - 1], desired[bucket]))
    /\ bucket' = bucket + 1
    /\ UNCHANGED <<plannerInputs, stage, flow, desired, durations, cursor>>

Planned ==
    /\ stage = "slewing" /\ bucket > Len(desired)
    /\ stage' = "done"
    /\ UNCHANGED <<plannerInputs, flow, desired, durations, cursor, bucket, achievable>>

PlannerNext ==
    \/ RefusePlan \/ BlendFlow \/ SmoothFlow \/ MapFlow
    \/ CoolBucket \/ Cooled \/ SlewBucket \/ Planned

PlannerSpec == PlannerInit /\ [][PlannerNext]_plannerVars

-----------------------------------------------------------------------------
(***************************************************************************)
(* Properties                                                              *)
(***************************************************************************)

\* "All vectors are parallel to SourceAnalysis::seconds" (Model.hpp).
PlannerTypeOK ==
    /\ timeline \in Seq(FlowSecond) /\ layers \in Seq(Nat)
    /\ extruder \in ExtruderProfile /\ filament \in FilamentProfile
    /\ stage \in {"awaited", "called", "refused", "blended", "smoothed", "cooling", "slewing",
                  "done"}
    /\ flow \in Seq(Int) /\ Len(flow) \in {0, Len(timeline)}
    /\ desired \in Seq(Int) /\ Len(desired) \in {0, Len(timeline)}
    /\ durations \in Seq(Int) /\ Len(durations) \in {0, Len(layers)}
    /\ cursor \in 1 .. (Len(layers) + 1)
    /\ bucket \in 1 .. (Len(timeline) + 1)
    /\ achievable \in Seq(Int)
    /\ Len(achievable) <= Len(timeline)

\* No temperature is planned that the calibration does not cover: not by the
\* smoothing, not by layer cooling, and not on the way of a slewing nozzle.
CurveInBand ==
    \A i \in DOMAIN achievable :
        filament.lowTemp <= achievable[i] /\ achievable[i] <= filament.highTemp

\* From one bucket to the next the curve asks for no more than the hotend can
\* heat or cool, it moves towards the wanted temperature, and it does not pass it.
SlewRespected ==
    \A i \in DOMAIN achievable \ {1} :
        LET before == achievable[i - 1]
            now == achievable[i]
        IN  /\ now - before <= extruder.maxRise
            /\ before - now <= extruder.maxFall
            /\ \/ before <= now /\ now <= desired[i]
               \/ before >= now /\ now >= desired[i]

\* The cursor never lags: a bucket is cooled for the layer its end lies in, also
\* when several layers begin in one bucket.
CoolsTheLayerItIsIn ==
    stage = "cooling" /\ bucket > 1 =>
        cursor = Max({1} \cup {k \in DOMAIN layers :
                                   layers[k] <= timeline[bucket - 1].usedFilament})

\* The layers share out the whole print: none of its time is lost or counted
\* twice between two layers.
LayerTimesAddUp ==
    stage = "cooling" =>
        MapThenSumSet(LAMBDA k : durations[k], DOMAIN durations)
            = timeline[Len(timeline)].time - TimeAtFilament(layers[1])

CalibratedFlows == (filament.lowFlow - 1) .. (filament.highFlow + 1)
Budget(flowRate) == TemperatureToFlow(filament, FlowToTemperature(filament, flowRate))

\* Where no two temperatures coincide the budget at the temperature planned for a
\* flow is that flow (one unit of rounding aside): a print that follows its plan
\* is not slowed down by it.
BudgetRecoversFlow ==
    /\ stage = "called" /\ ValidFilament(filament)
    /\ filament.lowTemp < filament.midTemp /\ filament.midTemp < filament.highTemp
    => \A f \in filament.lowFlow .. filament.highFlow : Budget(f) \in {f - 1, f}
=============================================================================
