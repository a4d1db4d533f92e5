--------------------------- MODULE TemperaturePlan ---------------------------
(***************************************************************************)
(* The plan as the rewriter reads it (Model.cpp).  `seconds` is the         *)
(* cumulative filament at the end of each bucket, `achievable` the          *)
(* temperature planned for that bucket; the two are indexed in parallel.    *)
(***************************************************************************)
EXTENDS Integers, Sequences, FiniteSetsExt

NoTemperature == -1     \* std::nullopt

\* Mutant of LowerBound: std::upper_bound, the first bucket beyond the position.
UpperBound(seconds, n, used) == Min({i \in 1 .. n : seconds[i] > used})

\* std::lower_bound over the first n buckets.
LowerBound(seconds, n, used) == Min({i \in 1 .. n : seconds[i] >= used})

TemperatureAtFilament(achievable, seconds, used) ==
    LET n == IF Len(seconds) < Len(achievable) THEN Len(seconds) ELSE Len(achievable)
    IN  IF n = 0 THEN NoTemperature
        ELSE IF used <= seconds[1] THEN achievable[1]
        ELSE IF used >= seconds[n] THEN achievable[n]
        ELSE achievable[LowerBound(seconds, n, used)]

FeatureTypes == {"Unknown", "OuterWall", "InnerWall", "SparseInfill",
                 "InternalSolidInfill", "TopSurface", "Bridge", "InternalBridge",
                 "Support", "Overhang", "Skirt"}

AllowsPressureAdvanceChange(feature) ==
    feature \in {"SparseInfill", "InternalSolidInfill", "InternalBridge", "Support"}
=============================================================================
