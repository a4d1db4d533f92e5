----------------------------- MODULE CurveCompare -----------------------------
(***************************************************************************)
(* The differential verification (CurveCompare.cpp): the temperatures a file *)
(* commands, over the filament it has used by then, and the comparison of    *)
(* two such curves' shapes on a shared grid of filament.                     *)
(*                                                                         *)
(* A statistic of n samples is scaled by n, a product of two by n squared;   *)
(* grid positions are rounded down.                                         *)
(***************************************************************************)
EXTENDS GcodeText, Sequences, FiniteSetsExt

CONSTANT Samples        \* positions of the grid (400 in the code)

ASSUME SamplesAssumption == Samples \in Nat \ {0, 1}

TemperaturePoint == [usedFilament : Nat, temperature : Int]

-----------------------------------------------------------------------------
(***************************************************************************)
(* Extraction, one line at a time.                                         *)
(***************************************************************************)

NewCurve == [usedFilament |-> 0, points |-> <<>>]

\* Every G0 and G1 that pushes filament counts, whether it travels or not.
Extract(curve, line) ==
    IF IsMove(line)
    THEN [curve EXCEPT !.usedFilament =
             IF Word(line, "E", 0) > 0 THEN @ + Word(line, "E", 0) ELSE @]
    ELSE IF line.kind = "temp" /\ Has(line, "S")
    THEN [curve EXCEPT !.points =
             Append(@, [usedFilament |-> curve.usedFilament,
                        temperature |-> Word(line, "S", 0)])]
    ELSE curve

-----------------------------------------------------------------------------
(***************************************************************************)
(* The lookup: M104 is a step, not a ramp.                                 *)
(***************************************************************************)

\* Mutant of Beyond: std::lower_bound, the first point at or behind the position.
BeyondOrAt(points, used) ==
    Min({i \in DOMAIN points : points[i].usedFilament >= used}
            \cup {Len(points) + 1})

\* std::upper_bound, the first point beyond the position, or the end.
Beyond(points, used) ==
    Min({i \in DOMAIN points : points[i].usedFilament > used}
            \cup {Len(points) + 1})

CommandedAt(points, used) ==
    IF points = <<>> THEN 0
    ELSE IF used <= points[1].usedFilament THEN points[1].temperature
    ELSE points[Beyond(points, used) - 1].temperature

-----------------------------------------------------------------------------
(***************************************************************************)
(* The comparison.                                                         *)
(***************************************************************************)

Larger(a, b) == IF a >= b THEN a ELSE b
Lesser(a, b) == IF a >= b THEN b ELSE a
Total(f) == MapThenSumSet(LAMBDA i : f[i], DOMAIN f)

\* The two curves have data in common.
Overlap(a, b) ==
    /\ a # <<>> /\ b # <<>>
    /\ Larger(a[1].usedFilament, b[1].usedFilament)
           < Lesser(a[Len(a)].usedFilament, b[Len(b)].usedFilament)

\* A curve on the grid of what it shares with the other one.
Resampled(c, a, b) ==
    LET lo == Larger(a[1].usedFilament, b[1].usedFilament)
        hi == Lesser(a[Len(a)].usedFilament, b[Len(b)].usedFilament)
    IN  [i \in 0 .. (Samples - 1) |->
            CommandedAt(c, lo + ((hi - lo) * i) \div (Samples - 1))]

\* Mutant of Centred: the mean stays in.
CentredNever(s) == [i \in DOMAIN s |-> Samples * s[i]]

\* Mean-removed, so that a pure calibration offset is no disagreement.
Centred(s) ==
    LET sum == Total(s)
    IN  [i \in DOMAIN s |-> Samples * s[i] - sum]

Magnitude(x) == IF x < 0 THEN -x ELSE x

\* compareCurves for two curves that overlap.
Compared(a, b) ==
    LET sa == Resampled(a, a, b)
        sb == Resampled(b, a, b)
        da == Centred(sa)
        db == Centred(sb)
    IN  [meanOffset |-> Total(sa) - Total(sb),
         covariance |-> Total([i \in DOMAIN da |-> da[i] * db[i]]),
         varianceA |-> Total([i \in DOMAIN da |-> da[i] * da[i]]),
         varianceB |-> Total([i \in DOMAIN db |-> db[i] * db[i]]),
         squaredError |-> Total([i \in DOMAIN da |-> (da[i] - db[i]) * (da[i] - db[i])]),
         maxDifference |-> Max({Magnitude(da[i] - db[i]) : i \in DOMAIN da})]
=============================================================================
