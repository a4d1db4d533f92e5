---------------------------- MODULE FilamentCurve ----------------------------
(***************************************************************************)
(* The filament calibration (FilamentProfile in Profiles.hpp and the three  *)
(* maps of TemperaturePlanner.cpp): three points of flow, temperature and   *)
(* pressure advance, joined by straight segments.                           *)
(*                                                                         *)
(* Quantities are integers; a segment is interpolated with the quotient     *)
(* rounded down, which keeps the order and the ends of the real segment.    *)
(***************************************************************************)
EXTENDS Integers

FilamentProfile ==
    [lowFlow : Int, midFlow : Int, highFlow : Int,
     lowTemp : Int, midTemp : Int, highTemp : Int,
     lowAdvance : Int, midAdvance : Int, highAdvance : Int,
     adjustPressureAdvance : BOOLEAN, speedQualityBias : Int]

\* FilamentProfile::validate adds no error.
ValidFilament(f) ==
    /\ f.lowFlow < f.midFlow /\ f.midFlow < f.highFlow
    /\ f.lowTemp <= f.midTemp /\ f.midTemp <= f.highTemp

\* lerp(a, b, fraction(value, lo, hi)) for lo < hi and value in lo .. hi.
Lerp(a, b, value, lo, hi) == a + ((b - a) * (value - lo)) \div (hi - lo)

FlowToTemperature(f, flow) ==
    IF flow <= f.lowFlow THEN f.lowTemp
    ELSE IF flow >= f.highFlow THEN f.highTemp
    ELSE IF flow <= f.midFlow
    THEN Lerp(f.lowTemp, f.midTemp, flow, f.lowFlow, f.midFlow)
    ELSE Lerp(f.midTemp, f.highTemp, flow, f.midFlow, f.highFlow)

\* Mutant of AtTemperature: the upper segment starts from the lower one's foot.
AtTemperatureFromLow(f, temperature, low, mid, high) ==
    IF temperature <= f.lowTemp THEN low
    ELSE IF temperature >= f.highTemp THEN high
    ELSE IF temperature <= f.midTemp
    THEN Lerp(low, mid, temperature, f.lowTemp, f.midTemp)
    ELSE Lerp(low, high, temperature, f.midTemp, f.highTemp)

\* The inverse direction, shared by flow and pressure advance.  The guards the
\* code keeps for coinciding temperatures are never reached behind the first
\* two tests: lowTemp < t <= midTemp already makes the segment proper.
AtTemperature(f, temperature, low, mid, high) ==
    IF temperature <= f.lowTemp THEN low
    ELSE IF temperature >= f.highTemp THEN high
    ELSE IF temperature <= f.midTemp
    THEN Lerp(low, mid, temperature, f.lowTemp, f.midTemp)
    ELSE Lerp(mid, high, temperature, f.midTemp, f.highTemp)

TemperatureToFlow(f, temperature) ==
    AtTemperature(f, temperature, f.lowFlow, f.midFlow, f.highFlow)

TemperatureToPressureAdvance(f, temperature) ==
    AtTemperature(f, temperature, f.lowAdvance, f.midAdvance, f.highAdvance)
=============================================================================
