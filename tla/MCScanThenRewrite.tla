-------------------------- MODULE MCScanThenRewrite --------------------------
(* Whole files, scanned and, where the scan accepts them, rewritten.  A file   *)
(* is written over one of four small alphabets (OneFamily, the bound).         *)
EXTENDS ScanThenRewrite, TLC

L(kind, words) == [kind |-> kind, words |-> words, text |-> ""]
Marker(kind, value) == L(kind, "V" :> value)
Bare(kind) == L(kind, <<>>)
Named(kind, value) == [kind |-> kind, words |-> <<>>, text |-> value]
Bead(x, e) == L("move", "X" :> x @@ "E" :> e)
Unretract == L("move", "E" :> 2)
Retraction == L("move", "E" :> -2)

\* Files that may be accepted, with moves that extrude, retract or unretract.
FileLines ==
    {Bare("M83"), Marker("height", 1), Bead(1, 1), Unretract, Retraction, Bare("end")}

\* Bodies: markers of both slicers, beads of different sizes.
BodyLines ==
    {Marker("height", 4), Marker("zheight", 2), Bead(1, 1), Bead(3, 2), Unretract,
     Bare("end")}

\* Preconditions: modes, stamps, a body of two lines.
HeaderLines ==
    {Bare("M82"), Bare("M83"), Bare("stamp"), Marker("height", 4), Bare("end"),
     Bead(1, 1)}

\* Identities and the slicer's own estimate, empty and repeated.
IdentityLines ==
    {Named("filament_type", "PLA"), Named("filament_type", "PETG"),
     Named("filament_type", ""), Named("printer_settings_id", "A"),
     Named("filament_settings_id", "B"), Marker("estimate", 0),
     Marker("estimate", 60), Marker("estimate", 90)}

MCLines == FileLines \cup BodyLines \cup HeaderLines \cup IdentityLines

\* The alphabets and the length of the files over each of them.
OneFamily ==
    LET Over(lines, length) ==
            Len(file) <= length /\ \A n \in DOMAIN file : file[n] \in lines
    IN  \/ Over(FileLines, 6) \/ Over(BodyLines, 5)
        \/ Over(HeaderLines, 5) \/ Over(IdentityLines, 4)

MCFilament ==
    [lowFlow |-> 1, midFlow |-> 2, highFlow |-> 4,
     lowTemp |-> 3900, midTemp |-> 4000, highTemp |-> 4300,
     lowAdvance |-> 0, midAdvance |-> 0, highAdvance |-> 0,
     adjustPressureAdvance |-> FALSE, speedQualityBias |-> 5]
MCPlans == {[achievable |-> <<3900, 4100>>, seconds |-> <<1, 3>>]}
MCOptions == {[maxFlow |-> 0, minFlow |-> 0, adjustPressureAdvance |-> FALSE,
               temperatureStep |-> 2, echoSlicerSpeed |-> FALSE]}
=============================================================================
