--------------------------- MODULE MCGcodeRewriter ---------------------------
(* Small jobs for the rewriter: a body of a few lines, a plan of three        *)
(* buckets, a calibration whose values are not all printable exactly.         *)
EXTENDS RewriteThenCompare, TLC

L(kind, words) == [kind |-> kind, words |-> words, text |-> ""]
Bare == <<>>

Height == L("height", "V" :> 1)
Width == L("width", "V" :> 2)
End == L("end", Bare)
Header == L("header", Bare)
StartMacro == L("macro", "S" :> 4400)
Type(name) == [kind |-> "type", words |-> Bare, text |-> name]
Feed(f) == L("move", "F" :> f)
Bead(x, e) == L("move", "X" :> x @@ "E" :> e)
BeadF(x, e, f) == L("move", "X" :> x @@ "E" :> e @@ "F" :> f)
Travel(x, f) == L("move", "X" :> x @@ "F" :> f)
RetractF(f) == L("move", "E" :> -1 @@ "F" :> f)
RetractOnly == L("move", "E" :> -1)
Wipe(x) == L("move", "X" :> x @@ "E" :> -1)
Heat == L("temp", "S" :> 4100)
Tune == L("advance", "S" :> 450)
ZHop == L("move", "Z" :> 1)

MCFilament ==
    [lowFlow |-> 1, midFlow |-> 2, highFlow |-> 4,
     lowTemp |-> 3900, midTemp |-> 4000, highTemp |-> 4300,
     lowAdvance |-> 600, midAdvance |-> 500, highAdvance |-> 401,
     adjustPressureAdvance |-> TRUE, speedQualityBias |-> 5]

MCPlans == {[achievable |-> <<3900, 4001, 4205>>, seconds |-> <<1, 2, 4>>]}
HeatPlans == MCPlans \cup {[achievable |-> <<4205, 4001, 3900>>, seconds |-> <<1, 2, 4>>]}
NoPlans == MCPlans \cup {[achievable |-> <<>>, seconds |-> <<>>]}

Bounds(first, last) ==
    [bodyFirstLine |-> first, bodyLastLine |-> last, totalLines |-> last + 1]
ShortBody == {Bounds(2, 7)}
LongBody == {Bounds(1, 7)}

Option(max, min, pa, step, echo) ==
    [maxFlow |-> max, minFlow |-> min, adjustPressureAdvance |-> pa,
     temperatureStep |-> step, echoSlicerSpeed |-> echo]

\* A job: the lines of the file, where its body lies, the plan, the options.
\* The clamp at bare feedrates: no ceiling, with and without floor and echo.
ClampJob ==
    [lines |-> {Header, StartMacro, Height, Width, Feed(137), Feed(403), Bead(1, 1),
                BeadF(0, 2, 301), Travel(3, 211), RetractF(51), End},
     scans |-> ShortBody, plans |-> NoPlans,
     options |-> {Option(0, 0, FALSE, 2, TRUE), Option(0, 3, FALSE, 2, FALSE)}]

\* Temperature and pressure advance along a rising and a falling plan, and a
\* temperature and an advance of the slicer's own.
HeatJob ==
    [lines |-> {Height, Type("Sparse infill"), Type("Outer wall"), Bead(1, 1),
                Bead(2, 2), RetractOnly, Heat, Tune, End},
     scans |-> LongBody, plans |-> HeatPlans,
     options |-> {Option(0, 0, pa, step, FALSE) : pa \in BOOLEAN, step \in {2, 120}}]

\* The per-move cap under a ceiling, with and without a floor over it.
CapJob ==
    [lines |-> {Height, Width, Feed(90), Feed(403), Bead(1, 1), BeadF(3, 1, 401),
                Travel(0, 301), Wipe(2), End},
     scans |-> LongBody, plans |-> MCPlans,
     options |-> {Option(2, 0, FALSE, 2, FALSE), Option(2, 1, FALSE, 2, FALSE)}]

Jobs == {ClampJob, HeatJob, CapJob}
MCLines == UNION {job.lines : job \in Jobs}
MCScans == UNION {job.scans : job \in Jobs}
AllPlans == UNION {job.plans : job \in Jobs}
MCOptions == UNION {job.options : job \in Jobs}

\* The options tell which job a state belongs to.
MCInit ==
    /\ ComparedInit
    /\ \E job \in Jobs : scan \in job.scans /\ plan \in job.plans
                          /\ options \in job.options

JobLines == UNION {job.lines : job \in {j \in Jobs : options \in j.options}}

MCNext ==
    \/ Refuse \/ Begin \/ Cancel \/ EndOfFile
    \/ \E line \in {l \in JobLines : AgreesWithScan(lineNumber + 1, l)} :
           RewriteLine(line)

\* ComparedSpec with each file over the lines of its own job.
MCSpec == MCInit /\ [][MCNext /\ ExtractWritten]_comparedVars

\* A travel that is faster than the run the tracker believes in.
FasterTravelLines == {Height, Travel(0, 403), Feed(90), Bead(1, 1), Bead(4, 1), End}
CapOptions == CapJob.options
=============================================================================
