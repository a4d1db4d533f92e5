---------------------------- MODULE GcodeScanner ----------------------------
(***************************************************************************)
(* The first pass over a G-code file (GcodeScanner.cpp): one forward read   *)
(* that locates the print body, measures its filament, marks its layers and *)
(* decides whether the file may be processed at all.                        *)
(*                                                                         *)
(* The file is an unconstrained input: the lines appear one at a time, so   *)
(* every file of at most MaxLines lines over Lines is scanned.              *)
(***************************************************************************)
EXTENDS GcodeText, Sequences, FiniteSetsExt

CONSTANTS
    Lines,      \* the lines a file may consist of
    MaxLines    \* bound on the length of a file

ASSUME ScannerAssumption ==
    /\ \A line \in Lines : IsLine(line)
    /\ MaxLines \in Nat

VARIABLES
    file,       \* the lines read so far, so Len(file) is the code's lineNumber
    scan,       \* ScanResult, filled in as the pass advances
    errors,     \* codes of the error diagnostics the pass has added
    scanning,   \* FALSE once scan() has returned
    trail       \* trail[n] = bodyFilament when line n had been read (history)

scannerVars == <<file, scan, errors, scanning, trail>>

Identities == {"printer_settings_id", "filament_settings_id", "filament_type"}

\* The value of an identity: none yet, or one the file states.
Texts == {""} \cup {line.text : line \in Lines}

LayerMark == [usedFilament : Int, height : Int, line : Nat]

ScanResult ==
    [extrusionMode : {"Unknown", "Relative", "Absolute"},
     alreadyProcessed : BOOLEAN,
     bodyFirstLine : Nat, bodyLastLine : Nat,
     ids : [Identities -> Texts],
     slicerEstimatedTime : Int, totalLines : Nat,
     layers : Seq(LayerMark), bodyFilament : Int]

EmptyScan ==
    [extrusionMode |-> "Unknown", alreadyProcessed |-> FALSE,
     bodyFirstLine |-> 0, bodyLastLine |-> 0,
     ids |-> [id \in Identities |-> ""],
     slicerEstimatedTime |-> 0, totalLines |-> 0,
     layers |-> <<>>, bodyFilament |-> 0]

IsLayerMarker(line) == line.kind \in {"height", "zheight"}
IsEndMarker(line) == line.kind = "end"

HasPrintBody(s) == s.bodyFirstLine > 0 /\ s.bodyLastLine >= s.bodyFirstLine

\* Mutant of InOpenBody: the end marker does not end the tracking.
BodyNeverEnds(s) == s.bodyFirstLine # 0

InOpenBody(s) == s.bodyFirstLine # 0 /\ s.bodyLastLine = 0

(***************************************************************************)
(* The stages one line goes through, in the order of the loop body.         *)
(***************************************************************************)

\* Mutant of ReadMode: the last extrusion-mode command wins.
ReadLastMode(s, line) ==
    IF line.kind \in {"M82", "M83"}
    THEN [s EXCEPT !.extrusionMode =
                       IF line.kind = "M83" THEN "Relative" ELSE "Absolute"]
    ELSE s

\* The first extrusion-mode command wins; sawExtrusionMode is mode # Unknown.
ReadMode(s, line) ==
    IF s.extrusionMode = "Unknown" /\ line.kind \in {"M82", "M83"}
    THEN [s EXCEPT !.extrusionMode =
                       IF line.kind = "M83" THEN "Relative" ELSE "Absolute"]
    ELSE s

ReadStamp(s, line) ==
    [s EXCEPT !.alreadyProcessed = @ \/ line.kind = "stamp"]

\* Mutant of OpenBody: the body starts behind its first marker.
OpenBodyBehindMarker(s, n, line) ==
    IF s.bodyFirstLine = 0 /\ IsLayerMarker(line)
    THEN [s EXCEPT !.bodyFirstLine = n + 1]
    ELSE s

\* The line that marks the start belongs to the body.
OpenBody(s, n, line) ==
    IF s.bodyFirstLine = 0 /\ IsLayerMarker(line)
    THEN [s EXCEPT !.bodyFirstLine = n]
    ELSE s

\* Mutant of NewMark: the line number is taken before it is counted.
NewMarkZeroBased(s, n, line) ==
    [usedFilament |-> s.bodyFilament, height |-> Word(line, "V", 0), line |-> n - 1]

\* A height that does not parse stays at its default.
NewMark(s, n, line) ==
    [usedFilament |-> s.bodyFilament, height |-> Word(line, "V", 0), line |-> n]

\* Inside the body a marker starts a layer and an extruding move adds filament.
TrackBody(s, n, line) ==
    IF ~InOpenBody(s) THEN s
    ELSE IF IsLayerMarker(line) THEN
        [s EXCEPT !.layers = Append(@, NewMark(s, n, line))]
    ELSE IF IsExtrudingMove(line) THEN
        [s EXCEPT !.bodyFilament = @ + Word(line, "E", 0)]
    ELSE s

\* Mutant of CloseBody: the end marker belongs to the body.
CloseBodyAtMarker(s, n, line) ==
    IF InOpenBody(s) /\ IsEndMarker(line)
    THEN [s EXCEPT !.bodyLastLine = n]
    ELSE s

\* The line that marks the end does not.
CloseBody(s, n, line) ==
    IF InOpenBody(s) /\ IsEndMarker(line)
    THEN [s EXCEPT !.bodyLastLine = n - 1]
    ELSE s

\* The slicer's identity comments: the first value that is not empty is kept.
ReadIdentity(s, line) ==
    IF line.kind \in Identities /\ s.ids[line.kind] = ""
    THEN [s EXCEPT !.ids[line.kind] = line.text]
    ELSE s

ReadEstimate(s, line) ==
    IF line.kind = "estimate" /\ s.slicerEstimatedTime <= 0
    THEN [s EXCEPT !.slicerEstimatedTime = Word(line, "V", 0)]
    ELSE s

ScanLine(s, n, line) ==
    LET preconditions == ReadStamp(ReadMode(s, line), line)
        body == CloseBody(TrackBody(OpenBody(preconditions, n, line), n, line),
                          n, line)
    IN  ReadEstimate(ReadIdentity(body, line), line)

\* What scan() reports when the stream has ended.
Diagnose(s, n) ==
    IF n = 0 THEN {"FileEmpty"}
    ELSE UNION {
        IF s.alreadyProcessed THEN {"AlreadyProcessed"} ELSE {},
        CASE s.extrusionMode = "Absolute" -> {"AbsoluteExtrusionUnsupported"}
          [] s.extrusionMode = "Unknown" -> {"ExtrusionModeUnknown"}
          [] OTHER -> {},
        IF HasPrintBody(s) THEN {} ELSE {"PrintBodyNotFound"}}

-----------------------------------------------------------------------------

ScannerInit ==
    /\ file = <<>>
    /\ scan = EmptyScan
    /\ errors = {}
    /\ scanning = TRUE
    /\ trail = <<>>

\* One turn of the getline loop.
ReadLine(line) ==
    /\ scanning
    /\ Len(file) < MaxLines
    /\ file' = Append(file, line)
    /\ scan' = ScanLine(scan, Len(file) + 1, line)
    /\ trail' = Append(trail, scan'.bodyFilament)
    /\ UNCHANGED <<errors, scanning>>

\* getline fails: the totals and the diagnostics.
FinishScan ==
    /\ scanning
    /\ scan' = [scan EXCEPT !.totalLines = Len(file)]
    /\ errors' = Diagnose(scan, Len(file))
    /\ scanning' = FALSE
    /\ UNCHANGED <<file, trail>>

ScannerNext ==
    \/ \E line \in Lines : ReadLine(line)
    \/ FinishScan

ScannerSpec == ScannerInit /\ [][ScannerNext]_scannerVars

-----------------------------------------------------------------------------
(***************************************************************************)
(* Properties                                                              *)
(***************************************************************************)

ScannerTypeOK ==
    /\ file \in Seq(Lines)
    /\ scan \in ScanResult
    /\ scan.bodyFirstLine <= Len(file)
    /\ scan.bodyLastLine <= Len(file)
    /\ Len(trail) = Len(file)
    /\ errors \subseteq {"FileEmpty", "AlreadyProcessed", "PrintBodyNotFound",
                         "AbsoluteExtrusionUnsupported", "ExtrusionModeUnknown"}
    /\ scanning \in BOOLEAN
    /\ trail \in Seq(Int)

FirstLine(Test(_)) == Min({n \in DOMAIN file : Test(file[n])} \cup {Len(file) + 1})

\* The body as the documentation draws it, from the whole file at once.
BodyStart == FirstLine(IsLayerMarker)
BodyEnd == Min({n \in BodyStart .. Len(file) : IsEndMarker(file[n])}
                   \cup {Len(file) + 1})
Fed == [n \in DOMAIN file |->
           IF IsExtrudingMove(file[n]) THEN Word(file[n], "E", 0) ELSE 0]
FilamentOf(lines) == MapThenSumSet(LAMBDA n : Fed[n], lines)

\* The incremental pass over the file measures exactly the body: the lines from
\* the first layer marker to the one before the first end marker behind it, the
\* filament of the extruding moves between them, and nothing of either macro.
MeasuresTheBody ==
    LET n == Len(file)
    IN  /\ scan.bodyFirstLine = (IF BodyStart > n THEN 0 ELSE BodyStart)
        /\ scan.bodyLastLine = (IF BodyEnd > n THEN 0 ELSE BodyEnd - 1)
        /\ scan.bodyFilament = FilamentOf(BodyStart .. (BodyEnd - 1))

\* Every layer marker of the body starts one layer, in file order, at the
\* filament that lines of the body before it extrude: the position the planner
\* looks the layer up at.
LayersMarkTheBody ==
    /\ {scan.layers[k].line : k \in DOMAIN scan.layers} =
           {n \in BodyStart .. (BodyEnd - 1) : IsLayerMarker(file[n])}
    /\ \A k \in DOMAIN scan.layers :
           LET mark == scan.layers[k]
           IN  /\ k > 1 => scan.layers[k - 1].line < mark.line
               /\ mark.usedFilament = FilamentOf(BodyStart .. mark.line)

\* A file the scan lets through carries no stamp, first declares relative
\* extrusion, and has a body that opens with a layer and is closed.  The body may
\* extrude nothing: a layer marker directly before the end marker is let through.
AcceptedIsPrintable ==
    ~scanning /\ errors = {} =>
        /\ \A n \in DOMAIN file : file[n].kind # "stamp"
        /\ file[FirstLine(LAMBDA l : l.kind \in {"M82", "M83"})].kind = "M83"
        /\ scan.layers[1].line = BodyStart
        /\ BodyEnd \in DOMAIN file

\* Every layer mark holds the filament the pass had counted when it read the
\* marker, so the two records of one position never part.
MarksFollowTheTrail ==
    \A k \in DOMAIN scan.layers :
        /\ scan.layers[k].line \in DOMAIN trail
        /\ scan.layers[k].usedFilament = trail[scan.layers[k].line]

\* Once the end marker has closed the body nothing behind it, a second layer
\* marker or a purge move of the end macro, reopens it or adds to it.
ClosedBodyIsFinal ==
    [][scan.bodyLastLine # 0 =>
           UNCHANGED <<scan.bodyFirstLine, scan.bodyLastLine,
                       scan.layers, scan.bodyFilament>>]_scannerVars

=============================================================================
