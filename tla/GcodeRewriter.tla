---------------------------- MODULE GcodeRewriter ----------------------------
(***************************************************************************)
(* The last pass over the file (GcodeRewriter.cpp): the slicer's lines go   *)
(* in one at a time, the rewritten ones come out.                           *)
(*                                                                         *)
(* Neither file is kept.  `sliced` is a printer that has executed the lines *)
(* read so far and `printed` one that has executed the lines written so     *)
(* far: what the rewriter promises is a relation between the two.  A turn   *)
(* writes at most three lines, which `written` holds.                       *)
(*                                                                         *)
(* Feedrates count halves of a mm/min, temperatures halves of 0.1 C, the    *)
(* pressure advance halves of 0.0001; filament, positions and bead          *)
(* dimensions are whole units, and pi is 3.                                 *)
(***************************************************************************)
EXTENDS FilamentCurve, TemperaturePlan, Firmware

CONSTANTS
    Lines,              \* the lines the file may consist of
    Scans,              \* [bodyFirstLine, bodyLastLine, totalLines] of the file
    Plans,              \* [achievable, seconds]: what the planner handed over
    Options,            \* RewriteOptions
    Filament,           \* FilamentProfile
    FilamentArea,       \* cross section of the filament
    HasStartMacro,      \* the extruder profile names a start macro and its token
    PollPeriod          \* lines between two looks at cancelRequested (0x4000)

ScanBounds == [bodyFirstLine : Nat, bodyLastLine : Nat, totalLines : Nat]

RewriteOptions ==
    [maxFlow : Nat, minFlow : Nat, adjustPressureAdvance : BOOLEAN,
     temperatureStep : Nat, echoSlicerSpeed : BOOLEAN]

ASSUME RewriterAssumption ==
    /\ \A line \in Lines : IsLine(line)
    /\ \A s \in Scans : /\ {s.bodyFirstLine, s.bodyLastLine, s.totalLines} \subseteq Nat
                        /\ 1 <= s.bodyFirstLine
                        /\ s.bodyFirstLine <= s.bodyLastLine
                        /\ s.bodyLastLine < s.totalLines
    /\ \A p \in Plans : /\ p.achievable \in Seq(Nat)
                        /\ p.seconds \in Seq(Nat)
                        /\ Len(p.achievable) = Len(p.seconds)
    /\ Options \subseteq RewriteOptions
    /\ Filament \in FilamentProfile
    /\ ValidFilament(Filament)
    /\ FilamentArea \in Nat \ {0}
    /\ HasStartMacro \in BOOLEAN
    /\ PollPeriod \in Nat \ {0}

VARIABLES
    scan, plan, options,        \* the inputs of the call
    status,                     \* where the call stands
    lineNumber,                 \* lines read
    layerHeight, lineWidth, feature,
    usedFilament,               \* the coordinate the plan is indexed by
    slicerFeedrate,             \* the most recent F word taken note of
    posX,                       \* tool position, for the per-move cap
    lastEmittedTemp, lastEmittedPa,
    headerMarkerWritten, startMacroRewritten,
    warned,                     \* "No temperature commands were emitted"
    written,                    \* the lines of the last step, NoLine for none
    sliced, printed             \* the printers behind input and output

inputs == <<scan, plan, options>>
geometry == <<layerHeight, lineWidth, feature>>
emitted == <<lastEmittedTemp, lastEmittedPa>>
marks == <<headerMarkerWritten, startMacroRewritten>>
rewriterVars == <<scan, plan, options, status, lineNumber, layerHeight, lineWidth,
                  feature, usedFilament, slicerFeedrate, posX, lastEmittedTemp,
                  lastEmittedPa, headerMarkerWritten, startMacroRewritten, warned,
                  written, sliced, printed>>

UnsetTemp == -20000         \* -1000 C
UnsetPa == -20000000        \* -1000
PaStep == 20                \* 0.001

\* No file and no calibration asks for less than 0 C or a negative advance, and a
\* step (0.1 C in the program) is less than the way up from lastEmittedTemp's -1000.
ASSUME SettingsAreNotNegative ==
    /\ \A line \in Lines :
           line.kind \in {"temp", "macro", "advance"} /\ Has(line, "S")
               => line.words["S"] >= 0
    /\ {Filament.lowAdvance, Filament.midAdvance, Filament.highAdvance} \subseteq Nat
    /\ \A o \in Options : o.temperatureStep <= -UnsetTemp

-----------------------------------------------------------------------------
(***************************************************************************)
(* The arithmetic of the clamp.                                            *)
(***************************************************************************)

\* extrusionArea in quarters: h * (w - h) + 3 * (h/2)^2.
ExtrusionArea4(h, w) ==
    IF h <= 0 \/ w <= 0 \/ w < h THEN 0 ELSE 4 * h * (w - h) + 3 * h * h

Planned(used) == TemperatureAtFilament(plan.achievable, plan.seconds, used)

\* Mutant of FlowBudget: the explicit ceiling is forgotten.
FlowBudgetUncapped(temperature) ==
    LET curve == TemperatureToFlow(Filament, temperature)
    IN  IF options.minFlow > curve THEN options.minFlow ELSE curve

\* The calibrated flow, under the ceiling, over the floor (0 disables either).
FlowBudget(temperature) ==
    LET curve == TemperatureToFlow(Filament, temperature)
        capped == IF options.maxFlow > 0 /\ options.maxFlow < curve
                  THEN options.maxFlow ELSE curve
    IN  IF options.minFlow > 0 /\ options.minFlow > capped
        THEN options.minFlow ELSE capped

\* 60 * flow / area, in halves.
FlowToFeedrate(flow, area4) == (2 * 60 * 4 * flow) \div area4

\* The feedrate the bead of the current markers may be laid at.
Recommended ==
    FlowToFeedrate(FlowBudget(Planned(usedFilament)),
                   ExtrusionArea4(layerHeight, lineWidth))

CanRecommend ==
    /\ Planned(usedFilament) # NoTemperature
    /\ ExtrusionArea4(layerHeight, lineWidth) > 0
    /\ FlowBudget(Planned(usedFilament)) > 0

\* Mutant of MaxFeedrate: a length of filament is taken for a volume.
MaxFeedrateOfLength(cap, extruded, distance) == (2 * 60 * cap * distance) \div extruded

\* 60 * cap / ((extruded / distance) * filamentArea), in halves.
MaxFeedrate(cap, extruded, distance) ==
    (2 * 60 * cap * distance) \div (extruded * FilamentArea)

\* Mutant of FeatureOf: the slicer's text is kept as it stands.
FeatureVerbatim(text) == text

FeatureOf(text) ==
    CASE text \in {"Outer wall", "External perimeter"} -> "OuterWall"
      [] text \in {"Inner wall", "Perimeter"} -> "InnerWall"
      [] text \in {"Sparse infill", "Internal infill"} -> "SparseInfill"
      [] text \in {"Internal solid infill", "Solid infill"} -> "InternalSolidInfill"
      [] text \in {"Top surface", "Top solid infill"} -> "TopSurface"
      [] text \in {"Bridge", "Bridge infill", "External bridge"} -> "Bridge"
      [] text \in {"Internal Bridge", "Internal bridge"} -> "InternalBridge"
      [] text \in {"Support", "Support material"} -> "Support"
      [] text \in {"Overhang wall", "Overhang perimeter"} -> "Overhang"
      [] text \in {"Skirt", "Brim", "Skirt/Brim"} -> "Skirt"
      [] OTHER -> "Unknown"

\* The lines the rewriter writes of its own.
Command(kind, letter, value) ==
    [kind |-> kind, words |-> [c \in {letter} |-> value], text |-> ""]
FeedrateLine(value) == Command("move", "F", value)
TemperatureLine(value) == Command("temp", "S", value)
AdvanceLine(value) == Command("advance", "S", value)

\* kProcessedMarker: what a later scan refuses the output for.
StampLine == [kind |-> "stamp", words |-> <<>>, text |-> ""]

\* Nothing at all, in the place of a line that is not written.
NoLine == [kind |-> "other", words |-> <<>>, text |-> ""]
NeededLine(needed, line) == IF needed THEN line ELSE NoLine

Nothing == <<NoLine, NoLine, NoLine>>
Alone(line) == <<NoLine, NoLine, line>>

ExecuteAll(m, lines) == Execute(Execute(Execute(m, lines[1]), lines[2]), lines[3])

-----------------------------------------------------------------------------
(***************************************************************************)
(* The call, and one action per branch of the loop body.  The guards of a   *)
(* branch are the negations of those before it.                             *)
(***************************************************************************)

FreshCall ==
    /\ status = "called"
    /\ lineNumber = 0
    /\ layerHeight = 0 /\ lineWidth = 0 /\ feature = "Unknown"
    /\ usedFilament = 0 /\ slicerFeedrate = 0 /\ posX = 0
    /\ lastEmittedTemp = UnsetTemp /\ lastEmittedPa = UnsetPa
    /\ headerMarkerWritten = FALSE /\ startMacroRewritten = FALSE
    /\ warned = FALSE
    /\ written = Nothing
    /\ sliced = IdleMachine /\ printed = IdleMachine

RewriterInit ==
    /\ scan \in Scans /\ plan \in Plans /\ options \in Options
    /\ FreshCall

HasPlan == plan.achievable # <<>> /\ plan.seconds # <<>>

\* There is no plan to apply, and nothing is written.
Refuse ==
    /\ status = "called" /\ ~HasPlan
    /\ status' = "refused"
    /\ UNCHANGED <<inputs, lineNumber, geometry, usedFilament, slicerFeedrate,
                   posX, emitted, marks, warned, written, sliced, printed>>

Begin ==
    /\ status = "called" /\ HasPlan
    /\ status' = "rewriting"
    /\ UNCHANGED <<inputs, lineNumber, geometry, usedFilament, slicerFeedrate,
                   posX, emitted, marks, warned, written, sliced, printed>>

\* Mutant of InBody: the last line of the body is left out.
InBodyExclusive(n) == scan.bodyFirstLine <= n /\ n < scan.bodyLastLine

InBody(n) == scan.bodyFirstLine <= n /\ n <= scan.bodyLastLine

\* What every turn of the loop that ends in output does.
Consume(line) ==
    /\ status = "rewriting"
    /\ lineNumber < scan.totalLines
    /\ lineNumber' = lineNumber + 1
    /\ sliced' = Execute(sliced, line)
    /\ UNCHANGED <<inputs, status, warned>>

\* The line that is polled on is read and not written.
Cancel ==
    /\ status = "rewriting"
    /\ lineNumber < scan.totalLines
    /\ (lineNumber + 1) % PollPeriod = 0
    /\ lineNumber' = lineNumber + 1
    /\ status' = "cancelled"
    /\ written' = Nothing
    /\ UNCHANGED <<inputs, geometry, usedFilament, slicerFeedrate, posX, emitted,
                   marks, warned, sliced, printed>>

IsHeader(line) == ~headerMarkerWritten /\ line.kind = "header"

\* The start macro with its temperature token, wherever the first one stands.
IsStartMacro(line) ==
    /\ ~startMacroRewritten /\ HasStartMacro
    /\ line.kind = "macro" /\ Has(line, "S")

\* The stamp goes behind the header line.  A file without one is never stamped.
StampHeader(line) ==
    /\ Consume(line)
    /\ IsHeader(line)
    /\ headerMarkerWritten' = TRUE
    /\ written' = <<NoLine, line, StampLine>>
    /\ UNCHANGED <<geometry, usedFilament, slicerFeedrate, posX, emitted,
                   startMacroRewritten>>

\* The first layer's temperature; no M104 is remembered for it.
RewriteStartMacro(line) ==
    /\ Consume(line)
    /\ IsStartMacro(line)
    /\ startMacroRewritten' = TRUE
    /\ written' = Alone([line EXCEPT !.words =
                             [@ EXCEPT !["S"] = FormatNumber(plan.achievable[1])]])
    /\ UNCHANGED <<geometry, usedFilament, slicerFeedrate, posX, emitted,
                   headerMarkerWritten>>

CopyOutside(line) ==
    /\ Consume(line)
    /\ ~IsHeader(line) /\ ~IsStartMacro(line)
    /\ ~InBody(lineNumber')
    /\ written' = Alone(line)
    /\ UNCHANGED <<geometry, usedFilament, slicerFeedrate, posX, emitted, marks>>

\* A line of the body that neither of the first two branches took.
ConsumeInBody(line) ==
    /\ Consume(line)
    /\ ~IsHeader(line) /\ ~IsStartMacro(line)
    /\ InBody(lineNumber')
    /\ UNCHANGED marks

\* ;HEIGHT:, ;WIDTH: and ;TYPE:.  "; Z_HEIGHT:" is not among them.
ReadMarker(line) ==
    /\ ConsumeInBody(line)
    /\ line.kind \in {"height", "width", "type"}
    /\ layerHeight' = IF line.kind = "height" THEN Word(line, "V", layerHeight)
                      ELSE layerHeight
    /\ lineWidth' = IF line.kind = "width" THEN Word(line, "V", lineWidth)
                    ELSE lineWidth
    /\ feature' = IF line.kind = "type" THEN FeatureOf(line.text) ELSE feature
    /\ written' = Alone(line)
    /\ UNCHANGED <<usedFilament, slicerFeedrate, posX, emitted>>

IsMarker(line) == line.kind \in {"height", "width", "type"}
IsRetraction(line) == ~IsMarker(line) /\ Word(line, "E", 0) < 0

\* Copied; its F word becomes the slicer's feedrate, its X word is not tracked.
Retract(line) ==
    /\ ConsumeInBody(line)
    /\ IsRetraction(line)
    /\ slicerFeedrate' = Word(line, "F", slicerFeedrate)
    /\ written' = Alone(line)
    /\ UNCHANGED <<geometry, usedFilament, posX, emitted>>

\* Mutant of IsBareFeedrate: a travel with a feedrate is taken for a bare one.
IsAnyFeedrate(line) == IsMove(line) /\ Has(line, "F") /\ ~Has(line, "E")

IsBareFeedrate(line) ==
    /\ IsMove(line) /\ Has(line, "F")
    /\ \A letter \in {"E", "X", "Z"} : ~Has(line, letter)

\* Mutant of Clamps: the comparison with the slicer's feedrate is left out.
ClampsAlways(feedrate) == CanRecommend

\* Speed is clamped downward only.
Clamps(feedrate) == CanRecommend /\ Recommended < feedrate

\* "G1 F9000": the echo, then the recommended speed, supersede it.
ReduceFeedrate(line) ==
    /\ ConsumeInBody(line)
    /\ IsBareFeedrate(line)
    /\ Clamps(Word(line, "F", 0))
    /\ slicerFeedrate' = Word(line, "F", 0)
    /\ written' = <<NoLine,
                    NeededLine(options.echoSlicerSpeed,
                               FeedrateLine(FormatNumber(slicerFeedrate'))),
                    FeedrateLine(Round(Recommended))>>
    /\ UNCHANGED <<geometry, usedFilament, posX, emitted>>

KeepFeedrate(line) ==
    /\ ConsumeInBody(line)
    /\ IsBareFeedrate(line)
    /\ ~Clamps(Word(line, "F", 0))
    /\ slicerFeedrate' = Word(line, "F", 0)
    /\ written' = Alone(FeedrateLine(FormatNumber(slicerFeedrate')))
    /\ UNCHANGED <<geometry, usedFilament, posX, emitted>>

IsOrdinary(line) == ~IsMarker(line) /\ ~IsRetraction(line) /\ ~IsBareFeedrate(line)

\* Everything else that does not extrude: travel, Z moves, fans, arcs, M104.
CopyInBody(line) ==
    /\ ConsumeInBody(line)
    /\ IsOrdinary(line) /\ ~IsExtrudingMove(line)
    /\ posX' = Word(line, "X", posX)
    /\ written' = Alone(line)
    /\ UNCHANGED <<geometry, usedFilament, slicerFeedrate, emitted>>

\* The feedrate the rewriter believes a move runs at.
Effective(line) == Word(line, "F", slicerFeedrate)

\* The per-move cap, engaged only by an explicit ceiling.
MoveCap(line) ==
    MaxFeedrate(FlowBudget(Planned(usedFilament')), Word(line, "E", 0),
                AbsDiff(Word(line, "X", posX), posX))

IsCapped(line) ==
    /\ options.maxFlow > 0
    /\ Word(line, "X", posX) # posX
    /\ Effective(line) > 0
    /\ FlowBudget(Planned(usedFilament')) > 0
    /\ MoveCap(line) < Effective(line)

\* The F word is replaced where there is one and appended where there is none.
CapMove(line) ==
    IF Has(line, "F")
    THEN [line EXCEPT !.words = [@ EXCEPT !["F"] = Round(MoveCap(line))]]
    ELSE AppendWord(line, "F", Round(MoveCap(line)))

\* Mutant of NeedsTemp: only a rise is worth a command.
NeedsTempRise(planned) == planned - lastEmittedTemp >= options.temperatureStep

NeedsTemp(planned) ==
    AbsDiff(planned, lastEmittedTemp) >= options.temperatureStep

NeedsAdvance(advance) ==
    /\ options.adjustPressureAdvance /\ Filament.adjustPressureAdvance
    /\ AllowsPressureAdvanceChange(feature)
    /\ AbsDiff(advance, lastEmittedPa) >= PaStep

\* An extruding move: first the temperature the plan holds for the filament it
\* ends at, then the pressure advance, then the move, capped or as it was.
Extrude(line) ==
    LET planned == Planned(usedFilament')
        advance == TemperatureToPressureAdvance(Filament, planned)
    IN  /\ ConsumeInBody(line)
        /\ IsOrdinary(line) /\ IsExtrudingMove(line)
        /\ usedFilament' = usedFilament + Word(line, "E", 0)
        /\ lastEmittedTemp' = IF NeedsTemp(planned) THEN planned
                              ELSE lastEmittedTemp
        /\ lastEmittedPa' = IF NeedsAdvance(advance) THEN advance
                            ELSE lastEmittedPa
        /\ written' = <<NeededLine(NeedsTemp(planned),
                                   TemperatureLine(FormatNumber(planned))),
                        NeededLine(NeedsAdvance(advance),
                                   AdvanceLine(FormatNumber(advance))),
                        IF IsCapped(line) THEN CapMove(line) ELSE line>>
        /\ posX' = Word(line, "X", posX)
        /\ UNCHANGED <<geometry, slicerFeedrate>>

\* getline fails.
EndOfFile ==
    /\ status = "rewriting"
    /\ lineNumber = scan.totalLines
    /\ status' = "done"
    /\ warned' = (lastEmittedTemp = UnsetTemp)
    /\ written' = Nothing
    /\ UNCHANGED <<inputs, lineNumber, geometry, usedFilament, slicerFeedrate,
                   posX, emitted, marks, sliced, printed>>

RewriteLine(line) ==
    /\ \/ StampHeader(line)
       \/ RewriteStartMacro(line)
       \/ CopyOutside(line)
       \/ ReadMarker(line)
       \/ Retract(line)
       \/ ReduceFeedrate(line)
       \/ KeepFeedrate(line)
       \/ CopyInBody(line)
       \/ Extrude(line)
    /\ printed' = ExecuteAll(printed, written')

\* The file is the one that was scanned: the body is where the scan found it.
AgreesWithScan(n, line) ==
    /\ n < scan.bodyFirstLine => line.kind \notin {"height", "zheight"}
    /\ n = scan.bodyFirstLine => line.kind \in {"height", "zheight"}
    /\ InBody(n) => line.kind # "end"
    /\ n = scan.bodyLastLine + 1 => line.kind = "end"

RewriterNext ==
    \/ Refuse \/ Begin \/ Cancel \/ EndOfFile
    \/ \E line \in {l \in Lines : AgreesWithScan(lineNumber + 1, l)} :
           RewriteLine(line)

RewriterSpec == RewriterInit /\ [][RewriterNext]_rewriterVars

-----------------------------------------------------------------------------
(***************************************************************************)
(* Properties                                                              *)
(***************************************************************************)

\* The step carries out an extruding move of the body.
Extrudes == usedFilament' # usedFilament

\* Speed is clamped downward only: with no explicit ceiling the printer behind
\* the output never runs at a higher modal feedrate than the one behind the
\* slicer's file, beyond the half mm/min that printing an integer may add.
NeverFaster == options.maxFlow = 0 => printed.feed <= sliced.feed + 1

\* The rewriter changes how fast and how hot, never what is drawn: after every
\* line the two printers have made the same motion to the same place.
SamePath ==
    /\ printed.pos = sliced.pos
    /\ printed.last.op = sliced.last.op
    /\ printed.last.length = sliced.last.length
    /\ printed.last.filament = sliced.last.filament

\* Whenever a bead of the body is laid, the nozzle's target is within one
\* temperature step (and the rounding of its print) of the plan for the filament
\* the bead ends at: the first bead whatever the file has set before it, the
\* others in a file that sets no temperature of its own.
TargetFollowsPlan ==
    Extrudes /\ (sliced.target = NeverSet \/ lastEmittedTemp = UnsetTemp) =>
        AbsDiff(printed'.target, Planned(usedFilament')) <= options.temperatureStep + 1

\* A concealed bead is laid with the advance of its planned temperature, and behind
\* any other line than one that sets it the advance stays what it was.
AdvanceFollowsPlan ==
    IF Extrudes /\ AllowsPressureAdvanceChange(feature)
    THEN (/\ options.adjustPressureAdvance /\ Filament.adjustPressureAdvance
          /\ (sliced.advance = NeverSet \/ lastEmittedPa = UnsetPa))
         => AbsDiff(printed'.advance, TemperatureToPressureAdvance(
                        Filament, Planned(usedFilament'))) <= PaStep
    ELSE written'[3].kind # "advance" => printed'.advance = printed.advance

\* A command is only written when the plan has moved on by a step, so the printer
\* runs on what was written last: it must never fall behind the plan, however
\* many small changes, unretractions, features and markers lie in between.
CommandsFollowPlan == [][TargetFollowsPlan /\ AdvanceFollowsPlan]_rewriterVars

\* The flow of a machine's last bead is at most `flow`, half a mm/min aside.
FlowWithin(motion, flow) ==
    (motion.feed - 1) * motion.filament * FilamentArea <= 120 * flow * motion.length

\* With an explicit ceiling every bead of the body stays within the budget of
\* its temperature, as long as the rewriter's picture of the printer is right:
\* it has the tool's position, and its feedrate is not below the modal one.  The
\* move must be able to take an F word (one behind a comment is part of it), and a
\* budget that the calibration makes 0 or less stands for no ceiling at all.
CapHoldsWhenTracked ==
    [][(/\ Extrudes /\ options.maxFlow > 0
        /\ posX = printed.pos
        /\ printed.feed <= slicerFeedrate + 1
        /\ printed'.last.length > 0
        /\ (Has(written'[3], "F") \/ written'[3].text = "")
        /\ FlowBudget(Planned(usedFilament')) > 0)
       => FlowWithin(printed'.last, FlowBudget(Planned(usedFilament')))]_rewriterVars

\* "a hard flow limit actually hold[s]": without CapHoldsWhenTracked's premises.
CapHolds ==
    [][Extrudes /\ options.maxFlow > 0 /\ printed'.last.length > 0 =>
           FlowWithin(printed'.last, FlowBudget(Planned(usedFilament')))]_rewriterVars
=============================================================================
