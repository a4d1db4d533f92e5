------------------------- MODULE GcodeRewriter_proofs -------------------------
(***************************************************************************)
(* What the rewriter promises of its output's printer, for every file, plan, *)
(* calibration and setting: the same path, never a higher speed, the target *)
(* and the advance of the plan, and the ceiling where it is kept track of;   *)
(* and what the compare command reads of that output.                       *)
(***************************************************************************)
EXTENDS RewriteThenCompare, SetSums, SequenceTheorems

-----------------------------------------------------------------------------
(***************************************************************************)
(* The arithmetic of the clamp is defined wherever it is used.              *)
(***************************************************************************)

\* lerp over a proper segment.
LEMMA LerpInt ==
    ASSUME NEW a \in Int, NEW b \in Int, NEW value \in Int, NEW lo \in Int,
           NEW hi \in Int, lo < hi
    PROVE  Lerp(a, b, value, lo, hi) \in Int
<1>1. hi - lo \in Nat /\ hi - lo > 0 /\ (b - a) * (value - lo) \in Int
  OBVIOUS
<1>2. \A x \in Int, d \in Nat : d > 0 => x \div d \in Int
  OBVIOUS
<1> QED BY <1>1, <1>2 DEF Lerp

LEMMA FlowInt ==
    ASSUME NEW temperature \in Int
    PROVE  TemperatureToFlow(Filament, temperature) \in Int
<1>1. /\ Filament.lowFlow \in Int /\ Filament.midFlow \in Int /\ Filament.highFlow \in Int
      /\ Filament.lowTemp \in Int /\ Filament.midTemp \in Int /\ Filament.highTemp \in Int
  BY RewriterAssumption DEF RewriterAssumption, FilamentProfile
<1>2. CASE temperature <= Filament.lowTemp \/ temperature >= Filament.highTemp
  BY <1>1, <1>2 DEF TemperatureToFlow, AtTemperature
<1>3. CASE /\ ~(temperature <= Filament.lowTemp) /\ ~(temperature >= Filament.highTemp)
           /\ temperature <= Filament.midTemp
  <2>1. TemperatureToFlow(Filament, temperature)
          = Lerp(Filament.lowFlow, Filament.midFlow, temperature, Filament.lowTemp,
                 Filament.midTemp)
    BY <1>1, <1>3 DEF TemperatureToFlow, AtTemperature
  <2>2. Filament.lowTemp < Filament.midTemp
    BY <1>1, <1>3
  <2>3. Lerp(Filament.lowFlow, Filament.midFlow, temperature, Filament.lowTemp,
                 Filament.midTemp) \in Int
    BY <1>1, <2>2, LerpInt
  <2> QED BY <2>1, <2>3
<1>4. CASE /\ ~(temperature <= Filament.lowTemp) /\ ~(temperature >= Filament.highTemp)
           /\ ~(temperature <= Filament.midTemp)
  <2>1. TemperatureToFlow(Filament, temperature)
          = Lerp(Filament.midFlow, Filament.highFlow, temperature, Filament.midTemp,
                 Filament.highTemp)
    BY <1>1, <1>4 DEF TemperatureToFlow, AtTemperature
  <2>2. Filament.midTemp < Filament.highTemp
    BY <1>1, <1>4
  <2>3. Lerp(Filament.midFlow, Filament.highFlow, temperature, Filament.midTemp,
                 Filament.highTemp) \in Int
    BY <1>1, <2>2, LerpInt
  <2> QED BY <2>1, <2>3
<1> QED BY <1>2, <1>3, <1>4

LEMMA BudgetInt ==
    ASSUME NEW temperature \in Int, options \in Options
    PROVE  FlowBudget(temperature) \in Int
<1>1. options.maxFlow \in Int /\ options.minFlow \in Int
  BY RewriterAssumption DEF RewriterAssumption, RewriteOptions
<1> QED BY <1>1, FlowInt DEF FlowBudget

LEMMA NumbersOfASeq ==
    ASSUME NEW s \in Seq(Nat)
    PROVE  \A i \in 1 .. Len(s) : s[i] \in Nat
OBVIOUS

\* A plan that is not empty has a temperature for every position.
LEMMA PlannedNat ==
    ASSUME plan \in Plans, HasPlan, NEW used \in Nat
    PROVE  Planned(used) \in Nat
<1> DEFINE n == Len(plan.seconds)
           S == {i \in 1 .. n : plan.seconds[i] >= used}
<1>1. /\ plan.achievable \in Seq(Nat) /\ plan.seconds \in Seq(Nat)
      /\ Len(plan.achievable) = n
  BY RewriterAssumption DEF RewriterAssumption
<1>2. n \in Nat /\ n # 0
  BY <1>1 DEF HasPlan
<1>3. /\ \A i \in 1 .. n : plan.achievable[i] \in Nat /\ plan.seconds[i] \in Nat
      /\ 1 \in 1 .. n /\ n \in 1 .. n
  <2>1. n \in Nat /\ Len(plan.achievable) = n /\ Len(plan.seconds) = n
    BY <1>1, <1>2
  <2> HIDE DEF n
  <2>2. \A i \in 1 .. n : plan.achievable[i] \in Nat
    BY <1>1, <2>1, NumbersOfASeq
  <2>3. \A i \in 1 .. n : plan.seconds[i] \in Nat
    BY <1>1, <2>1, NumbersOfASeq
  <2>4. 1 \in 1 .. n /\ n \in 1 .. n
    BY <1>2
  <2> QED BY <2>2, <2>3, <2>4
<1>4. CASE used <= plan.seconds[1] \/ used >= plan.seconds[n]
  BY <1>1, <1>2, <1>3, <1>4 DEF Planned, TemperatureAtFilament
<1>5. CASE ~(used <= plan.seconds[1]) /\ ~(used >= plan.seconds[n])
  <2>1. S \in SUBSET Nat /\ S # {}
    BY <1>3, <1>5
  <2>2. LowerBound(plan.seconds, n, used) \in S
    <3>1. LowerBound(plan.seconds, n, used) = Min(S)
      BY DEF LowerBound
    <3> HIDE DEF S
    <3> QED BY <2>1, <3>1, MinNat
  <2>3. Planned(used) = plan.achievable[LowerBound(plan.seconds, n, used)]
    BY <1>1, <1>2, <1>5 DEF Planned, TemperatureAtFilament
  <2> QED BY <1>3, <2>2, <2>3
<1> QED BY <1>4, <1>5

LEMMA PlannedInt ==
    ASSUME plan \in Plans, NEW used \in Nat, Planned(used) # NoTemperature
    PROVE  Planned(used) \in Int
<1>1. Len(plan.achievable) = Len(plan.seconds)
  BY RewriterAssumption DEF RewriterAssumption
<1>2. HasPlan
  BY <1>1 DEF HasPlan, Planned, TemperatureAtFilament
<1> QED BY <1>2, PlannedNat

LEMMA RecommendedInt ==
    ASSUME plan \in Plans, options \in Options, usedFilament \in Nat,
           layerHeight \in Int, lineWidth \in Int, CanRecommend
    PROVE  Recommended \in Int
<1> DEFINE flow == FlowBudget(Planned(usedFilament))
           area == ExtrusionArea4(layerHeight, lineWidth)
<1>1. flow \in Int
  BY PlannedInt, BudgetInt DEF CanRecommend
<1>2. area \in Int
  BY DEF ExtrusionArea4
<1>3. area > 0
  BY DEF CanRecommend
<1>4. \A x, d \in Int : d > 0 => x \div d \in Int
  OBVIOUS
<1>5. Recommended = (2 * 60 * 4 * flow) \div area
  BY DEF Recommended, FlowToFeedrate
<1> HIDE DEF flow, area
<1>6. 2 * 60 * 4 * flow \in Int
  BY <1>1
<1> QED BY <1>2, <1>3, <1>4, <1>5, <1>6

\* Rounding adds at most the half of a digit that is missing.
LEMMA Rounding ==
    ASSUME NEW value \in Int
    PROVE  /\ Round(value) \in Int /\ Round(value) <= value + 1
           /\ FormatNumber(value) \in Int /\ FormatNumber(value) <= value + 1
BY DEF Round, FormatNumber

-----------------------------------------------------------------------------
(***************************************************************************)
(* What one line does to a printer.                                        *)
(***************************************************************************)

\* A printer as far as path and speed go.
Placed(m) ==
    /\ DOMAIN m = {"feed", "pos", "target", "advance", "last"}
    /\ m.pos \in Int
Moving(m) == Placed(m) /\ m.feed \in Int

\* Two printers at one place, behind the same motion.
Together(p, q) ==
    /\ p.pos = q.pos
    /\ p.last.op = q.last.op
    /\ p.last.length = q.last.length
    /\ p.last.filament = q.last.filament

\* Drives a printer: every other line leaves path and speed alone.
Drives(line) == line.kind \in {"move", "arc"}

LEMMA WordInt ==
    ASSUME NEW line, IsLine(line), NEW letter \in Letters, NEW default \in Int
    PROVE  Word(line, letter, default) \in Int
BY DEF IsLine, Word, Has

LEMMA Idles ==
    ASSUME NEW m, NEW line, ~Drives(line), Placed(m)
    PROVE  LET n == Execute(m, line)
           IN  Placed(n) /\ n.pos = m.pos /\ n.last = m.last /\ n.feed = m.feed
BY DEF Drives, Execute, Placed

LEMMA Drive ==
    ASSUME NEW m, NEW line, Drives(line), Placed(m)
    PROVE  LET n == Execute(m, line)
           IN  /\ DOMAIN n = {"feed", "pos", "target", "advance", "last"}
               /\ n.pos = Word(line, "X", m.pos)
               /\ n.feed = Word(line, "F", m.feed)
               /\ n.last = MotionOf(m, line)
BY DEF Drives, Execute, Placed

\* One and the same line keeps two printers together.
LEMMA SameLine ==
    ASSUME NEW p, NEW q, NEW line, IsLine(line), Placed(p), Placed(q), Together(p, q)
    PROVE  LET x == Execute(p, line)
               y == Execute(q, line)
           IN  Placed(x) /\ Placed(y) /\ Together(x, y)
<1>1. CASE ~Drives(line)
  BY <1>1, Idles DEF Together
<1>2. CASE Drives(line)
  <2>1. Word(line, "X", p.pos) \in Int /\ Word(line, "X", q.pos) \in Int
    BY WordInt DEF Placed, Letters
  <2>2. MotionOf(p, line).op = MotionOf(q, line).op
        /\ MotionOf(p, line).length = MotionOf(q, line).length
        /\ MotionOf(p, line).filament = MotionOf(q, line).filament
    BY DEF MotionOf, Together
  <2> QED BY <1>2, <2>1, <2>2, Drive DEF Placed, Together
<1> QED BY <1>1, <1>2

\* And at speeds that differ no more than they did.
LEMMA SameSpeed ==
    ASSUME NEW p, NEW q, NEW line, IsLine(line), Moving(p), Moving(q),
           p.feed <= q.feed + 1
    PROVE  LET x == Execute(p, line)
               y == Execute(q, line)
           IN  /\ x.feed \in Int /\ y.feed \in Int
               /\ x.feed <= y.feed + 1
<1>1. CASE ~Drives(line)
  BY <1>1, Idles DEF Moving
<1>2. CASE Drives(line)
  <2>1. /\ Execute(p, line).feed = Word(line, "F", p.feed)
        /\ Execute(q, line).feed = Word(line, "F", q.feed)
    BY <1>2, Drive DEF Moving
  <2>2. Word(line, "F", p.feed) \in Int /\ Word(line, "F", q.feed) \in Int
    BY WordInt DEF Moving, Letters
  <2> QED BY <2>1, <2>2 DEF Word, Moving
<1> QED BY <1>1, <1>2

\* A feedrate alone moves nothing.
LEMMA BareFeedrate ==
    ASSUME NEW m, NEW line, Placed(m), IsBareFeedrate(line)
    PROVE  LET n == Execute(m, line)
           IN  /\ Placed(n)
               /\ n.pos = m.pos /\ n.feed = Word(line, "F", 0)
               /\ n.last.op = "travel" /\ n.last.length = 0 /\ n.last.filament = 0
<1>1. Drives(line) /\ Has(line, "F") /\ ~Has(line, "X") /\ ~Has(line, "E")
  BY DEF IsBareFeedrate, IsMove, Drives
<1>2. /\ Word(line, "X", m.pos) = m.pos /\ Word(line, "E", 0) = 0
      /\ Word(line, "F", m.feed) = Word(line, "F", 0)
  BY <1>1 DEF Word
<1>3. AbsDiff(m.pos, m.pos) = 0
  BY DEF AbsDiff, Placed
<1>4. MotionOf(m, line) = [op |-> "travel", feed |-> Word(line, "F", 0), length |-> 0,
                           filament |-> 0]
  BY <1>1, <1>2, <1>3 DEF MotionOf
<1> QED BY <1>1, <1>2, <1>4, Drive DEF Placed

LEMMA FeedrateLines ==
    ASSUME NEW value
    PROVE  IsBareFeedrate(FeedrateLine(value)) /\ Word(FeedrateLine(value), "F", 0) = value
BY DEF FeedrateLine, Command, IsBareFeedrate, IsMove, Has, Word

LEMMA NoLines ==
    ASSUME NEW m, NEW needed, NEW line, ~Drives(line), Placed(m)
    PROVE  LET n == Execute(m, NeededLine(needed, line))
           IN  Placed(n) /\ n.pos = m.pos /\ n.last = m.last /\ n.feed = m.feed
BY Idles DEF NeededLine, NoLine, Drives

\* The cap changes a move's feedrate and nothing else of it.
LEMMA CapKeepsWords ==
    ASSUME NEW line, IsLine(line), NEW letter \in {"X", "E"}, NEW default
    PROVE  /\ CapMove(line).kind = line.kind
           /\ Has(CapMove(line), letter) <=> Has(line, letter)
           /\ Word(CapMove(line), letter, default) = Word(line, letter, default)
<1>1. letter # "F"
  OBVIOUS
<1>2. CASE Has(line, "F")
  BY <1>1, <1>2 DEF CapMove, IsLine, Has, Word
<1>3. CASE ~Has(line, "F")
  BY <1>1, <1>3 DEF CapMove, AppendWord, IsLine, Has, Word
<1> QED BY <1>2, <1>3

LEMMA CapKeepsPath ==
    ASSUME NEW p, NEW q, NEW line, IsLine(line), IsMove(line), Placed(p), Placed(q),
           Together(p, q)
    PROVE  LET x == Execute(p, CapMove(line))
               y == Execute(q, line)
           IN  Placed(x) /\ Placed(y) /\ Together(x, y)
<1> DEFINE cap == CapMove(line)
<1>1. /\ cap.kind = line.kind
      /\ Has(cap, "X") <=> Has(line, "X")
      /\ Word(cap, "X", p.pos) = Word(line, "X", p.pos)
      /\ Word(cap, "E", 0) = Word(line, "E", 0)
  BY CapKeepsWords
<1> HIDE DEF cap
<1>2. Drives(line) /\ Drives(cap)
  BY <1>1 DEF IsMove, Drives
<1>3. Word(line, "X", p.pos) \in Int
  BY WordInt DEF Placed, Letters
<1>4. /\ MotionOf(p, cap).op = MotionOf(q, line).op
      /\ MotionOf(p, cap).length = MotionOf(q, line).length
      /\ MotionOf(p, cap).filament = MotionOf(q, line).filament
  BY <1>1 DEF MotionOf, Together
<1>5. Placed(Execute(p, cap)) /\ Placed(Execute(q, line))
      /\ Together(Execute(p, cap), Execute(q, line))
  BY <1>1, <1>2, <1>3, <1>4, Drive DEF Placed, Together
<1> QED BY <1>5 DEF cap

-----------------------------------------------------------------------------
(***************************************************************************)
(* The invariant, branch by branch.                                        *)
(***************************************************************************)

\* Path and speed of the two printers, and what the recommended speed is of.
RewriterInv ==
    /\ plan \in Plans /\ options \in Options
    /\ usedFilament \in Nat /\ layerHeight \in Int /\ lineWidth \in Int
    /\ Placed(sliced) /\ Placed(printed) /\ Together(printed, sliced)
    /\ options.maxFlow = 0 =>
           sliced.feed \in Int /\ printed.feed \in Int /\ printed.feed <= sliced.feed + 1

\* The part of it that is about the printers.
Printers ==
    /\ Placed(sliced) /\ Placed(printed) /\ Together(printed, sliced)
    /\ options.maxFlow = 0 =>
           sliced.feed \in Int /\ printed.feed \in Int /\ printed.feed <= sliced.feed + 1

LEMMA AloneExecutes ==
    ASSUME NEW m, NEW line
    PROVE  ExecuteAll(m, Alone(line)) = Execute(m, line)
BY DEF ExecuteAll, Alone, NoLine, Execute

\* A line that goes through as it is, behind commands that move nothing.
LEMMA Copies ==
    ASSUME RewriterInv, NEW line, IsLine(line), NEW p, Placed(p), Together(p, sliced),
           p.feed = printed.feed,
           sliced' = Execute(sliced, line), printed' = Execute(p, line),
           options' = options
    PROVE  Printers'
<1>1. Placed(sliced') /\ Placed(printed') /\ Together(printed', sliced')
  BY SameLine DEF RewriterInv
<1>2. ASSUME options.maxFlow = 0
      PROVE  sliced'.feed \in Int /\ printed'.feed \in Int
             /\ printed'.feed <= sliced'.feed + 1
  BY <1>2, SameSpeed DEF RewriterInv, Moving
<1> QED BY <1>1, <1>2 DEF Printers

\* The header line, and the stamp behind it, do nothing.
LEMMA StampExecutes ==
    ASSUME NEW m, NEW line, line.kind = "header"
    PROVE  ExecuteAll(m, <<NoLine, line, StampLine>>) = Execute(m, line)
BY DEF ExecuteAll, NoLine, StampLine, Execute

\* The branches that write the line they read, and no command.
Copied(line) ==
    StampHeader(line) \/ CopyOutside(line) \/ ReadMarker(line) \/ Retract(line)
        \/ CopyInBody(line)

LEMMA CopiedIs ==
    ASSUME NEW line, Copied(line), printed' = ExecuteAll(printed, written')
    PROVE  /\ Consume(line)
           /\ sliced' = Execute(sliced, line) /\ printed' = Execute(printed, line)
           /\ \/ written' = Alone(line)
              \/ line.kind = "header" /\ written' = <<NoLine, line, StampLine>>
           /\ UNCHANGED <<emitted, usedFilament>>
<1>1. CASE StampHeader(line)
  BY <1>1, StampExecutes DEF StampHeader, Consume, IsHeader
<1>2. CASE ~StampHeader(line)
  <2>1. Consume(line) /\ written' = Alone(line) /\ UNCHANGED <<emitted, usedFilament>>
    BY <1>2 DEF Copied, CopyOutside, ReadMarker, Retract, CopyInBody, ConsumeInBody
  <2> QED BY <2>1, AloneExecutes DEF Consume
<1> QED BY <1>1, <1>2

LEMMA KeepsCopied ==
    ASSUME RewriterInv, NEW line, IsLine(line), Copied(line),
           printed' = ExecuteAll(printed, written')
    PROVE  Printers'
<1>1. Consume(line) /\ sliced' = Execute(sliced, line) /\ printed' = Execute(printed, line)
  BY CopiedIs
<1> QED BY <1>1, Copies DEF RewriterInv, Consume, inputs

LEMMA KeepsMacro ==
    ASSUME RewriterInv, NEW line, IsLine(line), RewriteStartMacro(line),
           printed' = ExecuteAll(printed, written')
    PROVE  Printers'
<1> DEFINE macro == [line EXCEPT !.words =
                        [@ EXCEPT !["S"] = FormatNumber(plan.achievable[1])]]
<1>1. ~Drives(line) /\ ~Drives(macro)
  BY DEF RewriteStartMacro, IsStartMacro, Drives, IsLine
<1>2. sliced' = Execute(sliced, line) /\ options' = options
  BY DEF RewriteStartMacro, Consume, inputs
<1>3. printed' = Execute(printed, macro)
  BY AloneExecutes DEF RewriteStartMacro
<1> HIDE DEF macro
<1> QED BY <1>1, <1>2, <1>3, Idles DEF RewriterInv, Printers, Together

\* Bare feedrates: the recommended speed is below the slicer's, the slicer's own
\* is printed rounded.
LEMMA KeepsFeedrate ==
    ASSUME RewriterInv, NEW line, IsLine(line), ReduceFeedrate(line) \/ KeepFeedrate(line),
           printed' = ExecuteAll(printed, written')
    PROVE  Printers'
<1> DEFINE f == Word(line, "F", 0)
<1>1. IsBareFeedrate(line) /\ Consume(line) /\ f \in Int /\ f' = f
  BY WordInt DEF ReduceFeedrate, KeepFeedrate, ConsumeInBody, Letters
<1>2. /\ sliced' = Execute(sliced, line) /\ options' = options
      /\ sliced'.feed = f /\ Placed(sliced') /\ sliced'.pos = sliced.pos
      /\ sliced'.last.op = "travel" /\ sliced'.last.length = 0
      /\ sliced'.last.filament = 0
  BY <1>1, BareFeedrate DEF Consume, inputs, RewriterInv
<1>3. ASSUME NEW m, NEW speed, Placed(m), m.pos = printed.pos, speed \in Int,
             speed <= f + 1, printed' = Execute(m, FeedrateLine(speed))
      PROVE  Printers'
  <2>1. /\ Placed(printed') /\ printed'.pos = printed.pos /\ printed'.feed = speed
        /\ printed'.last.op = "travel" /\ printed'.last.length = 0
        /\ printed'.last.filament = 0
    BY <1>3, FeedrateLines, BareFeedrate
  <2> QED BY <1>1, <1>2, <1>3, <2>1 DEF RewriterInv, Printers, Together
<1>4. CASE ReduceFeedrate(line)
  <2> DEFINE echo == NeededLine(options.echoSlicerSpeed,
                                FeedrateLine(FormatNumber(slicerFeedrate')))
             m == Execute(printed, echo)
  <2>1. Recommended \in Int /\ Recommended < f
    BY <1>4, RecommendedInt DEF ReduceFeedrate, Clamps, RewriterInv
  <2>2. Round(Recommended) \in Int /\ Round(Recommended) <= f + 1
    BY <1>1, <2>1, Rounding
  <2>3. Placed(m) /\ m.pos = printed.pos
    <3>1. CASE options.echoSlicerSpeed
      BY <3>1, FeedrateLines, BareFeedrate DEF NeededLine, RewriterInv
    <3>2. CASE ~options.echoSlicerSpeed
      BY <3>2, Idles DEF NeededLine, NoLine, Drives, RewriterInv
    <3> QED BY <3>1, <3>2
  <2>4. printed' = Execute(m, FeedrateLine(Round(Recommended)))
    BY <1>4 DEF ReduceFeedrate, ExecuteAll, NoLine, Execute
  <2> HIDE DEF m
  <2> QED BY <1>3, <2>2, <2>3, <2>4
<1>5. CASE KeepFeedrate(line)
  <2>1. FormatNumber(f) \in Int /\ FormatNumber(f) <= f + 1
    BY <1>1, Rounding
  <2>2. printed' = Execute(printed, FeedrateLine(FormatNumber(f)))
    BY <1>5, AloneExecutes DEF KeepFeedrate
  <2> QED BY <1>3, <2>1, <2>2 DEF RewriterInv
<1> QED BY <1>4, <1>5

\* An extruding move: its commands move nothing, and only an explicit ceiling caps.
LEMMA KeepsExtrusion ==
    ASSUME RewriterInv, NEW line, IsLine(line), Extrude(line),
           printed' = ExecuteAll(printed, written')
    PROVE  Printers'
<1> DEFINE planned == Planned(usedFilament')
           advance == TemperatureToPressureAdvance(Filament, planned)
           heat == TemperatureLine(FormatNumber(planned))
           tune == AdvanceLine(FormatNumber(advance))
           hot == Execute(printed, NeededLine(NeedsTemp(planned), heat))
           tuned == Execute(hot, NeededLine(NeedsAdvance(advance), tune))
<1>1. Consume(line) /\ IsExtrudingMove(line)
  BY DEF Extrude, ConsumeInBody
<1>2. sliced' = Execute(sliced, line) /\ options' = options /\ IsMove(line)
  BY <1>1 DEF Consume, inputs, IsExtrudingMove
<1>3. printed' = Execute(tuned, IF IsCapped(line) THEN CapMove(line) ELSE line)
  BY DEF Extrude, ExecuteAll
<1>4. ~Drives(heat) /\ ~Drives(tune)
  BY DEF TemperatureLine, AdvanceLine, Command, Drives
<1> HIDE DEF heat, tune, planned, advance
<1>5. Placed(hot) /\ hot.pos = printed.pos /\ hot.last = printed.last
      /\ hot.feed = printed.feed
  BY <1>4, NoLines DEF RewriterInv
<1> HIDE DEF hot
<1>6. Placed(tuned) /\ tuned.pos = printed.pos /\ tuned.last = printed.last
      /\ tuned.feed = printed.feed
  BY <1>4, <1>5, NoLines
<1> HIDE DEF tuned
<1>7. Together(tuned, sliced)
  BY <1>6 DEF RewriterInv, Together
<1>8. CASE ~IsCapped(line)
  BY <1>2, <1>3, <1>6, <1>7, <1>8, Copies
<1>9. CASE IsCapped(line)
  <2>1. ~(options.maxFlow = 0)
    BY <1>9, RewriterAssumption DEF IsCapped, RewriterInv, RewriterAssumption, RewriteOptions
  <2>2. Placed(sliced') /\ Placed(printed') /\ Together(printed', sliced')
    BY <1>2, <1>3, <1>6, <1>7, <1>9, CapKeepsPath DEF RewriterInv
  <2> QED BY <1>2, <2>1, <2>2 DEF Printers
<1> QED BY <1>8, <1>9

LEMMA KeepsLine ==
    ASSUME RewriterInv, NEW line \in Lines, RewriteLine(line)
    PROVE  RewriterInv'
<1>1. IsLine(line) /\ printed' = ExecuteAll(printed, written')
  BY RewriterAssumption DEF RewriterAssumption, RewriteLine
<1>2. plan' = plan /\ options' = options
  BY DEF RewriteLine, StampHeader, RewriteStartMacro, CopyOutside, ReadMarker, Retract,
     ReduceFeedrate, KeepFeedrate, CopyInBody, Extrude, ConsumeInBody, Consume, inputs
<1>3. layerHeight' \in Int /\ lineWidth' \in Int
  <2>1. CASE ReadMarker(line)
    BY <1>1, <2>1, WordInt DEF ReadMarker, RewriterInv, Letters
  <2>2. CASE ~ReadMarker(line)
    BY <2>2 DEF RewriteLine, StampHeader, RewriteStartMacro, CopyOutside, Retract,
       ReduceFeedrate, KeepFeedrate, CopyInBody, Extrude, geometry, RewriterInv
  <2> QED BY <2>1, <2>2
<1>4. usedFilament' \in Nat
  <2>1. CASE Extrude(line)
    <3>1. Word(line, "E", 0) \in Int /\ Word(line, "E", 0) > 0
      BY <1>1, <2>1, WordInt DEF Extrude, IsExtrudingMove, Letters
    <3> QED BY <2>1, <3>1 DEF Extrude, RewriterInv
  <2>2. CASE ~Extrude(line)
    BY <2>2 DEF RewriteLine, StampHeader, RewriteStartMacro, CopyOutside, ReadMarker,
       Retract, ReduceFeedrate, KeepFeedrate, CopyInBody, RewriterInv
  <2> QED BY <2>1, <2>2
<1>5. Printers'
  <2>1. CASE Copied(line)
    BY <1>1, <2>1, KeepsCopied
  <2>3. CASE RewriteStartMacro(line)
    BY <1>1, <2>3, KeepsMacro
  <2>4. CASE ReduceFeedrate(line) \/ KeepFeedrate(line)
    BY <1>1, <2>4, KeepsFeedrate
  <2>5. CASE Extrude(line)
    BY <1>1, <2>5, KeepsExtrusion
  <2> QED BY <2>1, <2>3, <2>4, <2>5 DEF RewriteLine, Copied
<1> QED BY <1>2, <1>3, <1>4, <1>5 DEF RewriterInv, Printers

LEMMA RewriterInvInit == RewriterInit => RewriterInv
BY DEF RewriterInit, FreshCall, RewriterInv, Placed, Together, IdleMachine

LEMMA RewriterInvStep ==
    ASSUME RewriterInv, [RewriterNext]_rewriterVars
    PROVE  RewriterInv'
<1>1. CASE \E line \in Lines : RewriteLine(line)
  BY <1>1, KeepsLine
<1>2. CASE Refuse \/ Begin \/ Cancel \/ EndOfFile
  BY <1>2 DEF Refuse, Begin, Cancel, EndOfFile, inputs, geometry, RewriterInv
<1>3. CASE UNCHANGED rewriterVars
  BY <1>3 DEF rewriterVars, RewriterInv
<1> QED BY <1>1, <1>2, <1>3 DEF RewriterNext

LEMMA RewriterAlways == RewriterSpec => []RewriterInv
<1>1. RewriterInv /\ [RewriterNext]_rewriterVars => RewriterInv'
  BY RewriterInvStep
<1> QED BY <1>1, RewriterInvInit, PTL DEF RewriterSpec

\* For every file, plan, calibration and setting, capped or not: the printer
\* behind the output makes the motions of the one behind the slicer's file.
THEOREM RewriterKeepsPath == RewriterSpec => []SamePath
<1>1. RewriterInv => SamePath
  BY DEF RewriterInv, Together, SamePath
<1> QED BY <1>1, RewriterAlways, PTL

\* And without an explicit ceiling it never runs faster.
THEOREM RewriterNeverFaster == RewriterSpec => []NeverFaster
<1>1. RewriterInv => NeverFaster
  BY DEF RewriterInv, NeverFaster
<1> QED BY <1>1, RewriterAlways, PTL
-----------------------------------------------------------------------------
(***************************************************************************)
(* Commands.  The printer runs on what was written last: the invariant says *)
(* that this is what the rewriter remembers to have written, as long as the *)
(* file does not set the same thing itself.                                 *)
(***************************************************************************)

LEMMA Floor ==
    ASSUME NEW x \in Int, NEW d \in Nat, d > 0
    PROVE  /\ x \div d \in Int
           /\ d * (x \div d) <= x
           /\ x < d * (x \div d) + d
OBVIOUS

\* lerp between two numbers that are not negative is not negative.
LEMMA LerpNat ==
    ASSUME NEW a \in Nat, NEW b \in Nat, NEW lo \in Int, NEW hi \in Int, lo < hi,
           NEW value \in Int, lo <= value, value <= hi
    PROVE  Lerp(a, b, value, lo, hi) \in Nat
<1> DEFINE x == (b - a) * (value - lo)
           d == hi - lo
           q == x \div d
<1>1. d \in Nat /\ d > 0 /\ x \in Int
  OBVIOUS
<1>2. -a * d <= x
  <2>1. value - lo \in Nat /\ value - lo <= d
    OBVIOUS
  <2>2. \A m, n, k \in Nat, c \in Int : n <= k /\ -m <= c => -m * k <= c * n
    <3> SUFFICES ASSUME NEW m \in Nat, NEW n \in Nat, NEW k \in Nat, NEW c \in Int,
                        n <= k, -m <= c
                 PROVE  -m * k <= c * n
      OBVIOUS
    <3>1. m * n <= m * k
      OBVIOUS
    <3>2. 0 <= (c + m) * n
      OBVIOUS
    <3>3. (c + m) * n = c * n + m * n
      OBVIOUS
    <3> QED BY <3>1, <3>2, <3>3
  <2>3. b - a \in Int /\ -a <= b - a
    OBVIOUS
  <2> QED BY <1>1, <2>1, <2>2, <2>3
<1>3. Lerp(a, b, value, lo, hi) = a + q
  BY DEF Lerp
<1>4. q \in Int /\ x < d * q + d
  BY <1>1, Floor
<1> HIDE DEF x, d, q
<1>5. -a <= q
  <2>1. SUFFICES ASSUME q < -a PROVE FALSE
    BY <1>4
  <2>2. q + 1 <= -a
    BY <1>4, <2>1
  <2>3. d * (q + 1) <= d * (-a)
    BY <1>1, <1>4, <2>2
  <2>4. d * (q + 1) = d * q + d /\ d * (-a) = -a * d
    BY <1>1, <1>4
  <2> QED BY <1>1, <1>2, <1>4, <2>3, <2>4
<1> QED BY <1>3, <1>4, <1>5

LEMMA AdvanceNat ==
    ASSUME NEW temperature \in Int
    PROVE  TemperatureToPressureAdvance(Filament, temperature) \in Nat
<1>1. /\ Filament.lowAdvance \in Nat /\ Filament.midAdvance \in Nat
      /\ Filament.highAdvance \in Nat
      /\ Filament.lowTemp \in Int /\ Filament.midTemp \in Int /\ Filament.highTemp \in Int
  BY RewriterAssumption, SettingsAreNotNegative
     DEF RewriterAssumption, SettingsAreNotNegative, FilamentProfile
<1>2. CASE temperature <= Filament.lowTemp \/ temperature >= Filament.highTemp
  BY <1>1, <1>2 DEF TemperatureToPressureAdvance, AtTemperature
<1>3. CASE /\ ~(temperature <= Filament.lowTemp) /\ ~(temperature >= Filament.highTemp)
           /\ temperature <= Filament.midTemp
  <2>1. TemperatureToPressureAdvance(Filament, temperature)
          = Lerp(Filament.lowAdvance, Filament.midAdvance, temperature, Filament.lowTemp,
                 Filament.midTemp)
    BY <1>1, <1>3 DEF TemperatureToPressureAdvance, AtTemperature
  <2>2. Filament.lowTemp < Filament.midTemp /\ Filament.lowTemp <= temperature
    BY <1>1, <1>3
  <2>3. Lerp(Filament.lowAdvance, Filament.midAdvance, temperature, Filament.lowTemp,
                 Filament.midTemp) \in Nat
    BY <1>1, <1>3, <2>2, LerpNat
  <2> QED BY <2>1, <2>3
<1>4. CASE /\ ~(temperature <= Filament.lowTemp) /\ ~(temperature >= Filament.highTemp)
           /\ ~(temperature <= Filament.midTemp)
  <2>1. TemperatureToPressureAdvance(Filament, temperature)
          = Lerp(Filament.midAdvance, Filament.highAdvance, temperature, Filament.midTemp,
                 Filament.highTemp)
    BY <1>1, <1>4 DEF TemperatureToPressureAdvance, AtTemperature
  <2>2. /\ Filament.midTemp < Filament.highTemp /\ Filament.midTemp <= temperature
        /\ temperature <= Filament.highTemp
    BY <1>1, <1>4
  <2>3. Lerp(Filament.midAdvance, Filament.highAdvance, temperature, Filament.midTemp,
                 Filament.highTemp) \in Nat
    BY <1>1, <2>2, LerpNat
  <2> QED BY <2>1, <2>3
<1> QED BY <1>2, <1>3, <1>4

Heats(line) == line.kind \in {"temp", "macro"}

\* What one line does to the target and the advance.
LEMMA SetsTarget ==
    ASSUME NEW m, NEW line, Placed(m)
    PROVE  Execute(m, line).target =
               IF Heats(line) THEN Word(line, "S", m.target) ELSE m.target
BY DEF Execute, Placed, Heats

LEMMA SetsAdvance ==
    ASSUME NEW m, NEW line, Placed(m)
    PROVE  Execute(m, line).advance =
               IF line.kind = "advance" THEN Word(line, "S", m.advance) ELSE m.advance
BY DEF Execute, Placed

LEMMA StaysPlaced ==
    ASSUME NEW m, NEW line, ~Has(line, "X"), Placed(m)
    PROVE  Placed(Execute(m, line))
<1>1. Word(line, "X", m.pos) \in Int
  BY DEF Placed, Word
<1> QED BY <1>1, Idles, Drive DEF Placed

\* A line that neither heats nor tunes.
LEMMA SetsNothing ==
    ASSUME NEW m, NEW line, Placed(m), ~Heats(line), line.kind # "advance"
    PROVE  /\ Execute(m, line).target = m.target
           /\ Execute(m, line).advance = m.advance
BY SetsTarget, SetsAdvance

CommandInv ==
    /\ status = "rewriting" => HasPlan
    /\ lastEmittedTemp = UnsetTemp \/ lastEmittedTemp \in Nat
    /\ lastEmittedPa = UnsetPa \/ lastEmittedPa \in Nat
    /\ sliced.target = NeverSet /\ lastEmittedTemp # UnsetTemp =>
           printed.target = FormatNumber(lastEmittedTemp)
    /\ sliced.advance = NeverSet /\ lastEmittedPa # UnsetPa =>
           printed.advance = FormatNumber(lastEmittedPa)

\* What the commands say and what is remembered of them, for one line.
KeepsCommands ==
    /\ lastEmittedTemp = UnsetTemp \/ lastEmittedTemp \in Nat
    /\ lastEmittedPa = UnsetPa \/ lastEmittedPa \in Nat
    /\ sliced.target = NeverSet /\ lastEmittedTemp # UnsetTemp =>
           printed.target = FormatNumber(lastEmittedTemp)
    /\ sliced.advance = NeverSet /\ lastEmittedPa # UnsetPa =>
           printed.advance = FormatNumber(lastEmittedPa)

\* A temperature or an advance the file asks for can be told from none.
LEMMA AskedFor ==
    ASSUME NEW line \in Lines, NEW m, NEW n, Placed(m), n = Execute(m, line)
    PROVE  /\ n.target = NeverSet => m.target = NeverSet
           /\ n.target = NeverSet /\ Heats(line) => ~Has(line, "S")
           /\ n.advance = NeverSet => m.advance = NeverSet
           /\ n.advance = NeverSet /\ line.kind = "advance" => ~Has(line, "S")
<1>1. /\ n.target = IF Heats(line) THEN Word(line, "S", m.target) ELSE m.target
      /\ n.advance = IF line.kind = "advance" THEN Word(line, "S", m.advance)
                     ELSE m.advance
  BY SetsTarget, SetsAdvance
<1>2. Has(line, "S") /\ (Heats(line) \/ line.kind = "advance") =>
          Word(line, "S", m.target) >= 0 /\ Word(line, "S", m.advance) >= 0
  BY SettingsAreNotNegative DEF SettingsAreNotNegative, Heats, Word
<1>3. ~Has(line, "S") => /\ Word(line, "S", m.target) = m.target
                         /\ Word(line, "S", m.advance) = m.advance
  BY DEF Word
<1>4. NeverSet < 0
  BY DEF NeverSet
<1>5. Has(line, "S") /\ (Heats(line) \/ line.kind = "advance") =>
          Word(line, "S", m.target) # NeverSet /\ Word(line, "S", m.advance) # NeverSet
  BY <1>2 DEF NeverSet
<1> QED BY <1>1, <1>3, <1>5

\* A line that goes through as it is.
LEMMA CopyKeepsCommands ==
    ASSUME CommandInv, RewriterInv, NEW line \in Lines,
           sliced' = Execute(sliced, line), printed' = Execute(printed, line),
           UNCHANGED emitted
    PROVE  KeepsCommands'
<1>1. UNCHANGED <<lastEmittedTemp, lastEmittedPa>>
  BY DEF emitted
<1>2. Placed(sliced) /\ Placed(printed)
  BY DEF RewriterInv
<1>3. /\ sliced'.target = NeverSet => sliced.target = NeverSet
      /\ sliced'.target = NeverSet /\ Heats(line) => ~Has(line, "S")
      /\ sliced'.advance = NeverSet => sliced.advance = NeverSet
      /\ sliced'.advance = NeverSet /\ line.kind = "advance" => ~Has(line, "S")
  BY <1>2, AskedFor
<1>4. /\ printed'.target = IF Heats(line) THEN Word(line, "S", printed.target)
                           ELSE printed.target
      /\ printed'.advance = IF line.kind = "advance"
                            THEN Word(line, "S", printed.advance) ELSE printed.advance
  BY <1>2, SetsTarget, SetsAdvance
<1>5. sliced'.target = NeverSet => printed'.target = printed.target
  BY <1>3, <1>4 DEF Word
<1>6. sliced'.advance = NeverSet => printed'.advance = printed.advance
  BY <1>3, <1>4 DEF Word
<1> QED BY <1>1, <1>3, <1>5, <1>6 DEF CommandInv, KeepsCommands

LEMMA MacroKeepsCommands ==
    ASSUME CommandInv, RewriterInv, NEW line \in Lines, RewriteStartMacro(line),
           printed' = ExecuteAll(printed, written')
    PROVE  KeepsCommands'
<1> DEFINE macro == [line EXCEPT !.words =
                        [@ EXCEPT !["S"] = FormatNumber(plan.achievable[1])]]
<1>1. /\ Has(line, "S") /\ Heats(line) /\ line.kind # "advance"
      /\ sliced' = Execute(sliced, line) /\ UNCHANGED <<lastEmittedTemp, lastEmittedPa>>
  BY DEF RewriteStartMacro, IsStartMacro, Heats, Consume, emitted
<1>2. Placed(sliced) /\ Placed(printed)
  BY DEF RewriterInv
<1>3. sliced'.target # NeverSet /\ sliced'.advance = sliced.advance
  BY <1>1, <1>2, AskedFor, SetsAdvance
<1>4. IsLine(line)
  BY RewriterAssumption DEF RewriterAssumption
<1>5. macro.kind # "advance" /\ printed' = Execute(printed, macro)
  BY <1>1, <1>4, AloneExecutes DEF RewriteStartMacro, IsLine
<1> HIDE DEF macro
<1>6. printed'.advance = printed.advance
  BY <1>2, <1>5, SetsAdvance
<1> QED BY <1>1, <1>3, <1>6 DEF CommandInv, KeepsCommands

\* Bare feedrates, however many lines they become.
LEMMA FeedrateKeepsCommands ==
    ASSUME CommandInv, RewriterInv, NEW line \in Lines,
           ReduceFeedrate(line) \/ KeepFeedrate(line),
           printed' = ExecuteAll(printed, written')
    PROVE  /\ KeepsCommands'
           /\ printed'.target = printed.target /\ printed'.advance = printed.advance
<1> DEFINE Sets(l) == Heats(l) \/ l.kind = "advance"
<1>1. /\ sliced' = Execute(sliced, line) /\ ~Sets(line)
      /\ UNCHANGED <<lastEmittedTemp, lastEmittedPa>>
  BY DEF ReduceFeedrate, KeepFeedrate, ConsumeInBody, Consume, IsBareFeedrate, IsMove,
     Heats, emitted
<1>2. Placed(sliced) /\ Placed(printed)
  BY DEF RewriterInv
<1>3. sliced'.target = sliced.target /\ sliced'.advance = sliced.advance
  BY <1>1, <1>2, SetsNothing
<1>4. \A k \in 1 .. 3 : ~Has(written'[k], "X") /\ ~Sets(written'[k])
  <2>1. /\ \A v : ~Has(FeedrateLine(v), "X") /\ ~Sets(FeedrateLine(v))
        /\ ~Has(NoLine, "X") /\ ~Sets(NoLine)
    BY DEF FeedrateLine, Command, NoLine, Has, Heats
  <2> HIDE DEF Sets
  <2> QED BY <2>1 DEF ReduceFeedrate, KeepFeedrate, NeededLine, Alone
<1> DEFINE a == Execute(printed, written'[1])
           b == Execute(a, written'[2])
<1>5. Placed(a) /\ a.target = printed.target /\ a.advance = printed.advance
  BY <1>2, <1>4, SetsNothing, StaysPlaced
<1>6. printed' = Execute(b, written'[3])
  BY DEF ExecuteAll
<1> HIDE DEF a
<1>7. Placed(b) /\ b.target = printed.target /\ b.advance = printed.advance
  BY <1>4, <1>5, SetsNothing, StaysPlaced
<1> HIDE DEF b
<1>8. printed'.target = printed.target /\ printed'.advance = printed.advance
  BY <1>4, <1>6, <1>7, SetsNothing
<1> QED BY <1>1, <1>3, <1>8 DEF CommandInv, KeepsCommands

\* The bead of an extruding move, behind the commands it needs.
LEMMA BeadSets ==
    ASSUME CommandInv, RewriterInv, NEW line \in Lines, Extrude(line),
           printed' = ExecuteAll(printed, written'),
           NEW planned, planned = Planned(usedFilament'),
           NEW advance, advance = TemperatureToPressureAdvance(Filament, planned)
    PROVE  /\ planned \in Nat /\ advance \in Nat
           /\ sliced'.target = sliced.target /\ sliced'.advance = sliced.advance
           /\ printed'.target = IF NeedsTemp(planned) THEN FormatNumber(planned)
                                ELSE printed.target
           /\ printed'.advance = IF NeedsAdvance(advance) THEN FormatNumber(advance)
                                 ELSE printed.advance
           /\ lastEmittedTemp' = IF NeedsTemp(planned) THEN planned ELSE lastEmittedTemp
           /\ lastEmittedPa' = IF NeedsAdvance(advance) THEN advance ELSE lastEmittedPa
           /\ written'[3].kind = "move"
<1> DEFINE heat == TemperatureLine(FormatNumber(planned))
           tune == AdvanceLine(FormatNumber(advance))
           hot == Execute(printed, NeededLine(NeedsTemp(planned), heat))
           tuned == Execute(hot, NeededLine(NeedsAdvance(advance), tune))
           move == IF IsCapped(line) THEN CapMove(line) ELSE line
<1>1. /\ IsLine(line) /\ line.kind = "move" /\ sliced' = Execute(sliced, line)
      /\ usedFilament' = usedFilament + Word(line, "E", 0)
      /\ Word(line, "E", 0) > 0 /\ status = "rewriting"
  BY RewriterAssumption DEF RewriterAssumption, Extrude, ConsumeInBody, Consume,
     IsExtrudingMove, IsMove
<1>2. usedFilament' \in Nat
  BY <1>1, WordInt DEF RewriterInv, Letters
<1>3. planned \in Nat
  BY <1>1, <1>2, PlannedNat DEF CommandInv, RewriterInv
<1>4. advance \in Nat
  BY <1>3, AdvanceNat
<1>5. Placed(sliced) /\ Placed(printed)
  BY DEF RewriterInv
<1>6. sliced'.target = sliced.target /\ sliced'.advance = sliced.advance
  BY <1>1, <1>5, SetsNothing DEF Heats
<1>7. move.kind = "move"
  BY <1>1, CapKeepsWords
<1>8. printed' = Execute(tuned, move) /\ written'[3] = move
  BY DEF Extrude, ExecuteAll
<1>9. /\ lastEmittedTemp' = IF NeedsTemp(planned) THEN planned ELSE lastEmittedTemp
      /\ lastEmittedPa' = IF NeedsAdvance(advance) THEN advance ELSE lastEmittedPa
  BY DEF Extrude
<1>10. /\ heat.kind = "temp" /\ Word(heat, "S", printed.target) = FormatNumber(planned)
       /\ tune.kind = "advance" /\ Word(tune, "S", hot.advance) = FormatNumber(advance)
  BY DEF TemperatureLine, AdvanceLine, Command, Word, Has
<1>11. ~Drives(heat) /\ ~Drives(tune)
  BY <1>10 DEF Drives
<1> HIDE DEF heat, tune, move
<1>12. Placed(hot)
  BY <1>5, <1>11, NoLines
<1>13. /\ hot.target = IF NeedsTemp(planned) THEN FormatNumber(planned) ELSE printed.target
       /\ hot.advance = printed.advance
  <2>1. CASE NeedsTemp(planned)
    BY <1>5, <1>10, <2>1, SetsTarget, SetsAdvance DEF NeededLine, Heats
  <2>2. CASE ~NeedsTemp(planned)
    BY <1>5, <2>2, SetsTarget, SetsAdvance DEF NeededLine, Heats, NoLine
  <2> QED BY <2>1, <2>2
<1>14. Placed(tuned)
  <2> HIDE DEF hot
  <2> QED BY <1>11, <1>12, NoLines
<1>15. /\ tuned.target = hot.target
       /\ tuned.advance = IF NeedsAdvance(advance) THEN FormatNumber(advance)
                          ELSE hot.advance
  <2> HIDE DEF hot
  <2>1. CASE NeedsAdvance(advance)
    BY <1>10, <1>12, <2>1, SetsTarget, SetsAdvance DEF NeededLine, Heats
  <2>2. CASE ~NeedsAdvance(advance)
    BY <1>12, <2>2, SetsTarget, SetsAdvance DEF NeededLine, Heats, NoLine
  <2> QED BY <2>1, <2>2
<1> HIDE DEF hot, tuned
<1>16. printed'.target = tuned.target /\ printed'.advance = tuned.advance
  BY <1>7, <1>8, <1>14, SetsNothing DEF Heats
<1> QED BY <1>3, <1>4, <1>6, <1>7, <1>8, <1>9, <1>13, <1>15, <1>16

LEMMA BeadKeepsCommands ==
    ASSUME CommandInv, RewriterInv, NEW line \in Lines, Extrude(line),
           printed' = ExecuteAll(printed, written')
    PROVE  KeepsCommands'
<1> DEFINE planned == Planned(usedFilament')
           advance == TemperatureToPressureAdvance(Filament, planned)
<1>1. /\ planned \in Nat /\ advance \in Nat
      /\ sliced'.target = sliced.target /\ sliced'.advance = sliced.advance
      /\ printed'.target = IF NeedsTemp(planned) THEN FormatNumber(planned)
                           ELSE printed.target
      /\ printed'.advance = IF NeedsAdvance(advance) THEN FormatNumber(advance)
                            ELSE printed.advance
      /\ lastEmittedTemp' = IF NeedsTemp(planned) THEN planned ELSE lastEmittedTemp
      /\ lastEmittedPa' = IF NeedsAdvance(advance) THEN advance ELSE lastEmittedPa
  BY BeadSets
<1> HIDE DEF planned, advance
<1>2. /\ lastEmittedTemp' = UnsetTemp \/ lastEmittedTemp' \in Nat
      /\ sliced'.target = NeverSet /\ lastEmittedTemp' # UnsetTemp =>
             printed'.target = FormatNumber(lastEmittedTemp')
  BY <1>1 DEF CommandInv
<1>3. /\ lastEmittedPa' = UnsetPa \/ lastEmittedPa' \in Nat
      /\ sliced'.advance = NeverSet /\ lastEmittedPa' # UnsetPa =>
             printed'.advance = FormatNumber(lastEmittedPa')
  BY <1>1 DEF CommandInv
<1> QED BY <1>2, <1>3 DEF KeepsCommands

LEMMA CommandInvStep ==
    ASSUME CommandInv, RewriterInv, [RewriterNext]_rewriterVars
    PROVE  CommandInv'
<1>1. CASE \E line \in Lines : RewriteLine(line)
  <2> PICK line \in Lines : RewriteLine(line)
    BY <1>1
  <2>1. printed' = ExecuteAll(printed, written')
    BY DEF RewriteLine
  <2>2. status' = status /\ plan' = plan
    BY DEF RewriteLine, StampHeader, RewriteStartMacro, CopyOutside, ReadMarker, Retract,
       ReduceFeedrate, KeepFeedrate, CopyInBody, Extrude, ConsumeInBody, Consume, inputs
  <2>3. CASE Copied(line)
    BY <2>1, <2>2, <2>3, CopiedIs, CopyKeepsCommands DEF CommandInv, KeepsCommands, HasPlan
  <2>4. CASE RewriteStartMacro(line)
    BY <2>1, <2>2, <2>4, MacroKeepsCommands DEF CommandInv, KeepsCommands, HasPlan
  <2>5. CASE ReduceFeedrate(line) \/ KeepFeedrate(line)
    BY <2>1, <2>2, <2>5, FeedrateKeepsCommands DEF CommandInv, KeepsCommands, HasPlan
  <2>6. CASE Extrude(line)
    BY <2>1, <2>2, <2>6, BeadKeepsCommands DEF CommandInv, KeepsCommands, HasPlan
  <2> QED BY <2>3, <2>4, <2>5, <2>6 DEF RewriteLine, Copied
<1>2. CASE Refuse \/ Begin \/ Cancel \/ EndOfFile
  BY <1>2 DEF Refuse, Begin, Cancel, EndOfFile, inputs, emitted, CommandInv, HasPlan
<1>3. CASE UNCHANGED rewriterVars
  BY <1>3 DEF rewriterVars, CommandInv, HasPlan
<1> QED BY <1>1, <1>2, <1>3 DEF RewriterNext

LEMMA CommandsAlways == RewriterSpec => [](RewriterInv /\ CommandInv)
<1>1. RewriterInit => RewriterInv /\ CommandInv
  BY RewriterInvInit DEF RewriterInit, FreshCall, CommandInv
<1>2. RewriterInv /\ CommandInv /\ [RewriterNext]_rewriterVars
          => (RewriterInv /\ CommandInv)'
  BY RewriterInvStep, CommandInvStep
<1> QED BY <1>1, <1>2, PTL DEF RewriterSpec

\* Rounding to print moves a value by one half of a digit at most.
LEMMA Printed ==
    ASSUME NEW value \in Nat
    PROVE  /\ FormatNumber(value) \in Int
           /\ value - 1 <= FormatNumber(value) /\ FormatNumber(value) <= value + 1
BY DEF FormatNumber

LEMMA BeadFollowsPlan ==
    ASSUME CommandInv, RewriterInv, NEW line \in Lines, Extrude(line),
           printed' = ExecuteAll(printed, written')
    PROVE  TargetFollowsPlan /\ AdvanceFollowsPlan
<1> DEFINE planned == Planned(usedFilament')
           advance == TemperatureToPressureAdvance(Filament, planned)
           step == options.temperatureStep
<1>1. /\ planned \in Nat /\ advance \in Nat
      /\ printed'.target = IF NeedsTemp(planned) THEN FormatNumber(planned)
                           ELSE printed.target
      /\ printed'.advance = IF NeedsAdvance(advance) THEN FormatNumber(advance)
                            ELSE printed.advance
  BY BeadSets
<1>2. step \in Nat /\ step <= 20000
  BY RewriterAssumption, SettingsAreNotNegative
     DEF RewriterAssumption, SettingsAreNotNegative, RewriteOptions, UnsetTemp, RewriterInv
<1>3. Extrudes
  <2>1. usedFilament' = usedFilament + Word(line, "E", 0) /\ Word(line, "E", 0) > 0
    BY DEF Extrude, IsExtrudingMove
  <2>2. Word(line, "E", 0) \in Int
    BY WordInt, RewriterAssumption DEF RewriterAssumption, Letters
  <2> QED BY <2>1, <2>2 DEF Extrudes, RewriterInv
<1>4. TargetFollowsPlan
  <2> SUFFICES ASSUME sliced.target = NeverSet \/ lastEmittedTemp = UnsetTemp
               PROVE  AbsDiff(printed'.target, planned) <= step + 1
    BY DEF TargetFollowsPlan
  <2> HIDE DEF planned, step, advance
  <2>1. CASE NeedsTemp(planned)
    BY <1>1, <1>2, <2>1, Printed DEF AbsDiff
  <2>2. CASE ~NeedsTemp(planned)
    <3>1. AbsDiff(planned, lastEmittedTemp) < step
      BY <1>1, <1>2, <2>2 DEF NeedsTemp, AbsDiff, CommandInv, UnsetTemp, step
    <3>2. lastEmittedTemp # UnsetTemp
      BY <1>1, <1>2, <3>1 DEF AbsDiff, UnsetTemp
    <3>3. lastEmittedTemp \in Nat /\ printed'.target = FormatNumber(lastEmittedTemp)
      BY <1>1, <2>2, <3>2 DEF CommandInv
    <3> QED BY <1>1, <1>2, <3>1, <3>3, Printed DEF AbsDiff
  <2> QED BY <2>1, <2>2
<1>5. AdvanceFollowsPlan
  <2>1. ASSUME AllowsPressureAdvanceChange(feature),
               options.adjustPressureAdvance, Filament.adjustPressureAdvance,
               sliced.advance = NeverSet \/ lastEmittedPa = UnsetPa
        PROVE  AbsDiff(printed'.advance, advance) <= PaStep
    <3> HIDE DEF planned, advance
    <3>1. CASE NeedsAdvance(advance)
      BY <1>1, <3>1, Printed DEF AbsDiff, PaStep
    <3>2. CASE ~NeedsAdvance(advance)
      <4>1. AbsDiff(advance, lastEmittedPa) < PaStep
        BY <1>1, <2>1, <3>2 DEF NeedsAdvance, AbsDiff, CommandInv, UnsetPa, PaStep
      <4>2. lastEmittedPa # UnsetPa
        BY <1>1, <4>1 DEF AbsDiff, UnsetPa, PaStep
      <4>3. lastEmittedPa \in Nat /\ printed'.advance = FormatNumber(lastEmittedPa)
        BY <1>1, <2>1, <3>2, <4>2 DEF CommandInv
      <4> QED BY <1>1, <4>1, <4>3, Printed DEF AbsDiff, PaStep
    <3> QED BY <3>1, <3>2
  <2>2. ASSUME ~AllowsPressureAdvanceChange(feature)
        PROVE  printed'.advance = printed.advance
    BY <1>1, <2>2 DEF NeedsAdvance
  <2> QED BY <1>3, <2>1, <2>2 DEF AdvanceFollowsPlan
<1> QED BY <1>4, <1>5

LEMMA LineFollowsPlan ==
    ASSUME CommandInv, RewriterInv, NEW line \in Lines, RewriteLine(line)
    PROVE  TargetFollowsPlan /\ AdvanceFollowsPlan
<1>1. printed' = ExecuteAll(printed, written')
  BY DEF RewriteLine
<1>2. CASE Extrude(line)
  BY <1>1, <1>2, BeadFollowsPlan
<1>3. ASSUME ~Extrude(line)
      PROVE  ~Extrudes /\ (written'[3].kind # "advance" => printed'.advance = printed.advance)
  <2>1. ~Extrudes
    BY <1>3 DEF RewriteLine, StampHeader, RewriteStartMacro, CopyOutside, ReadMarker,
       Retract, ReduceFeedrate, KeepFeedrate, CopyInBody, Extrudes
  <2>2. Placed(printed)
    BY DEF RewriterInv
  <2>3. CASE Copied(line)
    <3>1. printed'.advance = IF line.kind = "advance" THEN Word(line, "S", printed.advance)
                             ELSE printed.advance
      BY <1>1, <2>2, <2>3, CopiedIs, SetsAdvance
    <3>2. written'[3] = line \/ line.kind = "header"
      BY <1>1, <2>3, CopiedIs DEF Alone
    <3> QED BY <2>1, <3>1, <3>2
  <2>4. CASE RewriteStartMacro(line)
    <3>1. written'[3].kind = line.kind /\ printed' = Execute(printed, written'[3])
      <4>1. IsLine(line)
        BY RewriterAssumption DEF RewriterAssumption
      <4> QED BY <1>1, <2>4, <4>1, AloneExecutes DEF RewriteStartMacro, Alone, IsLine
    <3> QED BY <2>1, <2>2, <3>1, SetsAdvance
  <2>5. CASE ReduceFeedrate(line) \/ KeepFeedrate(line)
    BY <1>1, <2>1, <2>5, FeedrateKeepsCommands
  <2> QED BY <1>3, <2>3, <2>4, <2>5 DEF RewriteLine, Copied
<1> QED BY <1>2, <1>3 DEF TargetFollowsPlan, AdvanceFollowsPlan

\* For every plan, and every file that sets no temperature and no advance of its
\* own: whenever a bead is laid the nozzle's target is within one step of the
\* plan, and a concealed bead has the advance of its temperature.  In a file that
\* sets them itself this is claimed of the first bead (of the first concealed one)
\* only: what the slicer's commands in between do to the printer the rewriter does
\* not notice, and the theorem does not cover it.
THEOREM PrinterFollowsPlan == RewriterSpec => CommandsFollowPlan
<1>1. RewriterInv /\ CommandInv /\ [RewriterNext]_rewriterVars
          => [TargetFollowsPlan /\ AdvanceFollowsPlan]_rewriterVars
  <2> SUFFICES ASSUME RewriterInv, CommandInv, RewriterNext
               PROVE  (TargetFollowsPlan /\ AdvanceFollowsPlan) \/ UNCHANGED rewriterVars
    OBVIOUS
  <2>1. CASE \E line \in Lines : RewriteLine(line)
    BY <2>1, LineFollowsPlan
  <2>2. CASE Refuse \/ Begin \/ Cancel \/ EndOfFile
    BY <2>2 DEF Refuse, Begin, Cancel, EndOfFile, Extrudes, TargetFollowsPlan,
       AdvanceFollowsPlan
  <2> QED BY <2>1, <2>2 DEF RewriterNext
<1> QED BY <1>1, CommandsAlways, PTL DEF RewriterSpec, CommandsFollowPlan

-----------------------------------------------------------------------------
(***************************************************************************)
(* The cap per move.                                                       *)
(***************************************************************************)

\* A rate under the quotient, times the divisor, is under the dividend.
LEMMA UnderQuotient ==
    ASSUME NEW x \in Int, NEW d \in Nat, d > 0, NEW rate \in Int, rate <= x \div d
    PROVE  rate * d <= x
<1> DEFINE q == x \div d
<1>1. q \in Int /\ d * q <= x
  BY Floor
<1>2. rate <= q
  OBVIOUS
<1> HIDE DEF q
<1>3. d * rate <= d * q
  BY <1>1, <1>2
<1> QED BY <1>1, <1>3

\* A bead that is measured where it is laid, at no more than the feedrate meant.
LEMMA CappedFlow ==
    ASSUME NEW b \in Int, b > 0, NEW e \in Int, e > 0, NEW length \in Nat,
           NEW feed \in Int, NEW rate \in Int, feed <= rate + 1,
           rate <= 0 \/ rate <= MaxFeedrate(b, e, length)
    PROVE  (feed - 1) * e * FilamentArea <= 120 * b * length
<1> DEFINE d == e * FilamentArea
           x == 2 * 60 * b * length
<1>1. FilamentArea \in Nat /\ FilamentArea > 0
  BY RewriterAssumption DEF RewriterAssumption
<1>2. d \in Nat /\ d > 0
  <2>1. \A m, n \in Nat : m > 0 /\ n > 0 => m * n \in Nat /\ m * n > 0
    OBVIOUS
  <2> QED BY <1>1, <2>1
<1>3. x \in Int /\ 0 <= x /\ x = 120 * b * length
  <2>1. \A m, n \in Nat : m * n \in Nat
    OBVIOUS
  <2>2. b * length \in Nat
    BY <2>1
  <2>3. x = 120 * (b * length)
    OBVIOUS
  <2>4. 120 * b * length = 120 * (b * length)
    OBVIOUS
  <2> HIDE DEF x
  <2> QED BY <2>2, <2>3, <2>4
<1>4. MaxFeedrate(b, e, length) = x \div d
  BY DEF MaxFeedrate
<1>5. (feed - 1) * e * FilamentArea = (feed - 1) * d
  BY <1>1
<1> HIDE DEF d, x
<1>6. (feed - 1) * d <= x
  <2>1. CASE rate <= 0
    <3>1. feed - 1 <= 0
      BY <2>1
    <3>2. \A c \in Int, n \in Nat : c <= 0 => c * n <= 0
      OBVIOUS
    <3> QED BY <1>2, <1>3, <3>1, <3>2
  <2>2. CASE rate <= MaxFeedrate(b, e, length)
    <3>1. x \div d \in Int
      BY <1>2, <1>3, Floor
    <3>2. feed - 1 \in Int /\ feed - 1 <= x \div d
      BY <1>4, <2>2, <3>1
    <3> QED BY <1>2, <1>3, <3>2, UnderQuotient
  <2> QED BY <2>1, <2>2
<1> QED BY <1>3, <1>5, <1>6

\* What an extruding move prints, as far as path and speed go.
LEMMA BeadMoves ==
    ASSUME RewriterInv, NEW line \in Lines, Extrude(line),
           printed' = ExecuteAll(printed, written')
    PROVE  /\ written'[3] = IF IsCapped(line) THEN CapMove(line) ELSE line
           /\ printed'.last.feed = Word(written'[3], "F", printed.feed)
           /\ printed'.last.length = AbsDiff(Word(line, "X", printed.pos), printed.pos)
           /\ printed'.last.filament = Word(line, "E", 0)
<1> DEFINE planned == Planned(usedFilament')
           advance == TemperatureToPressureAdvance(Filament, planned)
           heat == TemperatureLine(FormatNumber(planned))
           tune == AdvanceLine(FormatNumber(advance))
           hot == Execute(printed, NeededLine(NeedsTemp(planned), heat))
           tuned == Execute(hot, NeededLine(NeedsAdvance(advance), tune))
           move == IF IsCapped(line) THEN CapMove(line) ELSE line
<1>1. IsLine(line) /\ line.kind = "move"
  BY RewriterAssumption DEF RewriterAssumption, Extrude, IsExtrudingMove, IsMove
<1>2. printed' = Execute(tuned, move) /\ written'[3] = move
  BY DEF Extrude, ExecuteAll
<1>3. ~Drives(heat) /\ ~Drives(tune)
  BY DEF TemperatureLine, AdvanceLine, Command, Drives
<1>4. /\ move.kind = "move" /\ Word(move, "X", printed.pos) = Word(line, "X", printed.pos)
      /\ Word(move, "E", 0) = Word(line, "E", 0)
  BY <1>1, CapKeepsWords
<1> HIDE DEF heat, tune, move, planned, advance
<1>5. Placed(hot) /\ hot.pos = printed.pos /\ hot.feed = printed.feed
  BY <1>3, NoLines DEF RewriterInv
<1> HIDE DEF hot
<1>6. Placed(tuned) /\ tuned.pos = printed.pos /\ tuned.feed = printed.feed
  BY <1>3, <1>5, NoLines
<1> HIDE DEF tuned
<1>7. printed'.last = MotionOf(tuned, move)
  BY <1>2, <1>4, <1>6, Drive DEF Drives
<1>8. /\ printed'.last.feed = Word(move, "F", printed.feed)
      /\ printed'.last.length = AbsDiff(Word(line, "X", printed.pos), printed.pos)
      /\ printed'.last.filament = Word(line, "E", 0)
  BY <1>4, <1>6, <1>7 DEF MotionOf
<1> QED BY <1>2, <1>8 DEF move

\* An F word that is appended to the line can be read.
TakesWord(line) == Has(line, "F") \/ line.text = ""

\* The premises of CapHoldsWhenTracked.
Tracked ==
    /\ options.maxFlow > 0 /\ posX = printed.pos
    /\ printed.feed <= slicerFeedrate + 1 /\ printed'.last.length > 0
    /\ TakesWord(written'[3])
    /\ FlowBudget(Planned(usedFilament')) > 0

LEMMA AppendsToBare ==
    ASSUME NEW line, IsLine(line), NEW value, line.text = ""
    PROVE  /\ Has(AppendWord(line, "F", value), "F")
           /\ AppendWord(line, "F", value).words["F"] = value
<1> DEFINE words == [c \in DOMAIN line.words \cup {"F"} |->
                        IF c = "F" THEN value ELSE line.words[c]]
<1>1. AppendWord(line, "F", value) = [line EXCEPT !.words = words]
  BY Zenon DEF AppendWord
<1>2. "F" \in DOMAIN words /\ words["F"] = value
  OBVIOUS
<1> HIDE DEF words
<1>3. [line EXCEPT !.words = words].words = words
  BY DEF IsLine
<1> QED BY <1>1, <1>2, <1>3 DEF Has

\* A comment takes the word: nothing is changed.
LEMMA AppendsToComment ==
    ASSUME NEW line, NEW value
    PROVE  line.text = "" \/ AppendWord(line, "F", value) = line
BY Zenon DEF AppendWord

LEMMA AppendsWord ==
    ASSUME NEW line, IsLine(line), ~Has(line, "F"), NEW value,
           TakesWord(AppendWord(line, "F", value))
    PROVE  /\ Has(AppendWord(line, "F", value), "F")
           /\ AppendWord(line, "F", value).words["F"] = value
<1>1. line.text = ""
  BY AppendsToComment, Zenon DEF TakesWord
<1> QED BY <1>1, AppendsToBare, Zenon

LEMMA BeadCapInt ==
    ASSUME CommandInv, RewriterInv, NEW line \in Lines, Extrude(line), posX \in Int
    PROVE  MoveCap(line) \in Int
<1> DEFINE b == FlowBudget(Planned(usedFilament'))
           e == Word(line, "E", 0)
           length == AbsDiff(Word(line, "X", posX), posX)
           d == e * FilamentArea
           x == 2 * 60 * b * length
<1>1. /\ IsLine(line) /\ e > 0 /\ usedFilament' = usedFilament + e
      /\ status = "rewriting"
  BY RewriterAssumption DEF RewriterAssumption, Extrude, ConsumeInBody, Consume,
     IsExtrudingMove
<1>2. e \in Int /\ Word(line, "X", posX) \in Int
  BY <1>1, WordInt DEF Letters
<1>3. usedFilament' \in Nat
  BY <1>1, <1>2 DEF RewriterInv
<1>4. b \in Int
  BY <1>1, <1>3, PlannedNat, BudgetInt DEF CommandInv, RewriterInv
<1>5. length \in Nat
  BY <1>2 DEF AbsDiff
<1>6. FilamentArea \in Nat /\ FilamentArea > 0
  BY RewriterAssumption DEF RewriterAssumption
<1>7. MoveCap(line) = x \div d
  BY DEF MoveCap, MaxFeedrate
<1> HIDE DEF b, e, length
<1>8. d \in Nat /\ d > 0 /\ x \in Int
  <2>1. \A m, n \in Nat : m > 0 /\ n > 0 => m * n \in Nat /\ m * n > 0
    OBVIOUS
  <2> QED BY <1>1, <1>2, <1>4, <1>5, <1>6, <2>1
<1> HIDE DEF d, x
<1> QED BY <1>7, <1>8, Floor

LEMMA CapStep ==
    ASSUME CommandInv, RewriterInv, NEW line \in Lines, Extrude(line),
           printed' = ExecuteAll(printed, written'),
           slicerFeedrate \in Int, printed.feed \in Int, Tracked
    PROVE  FlowWithin(printed'.last, FlowBudget(Planned(usedFilament')))
<1> DEFINE b == FlowBudget(Planned(usedFilament'))
           e == Word(line, "E", 0)
           length == AbsDiff(Word(line, "X", posX), posX)
           feed == printed'.last.feed
           cap == MoveCap(line)
<1>1. /\ IsLine(line) /\ e > 0 /\ usedFilament' = usedFilament + e
      /\ status = "rewriting" /\ options' = options
  BY RewriterAssumption DEF RewriterAssumption, Extrude, ConsumeInBody, Consume, inputs,
     IsExtrudingMove
<1>2. e \in Int /\ posX \in Int /\ Word(line, "X", posX) \in Int
  <2>1. posX \in Int
    BY DEF Tracked, RewriterInv, Placed
  <2> QED BY <1>1, <2>1, WordInt DEF Letters
<1>3. usedFilament' \in Nat
  BY <1>1, <1>2 DEF RewriterInv
<1>4. b \in Int
  BY <1>1, <1>3, PlannedNat, BudgetInt DEF CommandInv, RewriterInv
<1>5. length \in Nat /\ length = printed'.last.length /\ e = printed'.last.filament
  BY <1>2, BeadMoves DEF AbsDiff, Tracked
<1>6. cap = MaxFeedrate(b, e, length)
  BY DEF MoveCap
<1>7. cap \in Int
  BY <1>2, BeadCapInt
<1>8. Effective(line) \in Int
  BY <1>1, WordInt DEF Effective, Letters
<1> HIDE DEF b, e, length, cap
<1>9. PICK rate \in Int : /\ feed \in Int /\ feed <= rate + 1
                          /\ rate <= 0 \/ rate <= cap
  <2>1. CASE IsCapped(line)
    <3>1. Has(written'[3], "F") /\ Word(written'[3], "F", printed.feed) = Round(cap)
      <4>1. written'[3] = CapMove(line)
        BY <2>1, BeadMoves
      <4>2. CASE Has(line, "F")
        BY <1>1, <4>1, <4>2 DEF CapMove, Has, Word, IsLine, cap
      <4>3. CASE ~Has(line, "F")
        <5>1. CapMove(line) = AppendWord(line, "F", Round(cap))
          BY <4>3 DEF CapMove, cap
        <5>2. TakesWord(AppendWord(line, "F", Round(cap)))
          BY <4>1, <5>1 DEF Tracked
        <5>3. Has(CapMove(line), "F") /\ CapMove(line).words["F"] = Round(cap)
          BY <1>1, <4>3, <5>1, <5>2, AppendsWord
        <5> QED BY <4>1, <5>3 DEF Word
      <4> QED BY <4>2, <4>3
    <3>2. feed = Round(cap)
      BY <3>1, BeadMoves
    <3>3. feed \in Int /\ feed <= cap + 1
      BY <1>7, <3>2, Rounding
    <3> QED BY <1>7, <3>3
  <2>2. CASE ~IsCapped(line)
    <3>1. feed = Word(line, "F", printed.feed)
      BY <2>2, BeadMoves
    <3>2. feed \in Int /\ feed <= Effective(line) + 1
      BY <1>1, <1>8, <3>1, WordInt DEF Effective, Word, Letters, Tracked
    <3>3. Word(line, "X", posX) # posX
      BY <1>2, <1>5 DEF length, AbsDiff, Tracked
    <3>4. Effective(line) <= 0 \/ Effective(line) <= cap
      BY <1>4, <1>7, <1>8, <2>2, <3>3 DEF IsCapped, cap, b, Tracked
    <3> QED BY <1>8, <3>2, <3>4
  <2> QED BY <2>1, <2>2
<1>10. b > 0
  BY DEF b, Tracked
<1> HIDE DEF feed
<1>11. (feed - 1) * e * FilamentArea <= 120 * b * length
  BY <1>1, <1>2, <1>4, <1>5, <1>6, <1>9, <1>10, CappedFlow DEF e
<1> QED BY <1>5, <1>11 DEF FlowWithin, b, feed

\* The numbers a printer's path and speed are made of.
Numeric(line) ==
    /\ Has(line, "X") => line.words["X"] \in Int
    /\ Has(line, "F") => line.words["F"] \in Int

FeedsInv == slicerFeedrate \in Int /\ printed.feed \in Int /\ posX \in Int

LEMMA Runs ==
    ASSUME NEW m, NEW line, Placed(m), m.feed \in Int, Numeric(line)
    PROVE  Placed(Execute(m, line)) /\ Execute(m, line).feed \in Int
<1>1. CASE Drives(line)
  <2>1. Word(line, "X", m.pos) \in Int /\ Word(line, "F", m.feed) \in Int
    BY DEF Numeric, Placed, Word
  <2> QED BY <1>1, <2>1, Drive DEF Placed
<1>2. CASE ~Drives(line)
  BY <1>2, Idles
<1> QED BY <1>1, <1>2

LEMMA LinesAreNumeric ==
    ASSUME NEW line, IsLine(line)
    PROVE  Numeric(line)
BY DEF Numeric, IsLine, Has

LEMMA OwnLinesAreNumeric ==
    /\ Numeric(NoLine) /\ Numeric(StampLine)
    /\ \A v \in Int : Numeric(FeedrateLine(v))
    /\ \A v : Numeric(TemperatureLine(v)) /\ Numeric(AdvanceLine(v))
BY DEF Numeric, NoLine, StampLine, FeedrateLine, TemperatureLine, AdvanceLine, Command, Has

LEMMA CappedIsNumeric ==
    ASSUME NEW line, IsLine(line), MoveCap(line) \in Int
    PROVE  Numeric(CapMove(line))
<1>1. Round(MoveCap(line)) \in Int
  BY Rounding
<1>2. CASE Has(line, "F")
  BY <1>1, <1>2 DEF CapMove, Numeric, IsLine, Has
<1>3. CASE ~Has(line, "F")
  <2>1. CapMove(line) = AppendWord(line, "F", Round(MoveCap(line)))
    BY <1>3 DEF CapMove
  <2> DEFINE new == AppendWord(line, "F", Round(MoveCap(line)))
  <2>2. new = line \/ line.text = ""
    BY AppendsToComment, Zenon
  <2>3. CASE new = line
    BY <2>1, <2>3, LinesAreNumeric
  <2>4. CASE line.text = ""
    <3>1. Has(new, "F") /\ new.words["F"] = Round(MoveCap(line))
      BY <2>4, AppendsToBare, Zenon
    <3>2. /\ Has(CapMove(line), "X") <=> Has(line, "X")
          /\ Word(CapMove(line), "X", 0) = Word(line, "X", 0)
      BY CapKeepsWords
    <3>3. Has(new, "X") => new.words["X"] \in Int
      <4>1. Has(line, "X") => line.words["X"] \in Int
        BY LinesAreNumeric DEF Numeric
      <4>2. Has(new, "X") <=> Has(line, "X")
        BY <2>1, <3>2
      <4>3. Word(new, "X", 0) = Word(line, "X", 0)
        BY <2>1, <3>2
      <4> HIDE DEF new
      <4> QED BY <4>1, <4>2, <4>3 DEF Word
    <3> HIDE DEF new
    <3>4. Numeric(new)
      BY <1>1, <3>1, <3>3 DEF Numeric
    <3> QED BY <2>1, <3>4 DEF new
  <2> QED BY <2>2, <2>3, <2>4
<1> QED BY <1>2, <1>3

LEMMA FeedsStep ==
    ASSUME FeedsInv, CommandInv, RewriterInv, NEW line \in Lines, RewriteLine(line)
    PROVE  FeedsInv'
<1>1. IsLine(line) /\ printed' = ExecuteAll(printed, written')
  BY RewriterAssumption DEF RewriterAssumption, RewriteLine
<1>2. Word(line, "F", 0) \in Int /\ Word(line, "F", slicerFeedrate) \in Int
  BY <1>1, WordInt DEF FeedsInv, Letters
<1>3. slicerFeedrate' \in Int
  <2>1. \/ slicerFeedrate' = slicerFeedrate \/ slicerFeedrate' = Word(line, "F", 0)
        \/ slicerFeedrate' = Word(line, "F", slicerFeedrate)
    BY DEF RewriteLine, StampHeader, RewriteStartMacro, CopyOutside, ReadMarker, Retract,
       ReduceFeedrate, KeepFeedrate, CopyInBody, Extrude
  <2> QED BY <1>2, <2>1 DEF FeedsInv
<1>4. Numeric(written'[1]) /\ Numeric(written'[2]) /\ Numeric(written'[3])
  <2>1. CASE Copied(line)
    <3>1. written' = Alone(line) \/ written' = <<NoLine, line, StampLine>>
      BY <1>1, <2>1, CopiedIs
    <3> QED BY <1>1, <3>1, LinesAreNumeric, OwnLinesAreNumeric DEF Alone
  <2>2. CASE RewriteStartMacro(line)
    <3> DEFINE macro == [line EXCEPT !.words =
                            [@ EXCEPT !["S"] = FormatNumber(plan.achievable[1])]]
    <3>1. written' = Alone(macro)
      BY <2>2 DEF RewriteStartMacro
    <3>2. Numeric(macro)
      BY <1>1, LinesAreNumeric DEF Numeric, IsLine, Has
    <3> HIDE DEF macro
    <3> QED BY <3>1, <3>2, OwnLinesAreNumeric DEF Alone
  <2>3. CASE ReduceFeedrate(line)
    <3>1. slicerFeedrate' \in Int /\ Recommended \in Int
      BY <1>3, <2>3, RecommendedInt DEF ReduceFeedrate, Clamps, RewriterInv
    <3>2. FormatNumber(slicerFeedrate') \in Int /\ Round(Recommended) \in Int
      BY <3>1, Rounding
    <3> QED BY <2>3, <3>2, OwnLinesAreNumeric DEF ReduceFeedrate, NeededLine
  <2>4. CASE KeepFeedrate(line)
    <3>1. FormatNumber(slicerFeedrate') \in Int
      BY <1>3, Rounding
    <3> QED BY <2>4, <3>1, OwnLinesAreNumeric DEF KeepFeedrate, Alone
  <2>5. CASE Extrude(line)
    <3>1. Numeric(written'[1]) /\ Numeric(written'[2])
      BY <2>5, OwnLinesAreNumeric DEF Extrude, NeededLine
    <3>2. MoveCap(line) \in Int
      BY <1>1, <2>5, BeadCapInt DEF FeedsInv
    <3>3. Numeric(written'[3])
      BY <1>1, <2>5, <3>2, BeadMoves, CappedIsNumeric, LinesAreNumeric
    <3> QED BY <3>1, <3>3
  <2> QED BY <2>1, <2>2, <2>3, <2>4, <2>5 DEF RewriteLine, Copied
<1>5. printed'.feed \in Int
  <2> DEFINE a == Execute(printed, written'[1])
             b == Execute(a, written'[2])
  <2>1. Placed(a) /\ a.feed \in Int
    BY <1>4, Runs DEF RewriterInv, FeedsInv
  <2>2. printed' = Execute(b, written'[3])
    BY <1>1 DEF ExecuteAll
  <2> HIDE DEF a
  <2>3. Placed(b) /\ b.feed \in Int
    BY <1>4, <2>1, Runs
  <2> HIDE DEF b
  <2> QED BY <1>4, <2>2, <2>3, Runs
<1>6. posX' \in Int
  <2>1. posX' = posX \/ posX' = Word(line, "X", posX)
    BY DEF RewriteLine, StampHeader, RewriteStartMacro, CopyOutside, ReadMarker, Retract,
       ReduceFeedrate, KeepFeedrate, CopyInBody, Extrude
  <2> QED BY <1>1, <2>1, WordInt DEF FeedsInv, Letters
<1> QED BY <1>3, <1>5, <1>6 DEF FeedsInv

LEMMA FeedsAlways == RewriterSpec => [](RewriterInv /\ CommandInv /\ FeedsInv)
<1>1. RewriterInit => FeedsInv
  BY DEF RewriterInit, FreshCall, FeedsInv, IdleMachine
<1>2. RewriterInv /\ CommandInv /\ FeedsInv /\ [RewriterNext]_rewriterVars => FeedsInv'
  <2> SUFFICES ASSUME RewriterInv, CommandInv, FeedsInv, [RewriterNext]_rewriterVars
               PROVE  FeedsInv'
    OBVIOUS
  <2>1. CASE \E line \in Lines : RewriteLine(line)
    BY <2>1, FeedsStep
  <2>2. CASE Refuse \/ Begin \/ Cancel \/ EndOfFile
    BY <2>2 DEF Refuse, Begin, Cancel, EndOfFile, FeedsInv
  <2>3. CASE UNCHANGED rewriterVars
    BY <2>3 DEF rewriterVars, FeedsInv
  <2> QED BY <2>1, <2>2, <2>3 DEF RewriterNext
<1> QED BY <1>1, <1>2, CommandsAlways, PTL DEF RewriterSpec

\* For every file, calibration and ceiling: a bead whose place and feedrate the
\* rewriter knows is laid within the flow budget of its temperature.
THEOREM CapIsExact == RewriterSpec => CapHoldsWhenTracked
<1> DEFINE Holds ==
        (/\ Extrudes /\ options.maxFlow > 0
         /\ posX = printed.pos
         /\ printed.feed <= slicerFeedrate + 1
         /\ printed'.last.length > 0
         /\ (Has(written'[3], "F") \/ written'[3].text = "")
         /\ FlowBudget(Planned(usedFilament')) > 0)
        => FlowWithin(printed'.last, FlowBudget(Planned(usedFilament')))
<1>1. RewriterInv /\ CommandInv /\ FeedsInv /\ [RewriterNext]_rewriterVars
          => [Holds]_rewriterVars
  <2> SUFFICES ASSUME RewriterInv, CommandInv, FeedsInv, RewriterNext, Extrudes, Tracked
               PROVE  FlowWithin(printed'.last, FlowBudget(Planned(usedFilament')))
    BY Zenon DEF Tracked, TakesWord
  <2>1. PICK line \in Lines : RewriteLine(line)
    BY DEF RewriterNext, Refuse, Begin, Cancel, EndOfFile, Extrudes
  <2>2. Extrude(line)
    BY <2>1 DEF Extrudes, RewriteLine, StampHeader, RewriteStartMacro, CopyOutside,
       ReadMarker, Retract, ReduceFeedrate, KeepFeedrate, CopyInBody
  <2> QED BY <2>1, <2>2, CapStep DEF RewriteLine, FeedsInv
<1> QED BY <1>1, FeedsAlways, PTL DEF RewriterSpec, CapHoldsWhenTracked


-----------------------------------------------------------------------------
(***************************************************************************)
(* What the compare command extracts from the lines written: the commands   *)
(* in the order of the filament, of which the last one is in force.         *)
(***************************************************************************)

Curves == [usedFilament : Nat, points : Seq(TemperaturePoint)]

Ordered(c) ==
    /\ c \in Curves
    /\ \A i \in DOMAIN c.points : c.points[i].usedFilament <= c.usedFilament

Tells(c, m) == c.points # <<>> => c.points[Len(c.points)].temperature = m.target

HeatsByMacro(line) == line.kind = "macro" /\ Has(line, "S")

\* A profile that names its start macro, or a file in which no macro heats.
MacrosAreKnown == HasStartMacro \/ \A line \in Lines : ~HeatsByMacro(line)

CurveInv ==
    /\ Ordered(curve)
    /\ MacrosAreKnown /\ ~startMacroRewritten => Tells(curve, printed)
    /\ status = "called" => written = Nothing

\* The numbers extraction reads of a line, and the one it does not.
Readable(line) ==
    /\ line.kind = "move" => Word(line, "E", 0) \in Int
    /\ line.kind = "temp" => Word(line, "S", 0) \in Int

LEMMA OneLineMore ==
    ASSUME NEW c, Ordered(c), NEW line, Readable(line), NEW m, Placed(m)
    PROVE  /\ Ordered(Extract(c, line))
           /\ Tells(c, m) /\ ~HeatsByMacro(line) => Tells(Extract(c, line), Execute(m, line))
<1> DEFINE used == c.usedFilament
           points == c.points
           e == Word(line, "E", 0)
           n == Len(points)
<1>1. /\ used \in Nat /\ points \in Seq(TemperaturePoint) /\ n \in Nat /\ DOMAIN points = 1 .. n
      /\ c = [usedFilament |-> used, points |-> points]
      /\ \A i \in 1 .. n : points[i].usedFilament <= used
      /\ \A i \in 1 .. n : points[i] \in TemperaturePoint
  BY LenProperties DEF Ordered, Curves
<1>2. Execute(m, line).target = IF Heats(line) THEN Word(line, "S", m.target) ELSE m.target
  BY SetsTarget
<1>3. CASE line.kind = "move"
  <2> DEFINE more == IF e > 0 THEN used + e ELSE used
  <2>1. Extract(c, line) = [usedFilament |-> more, points |-> points]
    BY <1>1, <1>3 DEF Extract, IsMove
  <2>2. more \in Nat /\ used <= more
    BY <1>1, <1>3 DEF Readable
  <2> HIDE DEF more, used, e
  <2>3. Ordered(Extract(c, line))
    <3>1. \A i \in 1 .. n : points[i].usedFilament <= more
      <4>1. \A i \in 1 .. n : points[i].usedFilament \in Nat
        BY <1>1 DEF TemperaturePoint
      <4> QED BY <1>1, <2>2, <4>1
    <3> HIDE DEF points, n
    <3> QED BY <1>1, <2>1, <2>2, <3>1 DEF Ordered, Curves
  <2>4. Execute(m, line).target = m.target /\ Extract(c, line).points = points
    BY <1>2, <1>3, <2>1 DEF Heats
  <2> QED BY <2>3, <2>4 DEF Tells
<1>4. CASE line.kind = "temp" /\ Has(line, "S")
  <2> DEFINE s == Word(line, "S", 0)
             point == [usedFilament |-> used, temperature |-> s]
             new == Append(points, point)
  <2>1. Extract(c, line) = [usedFilament |-> used, points |-> new]
    BY <1>1, <1>4 DEF Extract, IsMove
  <2>2. s \in Int /\ Execute(m, line).target = s
    BY <1>2, <1>4 DEF Readable, Heats, Word
  <2>3. point \in TemperaturePoint /\ point.usedFilament = used /\ point.temperature = s
    BY <1>1, <2>2 DEF TemperaturePoint
  <2> HIDE DEF s, point, used, points
  <2>4. /\ new \in Seq(TemperaturePoint) /\ Len(new) = n + 1 /\ DOMAIN new = 1 .. (n + 1)
        /\ new[n + 1] = point /\ \A i \in 1 .. n : new[i] = points[i]
    BY <1>1, <2>3, AppendProperties, LenProperties
  <2> HIDE DEF new, n
  <2>5. \A i \in 1 .. (n + 1) : new[i].usedFilament <= used
    <3>1. \A i \in 1 .. (n + 1) : i \in 1 .. n \/ i = n + 1
      BY <1>1
    <3> QED BY <1>1, <2>3, <2>4, <3>1
  <2>6. Ordered(Extract(c, line))
    BY <1>1, <2>1, <2>4, <2>5 DEF Ordered, Curves
  <2> QED BY <2>1, <2>2, <2>3, <2>4, <2>6 DEF Tells
<1>5. CASE line.kind # "move" /\ ~(line.kind = "temp" /\ Has(line, "S"))
  <2>1. Extract(c, line) = c
    BY <1>5 DEF Extract, IsMove
  <2>2. ~HeatsByMacro(line) => Execute(m, line).target = m.target
    BY <1>2, <1>5 DEF Heats, HeatsByMacro, Word
  <2> QED BY <2>1, <2>2 DEF Tells
<1> QED BY <1>3, <1>4, <1>5

\* Three lines, one after the other, of which the first two do not move the tool.
Steady(line) == Has(line, "X") => ~Drives(line)

LEMMA SteadyStaysPlaced ==
    ASSUME NEW m, NEW line, Steady(line), Placed(m)
    PROVE  Placed(Execute(m, line))
BY StaysPlaced, Idles DEF Steady

LEMMA ThreeLinesMore ==
    ASSUME Ordered(curve), Placed(printed), curve' = ExtractAll(curve, written'),
           printed' = ExecuteAll(printed, written'),
           \A i \in 1 .. 3 : Readable(written'[i]),
           Steady(written'[1]), Steady(written'[2])
    PROVE  /\ Ordered(curve')
           /\ Tells(curve, printed) /\ (\A i \in 1 .. 3 : ~HeatsByMacro(written'[i]))
                  => Tells(curve', printed')
<1> DEFINE w1 == written'[1]
           w2 == written'[2]
           w3 == written'[3]
           c1 == Extract(curve, w1)
           c2 == Extract(c1, w2)
           m1 == Execute(printed, w1)
           m2 == Execute(m1, w2)
<1>1. /\ Readable(w1) /\ Readable(w2) /\ Readable(w3)
      /\ Steady(w1) /\ Steady(w2)
      /\ (\A i \in 1 .. 3 : ~HeatsByMacro(written'[i]))
             => ~HeatsByMacro(w1) /\ ~HeatsByMacro(w2) /\ ~HeatsByMacro(w3)
      /\ curve' = Extract(c2, w3) /\ printed' = Execute(m2, w3)
  BY DEF ExtractAll, ExecuteAll
<1> HIDE DEF w1, w2, w3
<1>2. /\ Ordered(c1) /\ Placed(m1)
      /\ Tells(curve, printed) /\ ~HeatsByMacro(w1) => Tells(c1, m1)
  BY <1>1, OneLineMore, SteadyStaysPlaced
<1> HIDE DEF c1, m1
<1>3. /\ Ordered(c2) /\ Placed(m2)
      /\ Tells(c1, m1) /\ ~HeatsByMacro(w2) => Tells(c2, m2)
  BY <1>1, <1>2, OneLineMore, SteadyStaysPlaced
<1> HIDE DEF c2, m2
<1>4. /\ Ordered(curve')
      /\ Tells(c2, m2) /\ ~HeatsByMacro(w3) => Tells(curve', printed')
  BY <1>1, <1>3, OneLineMore
<1> QED BY <1>1, <1>2, <1>3, <1>4

\* The lines of the rewriter's own.
LEMMA OwnLinesAreReadable ==
    /\ Readable(NoLine) /\ ~HeatsByMacro(NoLine) /\ Steady(NoLine)
    /\ Readable(StampLine) /\ ~HeatsByMacro(StampLine)
    /\ \A v : LET f == FeedrateLine(v)
              IN  Readable(f) /\ ~HeatsByMacro(f) /\ Steady(f)
    /\ \A v : LET a == AdvanceLine(v)
              IN  Readable(a) /\ ~HeatsByMacro(a) /\ Steady(a)
    /\ \A v \in Int : LET t == TemperatureLine(v)
                      IN  Readable(t) /\ ~HeatsByMacro(t) /\ Steady(t)
<1>1. Readable(NoLine) /\ ~HeatsByMacro(NoLine) /\ ~Has(NoLine, "X")
  BY DEF Readable, HeatsByMacro, NoLine, Has
<1>2. Readable(StampLine) /\ ~HeatsByMacro(StampLine)
  BY DEF Readable, HeatsByMacro, StampLine
<1>3. ASSUME NEW v
      PROVE  LET f == FeedrateLine(v)
             IN  Readable(f) /\ ~HeatsByMacro(f) /\ ~Has(f, "X")
  BY DEF Readable, HeatsByMacro, FeedrateLine, Command, Has, Word
<1>4. ASSUME NEW v
      PROVE  LET a == AdvanceLine(v)
             IN  Readable(a) /\ ~HeatsByMacro(a) /\ ~Has(a, "X")
  BY DEF Readable, HeatsByMacro, AdvanceLine, Command, Has
<1>5. ASSUME NEW v \in Int
      PROVE  LET t == TemperatureLine(v)
             IN  Readable(t) /\ ~HeatsByMacro(t) /\ ~Has(t, "X")
  BY DEF Readable, HeatsByMacro, TemperatureLine, Command, Has, Word
<1> QED BY <1>1, <1>2, <1>3, <1>4, <1>5 DEF Steady

LEMMA LinesAreReadable ==
    ASSUME NEW line, IsLine(line)
    PROVE  Readable(line)
<1>1. Word(line, "E", 0) \in Int /\ Word(line, "S", 0) \in Int
  BY WordInt DEF Letters
<1> QED BY <1>1 DEF Readable

\* Behind a profile's start macro no macro heats: the first one that does is the
\* one the rewriter rewrites.
LEMMA WrittenIsReadable ==
    ASSUME RewriterInv, CommandInv, NEW line \in Lines, RewriteLine(line)
    PROVE  /\ \A i \in 1 .. 3 : Readable(written'[i])
           /\ Steady(written'[1]) /\ Steady(written'[2])
           /\ MacrosAreKnown /\ ~startMacroRewritten'
                  => ~startMacroRewritten /\ \A i \in 1 .. 3 : ~HeatsByMacro(written'[i])
<1> DEFINE Good(l) == Readable(l) /\ ~HeatsByMacro(l) /\ Steady(l)
           Mild(l) == Readable(l) /\ (MacrosAreKnown /\ ~startMacroRewritten' => ~HeatsByMacro(l))
<1>1. IsLine(line) /\ Readable(line)
  <2>1. IsLine(line)
    BY RewriterAssumption DEF RewriterAssumption
  <2> QED BY <2>1, LinesAreReadable
<1>2. SUFFICES /\ Good(written'[1]) /\ Good(written'[2]) /\ Mild(written'[3])
               /\ ~startMacroRewritten' => ~startMacroRewritten
  <2>1. \A i \in 1 .. 3 : i = 1 \/ i = 2 \/ i = 3
    OBVIOUS
  <2> QED BY <2>1
<1>3. Good(NoLine) /\ (\A v : Good(FeedrateLine(v)) /\ Good(AdvanceLine(v)))
      /\ (\A v \in Int : Good(TemperatureLine(v)))
  BY OwnLinesAreReadable
<1>4. ~startMacroRewritten' => ~startMacroRewritten
  BY DEF RewriteLine, StampHeader, RewriteStartMacro, CopyOutside, ReadMarker, Retract,
         ReduceFeedrate, KeepFeedrate, CopyInBody, Extrude, ConsumeInBody, marks
<1> HIDE DEF Good
<1>5. CASE Copied(line)
  <2>1. \/ written' = Alone(line)
        \/ line.kind = "header" /\ written' = <<NoLine, line, StampLine>>
    BY <1>5, CopiedIs DEF RewriteLine
  <2>2. MacrosAreKnown /\ ~startMacroRewritten => ~HeatsByMacro(line)
    <3>1. HasStartMacro /\ ~startMacroRewritten => ~HeatsByMacro(line)
      BY <1>5 DEF Copied, StampHeader, CopyOutside, ReadMarker, Retract, CopyInBody, IsHeader,
                  ConsumeInBody, IsStartMacro, HeatsByMacro
    <3> QED BY <3>1 DEF MacrosAreKnown
  <2>3. CASE written' = Alone(line)
    BY <1>1, <1>3, <1>4, <2>2, <2>3 DEF Alone
  <2>4. CASE line.kind = "header" /\ written' = <<NoLine, line, StampLine>>
    <3>1. Good(line)
      BY <1>1, <2>4 DEF Good, HeatsByMacro, Steady, Drives
    <3>2. Readable(StampLine) /\ ~HeatsByMacro(StampLine)
      BY OwnLinesAreReadable
    <3> QED BY <1>3, <1>4, <2>4, <3>1, <3>2
  <2> QED BY <2>1, <2>3, <2>4
<1>6. CASE RewriteStartMacro(line)
  <2> DEFINE macro == [line EXCEPT !.words =
                          [@ EXCEPT !["S"] = FormatNumber(plan.achievable[1])]]
  <2>1. written' = Alone(macro) /\ startMacroRewritten'
    BY <1>6 DEF RewriteStartMacro
  <2>2. macro.kind = "macro"
    BY <1>1, <1>6 DEF RewriteStartMacro, IsStartMacro, IsLine
  <2>3. Readable(macro)
    BY <2>2 DEF Readable
  <2> HIDE DEF macro
  <2> QED BY <1>3, <2>1, <2>3 DEF Alone
<1>7. CASE ReduceFeedrate(line) \/ KeepFeedrate(line)
  <2>1. CASE ReduceFeedrate(line)
    <3> DEFINE echo == FeedrateLine(FormatNumber(slicerFeedrate'))
               own == FeedrateLine(Round(Recommended))
    <3>1. /\ written'[1] = NoLine
          /\ written'[2] = NeededLine(options.echoSlicerSpeed, echo)
          /\ written'[3] = own
      BY <2>1 DEF ReduceFeedrate
    <3>2. Good(echo) /\ Good(own)
      BY <1>3
    <3> HIDE DEF echo, own
    <3>3. Good(written'[1]) /\ Good(written'[2]) /\ Good(written'[3])
      BY <1>3, <3>1, <3>2 DEF NeededLine
    <3> QED BY <1>4, <3>3 DEF Good
  <2>2. CASE KeepFeedrate(line)
    <3> DEFINE own == FeedrateLine(FormatNumber(slicerFeedrate'))
    <3>1. written'[1] = NoLine /\ written'[2] = NoLine /\ written'[3] = own
      BY <2>2 DEF KeepFeedrate, Alone
    <3>2. Good(own)
      BY <1>3
    <3> HIDE DEF own
    <3>3. Good(written'[1]) /\ Good(written'[2]) /\ Good(written'[3])
      BY <1>3, <3>1, <3>2
    <3> QED BY <1>4, <3>3 DEF Good
  <2> QED BY <1>7, <2>1, <2>2
<1>8. CASE Extrude(line)
  <2> DEFINE planned == Planned(usedFilament')
             advance == TemperatureToPressureAdvance(Filament, planned)
  <2>1. /\ written'[1] = NeededLine(NeedsTemp(planned), TemperatureLine(FormatNumber(planned)))
        /\ written'[2] = NeededLine(NeedsAdvance(advance), AdvanceLine(FormatNumber(advance)))
        /\ written'[3] = IF IsCapped(line) THEN CapMove(line) ELSE line
        /\ IsMove(line)
    BY <1>8 DEF Extrude, IsExtrudingMove
  <2>2. FormatNumber(planned) \in Int
    <3>1. /\ status = "rewriting" /\ usedFilament' = usedFilament + Word(line, "E", 0)
          /\ Word(line, "E", 0) > 0
      BY <1>8 DEF Extrude, ConsumeInBody, Consume, IsExtrudingMove
    <3>2. usedFilament' \in Nat
      <4>1. Word(line, "E", 0) \in Int
        BY <1>1, WordInt DEF Letters
      <4>2. usedFilament \in Nat
        BY DEF RewriterInv
      <4> QED BY <3>1, <4>1, <4>2
    <3>3. planned \in Nat
      BY <3>1, <3>2, PlannedNat DEF CommandInv, RewriterInv
    <3> HIDE DEF planned
    <3>4. planned \in Int
      BY <3>3
    <3> QED BY <3>4, Rounding
  <2> HIDE DEF planned, advance
  <2>3. Good(written'[1]) /\ Good(written'[2])
    BY <1>3, <2>1, <2>2 DEF NeededLine
  <2>4. Readable(written'[3]) /\ ~HeatsByMacro(written'[3])
    <3>1. CapMove(line).kind = line.kind /\ Word(CapMove(line), "E", 0) = Word(line, "E", 0)
      BY <1>1, CapKeepsWords
    <3> QED BY <1>1, <2>1, <3>1 DEF Readable, HeatsByMacro, IsMove
  <2> QED BY <1>4, <2>3, <2>4
<1> QED BY <1>5, <1>6, <1>7, <1>8 DEF RewriteLine, Copied

LEMMA NothingExtracts ==
    ASSUME NEW c
    PROVE  ExtractAll(c, Nothing) = c
<1>1. NoLine.kind = "other"
  BY Zenon DEF NoLine
<1>2. Extract(c, NoLine) = c
  BY <1>1 DEF Extract, IsMove
<1> QED BY <1>2 DEF ExtractAll, Nothing

LEMMA CurveInvStep ==
    ASSUME CurveInv, RewriterInv, CommandInv, [ComparedNext]_comparedVars
    PROVE  CurveInv'
<1>1. CASE ExtractWritten /\ \E line \in Lines : RewriteLine(line)
  <2> PICK line \in Lines : RewriteLine(line)
    BY <1>1
  <2>1. printed' = ExecuteAll(printed, written') /\ curve' = ExtractAll(curve, written')
    BY <1>1 DEF RewriteLine, ExtractWritten
  <2>2. status' = "rewriting"
    BY DEF RewriteLine, StampHeader, RewriteStartMacro, CopyOutside, ReadMarker, Retract,
       ReduceFeedrate, KeepFeedrate, CopyInBody, Extrude, ConsumeInBody, Consume
  <2>3. /\ Ordered(curve')
        /\ Tells(curve, printed) /\ (\A i \in 1 .. 3 : ~HeatsByMacro(written'[i]))
               => Tells(curve', printed')
    BY <2>1, WrittenIsReadable, ThreeLinesMore DEF CurveInv, RewriterInv
  <2> QED BY <2>2, <2>3, WrittenIsReadable DEF CurveInv
<1>2. CASE ExtractWritten /\ (Refuse \/ Begin \/ Cancel \/ EndOfFile)
  <2>1. written' = Nothing
    BY <1>2 DEF Refuse, Begin, Cancel, EndOfFile, CurveInv
  <2>2. curve' = curve
    BY <1>2, <2>1, NothingExtracts DEF ExtractWritten
  <2> QED BY <1>2, <2>1, <2>2 DEF CurveInv, Refuse, Begin, Cancel, EndOfFile, marks
<1>3. CASE UNCHANGED comparedVars
  BY <1>3 DEF comparedVars, rewriterVars, CurveInv
<1> QED BY <1>1, <1>2, <1>3 DEF ComparedNext, RewriterNext

\* The rewriter goes on as it would without being read.
LEMMA CurveAlways == ComparedSpec => [](RewriterInv /\ CommandInv /\ CurveInv)
<1>1. ComparedInit => RewriterInv /\ CommandInv /\ CurveInv
  <2> SUFFICES ASSUME ComparedInit PROVE RewriterInv /\ CommandInv /\ CurveInv
    OBVIOUS
  <2>1. RewriterInv /\ CommandInv
    BY RewriterInvInit DEF ComparedInit, RewriterInit, FreshCall, CommandInv
  <2>2. curve = NewCurve /\ written = Nothing
    BY DEF ComparedInit, RewriterInit, FreshCall
  <2>3. CurveInv
    BY <2>2, EmptySeq DEF CurveInv, Ordered, Curves, Tells, NewCurve
  <2> QED BY <2>1, <2>3
<1>2. RewriterInv /\ CommandInv /\ CurveInv /\ [ComparedNext]_comparedVars
          => (RewriterInv /\ CommandInv /\ CurveInv)'
  <2> SUFFICES ASSUME RewriterInv, CommandInv, CurveInv, [ComparedNext]_comparedVars
               PROVE  (RewriterInv /\ CommandInv /\ CurveInv)'
    OBVIOUS
  <2>1. [RewriterNext]_rewriterVars
    BY DEF ComparedNext, comparedVars
  <2> QED BY <2>1, RewriterInvStep, CommandInvStep, CurveInvStep
<1> QED BY <1>1, <1>2, PTL DEF ComparedSpec

\* Looked up where the file has come to, the curve gives the last command.
LEMMA LastCommand ==
    ASSUME NEW c, Ordered(c), c.points # <<>>, c.points[1].usedFilament < c.usedFilament
    PROVE  CommandedAt(c.points, c.usedFilament) = c.points[Len(c.points)].temperature
<1> DEFINE points == c.points
           n == Len(points)
           S == {i \in DOMAIN points : points[i].usedFilament > c.usedFilament}
<1>1. /\ points \in Seq(TemperaturePoint) /\ n \in Nat /\ DOMAIN points = 1 .. n
      /\ c.usedFilament \in Nat
      /\ \A i \in 1 .. n : points[i].usedFilament \in Nat
      /\ \A i \in 1 .. n : points[i].usedFilament <= c.usedFilament
  <2>1. points \in Seq(TemperaturePoint) /\ c.usedFilament \in Nat
    BY DEF Ordered, Curves
  <2>2. n \in Nat /\ DOMAIN points = 1 .. n /\ \A i \in 1 .. n : points[i] \in TemperaturePoint
    BY <2>1, LenProperties, ElementOfSeq
  <2>3. \A i \in 1 .. n : points[i].usedFilament \in Nat
    BY <2>2 DEF TemperaturePoint
  <2> QED BY <2>1, <2>2, <2>3 DEF Ordered
<1>2. n # 0 /\ 1 \in 1 .. n
  <2>1. n # 0
    BY <1>1, EmptySeq
  <2> QED BY <1>1, <2>1
<1>3. S = {}
  BY <1>1
<1>4. Beyond(points, c.usedFilament) = Min({n + 1})
  <2>1. Beyond(points, c.usedFilament) = Min(S \cup {n + 1})
    BY DEF Beyond
  <2> HIDE DEF S
  <2>2. S \cup {n + 1} = {n + 1}
    BY <1>3
  <2> QED BY <2>1, <2>2
<1>5. Min({n + 1}) = n + 1
  <2> DEFINE T == {n + 1}
             x == n + 1
  <2>1. T \in SUBSET Int /\ x \in T /\ \A y \in T : x <= y
    BY <1>1
  <2> HIDE DEF T, x
  <2>2. Min(T) = x
    BY <2>1, MinIs
  <2> QED BY <2>2 DEF T, x
<1>6. (n + 1) - 1 = n
  BY <1>1
<1>7. ~(c.usedFilament <= points[1].usedFilament)
  BY <1>1, <1>2
<1> HIDE DEF n
<1> QED BY <1>4, <1>5, <1>6, <1>7 DEF CommandedAt, n

\* For every file and plan, if the profile names its start macro or no macro of
\* the file heats: what the compare command reads of the output is what the
\* printer was told last.
THEOREM OutputReadsBack == MacrosAreKnown => (ComparedSpec => []CurveReadsBack)
<1> SUFFICES ASSUME MacrosAreKnown PROVE ComparedSpec => []CurveReadsBack
  OBVIOUS
<1>1. RewriterInv /\ CommandInv /\ CurveInv => CurveReadsBack
  BY LastCommand DEF CurveInv, CurveReadsBack, Tells
<1> QED BY <1>1, CurveAlways, PTL

-----------------------------------------------------------------------------
(***************************************************************************)
(* The comparison.  Two curves with the commands at the same filament are   *)
(* read at the same positions of the grid, so that what one differs by from *)
(* the other in every command it differs by in every reading.               *)
(***************************************************************************)

Grid == 0 .. (Samples - 1)

\* The same commands but for the temperature.
Twin(p, q) ==
    /\ p \in Seq(TemperaturePoint) /\ q \in Seq(TemperaturePoint)
    /\ Len(q) = Len(p) /\ p # <<>>
    /\ \A i \in 1 .. Len(p) : q[i].usedFilament = p[i].usedFilament

\* What the two are at one command.
ReadTogether(s, t, p, q) ==
    \E k \in 1 .. Len(p) : s = p[k].temperature /\ t = q[k].temperature

LEMMA GridIs ==
    /\ Samples \in Nat /\ Samples > 1
    /\ IsFiniteSet(Grid) /\ Cardinality(Grid) = Samples /\ 0 \in Grid
    /\ \A i \in Grid : i \in Int
<1>1. Samples \in Nat /\ Samples > 1
  BY SamplesAssumption DEF SamplesAssumption
<1>2. /\ IsFiniteSet(0 .. (Samples - 1))
      /\ Cardinality(0 .. (Samples - 1)) = (Samples - 1) - 0 + 1
  BY <1>1, FS_Interval
<1> QED BY <1>1, <1>2 DEF Grid

LEMMA TotalIs ==
    ASSUME NEW f PROVE Total(f) = SumOver(f, DOMAIN f)
BY Zenon DEF Total, MapThenSumSet, MapThenFoldSet, SumOver, IsRun, One

LEMMA ReadAtOnePosition ==
    ASSUME NEW p, NEW q, Twin(p, q), NEW x \in Int
    PROVE  ReadTogether(CommandedAt(p, x), CommandedAt(q, x), p, q)
<1> DEFINE n == Len(p)
           Later(c) == {i \in DOMAIN c : c[i].usedFilament > x} \cup {Len(c) + 1}
           m == Min(Later(p))
<1>1. /\ n \in Nat /\ n # 0 /\ Len(q) = n /\ DOMAIN p = 1 .. n /\ DOMAIN q = 1 .. n
      /\ p # <<>> /\ q # <<>>
      /\ \A i \in 1 .. n : q[i].usedFilament = p[i].usedFilament
  <2>1. n \in Nat /\ Len(q) = n /\ DOMAIN p = 1 .. n /\ DOMAIN q = 1 .. n
    BY LenProperties DEF Twin
  <2>2. n # 0 /\ p # <<>>
    BY EmptySeq DEF Twin
  <2>3. q # <<>>
    BY <2>1, <2>2, EmptySeq
  <2> QED BY <2>1, <2>2, <2>3 DEF Twin
<1>2. p[1].usedFilament \in Int
  <2>1. p[1] \in TemperaturePoint
    BY <1>1 DEF Twin
  <2> QED BY <2>1 DEF TemperaturePoint
<1>3. 1 \in 1 .. n
  BY <1>1
<1>4. CASE x <= p[1].usedFilament
  <2>1. CommandedAt(p, x) = p[1].temperature /\ CommandedAt(q, x) = q[1].temperature
    BY <1>1, <1>3, <1>4 DEF CommandedAt
  <2> QED BY <1>3, <2>1 DEF ReadTogether
<1>5. CASE ~(x <= p[1].usedFilament)
  <2>1. Later(q) = Later(p)
    BY <1>1
  <2>2. Later(p) \in SUBSET Nat /\ n + 1 \in Later(p)
    BY <1>1
  <2>3. 1 \notin Later(p) /\ \A i \in Later(p) : i \in 1 .. (n + 1)
    BY <1>1, <1>2, <1>5
  <2>4. Beyond(p, x) = m
    BY DEF Beyond
  <2>5. Beyond(q, x) = Min(Later(q))
    BY DEF Beyond
  <2> HIDE DEF Later
  <2>6. m \in Later(p)
    BY <2>2, MinNat
  <2> HIDE DEF m
  <2>7. m \in 1 .. (n + 1) /\ m # 1
    BY <2>3, <2>6
  <2> DEFINE k == m - 1
  <2>8. k \in 1 .. n
    BY <1>1, <2>7
  <2>9. Beyond(q, x) = m
    BY <2>1, <2>5 DEF m
  <2> HIDE DEF n
  <2>10. /\ CommandedAt(p, x) = p[Beyond(p, x) - 1].temperature
         /\ CommandedAt(q, x) = q[Beyond(q, x) - 1].temperature
    BY <1>1, <1>3, <1>5 DEF CommandedAt
  <2>11. /\ CommandedAt(p, x) = p[k].temperature
         /\ CommandedAt(q, x) = q[k].temperature
    BY <2>4, <2>9, <2>10
  <2> HIDE DEF k
  <2> QED BY <2>8, <2>11 DEF ReadTogether, n
<1> QED BY <1>4, <1>5

LEMMA Readings ==
    ASSUME NEW p, NEW q, Twin(p, q)
    PROVE  LET s == Resampled(p, p, q)
               t == Resampled(q, p, q)
           IN  /\ DOMAIN s = Grid /\ DOMAIN t = Grid
               /\ s \in [Grid -> Int] /\ t \in [Grid -> Int]
               /\ \A i \in Grid : ReadTogether(s[i], t[i], p, q)
<1> DEFINE lo == Larger(p[1].usedFilament, q[1].usedFilament)
           hi == Lesser(p[Len(p)].usedFilament, q[Len(q)].usedFilament)
           at(i) == lo + ((hi - lo) * i) \div (Samples - 1)
           s == Resampled(p, p, q)
           t == Resampled(q, p, q)
<1>1. lo \in Int /\ hi \in Int
  <2> DEFINE n == Len(p)
  <2>1. n \in Nat /\ n # 0 /\ Len(q) = n
    BY LenProperties, EmptySeq DEF Twin
  <2>2. 1 \in 1 .. n /\ n \in 1 .. n
    BY <2>1
  <2>3. \A i \in 1 .. n : p[i] \in TemperaturePoint /\ q[i] \in TemperaturePoint
    BY <2>1, ElementOfSeq DEF Twin
  <2> HIDE DEF n
  <2>4. /\ p[1].usedFilament \in Int /\ q[1].usedFilament \in Int
        /\ p[n].usedFilament \in Int /\ q[n].usedFilament \in Int
    BY <2>2, <2>3 DEF TemperaturePoint
  <2> QED BY <2>1, <2>4 DEF Larger, Lesser, n
<1>2. s = [i \in Grid |-> CommandedAt(p, at(i))] /\ t = [i \in Grid |-> CommandedAt(q, at(i))]
  BY DEF Resampled, Grid
<1>3. \A i \in Grid : at(i) \in Int
  <2> SUFFICES ASSUME NEW i \in Grid PROVE at(i) \in Int
    OBVIOUS
  <2> DEFINE part == (hi - lo) * i
             d == Samples - 1
  <2>1. part \in Int /\ d \in Nat /\ d > 0
    BY <1>1, GridIs
  <2> HIDE DEF part, d, lo, hi
  <2>2. part \div d \in Int
    BY <2>1, Floor
  <2> QED BY <1>1, <2>2 DEF part, d
<1> HIDE DEF s, t, at
<1>4. \A i \in Grid : s[i] = CommandedAt(p, at(i)) /\ t[i] = CommandedAt(q, at(i))
  BY <1>2
<1>5. \A i \in Grid : ReadTogether(s[i], t[i], p, q)
  BY <1>3, <1>4, ReadAtOnePosition
<1>6. \A i \in Grid : s[i] \in Int /\ t[i] \in Int
  <2> SUFFICES ASSUME NEW i \in Grid PROVE s[i] \in Int /\ t[i] \in Int
    OBVIOUS
  <2>1. PICK k \in 1 .. Len(p) : s[i] = p[k].temperature /\ t[i] = q[k].temperature
    BY <1>5 DEF ReadTogether
  <2>2. p[k] \in TemperaturePoint /\ q[k] \in TemperaturePoint
    BY ElementOfSeq DEF Twin
  <2> QED BY <2>1, <2>2 DEF TemperaturePoint
<1>7. DOMAIN s = Grid /\ DOMAIN t = Grid
  BY <1>2
<1>8. s \in [Grid -> Int] /\ t \in [Grid -> Int]
  BY <1>2, <1>4, <1>6
<1> QED BY <1>5, <1>7, <1>8 DEF s, t

\* Another calibration of the same curve.
LEMMA ShiftedIsTwin ==
    ASSUME NEW p \in Seq(TemperaturePoint), p # <<>>, NEW offset \in Int
    PROVE  /\ Twin(p, Shifted(p, offset))
           /\ \A i \in 1 .. Len(p) : Shifted(p, offset)[i].temperature
                                         = p[i].temperature + offset
<1> DEFINE n == Len(p)
           q == Shifted(p, offset)
           Moved(i) == [p[i] EXCEPT !.temperature = @ + offset]
<1>1. n \in Nat /\ DOMAIN p = 1 .. n /\ \A i \in 1 .. n : p[i] \in TemperaturePoint
  BY LenProperties, ElementOfSeq
<1>2. q = [i \in 1 .. n |-> Moved(i)]
  BY <1>1 DEF Shifted
<1>3. \A i \in 1 .. n : /\ Moved(i) \in TemperaturePoint
                        /\ Moved(i).usedFilament = p[i].usedFilament
                        /\ Moved(i).temperature = p[i].temperature + offset
  <2> SUFFICES ASSUME NEW i \in 1 .. n
               PROVE  /\ Moved(i) \in TemperaturePoint
                      /\ Moved(i).usedFilament = p[i].usedFilament
                      /\ Moved(i).temperature = p[i].temperature + offset
    OBVIOUS
  <2> DEFINE r == p[i]
  <2>1. r \in TemperaturePoint
    BY <1>1
  <2> HIDE DEF r
  <2>2. /\ r.usedFilament \in Nat /\ r.temperature \in Int
        /\ [r EXCEPT !.temperature = @ + offset]
               = [usedFilament |-> r.usedFilament, temperature |-> r.temperature + offset]
    BY <2>1 DEF TemperaturePoint
  <2>3. Moved(i) = [usedFilament |-> r.usedFilament, temperature |-> r.temperature + offset]
    BY <2>2 DEF r
  <2> HIDE DEF Moved
  <2> QED BY <2>2, <2>3 DEF TemperaturePoint, r
<1> HIDE DEF Moved, q, n
<1>4. q \in Seq(TemperaturePoint) /\ Len(q) = n /\ \A i \in 1 .. n : q[i] = Moved(i)
  BY <1>1, <1>2, <1>3, IsASeq, LenProperties
<1>5. \A i \in 1 .. n : q[i].usedFilament = p[i].usedFilament
                        /\ q[i].temperature = p[i].temperature + offset
  BY <1>3, <1>4
<1>6. /\ Twin(p, q)
      /\ \A i \in 1 .. n : q[i].temperature = p[i].temperature + offset
  BY <1>4, <1>5 DEF Twin, n
<1> QED BY <1>6 DEF q, n

\* And the curve upside down.
LEMMA MirroredIsTwin ==
    ASSUME NEW p \in Seq(TemperaturePoint), p # <<>>, NEW level \in Int
    PROVE  /\ Twin(p, Mirrored(p, level))
           /\ \A i \in 1 .. Len(p) : Mirrored(p, level)[i].temperature
                                         = level - p[i].temperature
<1> DEFINE n == Len(p)
           q == Mirrored(p, level)
           Turned(i) == [p[i] EXCEPT !.temperature = level - @]
<1>1. n \in Nat /\ DOMAIN p = 1 .. n /\ \A i \in 1 .. n : p[i] \in TemperaturePoint
  BY LenProperties, ElementOfSeq
<1>2. q = [i \in 1 .. n |-> Turned(i)]
  BY <1>1 DEF Mirrored
<1>3. \A i \in 1 .. n : /\ Turned(i) \in TemperaturePoint
                        /\ Turned(i).usedFilament = p[i].usedFilament
                        /\ Turned(i).temperature = level - p[i].temperature
  <2> SUFFICES ASSUME NEW i \in 1 .. n
               PROVE  /\ Turned(i) \in TemperaturePoint
                      /\ Turned(i).usedFilament = p[i].usedFilament
                      /\ Turned(i).temperature = level - p[i].temperature
    OBVIOUS
  <2> DEFINE r == p[i]
  <2>1. r \in TemperaturePoint
    BY <1>1
  <2> HIDE DEF r
  <2>2. /\ r.usedFilament \in Nat /\ r.temperature \in Int
        /\ [r EXCEPT !.temperature = level - @]
               = [usedFilament |-> r.usedFilament, temperature |-> level - r.temperature]
    BY <2>1 DEF TemperaturePoint
  <2>3. Turned(i) = [usedFilament |-> r.usedFilament, temperature |-> level - r.temperature]
    BY <2>2 DEF r
  <2> HIDE DEF Turned
  <2> QED BY <2>2, <2>3 DEF TemperaturePoint, r
<1> HIDE DEF Turned, q, n
<1>4. q \in Seq(TemperaturePoint) /\ Len(q) = n /\ \A i \in 1 .. n : q[i] = Turned(i)
  BY <1>1, <1>2, <1>3, IsASeq, LenProperties
<1>5. \A i \in 1 .. n : q[i].usedFilament = p[i].usedFilament
                        /\ q[i].temperature = level - p[i].temperature
  BY <1>3, <1>4
<1>6. /\ Twin(p, q)
      /\ \A i \in 1 .. n : q[i].temperature = level - p[i].temperature
  BY <1>4, <1>5 DEF Twin, n
<1> QED BY <1>6 DEF q, n

-----------------------------------------------------------------------------
(***************************************************************************)
(* With its mean removed, a reading no longer has the offset.              *)
(***************************************************************************)

Reading == [Grid -> Int]

LEMMA CentredIs ==
    ASSUME NEW s \in Reading
    PROVE  /\ Total(s) \in Int /\ Centred(s) \in Reading
           /\ Centred(s) = [i \in Grid |-> Samples * s[i] - Total(s)]
<1>1. DOMAIN s = Grid /\ \A i \in Grid : s[i] \in Int
  BY DEF Reading
<1>2. Total(s) \in Int
  BY <1>1, TotalIs, SumInt, GridIs DEF Reading
<1>3. Centred(s) = [i \in Grid |-> Samples * s[i] - Total(s)]
  BY <1>1 DEF Centred
<1>4. \A i \in Grid : Samples * s[i] - Total(s) \in Int
  BY <1>1, <1>2, GridIs
<1> QED BY <1>2, <1>3, <1>4 DEF Reading

OffsetBy(s, t, offset) == Total(t) = Total(s) + Samples * offset
Turned(s, t, level) == Total(t) = Samples * level - Total(s)

LEMMA OffsetTotals ==
    ASSUME NEW s \in Reading, NEW t \in Reading, NEW offset \in Int,
           \A i \in Grid : t[i] = s[i] + offset
    PROVE  OffsetBy(s, t, offset)
<1> DEFINE c == [i \in Grid |-> offset]
           h == [i \in Grid |-> s[i] + c[i]]
<1>1. s \in [Grid -> Int] /\ c \in [Grid -> Int] /\ DOMAIN s = Grid /\ DOMAIN t = Grid
  BY DEF Reading
<1>2. h = t
  <2>1. \A i \in Grid : h[i] = t[i]
    OBVIOUS
  <2> QED BY <2>1 DEF Reading
<1>3. AddUp(s, c, Grid)
  BY <1>1, SumsAddUp, GridIs
<1>4. SumOver(h, Grid) = SumOver(s, Grid) + SumOver(c, Grid)
  BY <1>3 DEF AddUp
<1>5. SumOver(c, Grid) = Samples * offset
  <2>1. \A i \in Grid : c[i] = offset
    OBVIOUS
  <2> HIDE DEF c
  <2>2. SumOver(c, Grid) = Cardinality(Grid) * offset
    BY <2>1, SumConstant, GridIs
  <2> QED BY <2>2, GridIs
<1> HIDE DEF c, h
<1>6. Total(s) = SumOver(s, Grid) /\ Total(t) = SumOver(t, Grid)
  BY <1>1, TotalIs
<1> QED BY <1>2, <1>4, <1>5, <1>6 DEF OffsetBy

LEMMA TurnedTotals ==
    ASSUME NEW s \in Reading, NEW t \in Reading, NEW level \in Int,
           \A i \in Grid : t[i] = level - s[i]
    PROVE  Turned(s, t, level)
<1> DEFINE m == [i \in Grid |-> -s[i]]
<1>1. /\ s \in [Grid -> Int] /\ m \in [Grid -> Int] /\ DOMAIN s = Grid
      /\ \A i \in Grid : m[i] = -s[i] /\ t[i] = m[i] + level
  BY DEF Reading
<1> HIDE DEF m
<1>2. DOMAIN m = Grid /\ m \in Reading
  BY <1>1 DEF Reading
<1>3. Negated(s, m, Grid)
  BY <1>1, SumNegates, GridIs
<1>4. OffsetBy(m, t, level)
  BY <1>1, <1>2, OffsetTotals
<1>5. Total(s) = SumOver(s, Grid) /\ Total(m) = SumOver(m, Grid)
  BY <1>1, <1>2, TotalIs
<1> DEFINE p == Samples * level
<1>6. Total(m) = -Total(s) /\ Total(t) = Total(m) + p
  BY <1>3, <1>4, <1>5 DEF Negated, OffsetBy
<1>7. p \in Int /\ Total(s) \in Int
  BY GridIs, CentredIs
<1> HIDE DEF p
<1>8. Total(t) = p - Total(s)
  BY <1>6, <1>7
<1> QED BY <1>8 DEF Turned, p

LEMMA SameShape ==
    ASSUME NEW s \in Reading, NEW t \in Reading, NEW offset \in Int,
           \A i \in Grid : t[i] = s[i] + offset
    PROVE  Centred(t) = Centred(s)
<1>1. OffsetBy(s, t, offset)
  BY OffsetTotals
<1>2. \A i \in Grid : Samples * t[i] - Total(t) = Samples * s[i] - Total(s)
  <2> SUFFICES ASSUME NEW i \in Grid
               PROVE  Samples * t[i] - Total(t) = Samples * s[i] - Total(s)
    OBVIOUS
  <2> DEFINE a == Samples * s[i]
             b == Samples * offset
             x == s[i]
  <2>1. x \in Int /\ a \in Int /\ b \in Int /\ Total(s) \in Int /\ Samples \in Int
    BY CentredIs, GridIs DEF Reading
  <2>2. Samples * (x + offset) = Samples * x + Samples * offset
    BY <2>1
  <2>3. Samples * t[i] = a + b
    BY <2>2
  <2>4. Total(t) = Total(s) + b
    BY <1>1 DEF OffsetBy
  <2> HIDE DEF a, b, x
  <2>5. Samples * t[i] - Total(t) = a - Total(s)
    BY <2>1, <2>3, <2>4
  <2> QED BY <2>5 DEF a
<1> QED BY <1>2, CentredIs

LEMMA OppositeShape ==
    ASSUME NEW s \in Reading, NEW t \in Reading, NEW level \in Int,
           \A i \in Grid : t[i] = level - s[i]
    PROVE  \A i \in Grid : Centred(t)[i] = -Centred(s)[i]
<1> SUFFICES ASSUME NEW i \in Grid PROVE Centred(t)[i] = -Centred(s)[i]
  OBVIOUS
<1>1. Turned(s, t, level)
  BY TurnedTotals
<1> DEFINE a == Samples * s[i]
           b == Samples * level
           x == s[i]
<1>2. x \in Int /\ a \in Int /\ b \in Int /\ Total(s) \in Int /\ Samples \in Int
  BY CentredIs, GridIs DEF Reading
<1>3. Samples * (level - x) = Samples * level - Samples * x
  BY <1>2
<1>4. Samples * t[i] = b - a
  BY <1>3
<1>5. Total(t) = b - Total(s)
  BY <1>1 DEF Turned
<1>6. Centred(t)[i] = Samples * t[i] - Total(t) /\ Centred(s)[i] = a - Total(s)
  BY CentredIs
<1> HIDE DEF a, b, x
<1> QED BY <1>2, <1>4, <1>5, <1>6

\* The sum of the products of two readings' deviations.
Products(d, e) == [i \in Grid |-> d[i] * e[i]]

\* ... and how far the two readings are apart.
SquaredGaps(d, e) == [i \in Grid |-> (d[i] - e[i]) * (d[i] - e[i])]
Gaps(d, e) == {Magnitude(d[i] - e[i]) : i \in Grid}

LEMMA ComparedIs ==
    ASSUME NEW p, NEW q, Twin(p, q)
    PROVE  LET s == Resampled(p, p, q)
               t == Resampled(q, p, q)
               d == Centred(s)
               e == Centred(t)
               r == Compared(p, q)
           IN  /\ r.meanOffset = Total(s) - Total(t)
               /\ r.covariance = Total(Products(d, e))
               /\ r.varianceA = Total(Products(d, d))
               /\ r.varianceB = Total(Products(e, e))
               /\ r.squaredError = Total(SquaredGaps(d, e))
               /\ r.maxDifference = Max(Gaps(d, e))
<1> DEFINE s == Resampled(p, p, q)
           t == Resampled(q, p, q)
<1>1. s \in Reading /\ t \in Reading
  BY Readings DEF Reading
<1>2. DOMAIN Centred(s) = Grid /\ DOMAIN Centred(t) = Grid
  BY <1>1, CentredIs
<1> QED BY <1>2 DEF Compared, Products, SquaredGaps, Gaps

LEMMA ShiftDisappears ==
    ASSUME NEW p \in Seq(TemperaturePoint), p # <<>>, NEW offset \in Int
    PROVE  LET r == Compared(p, Shifted(p, offset))
           IN  /\ r.squaredError = 0 /\ r.maxDifference = 0
               /\ r.meanOffset = -(Samples * offset)
               /\ r.covariance = r.varianceA /\ r.varianceA = r.varianceB
<1> DEFINE q == Shifted(p, offset)
           s == Resampled(p, p, q)
           t == Resampled(q, p, q)
           d == Centred(s)
           e == Centred(t)
           r == Compared(p, q)
<1>1. Twin(p, q) /\ \A k \in 1 .. Len(p) : q[k].temperature = p[k].temperature + offset
  BY ShiftedIsTwin
<1> HIDE DEF q
<1>2. s \in Reading /\ t \in Reading /\ \A i \in Grid : ReadTogether(s[i], t[i], p, q)
  BY <1>1, Readings DEF Reading
<1>3. /\ r.meanOffset = Total(s) - Total(t)
      /\ r.covariance = Total(Products(d, e))
      /\ r.varianceA = Total(Products(d, d))
      /\ r.varianceB = Total(Products(e, e))
      /\ r.squaredError = Total(SquaredGaps(d, e))
      /\ r.maxDifference = Max(Gaps(d, e))
  BY <1>1, ComparedIs
<1> HIDE DEF s, t, r
<1>4. \A i \in Grid : t[i] = s[i] + offset
  BY <1>1, <1>2 DEF ReadTogether
<1>5. e = d /\ d \in Reading
  BY <1>2, <1>4, SameShape, CentredIs
<1>6. OffsetBy(s, t, offset) /\ Total(s) \in Int
  BY <1>2, <1>4, OffsetTotals, CentredIs
<1>7. r.meanOffset = -(Samples * offset)
  <2> DEFINE b == Samples * offset
  <2>1. b \in Int /\ Total(t) = Total(s) + b
    BY <1>6, GridIs DEF OffsetBy
  <2> HIDE DEF b
  <2>2. r.meanOffset = -b
    BY <1>3, <1>6, <2>1
  <2> QED BY <2>2 DEF b
<1> HIDE DEF d, e
<1>8. \A i \in Grid : d[i] - e[i] = 0
  BY <1>5 DEF Reading
<1>9. r.squaredError = 0
  <2> DEFINE z == SquaredGaps(d, e)
  <2>1. DOMAIN z = Grid /\ \A i \in Grid : z[i] = 0
    BY <1>8 DEF SquaredGaps
  <2> HIDE DEF z
  <2>2. Total(z) = 0
    BY <2>1, TotalIs, SumZeros, GridIs
  <2> QED BY <1>3, <2>2 DEF z
<1>10. r.maxDifference = 0
  <2> DEFINE M == Gaps(d, e)
  <2>1. \A i \in Grid : Magnitude(d[i] - e[i]) = 0
    BY <1>8 DEF Magnitude
  <2>2. M = {0}
    BY <2>1, GridIs DEF Gaps
  <2> HIDE DEF M
  <2>3. M \in SUBSET Int /\ 0 \in M /\ \A y \in M : y <= 0
    BY <2>2
  <2>4. Max(M) = 0
    BY <2>3, MaxIs
  <2> QED BY <1>3, <2>4 DEF M
<1> QED BY <1>3, <1>5, <1>7, <1>9, <1>10 DEF r, q

LEMMA MirrorIsOpposite ==
    ASSUME NEW p \in Seq(TemperaturePoint), p # <<>>, NEW level \in Int
    PROVE  LET r == Compared(p, Mirrored(p, level))
           IN  r.covariance = -r.varianceA /\ r.varianceA = r.varianceB
<1> DEFINE q == Mirrored(p, level)
           s == Resampled(p, p, q)
           t == Resampled(q, p, q)
           d == Centred(s)
           e == Centred(t)
           r == Compared(p, q)
<1>1. Twin(p, q) /\ \A k \in 1 .. Len(p) : q[k].temperature = level - p[k].temperature
  BY MirroredIsTwin
<1> HIDE DEF q
<1>2. s \in Reading /\ t \in Reading /\ \A i \in Grid : ReadTogether(s[i], t[i], p, q)
  BY <1>1, Readings DEF Reading
<1>3. /\ r.covariance = Total(Products(d, e))
      /\ r.varianceA = Total(Products(d, d))
      /\ r.varianceB = Total(Products(e, e))
  BY <1>1, ComparedIs
<1> HIDE DEF s, t, r
<1>4. \A i \in Grid : t[i] = level - s[i]
  BY <1>1, <1>2 DEF ReadTogether
<1>5. /\ d \in Reading /\ e \in Reading
      /\ \A i \in Grid : e[i] = -d[i]
  BY <1>2, <1>4, OppositeShape, CentredIs
<1> HIDE DEF d, e
<1>6. \A i \in Grid : /\ d[i] * d[i] \in Int /\ e[i] * e[i] = d[i] * d[i]
                      /\ d[i] * e[i] \in Int /\ d[i] * e[i] = -(d[i] * d[i])
  <2> SUFFICES ASSUME NEW i \in Grid
               PROVE  /\ d[i] * d[i] \in Int /\ e[i] * e[i] = d[i] * d[i]
                      /\ d[i] * e[i] \in Int /\ d[i] * e[i] = -(d[i] * d[i])
    OBVIOUS
  <2> DEFINE x == d[i]
             y == e[i]
  <2>1. x \in Int /\ y \in Int /\ y = -x
    BY <1>5 DEF Reading
  <2> HIDE DEF x, y
  <2>2. x * x \in Int /\ y * y = x * x /\ x * y \in Int /\ x * y = -(x * x)
    BY <2>1
  <2> QED BY <2>2 DEF x, y
<1>7. Products(e, e) = Products(d, d)
  BY <1>6 DEF Products
<1>8. /\ Products(d, d) \in [Grid -> Int] /\ Products(d, e) \in [Grid -> Int]
      /\ DOMAIN Products(d, d) = Grid /\ DOMAIN Products(d, e) = Grid
      /\ \A i \in Grid : Products(d, e)[i] = -Products(d, d)[i]
  BY <1>6 DEF Products
<1>9. Negated(Products(d, d), Products(d, e), Grid)
  BY <1>8, SumNegates, GridIs
<1>10. Total(Products(d, e)) = -Total(Products(d, d))
  BY <1>8, <1>9, TotalIs DEF Negated
<1> QED BY <1>3, <1>7, <1>10 DEF r, q

\* For every output: moved to another calibration the curve compares as the same
\* shape at that offset, and upside down as the opposite one.
THEOREM ShapeIsWhatCounts == ComparedSpec => []OnlyTheShapeCounts
<1>1. RewriterInv /\ CommandInv /\ CurveInv => OnlyTheShapeCounts
  <2> SUFFICES ASSUME CurveInv, Overlap(curve.points, curve.points)
               PROVE  LET shifted == Compared(curve.points, Shifted(curve.points, 70))
                          mirrored == Compared(curve.points, Mirrored(curve.points, 8000))
                      IN  /\ shifted.squaredError = 0 /\ shifted.maxDifference = 0
                          /\ shifted.meanOffset = -70 * Samples
                          /\ shifted.covariance = shifted.varianceA
                          /\ shifted.varianceA = shifted.varianceB
                          /\ mirrored.covariance = -mirrored.varianceA
                          /\ mirrored.varianceA = mirrored.varianceB
    BY DEF OnlyTheShapeCounts
  <2> DEFINE p == curve.points
  <2>1. p \in Seq(TemperaturePoint) /\ p # <<>>
    BY DEF CurveInv, Ordered, Curves, Overlap
  <2> HIDE DEF p
  <2> DEFINE shifted == Compared(p, Shifted(p, 70))
             mirrored == Compared(p, Mirrored(p, 8000))
  <2>2. /\ shifted.squaredError = 0 /\ shifted.maxDifference = 0
        /\ shifted.meanOffset = -(Samples * 70)
        /\ shifted.covariance = shifted.varianceA /\ shifted.varianceA = shifted.varianceB
    BY <2>1, ShiftDisappears
  <2>3. mirrored.covariance = -mirrored.varianceA /\ mirrored.varianceA = mirrored.varianceB
    BY <2>1, MirrorIsOpposite
  <2>4. -(Samples * 70) = -70 * Samples
    BY GridIs
  <2> QED BY <2>2, <2>3, <2>4 DEF p
<1> QED BY <1>1, CurveAlways, PTL
=============================================================================
