------------------------------- MODULE MoveDump -------------------------------
(***************************************************************************)
(* The reader of the external estimator's move dump (MoveDumpParser::parse  *)
(* in FlowAnalysis.cpp), beside the in-process estimator's own suppression  *)
(* of retractions (estimateMoves in Kinematics.cpp).                        *)
(*                                                                         *)
(* A dump is a sequence of lines in any order: "Flow = Some(x)", "Flow =    *)
(* None", "Time = t", and what is neither.                                  *)
(***************************************************************************)
EXTENDS Suppression, Sequences

CONSTANTS
    Flows,          \* the signed flows a Some(...) may hold
    Durations,      \* the durations of a Time line
    MaxDump         \* bound on the length of a dump

ASSUME DumpAssumption ==
    Flows \subseteq Int /\ Durations \subseteq Nat /\ MaxDump \in Nat

Some(flow) == [is |-> "some", value |-> flow]
None == [is |-> "none", value |-> 0]
BadFlow == [is |-> "badflow", value |-> 0]
Time(t) == [is |-> "time", value |-> t]
BadTime == [is |-> "badtime", value |-> 0]
Comment == [is |-> "comment", value |-> 0]
Junk == [is |-> "junk", value |-> 0]

DumpLines == {Some(f) : f \in Flows} \cup {Time(t) : t \in Durations}
                 \cup {None, BadFlow, BadTime, Comment, Junk}

VARIABLES
    dump,           \* the lines read
    moves,          \* the samples, [duration, flow]
    pendingFlow, haveFlow, retracted, malformed,
    parsing,
    diagnosis       \* what parse() reports

dumpVars == <<dump, moves, pendingFlow, haveFlow, retracted, malformed, parsing,
              diagnosis>>

DumpInit ==
    /\ dump = <<>> /\ moves = <<>>
    /\ pendingFlow = 0 /\ haveFlow = FALSE /\ retracted = FALSE
    /\ malformed = 0
    /\ parsing = TRUE /\ diagnosis = "none"

Read(line) ==
    /\ parsing /\ Len(dump) < MaxDump
    /\ dump' = Append(dump, line)
    /\ UNCHANGED <<parsing, diagnosis>>

\* Mutant of Suppressed: the flag is not looked at, only the sign is.
NegativeOnly(flow) == flow < 0

\* A retraction, or the extrusion that matches it.
Suppressed(flow) == flow < 0 \/ retracted

\* Mutant of Arms: a travel disarms the flag as well.
ArmsUnlessTravel(line) == line.is = "some" /\ line.value < 0

\* A negative flow arms the flag, the next one disarms it, a travel leaves it.
Arms(line) ==
    IF line.is = "some" THEN line.value < 0 ELSE retracted

ReadFlow(line) ==
    /\ Read(line)
    /\ line.is \in {"some", "none", "badflow"}
    /\ pendingFlow' = IF line.is = "some" /\ ~Suppressed(line.value)
                      THEN line.value ELSE 0
    /\ retracted' = Arms(line)
    /\ malformed' = IF line.is = "badflow" THEN malformed + 1 ELSE malformed
    /\ haveFlow' = TRUE
    /\ UNCHANGED moves

SampleFlow == IF haveFlow THEN pendingFlow ELSE 0

\* A Time without a preceding Flow is a move that extrudes nothing.
ReadTime(line) ==
    /\ Read(line)
    /\ line.is = "time"
    /\ moves' = Append(moves, [duration |-> line.value, flow |-> SampleFlow])
    /\ haveFlow' = FALSE
    /\ pendingFlow' = 0
    /\ UNCHANGED <<retracted, malformed>>

SkipLine(line) ==
    /\ Read(line)
    /\ line.is \in {"badtime", "comment", "junk"}
    /\ malformed' = IF line.is = "comment" THEN malformed ELSE malformed + 1
    /\ UNCHANGED <<moves, pendingFlow, haveFlow, retracted>>

EndOfDump ==
    /\ parsing
    /\ parsing' = FALSE
    /\ diagnosis' = CASE moves = <<>> -> "error"
                      [] moves # <<>> /\ malformed > 0 -> "warning"
                      [] OTHER -> "none"
    /\ UNCHANGED <<dump, moves, pendingFlow, haveFlow, retracted, malformed>>

DumpNext ==
    \/ \E line \in DumpLines : ReadFlow(line) \/ ReadTime(line) \/ SkipLine(line)
    \/ EndOfDump

DumpSpec == DumpInit /\ [][DumpNext]_dumpVars

-----------------------------------------------------------------------------
(***************************************************************************)
(* Properties                                                              *)
(***************************************************************************)

IsFlow(line) == line.is \in {"some", "none", "badflow"}

\* The dump, read as a whole: the Flow line a Time line is paired with is the
\* last one before it with no other Time line in between.
PairedFlow(n) ==
    LET before == {m \in 1 .. (n - 1) : IsFlow(dump[m]) \/ dump[m].is = "time"}
    IN  IF before = {} THEN None
        ELSE IF IsFlow(dump[Max(before)]) THEN dump[Max(before)] ELSE None

\* Its flow counts unless the last signed flow before it was a retraction.
CountsAsExtrusion(m) ==
    LET signed == {j \in 1 .. (m - 1) : dump[j].is = "some"}
    IN  dump[m].value > 0 /\ (signed # {} => dump[Max(signed)].value >= 0)

\* Every Time line is one move, in order; it extrudes exactly when the Flow line
\* it is paired with does and neither retracts nor undoes a retraction.  A line
\* out of place never lends its flow to another move.
ParsesPairs ==
    LET times == {n \in DOMAIN dump : dump[n].is = "time"}
    IN  /\ Len(moves) = Cardinality(times)
        /\ \A n \in times :
               LET move == moves[Cardinality({t \in times : t <= n})]
                   flows == {m \in 1 .. (n - 1) : IsFlow(dump[m])}
               IN  /\ move.duration = dump[n].value
                   /\ move.flow = (IF PairedFlow(n) # None
                                      /\ CountsAsExtrusion(Max(flows))
                                   THEN PairedFlow(n).value ELSE 0)

\* A dump of Flow and Time pairs, and the signed flows it holds; a None is 0.
WellFormed ==
    \A n \in DOMAIN dump :
        IF n % 2 = 1 THEN dump[n].is \in {"some", "none"} ELSE dump[n].is = "time"

FlowsOfPairs == [k \in 1 .. (Len(dump) \div 2) |-> dump[2 * k - 1].value]

\* The last signed flow in front of pair k is a Some that holds zero.
SomesBefore(k) == {j \in 1 .. (k - 1) : dump[2 * j - 1].is = "some"}
ZeroLast(k) == SomesBefore(k) # {} /\ FlowsOfPairs[Max(SomesBefore(k))] = 0

\* "Both paths produce identical input to the flow analyser": the parser reads a
\* dump of pairs as estimateMoves would have put the same moves.
PathsAgree ==
    WellFormed => \A k \in DOMAIN FlowsOfPairs : moves[k].flow = Samples(FlowsOfPairs)[k]

\* They do not: a Some that holds zero disarms the parser's flag, while estimateMoves
\* waits for a flow above zero.  That is the only difference there is.  The two put
\* the same moves, but for the extrusions that undo a retraction behind such a zero:
\* the parser counts them in full.
PathsPartAtZero ==
    WellFormed =>
        \A k \in DOMAIN FlowsOfPairs :
            moves[k].flow =
                IF FlowsOfPairs[k] > 0 /\ RetractedBefore(FlowsOfPairs, k) /\ ZeroLast(k)
                THEN FlowsOfPairs[k]
                ELSE Samples(FlowsOfPairs)[k]
=============================================================================
