---------------------------- MODULE FlowTimeline ----------------------------
(***************************************************************************)
(* analyseFlow (FlowAnalysis.cpp): the moves of the estimator, each with a   *)
(* duration and a flow, become a timeline of buckets of equal width.  A move *)
(* may span several buckets, and a bucket may hold many moves.               *)
(*                                                                         *)
(* Time is counted in ticks, filament in flow x ticks (the cross-section is  *)
(* a common factor).  The moves arrive one by one, in any order; `given` is  *)
(* what arrived, kept to compare the timeline with it.                       *)
(***************************************************************************)
EXTENDS FlowSeconds

CONSTANTS
    BucketWidth,    \* options.bucketWidth, in ticks
    Moves,          \* the MoveSample values the parser can produce
    MaxMoves        \* bound on the moves of one print

MoveSample == [duration : Int, flow : Nat]

Totals == [moves : Nat, time : Nat, filament : Nat]

ASSUME TimelineAssumption ==
    /\ BucketWidth \in Nat \ {0}
    /\ MaxMoves \in Nat
    /\ Moves \subseteq MoveSample

VARIABLES
    move,               \* the move being split
    remaining,          \* what is left of its duration
    elapsed, totalFilament,  \* totals so far
    bucketRemaining, bucketFlowTime, bucketElapsed, bucketMaxFlow,
    seconds, peakFlow,  \* of the analysis
    returned,           \* analyseFlow has returned
    given               \* [moves, time, filament] that arrived so far

bucketVars == <<bucketRemaining, bucketFlowTime, bucketElapsed, bucketMaxFlow>>
timelineVars == <<move, remaining, elapsed, totalFilament, bucketRemaining,
                  bucketFlowTime, bucketElapsed, bucketMaxFlow, seconds, peakFlow,
                  returned, given>>

-----------------------------------------------------------------------------

MaxOf(a, b) == IF a >= b THEN a ELSE b

\* Mutant of Average: a bucket is always taken to be full.
AverageNominal(flowTime, time) == IF time > 0 THEN flowTime \div BucketWidth ELSE 0

\* Divided by the time actually accumulated; the quotient is rounded down.
Average(flowTime, time) == IF time > 0 THEN flowTime \div time ELSE 0

\* Mutant of Piece: a move is put whole into the bucket it starts in.
PieceWhole == remaining

\* How much of the move the current bucket takes.
Piece == IF remaining <= bucketRemaining THEN remaining ELSE bucketRemaining

\* The bucket that the current piece of the move fills.
FullBucket ==
    [time |-> elapsed',
     averageFlow |-> Average(bucketFlowTime + move.flow * Piece,
                             bucketElapsed + Piece),
     maxFlow |-> MaxOf(bucketMaxFlow, move.flow),
     usedFilament |-> totalFilament']

\* The bucket that the end of the moves leaves partly filled.
PartialBucket ==
    [time |-> elapsed, averageFlow |-> Average(bucketFlowTime, bucketElapsed),
     maxFlow |-> bucketMaxFlow, usedFilament |-> totalFilament]

EmptyBucket ==
    /\ bucketRemaining' = BucketWidth
    /\ bucketFlowTime' = 0 /\ bucketElapsed' = 0 /\ bucketMaxFlow' = 0

-----------------------------------------------------------------------------

TimelineInit ==
    /\ move = [duration |-> 0, flow |-> 0] /\ remaining = 0
    /\ elapsed = 0 /\ totalFilament = 0
    /\ bucketRemaining = BucketWidth
    /\ bucketFlowTime = 0 /\ bucketElapsed = 0 /\ bucketMaxFlow = 0
    /\ seconds = <<>> /\ peakFlow = 0
    /\ returned = FALSE
    /\ given = [moves |-> 0, time |-> 0, filament |-> 0]

\* The peak counts every move, the timeline only those that take time.
TakeMove ==
    /\ ~returned /\ remaining = 0 /\ given.moves < MaxMoves
    /\ \E m \in Moves :
          /\ move' = m
          /\ remaining' = MaxOf(m.duration, 0)
          /\ peakFlow' = MaxOf(peakFlow, m.flow)
          /\ given' = [moves |-> given.moves + 1,
                       time |-> given.time + MaxOf(m.duration, 0),
                       filament |-> given.filament + m.flow * MaxOf(m.duration, 0)]
    /\ UNCHANGED <<elapsed, totalFilament, bucketVars, seconds, returned>>

\* Mutant of SplitMove: an `if` where the loop should be.
SplitMoveOnce ==
    /\ remaining > 0
    /\ elapsed' = elapsed + Piece
    /\ totalFilament' = totalFilament + move.flow * Piece
    /\ remaining' = 0

\* One pass of the splitting loop, up to the emission of a bucket.
SplitMove ==
    /\ remaining > 0
    /\ elapsed' = elapsed + Piece
    /\ totalFilament' = totalFilament + move.flow * Piece
    /\ remaining' = remaining - Piece

FillBucket ==
    /\ SplitMove
    /\ Piece < bucketRemaining
    /\ bucketFlowTime' = bucketFlowTime + move.flow * Piece
    /\ bucketElapsed' = bucketElapsed + Piece
    /\ bucketMaxFlow' = MaxOf(bucketMaxFlow, move.flow)
    /\ bucketRemaining' = bucketRemaining - Piece
    /\ UNCHANGED <<move, seconds, peakFlow, returned, given>>

EmitBucket ==
    /\ SplitMove
    /\ Piece >= bucketRemaining
    /\ seconds' = Append(seconds, FullBucket)
    /\ EmptyBucket
    /\ UNCHANGED <<move, peakFlow, returned, given>>

\* Mutant of TrailingBucket: emitted although nothing is in it.
TrailingBucketAlways == seconds' = Append(seconds, PartialBucket) /\ EmptyBucket

TrailingBucket ==
    IF bucketElapsed > 0
    THEN seconds' = Append(seconds, PartialBucket) /\ EmptyBucket
    ELSE UNCHANGED <<seconds, bucketVars>>

\* No more moves: the trailing bucket, and the totals are what was summed.
Return ==
    /\ ~returned /\ remaining = 0
    /\ TrailingBucket
    /\ returned' = TRUE
    /\ UNCHANGED <<move, remaining, elapsed, totalFilament, peakFlow, given>>

TimelineNext == TakeMove \/ FillBucket \/ EmitBucket \/ Return

TimelineSpec == TimelineInit /\ [][TimelineNext]_timelineVars

-----------------------------------------------------------------------------
(***************************************************************************)
(* Properties                                                              *)
(***************************************************************************)

TimelineTypeOK ==
    /\ move \in MoveSample
    /\ remaining \in Nat /\ elapsed \in Nat /\ totalFilament \in Nat
    /\ bucketRemaining \in 1 .. BucketWidth
    /\ bucketFlowTime \in Nat /\ bucketElapsed \in Nat /\ bucketMaxFlow \in Nat
    /\ seconds \in Seq(FlowSecond)
    /\ peakFlow \in Nat /\ returned \in BOOLEAN
    /\ given \in Totals

\* Splitting loses nothing: what is in the totals and what is left of the
\* current move are together the time and the filament of the moves so far.
NothingLost ==
    /\ elapsed + remaining = given.time
    /\ totalFilament + move.flow * remaining = given.filament

\* Buckets lie edge to edge on the grid of the bucket width, whatever way moves
\* straddle them; only the last one of a finished analysis may be short.
BucketsOnGrid ==
    /\ \A i \in DOMAIN seconds :
          \/ seconds[i].time = i * BucketWidth
          \/ returned /\ i = Len(seconds) /\ seconds[i].time = elapsed
             /\ (i - 1) * BucketWidth < elapsed /\ elapsed < i * BucketWidth
    /\ ~returned => elapsed = Len(seconds) * BucketWidth + bucketElapsed
    /\ returned /\ elapsed > 0 =>
          seconds # <<>> /\ seconds[Len(seconds)].time = elapsed

EndOf(i) == IF i = 0 THEN 0 ELSE seconds[i].time
UsedBy(i) == IF i = 0 THEN 0 ELSE seconds[i].usedFilament

\* A bucket's average flow over the bucket's own time is the filament used
\* between its ends, up to the rounding; the short last bucket included.
AveragesAccountForFilament ==
    \A i \in DOMAIN seconds :
        LET used == UsedBy(i) - UsedBy(i - 1)
            time == EndOf(i) - EndOf(i - 1)
        IN  /\ seconds[i].averageFlow * time <= used
            /\ used < (seconds[i].averageFlow + 1) * time

\* The order the lookups rely on: TemperaturePlan::temperatureAtFilament and
\* timeAtFilament search usedFilament by bisection and divide by its gaps, and
\* timings are differences of time.
TimelineSorted ==
    \A i, j \in DOMAIN seconds :
        i < j => /\ seconds[i].time < seconds[j].time
                 /\ seconds[i].usedFilament <= seconds[j].usedFilament

\* The planner blends between a bucket's average and its maximum, so the first
\* may not exceed the second, nor the second the peak of the print.
FlowsOrdered ==
    \A i \in DOMAIN seconds :
        seconds[i].averageFlow <= seconds[i].maxFlow /\ seconds[i].maxFlow <= peakFlow
=============================================================================
