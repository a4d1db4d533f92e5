----------------------- MODULE AnalysisThenPlan_proofs -----------------------
(***************************************************************************)
(* What the analysis and the planner behind it promise, in four parts: the    *)
(* bucketing, for every bucket width and every set of moves; the bucketing     *)
(* behind the parser of the dump, which is the same; the planner, for every   *)
(* timeline, list of layers and pair of profiles; and the plans of the         *)
(* timeline the analysis hands over, and of those of other callers.          *)
(***************************************************************************)
EXTENDS AnalysisThenPlan, SetSums, SequenceTheorems

\* The current bucket: its time and its room make up the width, its flow is at
\* most its maximum throughout, and no flow in it exceeds the peak.
BucketOK ==
    /\ bucketElapsed + bucketRemaining = BucketWidth
    /\ bucketFlowTime <= bucketMaxFlow * bucketElapsed
    /\ bucketMaxFlow <= peakFlow /\ move.flow <= peakFlow
    /\ returned => remaining = 0 /\ bucketElapsed = 0

-----------------------------------------------------------------------------

\* Any quotient rounded down.
LEMMA Quotient ==
    ASSUME NEW x \in Nat, NEW d \in Nat, d > 0
    PROVE  /\ x \div d \in Nat
           /\ d * (x \div d) <= x
           /\ x < d * (x \div d) + d
  OBVIOUS

\* The average of a bucket whose flow never exceeds `most` does not either.
LEMMA AverageAtMost ==
    ASSUME NEW flowTime \in Nat, NEW time \in Nat, NEW most \in Nat,
           flowTime <= most * time
    PROVE  Average(flowTime, time) \in Nat /\ Average(flowTime, time) <= most
<1>1. CASE time = 0
  BY <1>1 DEF Average
<1>2. CASE time > 0
  <2> DEFINE q == flowTime \div time
  <2>1. q \in Nat /\ time * q <= flowTime
    BY <1>2, Quotient
  <2>2. ~(q >= most + 1)
    <3>1. SUFFICES ASSUME q >= most + 1 PROVE FALSE
      OBVIOUS
    <3>2. time * q >= time * (most + 1)
      <4> HIDE DEF q
      <4> QED BY <2>1, <3>1, <1>2
    <3>3. time * (most + 1) = most * time + time
      OBVIOUS
    <3> HIDE DEF q
    <3> QED BY <2>1, <3>2, <3>3, <1>2
  <2> QED
    <3> HIDE DEF q
    <3>1. Average(flowTime, time) = q
      BY <1>2 DEF Average, q
    <3> QED BY <2>1, <2>2, <3>1
<1> QED BY <1>1, <1>2

\* A bucket whose flow is at most `most` stays so under a piece that is too.
LEMMA PieceKeepsMaximum ==
    ASSUME NEW flowTime \in Nat, NEW time \in Nat, NEW before \in Nat,
           NEW piece \in Nat, NEW rate \in Nat, NEW most \in Nat,
           flowTime <= before * time, before <= most, rate <= most
    PROVE  flowTime + rate * piece <= most * (time + piece)
<1>1. before * time <= most * time
  OBVIOUS
<1>2. rate * piece <= most * piece
  OBVIOUS
<1>3. most * (time + piece) = most * time + most * piece
  OBVIOUS
<1> QED BY <1>1, <1>2, <1>3

\* A piece is a proper part of the move and fits into the bucket.
LEMMA PieceFits ==
    ASSUME TimelineTypeOK, remaining > 0
    PROVE  /\ Piece \in Nat /\ Piece > 0
           /\ Piece <= remaining /\ Piece <= bucketRemaining
           /\ Piece >= bucketRemaining => Piece = bucketRemaining
           /\ move.flow * Piece \in Nat
           /\ move.flow \in Nat
           /\ move.flow * (remaining - Piece) = move.flow * remaining - move.flow * Piece
BY TimelineAssumption DEF TimelineAssumption, TimelineTypeOK, Piece, MoveSample

-----------------------------------------------------------------------------

\* The state has its type, and the bucket in progress its shape.
LEMMA TypeInit == TimelineInit => TimelineTypeOK /\ BucketOK
<1> SUFFICES ASSUME TimelineInit PROVE TimelineTypeOK /\ BucketOK
  OBVIOUS
<1> USE TimelineAssumption DEF TimelineAssumption, TimelineInit
<1>1. TimelineTypeOK
  <2>1. seconds \in Seq(FlowSecond)
    OBVIOUS
  <2>2. move \in MoveSample /\ given \in Totals
    BY DEF MoveSample, Totals
  <2>3. returned \in BOOLEAN
    BY Zenon
  <2>4. bucketRemaining \in 1 .. BucketWidth
    OBVIOUS
  <2>5. /\ remaining \in Nat /\ elapsed \in Nat /\ totalFilament \in Nat
        /\ bucketFlowTime \in Nat /\ bucketElapsed \in Nat /\ bucketMaxFlow \in Nat
        /\ peakFlow \in Nat
    OBVIOUS
  <2> HIDE DEF TimelineInit
  <2> QED BY <2>1, <2>2, <2>3, <2>4, <2>5 DEF TimelineTypeOK
<1>2. bucketMaxFlow * bucketElapsed = 0
  OBVIOUS
<1>3. BucketOK
  BY <1>2 DEF BucketOK
<1> QED BY <1>1, <1>3

\* What the step of each action does to the type and to the bucket.
LEMMA TypeTakeMove ==
    ASSUME TimelineTypeOK, BucketOK, TakeMove
    PROVE  TimelineTypeOK' /\ BucketOK'
<1> USE TimelineAssumption DEF TimelineAssumption
<1>1. PICK m \in Moves :
          /\ move' = m
          /\ remaining' = MaxOf(m.duration, 0)
          /\ peakFlow' = MaxOf(peakFlow, m.flow)
          /\ given' = [moves |-> given.moves + 1,
                       time |-> given.time + MaxOf(m.duration, 0),
                       filament |-> given.filament + m.flow * MaxOf(m.duration, 0)]
  BY DEF TakeMove
<1>2. m \in MoveSample /\ m.duration \in Int /\ m.flow \in Nat
  BY DEF MoveSample
<1>3. /\ MaxOf(m.duration, 0) \in Nat /\ MaxOf(peakFlow, m.flow) \in Nat
      /\ peakFlow <= peakFlow' /\ m.flow <= peakFlow'
  BY <1>1, <1>2 DEF MaxOf, TimelineTypeOK
<1>4. m.flow * MaxOf(m.duration, 0) \in Nat
  BY <1>2, <1>3
<1>5. TimelineTypeOK'
  <2>1. /\ UNCHANGED <<elapsed, totalFilament, seconds, returned>>
        /\ UNCHANGED <<bucketRemaining, bucketFlowTime, bucketElapsed, bucketMaxFlow>>
    BY DEF TakeMove, bucketVars
  <2>2. given' \in Totals
    <3>1. given.moves \in Nat /\ given.time \in Nat /\ given.filament \in Nat
      BY DEF TimelineTypeOK, Totals
    <3> HIDE DEF TimelineAssumption
    <3> QED BY <1>1, <1>3, <1>4, <3>1 DEF Totals
  <2>3. move' \in MoveSample /\ remaining' \in Nat /\ peakFlow' \in Nat
    BY <1>1, <1>2, <1>3
  <2> QED BY <2>1, <2>2, <2>3 DEF TimelineTypeOK
<1>6. /\ ~returned'
      /\ bucketElapsed' + bucketRemaining' = BucketWidth
      /\ bucketMaxFlow' <= peakFlow' /\ move'.flow <= peakFlow'
  BY <1>1, <1>2, <1>3 DEF TakeMove, TimelineTypeOK, BucketOK, bucketVars
<1>7. bucketFlowTime' <= bucketMaxFlow' * bucketElapsed'
  BY DEF TakeMove, BucketOK, bucketVars
<1> QED BY <1>5, <1>6, <1>7 DEF BucketOK

LEMMA TypeFillBucket ==
    ASSUME TimelineTypeOK, BucketOK, FillBucket
    PROVE  TimelineTypeOK' /\ BucketOK'
<1> USE TimelineAssumption DEF TimelineAssumption
<1> DEFINE most == MaxOf(bucketMaxFlow, move.flow)
<1>1. /\ Piece \in Nat /\ Piece > 0 /\ Piece <= remaining
      /\ Piece < bucketRemaining /\ move.flow \in Nat
      /\ move.flow * Piece \in Nat
  BY PieceFits DEF FillBucket, SplitMove
<1>2. most \in Nat /\ bucketMaxFlow <= most /\ move.flow <= most
  BY <1>1 DEF MaxOf, TimelineTypeOK
<1>3. TimelineTypeOK'
  <2> HIDE DEF most
  <2> DEFINE p == Piece
             laid == move.flow * Piece
  <2>3. /\ remaining' = remaining - p /\ elapsed' = elapsed + p
        /\ totalFilament' = totalFilament + laid
        /\ bucketFlowTime' = bucketFlowTime + laid /\ bucketElapsed' = bucketElapsed + p
        /\ bucketRemaining' = bucketRemaining - p
    BY DEF FillBucket, SplitMove
  <2>4. p \in Nat /\ p <= remaining /\ p < bucketRemaining /\ laid \in Nat
    BY <1>1
  <2> HIDE DEF p, laid
  <2>5. /\ remaining \in Nat /\ elapsed \in Nat /\ totalFilament \in Nat
        /\ bucketFlowTime \in Nat /\ bucketElapsed \in Nat
        /\ bucketRemaining \in 1 .. BucketWidth
    BY DEF TimelineTypeOK
  <2>1. /\ remaining' \in Nat /\ elapsed' \in Nat /\ totalFilament' \in Nat
        /\ bucketFlowTime' \in Nat /\ bucketElapsed' \in Nat
        /\ bucketRemaining' \in 1 .. BucketWidth
    BY <2>3, <2>4, <2>5
  <2>2. bucketMaxFlow' \in Nat
    BY <1>2 DEF FillBucket, most
  <2> QED BY <2>1, <2>2 DEF FillBucket, TimelineTypeOK
<1>4. /\ bucketElapsed' + bucketRemaining' = BucketWidth
      /\ bucketMaxFlow' <= peakFlow' /\ move'.flow <= peakFlow'
      /\ ~returned'
  BY <1>1 DEF FillBucket, SplitMove, TimelineTypeOK, BucketOK, MaxOf
<1>5. bucketFlowTime' <= bucketMaxFlow' * bucketElapsed'
  <2>1. bucketFlowTime + move.flow * Piece <= most * (bucketElapsed + Piece)
    <3> HIDE DEF most
    <3> QED BY <1>1, <1>2, PieceKeepsMaximum DEF TimelineTypeOK, BucketOK
  <2> QED BY <2>1 DEF FillBucket
<1> QED BY <1>3, <1>4, <1>5 DEF BucketOK

\* The emitted bucket's average is a natural number below its maximum.
LEMMA FullBucketFlows ==
    ASSUME TimelineTypeOK, BucketOK, EmitBucket
    PROVE  /\ FullBucket.averageFlow \in Nat /\ FullBucket.maxFlow \in Nat
           /\ FullBucket.averageFlow <= FullBucket.maxFlow
           /\ FullBucket.maxFlow <= peakFlow
           /\ FullBucket.time = elapsed' /\ FullBucket.usedFilament = totalFilament'
<1> DEFINE most == MaxOf(bucketMaxFlow, move.flow)
<1>1. /\ Piece \in Nat /\ Piece > 0 /\ move.flow \in Nat
      /\ move.flow * Piece \in Nat
  BY PieceFits DEF EmitBucket, SplitMove
<1>2. most \in Nat /\ bucketMaxFlow <= most /\ move.flow <= most /\ most <= peakFlow
  BY <1>1 DEF MaxOf, TimelineTypeOK, BucketOK
<1>3. bucketFlowTime + move.flow * Piece <= most * (bucketElapsed + Piece)
  <2> HIDE DEF most
  <2> QED BY <1>1, <1>2, PieceKeepsMaximum DEF TimelineTypeOK, BucketOK
<1>4. /\ bucketFlowTime + move.flow * Piece \in Nat /\ bucketElapsed + Piece \in Nat
  BY <1>1 DEF TimelineTypeOK
<1> HIDE DEF most
<1>5. /\ Average(bucketFlowTime + move.flow * Piece, bucketElapsed + Piece) \in Nat
      /\ Average(bucketFlowTime + move.flow * Piece, bucketElapsed + Piece) <= most
  BY <1>2, <1>3, <1>4, AverageAtMost
<1> QED BY <1>2, <1>5 DEF FullBucket, most

LEMMA TypeEmitBucket ==
    ASSUME TimelineTypeOK, BucketOK, EmitBucket
    PROVE  TimelineTypeOK' /\ BucketOK'
<1> USE TimelineAssumption DEF TimelineAssumption
<1>1. /\ Piece \in Nat /\ Piece > 0 /\ Piece <= remaining
      /\ Piece = bucketRemaining /\ move.flow \in Nat
      /\ move.flow * Piece \in Nat
  BY PieceFits DEF EmitBucket, SplitMove
<1>2. remaining' \in Nat /\ elapsed' \in Nat /\ totalFilament' \in Nat
  BY <1>1 DEF EmitBucket, SplitMove, TimelineTypeOK
<1>3. FullBucket \in FlowSecond
  BY <1>2, FullBucketFlows DEF FullBucket, FlowSecond
<1>4. TimelineTypeOK'
  BY <1>2, <1>3 DEF EmitBucket, EmptyBucket, TimelineTypeOK
<1>5. bucketMaxFlow' * bucketElapsed' = 0
  BY DEF EmitBucket, EmptyBucket
<1>6. BucketOK'
  BY <1>5 DEF EmitBucket, EmptyBucket, SplitMove, TimelineTypeOK, BucketOK
<1> QED BY <1>4, <1>6

LEMMA TypeReturn ==
    ASSUME TimelineTypeOK, BucketOK, Return
    PROVE  TimelineTypeOK' /\ BucketOK'
<1> USE TimelineAssumption DEF TimelineAssumption
<1>1. CASE bucketElapsed > 0
  <2>1. Average(bucketFlowTime, bucketElapsed) \in Nat
    BY AverageAtMost DEF TimelineTypeOK, BucketOK
  <2>2. PartialBucket \in FlowSecond
    BY <2>1 DEF PartialBucket, FlowSecond, TimelineTypeOK
  <2>3. TimelineTypeOK'
    BY <1>1, <2>2 DEF Return, TrailingBucket, EmptyBucket, TimelineTypeOK
  <2>4. bucketMaxFlow' * bucketElapsed' = 0
    BY <1>1 DEF Return, TrailingBucket, EmptyBucket
  <2>5. BucketOK'
    BY <1>1, <2>4 DEF Return, TrailingBucket, EmptyBucket, TimelineTypeOK, BucketOK
  <2> QED BY <2>3, <2>5
<1>2. CASE ~(bucketElapsed > 0)
  BY <1>2 DEF Return, TrailingBucket, bucketVars, TimelineTypeOK, BucketOK
<1> QED BY <1>1, <1>2

LEMMA TypeStep ==
    ASSUME TimelineTypeOK, BucketOK, [TimelineNext]_timelineVars
    PROVE  TimelineTypeOK' /\ BucketOK'
<1>1. CASE UNCHANGED timelineVars
  BY <1>1 DEF timelineVars, TimelineTypeOK, BucketOK
<1> QED
  BY <1>1, TypeTakeMove, TypeFillBucket, TypeEmitBucket, TypeReturn DEF TimelineNext

\* The invariant the theorems below stand on.
LEMMA Shape == TimelineSpec => [](TimelineTypeOK /\ BucketOK)
<1>1. TimelineTypeOK /\ BucketOK /\ [TimelineNext]_timelineVars
          => (TimelineTypeOK /\ BucketOK)'
  BY TypeStep
<1> QED BY TypeInit, <1>1, PTL DEF TimelineSpec

\* Every variable keeps its type for every bucket width, and every bucket emitted
\* so far is a record of natural numbers: no division by an empty bucket.
THEOREM TimelineTypeCorrect == TimelineSpec => []TimelineTypeOK
BY Shape, PTL

-----------------------------------------------------------------------------

LEMMA ConserveStep ==
    ASSUME TimelineTypeOK, NothingLost, [TimelineNext]_timelineVars
    PROVE  NothingLost'
<1>1. CASE TakeMove
  <2>1. PICK m \in Moves :
            /\ move' = m /\ remaining' = MaxOf(m.duration, 0)
            /\ given' = [moves |-> given.moves + 1,
                         time |-> given.time + MaxOf(m.duration, 0),
                         filament |-> given.filament + m.flow * MaxOf(m.duration, 0)]
    BY <1>1 DEF TakeMove
  <2>2. /\ remaining = 0 /\ elapsed' = elapsed /\ totalFilament' = totalFilament
        /\ move.flow \in Nat
    BY <1>1 DEF TakeMove, TimelineTypeOK, MoveSample
  <2>3. elapsed = given.time /\ totalFilament = given.filament
    <3>1. move.flow * remaining = 0
      BY <2>2
    <3> QED BY <2>2, <3>1 DEF NothingLost, TimelineTypeOK, Totals
  <2> QED BY <2>1, <2>2, <2>3 DEF NothingLost
<1>2. ASSUME SplitMove, UNCHANGED <<move, given>> PROVE NothingLost'
  <2>1. /\ Piece \in Nat /\ move.flow * Piece \in Nat
        /\ move.flow * remaining' = move.flow * remaining - move.flow * Piece
    BY <1>2, PieceFits DEF SplitMove
  <2>2. move.flow * remaining \in Nat
    BY DEF TimelineTypeOK, MoveSample
  <2>3. elapsed' + remaining' = given'.time
    BY <1>2, <2>1 DEF SplitMove, NothingLost, TimelineTypeOK
  <2>4. totalFilament' + move'.flow * remaining' = given'.filament
    <3>1. totalFilament' = totalFilament + move.flow * Piece /\ move' = move /\ given' = given
      BY <1>2 DEF SplitMove
    <3>2. totalFilament + move.flow * remaining = given.filament
      BY DEF NothingLost
    <3>3. totalFilament \in Nat
      BY DEF TimelineTypeOK
    <3> DEFINE piece == move.flow * Piece
               left == move.flow * remaining
    <3>4. totalFilament' + move'.flow * remaining' = (totalFilament + piece) + (left - piece)
      BY <2>1, <3>1
    <3> HIDE DEF piece, left
    <3>5. piece \in Nat /\ left \in Nat /\ totalFilament + left = given.filament
      BY <2>1, <2>2, <3>2 DEF piece, left
    <3> QED BY <3>1, <3>3, <3>4, <3>5
  <2> QED BY <2>3, <2>4 DEF NothingLost
<1>3. CASE FillBucket
  BY <1>2, <1>3 DEF FillBucket
<1>4. CASE EmitBucket
  BY <1>2, <1>4 DEF EmitBucket
<1>5. CASE Return
  BY <1>5 DEF Return, NothingLost
<1>6. CASE UNCHANGED timelineVars
  BY <1>6 DEF timelineVars, NothingLost
<1> QED BY <1>1, <1>3, <1>4, <1>5, <1>6 DEF TimelineNext

\* Splitting loses neither time nor filament, wherever the buckets' edges fall:
\* totals and rest of the current move are those of the moves so far.
THEOREM TimelineConserves == TimelineSpec => []NothingLost
<1>1. TimelineInit => NothingLost
  <2> SUFFICES ASSUME TimelineInit PROVE NothingLost
    OBVIOUS
  <2>1. move.flow * remaining = 0
    BY DEF TimelineInit
  <2> QED BY <2>1 DEF TimelineInit, NothingLost
<1> QED BY <1>1, ConserveStep, Shape, PTL DEF TimelineSpec

-----------------------------------------------------------------------------

\* What an action does to the list of buckets: nothing, or one more at its end.
LEMMA AppendedBucket ==
    ASSUME TimelineTypeOK, NEW second \in FlowSecond, seconds' = Append(seconds, second)
    PROVE  /\ Len(seconds') = Len(seconds) + 1 /\ Len(seconds) \in Nat
           /\ DOMAIN seconds = 1 .. Len(seconds)
           /\ DOMAIN seconds' = 1 .. (Len(seconds) + 1)
           /\ \A i \in DOMAIN seconds : seconds'[i] = seconds[i]
           /\ seconds'[Len(seconds) + 1] = second
BY DEF TimelineTypeOK

LEMMA GridInit == TimelineInit => BucketsOnGrid
<1> SUFFICES ASSUME TimelineInit PROVE BucketsOnGrid
  OBVIOUS
<1>1. Len(seconds) = 0 /\ DOMAIN seconds = {}
  BY DEF TimelineInit
<1>2. Len(seconds) * BucketWidth = 0
  BY <1>1, TimelineAssumption DEF TimelineAssumption
<1> QED BY <1>1, <1>2 DEF TimelineInit, BucketsOnGrid

LEMMA GridEmit ==
    ASSUME TimelineTypeOK, BucketOK, BucketsOnGrid, EmitBucket
    PROVE  BucketsOnGrid'
<1> USE TimelineAssumption DEF TimelineAssumption
<1> DEFINE n == Len(seconds)
<1>1. /\ Piece \in Nat /\ Piece = bucketRemaining
      /\ elapsed' = elapsed + Piece /\ elapsed \in Nat
      /\ ~returned /\ ~returned'
  BY PieceFits DEF EmitBucket, SplitMove, BucketOK, TimelineTypeOK
<1>2. FullBucket \in FlowSecond
  BY <1>1, TypeEmitBucket, FullBucketFlows DEF FullBucket, FlowSecond, EmitBucket,
     TimelineTypeOK
<1>3. /\ Len(seconds') = n + 1 /\ n \in Nat
      /\ DOMAIN seconds = 1 .. n /\ DOMAIN seconds' = 1 .. (n + 1)
      /\ \A i \in 1 .. n : seconds'[i] = seconds[i]
      /\ seconds'[n + 1] = FullBucket
  BY <1>2, AppendedBucket DEF EmitBucket
<1>4. elapsed' = (n + 1) * BucketWidth
  <2>1. elapsed = n * BucketWidth + bucketElapsed
    BY <1>1 DEF BucketsOnGrid
  <2>2. (n + 1) * BucketWidth = n * BucketWidth + BucketWidth
    BY <1>3
  <2>3. n * BucketWidth \in Nat
    BY <1>3
  <2>4. bucketElapsed + bucketRemaining = BucketWidth
    BY DEF BucketOK
  <2> HIDE DEF n
  <2> QED BY <1>1, <2>1, <2>2, <2>3, <2>4 DEF TimelineTypeOK
<1>5. FullBucket.time = elapsed'
  BY FullBucketFlows
<1>6. \A i \in DOMAIN seconds' : seconds'[i].time = i * BucketWidth
  <2>1. \A i \in 1 .. n : seconds[i].time = i * BucketWidth
    BY <1>1, <1>3 DEF BucketsOnGrid
  <2> HIDE DEF n
  <2>2. TAKE i \in DOMAIN seconds'
  <2>3. i \in 1 .. n \/ i = n + 1
    BY <1>3
  <2> QED BY <1>3, <1>4, <1>5, <2>1, <2>3
<1>7. bucketElapsed' = 0
  BY DEF EmitBucket, EmptyBucket
<1> QED BY <1>1, <1>3, <1>4, <1>6, <1>7 DEF BucketsOnGrid

LEMMA GridReturn ==
    ASSUME TimelineTypeOK, BucketOK, BucketsOnGrid, Return
    PROVE  BucketsOnGrid'
<1> USE TimelineAssumption DEF TimelineAssumption
<1> DEFINE n == Len(seconds)
<1>1. /\ ~returned /\ returned' /\ elapsed' = elapsed /\ elapsed \in Nat
      /\ elapsed = n * BucketWidth + bucketElapsed
      /\ \A i \in DOMAIN seconds : seconds[i].time = i * BucketWidth
  BY DEF Return, BucketsOnGrid, TimelineTypeOK
<1>2. n \in Nat /\ DOMAIN seconds = 1 .. n /\ n * BucketWidth \in Nat
  BY DEF TimelineTypeOK
<1>3. CASE bucketElapsed > 0
  <2>1. PartialBucket \in FlowSecond /\ PartialBucket.time = elapsed
    <3>1. Average(bucketFlowTime, bucketElapsed) \in Nat
      BY AverageAtMost DEF TimelineTypeOK, BucketOK
    <3> QED BY <3>1 DEF PartialBucket, FlowSecond, TimelineTypeOK
  <2>2. /\ Len(seconds') = n + 1 /\ DOMAIN seconds' = 1 .. (n + 1)
        /\ \A i \in 1 .. n : seconds'[i] = seconds[i]
        /\ seconds'[n + 1] = PartialBucket
    BY <1>2, <1>3, <2>1, AppendedBucket DEF Return, TrailingBucket
  <2>3. bucketElapsed \in Nat /\ bucketElapsed < BucketWidth
    BY DEF TimelineTypeOK, BucketOK
  <2>4. (n + 1) * BucketWidth = n * BucketWidth + BucketWidth
    BY <1>2
  <2>5. ((n + 1) - 1) * BucketWidth = n * BucketWidth
    BY <1>2
  <2>6. /\ ((n + 1) - 1) * BucketWidth < elapsed
        /\ elapsed < (n + 1) * BucketWidth
    <3> HIDE DEF n
    <3> QED BY <1>1, <1>2, <1>3, <2>3, <2>4, <2>5
  <2> HIDE DEF n
  <2>7. \A i \in DOMAIN seconds' :
            \/ seconds'[i].time = i * BucketWidth
            \/ returned' /\ i = Len(seconds') /\ seconds'[i].time = elapsed'
               /\ (i - 1) * BucketWidth < elapsed' /\ elapsed' < i * BucketWidth
    <3> TAKE i \in DOMAIN seconds'
    <3>1. CASE i \in 1 .. n
      BY <1>1, <1>2, <2>2, <3>1
    <3>2. CASE i = n + 1
      BY <1>1, <2>1, <2>2, <2>6, <3>2
    <3> QED BY <1>2, <2>2, <3>1, <3>2
  <2>8. seconds' # <<>> /\ seconds'[Len(seconds')].time = elapsed'
    BY <1>1, <1>2, <2>1, <2>2
  <2> QED BY <1>1, <2>7, <2>8 DEF BucketsOnGrid
<1>4. CASE ~(bucketElapsed > 0)
  <2>1. bucketElapsed = 0 /\ seconds' = seconds
    BY <1>4 DEF Return, TrailingBucket, TimelineTypeOK
  <2> HIDE DEF n
  <2>2. elapsed = n * BucketWidth
    BY <1>1, <1>2, <2>1
  <2>3. elapsed > 0 => n \in 1 .. n
    BY <1>2, <2>2
  <2>4. elapsed' > 0 => seconds' # <<>> /\ seconds'[n].time = elapsed'
    BY <1>1, <1>2, <2>1, <2>2, <2>3
  <2> QED BY <1>1, <1>2, <2>1, <2>4 DEF BucketsOnGrid, n
<1> QED BY <1>3, <1>4

\* A step that emits nothing only has to keep the bucket's fill in the account.
LEMMA GridFill ==
    ASSUME TimelineTypeOK, BucketOK, BucketsOnGrid, TakeMove \/ FillBucket
    PROVE  BucketsOnGrid'
<1>1. ~returned /\ ~returned' /\ seconds' = seconds
  BY DEF TakeMove, FillBucket, SplitMove, BucketOK, TimelineTypeOK
<1>2. \A i \in DOMAIN seconds : seconds[i].time = i * BucketWidth
  BY <1>1 DEF BucketsOnGrid
<1>3. elapsed' = Len(seconds) * BucketWidth + bucketElapsed'
  <2> DEFINE full == Len(seconds) * BucketWidth
  <2>1. elapsed = full + bucketElapsed
    BY <1>1 DEF BucketsOnGrid
  <2>2. full \in Nat
    BY TimelineAssumption DEF TimelineTypeOK, TimelineAssumption
  <2> SUFFICES elapsed' = full + bucketElapsed'
    OBVIOUS
  <2> HIDE DEF full
  <2>3. CASE TakeMove
    BY <2>1, <2>3 DEF TakeMove, bucketVars
  <2>4. CASE FillBucket
    <3>1. Piece \in Nat
      BY <2>4, PieceFits DEF FillBucket, SplitMove
    <3>2. elapsed' = elapsed + Piece /\ bucketElapsed' = bucketElapsed + Piece
      BY <2>4 DEF FillBucket, SplitMove
    <3> QED BY <2>1, <2>2, <3>1, <3>2 DEF TimelineTypeOK
  <2> QED BY <2>3, <2>4
<1> QED BY <1>1, <1>2, <1>3 DEF BucketsOnGrid

LEMMA GridStep ==
    ASSUME TimelineTypeOK, BucketOK, BucketsOnGrid, [TimelineNext]_timelineVars
    PROVE  BucketsOnGrid'
<1>1. CASE UNCHANGED timelineVars
  BY <1>1 DEF timelineVars, BucketsOnGrid
<1> QED BY <1>1, GridFill, GridEmit, GridReturn DEF TimelineNext

\* Whatever way the moves straddle the edges, the buckets lie on the grid of the
\* width, and the analysis ends with a bucket that ends at the total time.
THEOREM TimelineOnGrid == TimelineSpec => []BucketsOnGrid
BY GridInit, GridStep, Shape, PTL DEF TimelineSpec

-----------------------------------------------------------------------------

\* The list of buckets as its readers need it: no bucket uses less filament than
\* the one before, none more than the total, and in each the average is at most
\* the maximum, which is at most the peak.
Readable ==
    /\ \A i, j \in DOMAIN seconds :
           i < j => seconds[i].usedFilament <= seconds[j].usedFilament
    /\ \A i \in DOMAIN seconds : seconds[i].usedFilament <= totalFilament
    /\ FlowsOrdered

\* Appending a bucket that fits keeps the list readable.
LEMMA ReadableAppend ==
    ASSUME TimelineTypeOK, TimelineTypeOK', Readable,
           NEW second \in FlowSecond, seconds' = Append(seconds, second),
           totalFilament <= totalFilament', peakFlow' = peakFlow,
           totalFilament <= second.usedFilament, second.usedFilament <= totalFilament',
           second.averageFlow <= second.maxFlow, second.maxFlow <= peakFlow
    PROVE  Readable'
<1> DEFINE n == Len(seconds)
<1>1. /\ n \in Nat /\ DOMAIN seconds = 1 .. n /\ DOMAIN seconds' = 1 .. (n + 1)
      /\ \A i \in 1 .. n : seconds'[i] = seconds[i]
      /\ seconds'[n + 1] = second
  BY AppendedBucket
<1>2. /\ totalFilament \in Nat /\ totalFilament' \in Nat
      /\ \A i \in 1 .. n : seconds[i] \in FlowSecond
  <2>1. totalFilament \in Nat /\ totalFilament' \in Nat
    BY DEF TimelineTypeOK
  <2>2. \A i \in DOMAIN seconds : seconds[i] \in FlowSecond
    <3>1. seconds \in Seq(FlowSecond)
      BY DEF TimelineTypeOK
    <3> QED BY <3>1
  <2> QED BY <1>1, <2>1, <2>2
<1> HIDE DEF n
<1>3. \A i \in 1 .. n : seconds[i].usedFilament \in Nat
                        /\ seconds[i].usedFilament <= totalFilament
  BY <1>1, <1>2 DEF Readable, FlowSecond
<1>4. \A i \in DOMAIN seconds' : i \in 1 .. n \/ i = n + 1
  BY <1>1
<1>5. second.usedFilament \in Nat
  BY DEF FlowSecond
<1>6. \A i \in DOMAIN seconds' : seconds'[i].usedFilament <= totalFilament'
  BY <1>1, <1>2, <1>3, <1>4
<1>7. ASSUME NEW i \in DOMAIN seconds', NEW j \in DOMAIN seconds', i < j
      PROVE  seconds'[i].usedFilament <= seconds'[j].usedFilament
  <2>1. i \in 1 .. n
    BY <1>1, <1>7
  <2>2. CASE j \in 1 .. n
    BY <1>1, <1>7, <2>1, <2>2 DEF Readable
  <2>3. CASE j = n + 1
    BY <1>1, <1>2, <1>3, <1>5, <2>1, <2>3
  <2> QED BY <1>4, <2>2, <2>3
<1>8. FlowsOrdered'
  <2>1. \A i \in 1 .. n : /\ seconds[i].averageFlow <= seconds[i].maxFlow
                          /\ seconds[i].maxFlow <= peakFlow
    BY <1>1 DEF Readable, FlowsOrdered
  <2> QED BY <1>1, <1>4, <2>1 DEF FlowsOrdered
<1> QED BY <1>6, <1>7, <1>8 DEF Readable

LEMMA SecondsAreTyped ==
    ASSUME NEW s \in Seq(FlowSecond)
    PROVE  \A i \in DOMAIN s : s[i].maxFlow \in Nat /\ s[i].usedFilament \in Nat
<1>1. \A i \in DOMAIN s : s[i] \in FlowSecond
  OBVIOUS
<1> QED BY <1>1 DEF FlowSecond

LEMMA ReadableStep ==
    ASSUME TimelineTypeOK, TimelineTypeOK', BucketOK, Readable,
           [TimelineNext]_timelineVars
    PROVE  Readable'
<1>1. CASE TakeMove
  <2>1. seconds' = seconds /\ totalFilament' = totalFilament /\ peakFlow <= peakFlow'
    BY <1>1 DEF TakeMove, MaxOf, TimelineTypeOK, MoveSample, TimelineAssumption
  <2>2. \A i \in DOMAIN seconds : seconds[i].maxFlow \in Nat
    <3>1. seconds \in Seq(FlowSecond)
      BY DEF TimelineTypeOK
    <3> QED BY <3>1, SecondsAreTyped
  <2>3. peakFlow \in Nat /\ peakFlow' \in Nat
    BY DEF TimelineTypeOK
  <2>4. FlowsOrdered'
    BY <2>1, <2>2, <2>3 DEF Readable, FlowsOrdered
  <2> QED BY <2>1, <2>4 DEF Readable
<1>2. CASE FillBucket
  <2>1. Piece \in Nat /\ move.flow * Piece \in Nat
    BY <1>2, PieceFits DEF FillBucket, SplitMove
  <2>2. seconds' = seconds /\ peakFlow' = peakFlow /\ totalFilament <= totalFilament'
    <3>1. /\ seconds' = seconds /\ peakFlow' = peakFlow
          /\ totalFilament' = totalFilament + move.flow * Piece
      BY <1>2 DEF FillBucket, SplitMove
    <3>2. totalFilament \in Nat
      BY DEF TimelineTypeOK
    <3> QED BY <2>1, <3>1, <3>2
  <2>3. \A i \in DOMAIN seconds : seconds[i].usedFilament \in Nat
    <3>1. seconds \in Seq(FlowSecond)
      BY DEF TimelineTypeOK
    <3> QED BY <3>1, SecondsAreTyped
  <2>4. totalFilament \in Nat /\ totalFilament' \in Nat
    BY DEF TimelineTypeOK
  <2>5. FlowsOrdered'
    BY <2>2 DEF Readable, FlowsOrdered
  <2> QED BY <2>2, <2>3, <2>4, <2>5 DEF Readable
<1>3. CASE EmitBucket
  <2>1. Piece \in Nat /\ move.flow * Piece \in Nat
    BY <1>3, PieceFits DEF EmitBucket, SplitMove
  <2>2. totalFilament <= totalFilament' /\ peakFlow' = peakFlow
    BY <1>3, <2>1 DEF EmitBucket, SplitMove, TimelineTypeOK
  <2>3. FullBucket \in FlowSecond
    BY <1>3, FullBucketFlows DEF FullBucket, FlowSecond, EmitBucket, TimelineTypeOK
  <2>4. seconds' = Append(seconds, FullBucket)
    BY <1>3 DEF EmitBucket
  <2>5. /\ FullBucket.averageFlow <= FullBucket.maxFlow
        /\ FullBucket.maxFlow <= peakFlow
    BY <1>3, FullBucketFlows
  <2>6. /\ totalFilament <= FullBucket.usedFilament
        /\ FullBucket.usedFilament <= totalFilament'
    <3>1. FullBucket.usedFilament = totalFilament' /\ totalFilament' \in Nat
      BY <1>3, FullBucketFlows DEF TimelineTypeOK
    <3> QED BY <2>2, <3>1
  <2> QED BY <2>2, <2>3, <2>4, <2>5, <2>6, ReadableAppend
<1>4. CASE Return
  <2>1. CASE bucketElapsed > 0
    <3>1. /\ Average(bucketFlowTime, bucketElapsed) \in Nat
          /\ Average(bucketFlowTime, bucketElapsed) <= bucketMaxFlow
      BY AverageAtMost DEF TimelineTypeOK, BucketOK
    <3>2. /\ PartialBucket \in FlowSecond
          /\ PartialBucket.usedFilament = totalFilament
          /\ PartialBucket.averageFlow <= PartialBucket.maxFlow
          /\ PartialBucket.maxFlow <= peakFlow
      BY <3>1 DEF PartialBucket, FlowSecond, TimelineTypeOK, BucketOK
    <3>3. /\ seconds' = Append(seconds, PartialBucket)
          /\ totalFilament' = totalFilament /\ peakFlow' = peakFlow /\ totalFilament \in Nat
      BY <1>4, <2>1 DEF Return, TrailingBucket, TimelineTypeOK
    <3> QED BY <3>2, <3>3, ReadableAppend
  <2>2. CASE ~(bucketElapsed > 0)
    BY <1>4, <2>2 DEF Return, TrailingBucket, Readable, FlowsOrdered
  <2> QED BY <2>1, <2>2
<1>5. CASE UNCHANGED timelineVars
  BY <1>5 DEF timelineVars, Readable, FlowsOrdered
<1> QED BY <1>1, <1>2, <1>3, <1>4, <1>5 DEF TimelineNext

LEMMA ReadableAlways == TimelineSpec => []Readable
<1>1. TimelineInit => Readable
  BY DEF TimelineInit, Readable, FlowsOrdered
<1> QED BY <1>1, ReadableStep, Shape, PTL DEF TimelineSpec

\* In every bucket the average is at most the maximum and the maximum at most the
\* peak, so a blend of the two lies between them whatever the bias.
THEOREM TimelineFlowsOrdered == TimelineSpec => []FlowsOrdered
<1>1. Readable => FlowsOrdered
  BY DEF Readable
<1> QED BY <1>1, ReadableAlways, PTL

\* The precondition of the bisection in TemperaturePlan::temperatureAtFilament and
\* of timeAtFilament: time grows and filament never shrinks from bucket to bucket.
THEOREM TimelineIsSorted == TimelineSpec => []TimelineSorted
<1>1. ASSUME TimelineTypeOK, BucketsOnGrid, Readable PROVE TimelineSorted
  <2>1. ASSUME NEW i \in DOMAIN seconds, NEW j \in DOMAIN seconds, i < j
        PROVE  seconds[i].time < seconds[j].time
    <3>1. /\ i \in Nat /\ j \in Nat /\ j <= Len(seconds) /\ i # Len(seconds)
          /\ BucketWidth \in Nat /\ BucketWidth > 0
      BY <1>1, <2>1, TimelineAssumption DEF TimelineTypeOK, TimelineAssumption
    <3>2. seconds[i].time = i * BucketWidth
      BY <1>1, <3>1 DEF BucketsOnGrid
    <3>3. i * BucketWidth <= (j - 1) * BucketWidth
      BY <2>1, <3>1
    <3>4. (j - 1) * BucketWidth < j * BucketWidth
      BY <2>1, <3>1
    <3>5. elapsed \in Nat
      BY <1>1 DEF TimelineTypeOK
    <3>6. \/ seconds[j].time = j * BucketWidth
          \/ seconds[j].time = elapsed /\ (j - 1) * BucketWidth < elapsed
      BY <1>1 DEF BucketsOnGrid
    <3>7. i * BucketWidth \in Nat /\ j * BucketWidth \in Nat
          /\ (j - 1) * BucketWidth \in Nat
      BY <2>1, <3>1
    <3> QED BY <3>2, <3>3, <3>4, <3>5, <3>6, <3>7
  <2> QED BY <1>1, <2>1 DEF Readable, TimelineSorted
<1> QED BY <1>1, TimelineTypeCorrect, TimelineOnGrid, ReadableAlways, PTL

-----------------------------------------------------------------------------
(***************************************************************************)
(* The account of each bucket.  The open bucket holds what the totals are   *)
(* ahead of the last emitted one, so what is divided at its end is what has  *)
(* been used in it, over the time it took.                                  *)
(***************************************************************************)

OpenBucketHoldsTheRest ==
    ~returned => /\ EndOf(Len(seconds)) + bucketElapsed = elapsed
                 /\ UsedBy(Len(seconds)) + bucketFlowTime = totalFilament

\* The quotient of what has been used by the time it took accounts for it.
LEMMA AverageAccounts ==
    ASSUME NEW used \in Nat, NEW time \in Nat, time > 0
    PROVE  /\ Average(used, time) * time <= used
           /\ used < (Average(used, time) + 1) * time
<1> DEFINE q == used \div time
<1>1. q \in Nat /\ time * q <= used /\ used < time * q + time
  BY Quotient
<1>2. Average(used, time) = q
  BY DEF Average
<1> HIDE DEF q
<1>3. q * time = time * q /\ (q + 1) * time = time * q + time
  BY <1>1
<1> QED BY <1>1, <1>2, <1>3

\* The ends of the buckets are numbers.
LEMMA EndsAreNumbers ==
    ASSUME TimelineTypeOK
    PROVE  \A i \in 0 .. Len(seconds) : EndOf(i) \in Nat /\ UsedBy(i) \in Nat
<1>1. \A i \in DOMAIN seconds : seconds[i] \in FlowSecond
  BY DEF TimelineTypeOK
<1>2. DOMAIN seconds = 1 .. Len(seconds)
  BY DEF TimelineTypeOK
<1> QED BY <1>1, <1>2 DEF EndOf, UsedBy, FlowSecond

\* A bucket that is appended with the quotient of its own use and time.
LEMMA AccountedAppend ==
    ASSUME TimelineTypeOK, AveragesAccountForFilament,
           NEW second \in FlowSecond, seconds' = Append(seconds, second),
           NEW used \in Nat, NEW time \in Nat, time > 0,
           second.usedFilament = UsedBy(Len(seconds)) + used,
           second.time = EndOf(Len(seconds)) + time,
           second.averageFlow = Average(used, time)
    PROVE  AveragesAccountForFilament'
<1>0. PICK n \in Nat : n = Len(seconds)
  BY DEF TimelineTypeOK
<1>1. /\ n \in Nat /\ DOMAIN seconds = 1 .. n /\ DOMAIN seconds' = 1 .. (n + 1)
      /\ \A i \in 1 .. n : seconds'[i] = seconds[i]
      /\ seconds'[n + 1] = second
  BY <1>0, AppendedBucket
<1>2. EndOf(n) \in Nat /\ UsedBy(n) \in Nat
  BY <1>0, EndsAreNumbers
<1>3. \A i \in 0 .. n : EndOf(i)' = EndOf(i) /\ UsedBy(i)' = UsedBy(i)
  BY <1>1 DEF EndOf, UsedBy
<1>4. EndOf(n + 1)' = EndOf(n) + time /\ UsedBy(n + 1)' = UsedBy(n) + used
  BY <1>0, <1>1 DEF EndOf, UsedBy
<1>5. ASSUME NEW i \in 1 .. n
      PROVE  /\ seconds'[i].averageFlow * (EndOf(i)' - EndOf(i - 1)')
                   <= UsedBy(i)' - UsedBy(i - 1)'
             /\ UsedBy(i)' - UsedBy(i - 1)'
                   < (seconds'[i].averageFlow + 1) * (EndOf(i)' - EndOf(i - 1)')
  <2>1. /\ seconds[i].averageFlow * (EndOf(i) - EndOf(i - 1)) <= UsedBy(i) - UsedBy(i - 1)
        /\ UsedBy(i) - UsedBy(i - 1)
              < (seconds[i].averageFlow + 1) * (EndOf(i) - EndOf(i - 1))
    BY <1>1 DEF AveragesAccountForFilament
  <2>2. i \in 0 .. n /\ i - 1 \in 0 .. n
    BY <1>1
  <2> QED BY <1>1, <1>3, <2>1, <2>2
<1>6. /\ seconds'[n + 1].averageFlow * (EndOf(n + 1)' - EndOf(n)')
            <= UsedBy(n + 1)' - UsedBy(n)'
      /\ UsedBy(n + 1)' - UsedBy(n)'
            < (seconds'[n + 1].averageFlow + 1) * (EndOf(n + 1)' - EndOf(n)')
  <2>1. EndOf(n + 1)' - EndOf(n)' = time /\ UsedBy(n + 1)' - UsedBy(n)' = used
    BY <1>1, <1>2, <1>3, <1>4
  <2>2. seconds'[n + 1].averageFlow = Average(used, time)
    BY <1>1
  <2> QED BY <2>1, <2>2, AverageAccounts
<1>7. \A i \in DOMAIN seconds' : i \in 1 .. n \/ (i = n + 1 /\ i - 1 = n)
  BY <1>1
<1>8. ASSUME NEW i \in DOMAIN seconds'
      PROVE  /\ seconds'[i].averageFlow * (EndOf(i)' - EndOf(i - 1)')
                   <= UsedBy(i)' - UsedBy(i - 1)'
             /\ UsedBy(i)' - UsedBy(i - 1)'
                   < (seconds'[i].averageFlow + 1) * (EndOf(i)' - EndOf(i - 1)')
  <2>1. CASE i \in 1 .. n
    BY <1>5, <2>1
  <2>2. CASE i = n + 1 /\ i - 1 = n
    BY <1>6, <2>2, Zenon
  <2> QED BY <1>7, <2>1, <2>2
<1> QED BY <1>8 DEF AveragesAccountForFilament, EndOf, UsedBy

LEMMA AccountedEmit ==
    ASSUME TimelineTypeOK, BucketOK, AveragesAccountForFilament, OpenBucketHoldsTheRest,
           EmitBucket
    PROVE  AveragesAccountForFilament' /\ OpenBucketHoldsTheRest'
<1>0. PICK n \in Nat : n = Len(seconds)
  BY DEF TimelineTypeOK
<1> DEFINE used == bucketFlowTime + move.flow * Piece
           time == bucketElapsed + Piece
<1>1. /\ Piece \in Nat /\ Piece > 0 /\ move.flow * Piece \in Nat
      /\ ~returned
  BY PieceFits DEF EmitBucket, SplitMove, BucketOK, TimelineTypeOK
<1>2. used \in Nat /\ time \in Nat /\ time > 0
  BY <1>1 DEF TimelineTypeOK
<1>3. n \in Nat /\ EndOf(n) \in Nat /\ UsedBy(n) \in Nat
  BY <1>0, EndsAreNumbers
<1>4. elapsed' = EndOf(n) + time /\ totalFilament' = UsedBy(n) + used
  <2>1. elapsed' = elapsed + Piece /\ totalFilament' = totalFilament + move.flow * Piece
    BY DEF EmitBucket, SplitMove
  <2>2. EndOf(n) + bucketElapsed = elapsed /\ UsedBy(n) + bucketFlowTime = totalFilament
    BY <1>0, <1>1 DEF OpenBucketHoldsTheRest
  <2>3. bucketElapsed \in Nat /\ bucketFlowTime \in Nat
    BY DEF TimelineTypeOK
  <2> QED BY <1>1, <1>3, <2>1, <2>2, <2>3
<1>5. FullBucket \in FlowSecond
  BY <1>1, FullBucketFlows, TypeEmitBucket DEF FullBucket, FlowSecond, TimelineTypeOK
<1>6. /\ FullBucket.time = elapsed' /\ FullBucket.usedFilament = totalFilament'
      /\ FullBucket.averageFlow = Average(used, time)
  BY DEF FullBucket
<1>7. seconds' = Append(seconds, FullBucket)
  BY DEF EmitBucket
<1>8. AveragesAccountForFilament'
  <2> HIDE DEF used, time
  <2> QED BY <1>0, <1>2, <1>4, <1>5, <1>6, <1>7, AccountedAppend
<1>9. OpenBucketHoldsTheRest'
  <2>1. Len(seconds') = n + 1 /\ seconds'[n + 1] = FullBucket
    BY <1>0, <1>5, <1>7, AppendedBucket
  <2>2. EndOf(n + 1)' = elapsed' /\ UsedBy(n + 1)' = totalFilament'
    BY <1>3, <1>6, <2>1 DEF EndOf, UsedBy
  <2>3. /\ bucketElapsed' = 0 /\ bucketFlowTime' = 0
        /\ elapsed' \in Nat /\ totalFilament' \in Nat
    BY TypeEmitBucket DEF EmitBucket, EmptyBucket, TimelineTypeOK
  <2> QED BY <2>1, <2>2, <2>3 DEF OpenBucketHoldsTheRest
<1> QED BY <1>8, <1>9

LEMMA AccountedReturn ==
    ASSUME TimelineTypeOK, BucketOK, AveragesAccountForFilament, OpenBucketHoldsTheRest,
           Return
    PROVE  AveragesAccountForFilament' /\ OpenBucketHoldsTheRest'
<1>1. OpenBucketHoldsTheRest'
  BY DEF Return, OpenBucketHoldsTheRest
<1>2. CASE bucketElapsed > 0
  <2>1. Average(bucketFlowTime, bucketElapsed) \in Nat
    BY AverageAtMost DEF TimelineTypeOK, BucketOK
  <2>2. /\ PartialBucket \in FlowSecond
        /\ PartialBucket.time = elapsed /\ PartialBucket.usedFilament = totalFilament
        /\ PartialBucket.averageFlow = Average(bucketFlowTime, bucketElapsed)
    BY <2>1 DEF PartialBucket, FlowSecond, TimelineTypeOK
  <2>3. /\ EndOf(Len(seconds)) + bucketElapsed = elapsed
        /\ UsedBy(Len(seconds)) + bucketFlowTime = totalFilament
    BY DEF Return, OpenBucketHoldsTheRest
  <2>4. seconds' = Append(seconds, PartialBucket)
    BY <1>2 DEF Return, TrailingBucket
  <2>5. bucketElapsed \in Nat /\ bucketFlowTime \in Nat
    BY DEF TimelineTypeOK
  <2> QED BY <1>1, <1>2, <2>2, <2>3, <2>4, <2>5, AccountedAppend
<1>3. CASE ~(bucketElapsed > 0)
  BY <1>1, <1>3 DEF Return, TrailingBucket, AveragesAccountForFilament, EndOf, UsedBy
<1> QED BY <1>2, <1>3

LEMMA AccountedStep ==
    ASSUME TimelineTypeOK, BucketOK, AveragesAccountForFilament, OpenBucketHoldsTheRest,
           [TimelineNext]_timelineVars
    PROVE  AveragesAccountForFilament' /\ OpenBucketHoldsTheRest'
<1>1. seconds' = seconds => AveragesAccountForFilament'
  BY DEF AveragesAccountForFilament, EndOf, UsedBy
<1>2. CASE TakeMove
  BY <1>1, <1>2 DEF TakeMove, bucketVars, OpenBucketHoldsTheRest, EndOf, UsedBy
<1>3. CASE FillBucket
  <2>0. PICK n \in Nat : n = Len(seconds)
    BY DEF TimelineTypeOK
  <2>1. Piece \in Nat /\ move.flow * Piece \in Nat
    BY <1>3, PieceFits DEF FillBucket, SplitMove
  <2>2. EndOf(n) \in Nat /\ UsedBy(n) \in Nat
    BY <2>0, EndsAreNumbers
  <2>3. seconds' = seconds /\ ~returned
    BY <1>3 DEF FillBucket, SplitMove, BucketOK
  <2>4. /\ elapsed' = elapsed + Piece /\ bucketElapsed' = bucketElapsed + Piece
        /\ elapsed \in Nat /\ bucketElapsed \in Nat
    BY <1>3 DEF FillBucket, SplitMove, TimelineTypeOK
  <2>5. /\ totalFilament' = totalFilament + move.flow * Piece
        /\ bucketFlowTime' = bucketFlowTime + move.flow * Piece
        /\ totalFilament \in Nat /\ bucketFlowTime \in Nat
    BY <1>3 DEF FillBucket, SplitMove, TimelineTypeOK
  <2>6. EndOf(n) + bucketElapsed = elapsed /\ UsedBy(n) + bucketFlowTime = totalFilament
    BY <2>0, <2>3 DEF OpenBucketHoldsTheRest
  <2>7. EndOf(n) + bucketElapsed' = elapsed'
    BY <2>1, <2>2, <2>4, <2>6
  <2>8. UsedBy(n) + bucketFlowTime' = totalFilament'
    BY <2>1, <2>2, <2>5, <2>6
  <2>9. EndOf(n)' = EndOf(n) /\ UsedBy(n)' = UsedBy(n) /\ Len(seconds') = n
    BY <2>0, <2>3 DEF EndOf, UsedBy
  <2>10. OpenBucketHoldsTheRest'
    BY <2>7, <2>8, <2>9 DEF OpenBucketHoldsTheRest, EndOf, UsedBy
  <2> QED BY <1>1, <2>3, <2>10
<1>4. CASE UNCHANGED timelineVars
  BY <1>1, <1>4 DEF timelineVars, OpenBucketHoldsTheRest, EndOf, UsedBy
<1> QED BY <1>2, <1>3, <1>4, AccountedEmit, AccountedReturn DEF TimelineNext

\* In every bucket, the short last one included, the average flow over the
\* bucket's time is the filament used between its ends, up to the rounding.
THEOREM TimelineAccounts == TimelineSpec => []AveragesAccountForFilament
<1>1. TimelineInit => AveragesAccountForFilament /\ OpenBucketHoldsTheRest
  BY DEF TimelineInit, AveragesAccountForFilament, OpenBucketHoldsTheRest, EndOf, UsedBy
<1>2. TimelineTypeOK /\ BucketOK /\ AveragesAccountForFilament /\ OpenBucketHoldsTheRest
        /\ [TimelineNext]_timelineVars
        => AveragesAccountForFilament' /\ OpenBucketHoldsTheRest'
  BY AccountedStep
<1> QED BY <1>1, <1>2, Shape, PTL DEF TimelineSpec

-----------------------------------------------------------------------------
(***************************************************************************)
(* Behind the parser, and in front of the planner.                          *)
(***************************************************************************)

\* The first half is an analyser for whatever dump it reads: parsing leaves the
\* timeline alone, and a parsed move is taken, split and emitted as any other.
LEMMA AnalysisStep ==
    ASSUME [AnalysisNext]_analysisVars
    PROVE  [TimelineNext]_timelineVars
<1>1. CASE Parse
  BY <1>1 DEF Parse
<1>2. CASE NextMove
  BY <1>2 DEF NextMove, TimelineNext
<1>3. CASE Split
  BY <1>3 DEF Split, TimelineNext
<1>4. CASE Finish
  BY <1>4 DEF Finish, TimelineNext
<1>5. CASE UNCHANGED analysisVars
  BY <1>5 DEF analysisVars
<1> QED
  BY <1>1, <1>2, <1>3, <1>4, <1>5 DEF AnalysisNext

\* Parser and analyser implement the analyser.
THEOREM AnalysisImplementsTimeline == AnalysisSpec => TimelineSpec
<1>1. AnalysisInit => TimelineInit
    BY DEF AnalysisInit
<1>2. [AnalysisNext]_analysisVars => [TimelineNext]_timelineVars
    BY AnalysisStep
<1> QED
  BY <1>1, <1>2, PTL DEF AnalysisSpec, TimelineSpec

\* And so do they with the planner behind them: handing the timeline over and
\* planning touch none of it.
THEOREM PipelineImplementsTimeline == PipelineSpec => TimelineSpec
<1>1. PipelineInit => TimelineInit
    BY DEF PipelineInit, AnalysisInit
<1>2. [PipelineNext]_pipelineVars => [TimelineNext]_timelineVars
  <2> SUFFICES ASSUME [PipelineNext]_pipelineVars
               PROVE  [TimelineNext]_timelineVars
    OBVIOUS
  <2>1. [AnalysisNext]_analysisVars
    BY DEF PipelineNext, Analyse, HandOver, PlanStep, pipelineVars, analysisVars
  <2> QED
    BY <2>1, AnalysisStep
<1> QED
  BY <1>1, <1>2, PTL DEF PipelineSpec, TimelineSpec

\* No dump makes the totals differ from what its moves hold.
COROLLARY AnalysisConserves == PipelineSpec => []NothingLost
  BY PipelineImplementsTimeline, TimelineConserves, PTL

\* Whatever the dump, its timeline is sorted.
COROLLARY AnalysisIsSorted == PipelineSpec => []TimelineSorted
  BY PipelineImplementsTimeline, TimelineIsSorted, PTL

-----------------------------------------------------------------------------

\* The planner works on the finished analysis, and on none before.
PlansTheAnalysis ==
    origin = "dump" =>
        IF stage = "awaited" THEN timeline = <<>> ELSE returned /\ timeline = seconds

\* The order timeAtFilament bisects by, in the planner's copy.
HandedSorted ==
    origin = "dump" =>
        \A i, j \in DOMAIN timeline :
            i < j => /\ timeline[i].time < timeline[j].time
                     /\ timeline[i].usedFilament <= timeline[j].usedFilament

LEMMA PlansInit == PipelineInit => PlansTheAnalysis
BY DEF PipelineInit, AnalysisInit, PlanAwaited, At, PlannerInit, PlansTheAnalysis

\* The analysis is final when it is handed over: behind Return only the parser
\* could step, and it leaves the timeline alone.
LEMMA PlansStep ==
    ASSUME PlansTheAnalysis, [PipelineNext]_pipelineVars, BucketOK
    PROVE  PlansTheAnalysis'
<1>1. CASE Analyse
  <2>1. origin' = origin /\ stage' = stage /\ timeline' = timeline
    BY <1>1 DEF Analyse, AnalysisNext, Parse, NextMove, Split, Finish, plannerVars
  <2>2. CASE origin = "dump" /\ stage # "awaited"
    <3>1. returned /\ ~(remaining > 0)
      BY <2>2 DEF PlansTheAnalysis, BucketOK
    <3>2. Parse
      BY <1>1, <3>1 DEF Analyse, AnalysisNext, NextMove, TakeMove, Finish, Return,
         Split, FillBucket, EmitBucket, SplitMove
    <3>3. returned' = returned /\ seconds' = seconds
      BY <3>2 DEF Parse, timelineVars
    <3> QED
      BY <2>1, <2>2, <3>1, <3>3 DEF PlansTheAnalysis
  <2> QED
    BY <2>1, <2>2 DEF PlansTheAnalysis
<1>2. CASE HandOver
  BY <1>2 DEF HandOver, analysisVars, timelineVars, PlansTheAnalysis
<1>3. CASE PlanStep
  <2>1. UNCHANGED <<origin, returned, seconds, timeline>>
    BY <1>3 DEF PlanStep, analysisVars, timelineVars, PlannerNext, RefusePlan, BlendFlow,
       SmoothFlow, MapFlow, CoolBucket, Cooled, SlewBucket, Planned, plannerInputs
  <2>2. stage # "awaited" /\ stage' # "awaited"
    BY <1>3 DEF PlanStep, PlannerNext, RefusePlan, BlendFlow,
       SmoothFlow, MapFlow, CoolBucket, Cooled, SlewBucket, Planned
  <2> QED
    BY <2>1, <2>2 DEF PlansTheAnalysis
<1>4. CASE UNCHANGED pipelineVars
  BY <1>4 DEF pipelineVars, analysisVars, timelineVars, plannerVars, PlansTheAnalysis
<1> QED
  BY <1>1, <1>2, <1>3, <1>4 DEF PipelineNext

\* The timeline of every plan made of a dump is the finished analysis of that
\* dump, whatever else happens before and behind it.
THEOREM PlanIsOfTheAnalysis == PipelineSpec => []PlansTheAnalysis
<1>1. BucketOK /\ PlansTheAnalysis /\ [PipelineNext]_pipelineVars => PlansTheAnalysis'
  BY PlansStep
<1> QED
  BY <1>1, PlansInit, PipelineImplementsTimeline, Shape, PTL DEF PipelineSpec

\* So the planner's bisections and differences are over a sorted timeline.
COROLLARY PlannersTimelineIsSorted == PipelineSpec => []HandedSorted
<1>1. PlansTheAnalysis /\ TimelineSorted => HandedSorted
  BY DEF PlansTheAnalysis, TimelineSorted, HandedSorted
<1> QED
  BY <1>1, PlanIsOfTheAnalysis, AnalysisIsSorted, PTL

-----------------------------------------------------------------------------
(***************************************************************************)
(* The planner's arithmetic: every stage's operator stays among the         *)
(* integers, and inside the calibrated band.                                *)
(***************************************************************************)

\* A quotient of integers rounded down.
LEMMA Floor ==
    ASSUME NEW x \in Int, NEW d \in Nat, d > 0
    PROVE  /\ x \div d \in Int
           /\ d * (x \div d) <= x
           /\ x < d * (x \div d) + d
  OBVIOUS

\* So a quotient keeps bounds that are multiples of the divisor.
LEMMA FloorBetween ==
    ASSUME NEW x \in Int, NEW d \in Nat, d > 0, NEW most \in Int, 0 <= x, x <= most * d
    PROVE  0 <= x \div d /\ x \div d <= most
<1> DEFINE q == x \div d
<1>1. q \in Int /\ d * q <= x /\ x < d * q + d
  BY Floor
<1> HIDE DEF q
<1>2. ~(q <= -1)
  <2> SUFFICES ASSUME q <= -1 PROVE FALSE
    OBVIOUS
  <2>1. d * q <= d * (-1)
    BY <1>1
  <2>2. d * (-1) = -d
    OBVIOUS
  <2> QED BY <1>1, <2>1, <2>2
<1>3. ~(q >= most + 1)
  <2> SUFFICES ASSUME q >= most + 1 PROVE FALSE
    OBVIOUS
  <2>1. d * q >= d * (most + 1)
    BY <1>1
  <2>2. d * (most + 1) = most * d + d
    OBVIOUS
  <2> QED BY <1>1, <2>1, <2>2
<1>4. 0 <= q /\ q <= most
  BY <1>1, <1>2, <1>3
<1> QED BY <1>4 DEF q

\* lerp between two temperatures stays between them.
LEMMA LerpBetween ==
    ASSUME NEW a \in Int, NEW b \in Int, a <= b,
           NEW lo \in Int, NEW hi \in Int, lo < hi,
           NEW value \in Int, lo <= value, value <= hi
    PROVE  /\ Lerp(a, b, value, lo, hi) \in Int
           /\ a <= Lerp(a, b, value, lo, hi)
           /\ Lerp(a, b, value, lo, hi) <= b
<1> DEFINE x == (b - a) * (value - lo)
           d == hi - lo
<1>1. d \in Nat /\ d > 0 /\ x \in Int
  OBVIOUS
<1>2. 0 <= x
  <2>1. b - a \in Nat /\ value - lo \in Nat
    OBVIOUS
  <2>2. \A m, n \in Nat : 0 <= m * n
    OBVIOUS
  <2> QED BY <2>1, <2>2
<1>3. x <= (b - a) * d
  <2>1. b - a \in Nat /\ value - lo \in Nat /\ d \in Nat /\ value - lo <= d
    OBVIOUS
  <2>2. \A m, p, q \in Nat : p <= q => m * p <= m * q
    OBVIOUS
  <2> QED BY <2>1, <2>2
<1>4. Lerp(a, b, value, lo, hi) = a + x \div d
  BY DEF Lerp
<1> HIDE DEF x, d
<1>5. x \div d \in Int /\ 0 <= x \div d /\ x \div d <= b - a
  BY <1>1, <1>2, <1>3, Floor, FloorBetween
<1> QED BY <1>4, <1>5

\* A calibration that is valid maps every flow into its own band.
LEMMA TemperatureInBand ==
    ASSUME NEW f \in FilamentProfile, ValidFilament(f), NEW flowRate \in Int
    PROVE  /\ FlowToTemperature(f, flowRate) \in Int
           /\ f.lowTemp <= FlowToTemperature(f, flowRate)
           /\ FlowToTemperature(f, flowRate) <= f.highTemp
<1>1. /\ f.lowFlow \in Int /\ f.midFlow \in Int /\ f.highFlow \in Int
      /\ f.lowTemp \in Int /\ f.midTemp \in Int /\ f.highTemp \in Int
      /\ f.lowFlow < f.midFlow /\ f.midFlow < f.highFlow
      /\ f.lowTemp <= f.midTemp /\ f.midTemp <= f.highTemp
  BY DEF FilamentProfile, ValidFilament
<1>2. CASE flowRate <= f.lowFlow
  BY <1>1, <1>2 DEF FlowToTemperature
<1>3. CASE ~(flowRate <= f.lowFlow) /\ flowRate >= f.highFlow
  BY <1>1, <1>3 DEF FlowToTemperature
<1>4. CASE ~(flowRate <= f.lowFlow) /\ ~(flowRate >= f.highFlow) /\ flowRate <= f.midFlow
  <2> DEFINE t == Lerp(f.lowTemp, f.midTemp, flowRate, f.lowFlow, f.midFlow)
  <2>1. t \in Int /\ f.lowTemp <= t /\ t <= f.midTemp
    <3>1. flowRate \in Int /\ f.lowFlow <= flowRate /\ flowRate <= f.midFlow
      BY <1>1, <1>4
    <3> QED BY <1>1, <3>1, LerpBetween
  <2>2. FlowToTemperature(f, flowRate) = t
    BY <1>1, <1>4 DEF FlowToTemperature
  <2> HIDE DEF t
  <2> QED BY <1>1, <2>1, <2>2
<1>5. CASE ~(flowRate <= f.lowFlow) /\ ~(flowRate >= f.highFlow) /\ ~(flowRate <= f.midFlow)
  <2> DEFINE t == Lerp(f.midTemp, f.highTemp, flowRate, f.midFlow, f.highFlow)
  <2>1. t \in Int /\ f.midTemp <= t /\ t <= f.highTemp
    <3>1. flowRate \in Int /\ f.midFlow <= flowRate /\ flowRate <= f.highFlow
      BY <1>1, <1>5
    <3> QED BY <1>1, <3>1, LerpBetween
  <2>2. FlowToTemperature(f, flowRate) = t
    BY <1>1, <1>5 DEF FlowToTemperature
  <2> HIDE DEF t
  <2> QED BY <1>1, <2>1, <2>2
<1> QED BY <1>2, <1>3, <1>4, <1>5

\* A blend of two flows is a flow.
LEMMA BlendInt ==
    ASSUME NEW second \in FlowSecond, NEW f \in FilamentProfile
    PROVE  Blend(second, f) \in Int
<1>1. second.averageFlow \in Int /\ second.maxFlow \in Int /\ f.speedQualityBias \in Int
  BY DEF FlowSecond, FilamentProfile
<1>2. Bias(f) \in Int
  BY <1>1 DEF Bias
<1> DEFINE x == (second.maxFlow - second.averageFlow) * Bias(f)
<1>3. x \in Int
  BY <1>1, <1>2
<1>4. Blend(second, f) = second.averageFlow + x \div 10
  BY DEF Blend
<1> HIDE DEF x
<1>5. x \div 10 \in Int
  BY <1>3, Floor
<1> QED BY <1>1, <1>4, <1>5

\* The smoothed value of a bucket: its window holds the bucket itself, so the
\* division is by a count of one or more.
LEMMA MovingAverageInt ==
    ASSUME NEW values \in Seq(Int), NEW window \in Int, window >= 1
    PROVE  /\ MovingAverage(values, window) \in Seq(Int)
           /\ Len(MovingAverage(values, window)) = Len(values)
<1> DEFINE n == Len(values)
           Near(i) == Neighbours(i, n, window)
           Mean(i) == MapThenSumSet(LAMBDA j : values[j], Near(i)) \div Cardinality(Near(i))
<1>1. n \in Nat /\ DOMAIN values = 1 .. n /\ window \div 2 \in Nat
  <2>1. window \div 2 \in Int /\ 0 <= window \div 2
    OBVIOUS
  <2> QED BY <2>1
<1>2. ASSUME NEW i \in 1 .. n PROVE Mean(i) \in Int
  <2>1. Near(i) \subseteq 1 .. n /\ i \in Near(i)
    BY <1>1 DEF Neighbours
  <2>2. IsFiniteSet(Near(i))
    <3>1. IsFiniteSet(1 .. n)
      BY <1>1, FS_Interval
    <3> HIDE DEF Near
    <3> QED BY <2>1, <3>1, FS_Subset
  <2>3. Cardinality(Near(i)) \in Nat /\ Cardinality(Near(i)) # 0
    <3> HIDE DEF Near
    <3>1. Cardinality(Near(i)) \in Nat
      BY <2>2, FS_CardinalityType
    <3> QED BY <2>1, <2>2, <3>1, FS_EmptySet
  <2> DEFINE f == [j \in Near(i) |-> values[j]]
             sum == MapThenSumSet(LAMBDA j : values[j], Near(i))
  <2>4. f \in [Near(i) -> Int]
    BY <1>1, <2>1
  <2>5. SumOver(values, Near(i)) = SumOver(f, Near(i))
    <3> HIDE DEF Near
    <3> QED BY <2>2, <2>4, SumSame
  <2>6. SumOver(f, Near(i)) \in Int
    <3> HIDE DEF f, Near
    <3> QED BY <2>2, <2>4, SumInt
  <2>7. sum = SumOver(values, Near(i))
    <3> HIDE DEF Near
    <3> QED BY Zenon DEF MapThenSumSet, MapThenFoldSet, SumOver, IsRun, One
  <2> HIDE DEF sum, f, Near
  <2>8. sum \in Int
    BY <2>5, <2>6, <2>7
  <2>9. sum \div Cardinality(Near(i)) \in Int
    BY <2>3, <2>8, Floor
  <2> QED BY <2>9 DEF sum
<1>3. MovingAverage(values, window) = [i \in 1 .. n |-> Mean(i)]
  BY <1>1, Zenon DEF MovingAverage
<1> HIDE DEF Mean, n
<1> QED BY <1>1, <1>2, <1>3 DEF n

-----------------------------------------------------------------------------
(***************************************************************************)
(* The time at a filament position: an interpolation between the two        *)
(* buckets around it, of which the lower one ends before the position.      *)
(***************************************************************************)

FirstAt(used) == Min({i \in 1 .. Len(timeline) : timeline[i].usedFilament >= used})

\* The position lies behind the first bucket and before the end of the last one.
Between(used) ==
    ~(used <= timeline[1].usedFilament) /\ ~(used >= timeline[Len(timeline)].usedFilament)

InputsOK == timeline \in Seq(FlowSecond) /\ layers \in Seq(Nat) /\ timeline # <<>>

\* timeAtFilament's precondition, and the order in which the scan finds layers.
SortedInputs ==
    /\ \A i, j \in DOMAIN timeline :
          i < j => /\ timeline[i].time < timeline[j].time
                   /\ timeline[i].usedFilament <= timeline[j].usedFilament
    /\ \A i, j \in DOMAIN layers : i < j => layers[i] <= layers[j]

LEMMA TimelineNumbers ==
    ASSUME InputsOK
    PROVE  /\ Len(timeline) \in Nat /\ Len(timeline) > 0
           /\ DOMAIN timeline = 1 .. Len(timeline)
           /\ \A i \in 1 .. Len(timeline) :
                 timeline[i].time \in Nat /\ timeline[i].usedFilament \in Nat
<1>1. /\ Len(timeline) \in Nat /\ Len(timeline) > 0
      /\ DOMAIN timeline = 1 .. Len(timeline)
  BY DEF InputsOK
<1>2. \A i \in DOMAIN timeline : timeline[i] \in FlowSecond
  BY DEF InputsOK
<1> QED BY <1>1, <1>2 DEF FlowSecond

LEMMA FirstAtIsBetween ==
    ASSUME InputsOK, NEW used \in Nat, Between(used)
    PROVE  /\ FirstAt(used) \in 2 .. Len(timeline)
           /\ timeline[FirstAt(used) - 1].usedFilament < used
           /\ used <= timeline[FirstAt(used)].usedFilament
           /\ \A i \in 1 .. Len(timeline) :
                 timeline[i].usedFilament >= used => FirstAt(used) <= i
<1> DEFINE n == Len(timeline)
           S == {i \in 1 .. n : timeline[i].usedFilament >= used}
<1>1. /\ n \in Nat /\ n > 0
      /\ \A i \in 1 .. n : timeline[i].time \in Nat /\ timeline[i].usedFilament \in Nat
  BY TimelineNumbers
<1>2. n \in S /\ S \in SUBSET Nat
  BY <1>1 DEF Between
<1>3. Min(S) \in S /\ \A y \in S : Min(S) <= y
  <2> HIDE DEF S
  <2> QED BY <1>2, MinNat
<1>4. FirstAt(used) = Min(S)
  BY DEF FirstAt
<1> HIDE DEF n
<1>5. FirstAt(used) \in 1 .. n /\ timeline[FirstAt(used)].usedFilament >= used
  BY <1>3, <1>4
<1>6. FirstAt(used) # 1
  BY <1>1, <1>5 DEF Between
<1>7. FirstAt(used) - 1 \in 1 .. n
  BY <1>1, <1>5, <1>6
<1>8. ~(timeline[FirstAt(used) - 1].usedFilament >= used)
  <2> SUFFICES ASSUME timeline[FirstAt(used) - 1].usedFilament >= used PROVE FALSE
    OBVIOUS
  <2>1. FirstAt(used) - 1 \in S
    BY <1>7
  <2>2. Min(S) <= FirstAt(used) - 1
    BY <1>3, <2>1
  <2> QED BY <1>4, <1>5, <2>2
<1> QED BY <1>1, <1>3, <1>4, <1>5, <1>6, <1>7, <1>8 DEF n

\* Between two buckets the time is interpolated as any other value is.
LEMMA TimeIsInterpolated ==
    ASSUME InputsOK, NEW used \in Nat
    PROVE  TimeAtFilament(used) =
             IF used <= timeline[1].usedFilament THEN 0
             ELSE IF used >= timeline[Len(timeline)].usedFilament
             THEN timeline[Len(timeline)].time
             ELSE Lerp(timeline[FirstAt(used) - 1].time, timeline[FirstAt(used)].time, used,
                       timeline[FirstAt(used) - 1].usedFilament,
                       timeline[FirstAt(used)].usedFilament)
BY Zenon DEF TimeAtFilament, FirstAt, Lerp

LEMMA LerpIsInt ==
    ASSUME NEW a \in Int, NEW b \in Int, NEW value \in Int, NEW lo \in Int, NEW hi \in Int,
           lo < hi
    PROVE  Lerp(a, b, value, lo, hi) \in Int
<1> DEFINE x == (b - a) * (value - lo)
<1>1. x \in Int /\ hi - lo \in Nat /\ hi - lo > 0
  OBVIOUS
<1>2. Lerp(a, b, value, lo, hi) = a + x \div (hi - lo)
  BY DEF Lerp
<1> HIDE DEF x
<1>3. x \div (hi - lo) \in Int
  BY <1>1, Floor
<1> QED BY <1>2, <1>3

LEMMA TimeIsInt ==
    ASSUME InputsOK, NEW used \in Nat
    PROVE  TimeAtFilament(used) \in Int
<1> DEFINE n == Len(timeline)
           hi == FirstAt(used)
<1>1. /\ n \in Nat /\ n > 0
      /\ \A i \in 1 .. n : timeline[i].time \in Nat /\ timeline[i].usedFilament \in Nat
  BY TimelineNumbers
<1>2. CASE ~Between(used)
  BY <1>1, <1>2, TimeIsInterpolated DEF Between
<1>3. CASE Between(used)
  <2>1. /\ hi \in 2 .. n /\ timeline[hi - 1].usedFilament < used
        /\ used <= timeline[hi].usedFilament
    BY <1>3, FirstAtIsBetween
  <2>2. TimeAtFilament(used) = Lerp(timeline[hi - 1].time, timeline[hi].time, used,
                                    timeline[hi - 1].usedFilament, timeline[hi].usedFilament)
    BY <1>3, TimeIsInterpolated DEF Between
  <2> HIDE DEF hi, n
  <2>3. hi \in 1 .. n /\ hi - 1 \in 1 .. n
    BY <1>1, <2>1
  <2>4. /\ timeline[hi - 1].time \in Int /\ timeline[hi].time \in Int
        /\ timeline[hi - 1].usedFilament \in Int /\ timeline[hi].usedFilament \in Int
        /\ timeline[hi - 1].usedFilament < timeline[hi].usedFilament
    BY <1>1, <2>1, <2>3
  <2>5. Lerp(timeline[hi - 1].time, timeline[hi].time, used,
             timeline[hi - 1].usedFilament, timeline[hi].usedFilament) \in Int
    <3>1. used \in Int
      OBVIOUS
    <3> QED BY <2>4, <3>1, LerpIsInt
  <2> QED BY <2>2, <2>5
<1> QED BY <1>2, <1>3

LEMMA DurationIsNat ==
    ASSUME InputsOK, NEW k \in DOMAIN layers
    PROVE  LayerDuration(k) \in Nat
<1>1. k \in Nat /\ layers[k] \in Nat /\ (k < Len(layers) => layers[k + 1] \in Nat)
  BY DEF InputsOK
<1>2. TimeAtFilament(layers[k]) \in Int
  BY <1>1, TimeIsInt
<1>3. k < Len(layers) => TimeAtFilament(layers[k + 1]) \in Int
  BY <1>1, TimeIsInt
<1>4. timeline[Len(timeline)].time \in Nat
  BY TimelineNumbers
<1> QED BY <1>2, <1>3, <1>4 DEF LayerDuration, AtLeastZero

\* A drop is a drop: no layer is made hotter for being short.
LEMMA DropIsNat ==
    ASSUME extruder \in ExtruderProfile, CoolingEnabled, NEW layerTime \in Nat
    PROVE  CoolingDrop(layerTime) \in Nat
<1>1. /\ extruder.coolingLayerTime \in Nat /\ extruder.coolingLayerTime > 0
      /\ extruder.coolingMaxDrop \in Nat
  BY DEF ExtruderProfile, CoolingEnabled
<1>2. CASE layerTime >= extruder.coolingLayerTime
  BY <1>2 DEF CoolingDrop
<1>3. CASE ~(layerTime >= extruder.coolingLayerTime) /\ layerTime <= 0
  BY <1>1, <1>3 DEF CoolingDrop
<1>4. CASE ~(layerTime >= extruder.coolingLayerTime) /\ ~(layerTime <= 0)
  <2> DEFINE x == extruder.coolingMaxDrop * (extruder.coolingLayerTime - layerTime)
  <2>1. x \in Nat
    <3>1. extruder.coolingLayerTime - layerTime \in Nat
      BY <1>1, <1>4
    <3> QED BY <1>1, <3>1
  <2>2. CoolingDrop(layerTime) = x \div extruder.coolingLayerTime
    BY <1>1, <1>4 DEF CoolingDrop
  <2> HIDE DEF x
  <2>3. x \div extruder.coolingLayerTime \in Nat
    BY <1>1, <2>1
  <2> QED BY <2>2, <2>3
<1> QED BY <1>2, <1>3, <1>4

-----------------------------------------------------------------------------
(***************************************************************************)
(* The stages: what each of them leaves for the next.                       *)
(***************************************************************************)

InBand(temperature) == filament.lowTemp <= temperature /\ temperature <= filament.highTemp

Started == stage \in {"blended", "smoothed", "cooling", "slewing", "done"}

StageOK ==
    /\ Started => ValidFilament(filament) /\ ValidExtruder(extruder) /\ timeline # <<>>
    /\ ~Started => /\ flow = <<>> /\ desired = <<>> /\ durations = <<>> /\ achievable = <<>>
                   /\ bucket = 1 /\ cursor = 1
    /\ stage \in {"blended", "smoothed"} =>
          /\ Len(flow) = Len(timeline)
          /\ desired = <<>> /\ durations = <<>> /\ achievable = <<>>
          /\ bucket = 1 /\ cursor = 1
    /\ stage = "cooling" =>
          /\ layers # <<>> /\ CoolingEnabled /\ cursor <= Len(layers)
          /\ durations = [k \in DOMAIN layers |-> LayerDuration(k)]
          /\ achievable = <<>>
    /\ stage \in {"cooling", "slewing", "done"} =>
          /\ Len(desired) = Len(timeline)
          /\ \A i \in DOMAIN desired : InBand(desired[i])
    /\ stage = "slewing" => Len(achievable) = bucket - 1

\* The planned temperature of a bucket, of the one before it and of the wanted one.
SlewedFrom(i) == IF i = 1 THEN desired[1] ELSE Slew(achievable[i - 1], desired[i])

CurveIsSlewed ==
    \A i \in DOMAIN achievable : InBand(achievable[i]) /\ achievable[i] = SlewedFrom(i)

\* How far the planned curve reaches: never past the wanted one.
CurveIsCovered == Len(achievable) <= Len(desired)

PlannerInv == PlannerTypeOK /\ StageOK /\ CurveIsSlewed /\ CurveIsCovered

\* A call that has done nothing yet.
LEMMA NothingPlanned ==
    ASSUME At("called") \/ At("awaited"),
           timeline \in Seq(FlowSecond), layers \in Seq(Nat),
           extruder \in ExtruderProfile, filament \in FilamentProfile
    PROVE  PlannerInv
<1>1. /\ flow = <<>> /\ desired = <<>> /\ durations = <<>> /\ achievable = <<>>
      /\ cursor = 1 /\ bucket = 1 /\ stage \in {"called", "awaited"}
  BY DEF At
<1>2. Len(timeline) \in Nat /\ Len(layers) \in Nat
  OBVIOUS
<1>3. PlannerTypeOK
  BY <1>1, <1>2 DEF PlannerTypeOK
<1>4. StageOK /\ CurveIsSlewed /\ CurveIsCovered
  BY <1>1 DEF StageOK, CurveIsSlewed, CurveIsCovered, Started
<1> QED BY <1>3, <1>4 DEF PlannerInv

LEMMA PlanIsRefused == ASSUME PlannerInv, RefusePlan PROVE PlannerInv'
<1>1. /\ stage = "called" /\ stage' = "refused"
      /\ UNCHANGED <<timeline, layers, extruder, filament, flow, desired, durations, cursor,
                     bucket, achievable>>
  BY DEF RefusePlan, plannerInputs
<1>2. PlannerTypeOK'
  BY <1>1 DEF PlannerInv, PlannerTypeOK
<1>3. StageOK' /\ CurveIsSlewed' /\ CurveIsCovered'
  BY <1>1 DEF PlannerInv, StageOK, CurveIsSlewed, CurveIsCovered, Started
<1> QED BY <1>2, <1>3 DEF PlannerInv

LEMMA FlowIsBlended == ASSUME PlannerInv, BlendFlow PROVE PlannerInv'
<1>1. /\ stage = "called" /\ stage' = "blended"
      /\ ValidFilament(filament) /\ ValidExtruder(extruder) /\ timeline # <<>>
      /\ flow' = [i \in DOMAIN timeline |-> Blend(timeline[i], filament)]
      /\ UNCHANGED <<timeline, layers, extruder, filament, desired, durations, cursor,
                     bucket, achievable>>
  BY DEF BlendFlow, plannerInputs
<1>2. timeline \in Seq(FlowSecond) /\ filament \in FilamentProfile
  BY DEF PlannerInv, PlannerTypeOK
<1>3. DOMAIN timeline = 1 .. Len(timeline) /\ Len(timeline) \in Nat
  BY <1>2
<1>4. \A i \in 1 .. Len(timeline) : Blend(timeline[i], filament) \in Int
  BY <1>2, <1>3, BlendInt
<1>5. flow' \in Seq(Int) /\ Len(flow') = Len(timeline)
  BY <1>1, <1>3, <1>4
<1>6. PlannerTypeOK'
  BY <1>1, <1>5 DEF PlannerInv, PlannerTypeOK
<1>7. desired = <<>> /\ durations = <<>> /\ achievable = <<>> /\ bucket = 1 /\ cursor = 1
  BY <1>1 DEF PlannerInv, StageOK, Started
<1>8. StageOK'
  BY <1>1, <1>5, <1>7 DEF StageOK, Started
<1>9. CurveIsSlewed' /\ CurveIsCovered'
  BY <1>1, <1>7 DEF CurveIsSlewed, CurveIsCovered
<1> QED BY <1>6, <1>8, <1>9 DEF PlannerInv

LEMMA FlowIsSmoothed == ASSUME PlannerInv, SmoothFlow PROVE PlannerInv'
<1> DEFINE window == IF extruder.smoothingWindow < 1 THEN 1 ELSE extruder.smoothingWindow
<1>1. /\ stage = "blended" /\ stage' = "smoothed"
      /\ flow' = MovingAverage(flow, window)
      /\ UNCHANGED <<timeline, layers, extruder, filament, desired, durations, cursor,
                     bucket, achievable>>
  BY DEF SmoothFlow, plannerInputs
<1>2. flow \in Seq(Int) /\ window \in Int /\ window >= 1
  BY DEF PlannerInv, PlannerTypeOK, ExtruderProfile
<1> HIDE DEF window
<1>3. flow' \in Seq(Int) /\ Len(flow') = Len(flow)
  BY <1>1, <1>2, MovingAverageInt
<1>4. /\ desired = <<>> /\ durations = <<>> /\ achievable = <<>> /\ bucket = 1 /\ cursor = 1
      /\ Len(flow) = Len(timeline)
      /\ ValidFilament(filament) /\ ValidExtruder(extruder) /\ timeline # <<>>
  BY <1>1 DEF PlannerInv, StageOK, Started
<1>5. PlannerTypeOK'
  BY <1>1, <1>3, <1>4 DEF PlannerInv, PlannerTypeOK
<1>6. StageOK'
  BY <1>1, <1>3, <1>4 DEF StageOK, Started
<1>7. CurveIsSlewed' /\ CurveIsCovered'
  BY <1>1, <1>4 DEF CurveIsSlewed, CurveIsCovered
<1> QED BY <1>5, <1>6, <1>7 DEF PlannerInv

LEMMA FlowIsMapped == ASSUME PlannerInv, MapFlow PROVE PlannerInv'
<1>1. /\ stage = "smoothed"
      /\ desired' = [i \in DOMAIN flow |-> FlowToTemperature(filament, flow[i])]
      /\ UNCHANGED <<timeline, layers, extruder, filament, flow, cursor, bucket, achievable>>
  BY DEF MapFlow, plannerInputs
<1>2. /\ durations = <<>> /\ achievable = <<>> /\ bucket = 1 /\ cursor = 1
      /\ Len(flow) = Len(timeline)
      /\ ValidFilament(filament) /\ ValidExtruder(extruder) /\ timeline # <<>>
  BY <1>1 DEF PlannerInv, StageOK, Started
<1>3. /\ timeline \in Seq(FlowSecond) /\ layers \in Seq(Nat) /\ flow \in Seq(Int)
      /\ filament \in FilamentProfile
  BY DEF PlannerInv, PlannerTypeOK
<1>4. DOMAIN flow = 1 .. Len(timeline) /\ Len(timeline) \in Nat
  BY <1>2, <1>3
<1>5. \A i \in 1 .. Len(timeline) : /\ FlowToTemperature(filament, flow[i]) \in Int
                                     /\ InBand(FlowToTemperature(filament, flow[i]))
  <2> SUFFICES ASSUME NEW i \in 1 .. Len(timeline)
               PROVE  /\ FlowToTemperature(filament, flow[i]) \in Int
                      /\ InBand(FlowToTemperature(filament, flow[i]))
    OBVIOUS
  <2>1. flow[i] \in Int
    BY <1>3, <1>4
  <2> QED BY <1>2, <1>3, <2>1, TemperatureInBand DEF InBand
<1>6. /\ desired' \in Seq(Int) /\ Len(desired') = Len(timeline)
      /\ DOMAIN desired' = 1 .. Len(timeline)
  BY <1>1, <1>4, <1>5
<1>7. \A i \in DOMAIN desired' : InBand(desired'[i])
  BY <1>1, <1>4, <1>5, <1>6
<1>8. CurveIsSlewed' /\ CurveIsCovered'
  BY <1>1, <1>2, <1>4, <1>6 DEF CurveIsSlewed, CurveIsCovered
<1>9. CASE CoolingEnabled /\ layers # <<>>
  <2> DEFINE d == [k \in DOMAIN layers |-> LayerDuration(k)]
  <2>1. stage' = "cooling" /\ durations' = d
    BY <1>9 DEF MapFlow
  <2>2. d \in Seq(Int) /\ Len(d) = Len(layers)
    <3>1. \A k \in 1 .. Len(layers) : LayerDuration(k) \in Nat
      BY <1>2, <1>3, DurationIsNat DEF InputsOK
    <3> QED BY <1>3, <3>1
  <2>3. Len(layers) \in Nat /\ Len(layers) > 0
    BY <1>3, <1>9
  <2>4. durations' = [k \in DOMAIN layers |-> LayerDuration(k)]'
    <3>1. [k \in DOMAIN layers |-> LayerDuration(k)]' = d
      <4>1. timeline' = timeline /\ layers' = layers
        BY <1>1
      <4> QED BY ONLY <4>1 DEF LayerDuration, TimeAtFilament
    <3> QED BY <2>1, <3>1
  <2> HIDE DEF d
  <2>5. PlannerTypeOK'
    BY <1>1, <1>2, <1>6, <2>1, <2>2 DEF PlannerInv, PlannerTypeOK
  <2>6. StageOK'
    <3>1. (CoolingEnabled)'
      BY <1>1, <1>9 DEF CoolingEnabled
    <3>2. /\ (\A i \in DOMAIN desired : InBand(desired[i]))'
          /\ Len(desired') = Len(timeline')
      BY <1>1, <1>6, <1>7 DEF InBand
    <3>3. /\ layers' # <<>> /\ cursor' <= Len(layers') /\ achievable' = <<>>
          /\ ValidFilament(filament') /\ ValidExtruder(extruder') /\ timeline' # <<>>
      BY <1>1, <1>2, <1>9, <2>3
    <3> QED BY <2>1, <2>4, <3>1, <3>2, <3>3 DEF StageOK, Started
  <2> QED BY <1>8, <2>5, <2>6 DEF PlannerInv
<1>10. CASE ~(CoolingEnabled /\ layers # <<>>)
  <2>1. stage' = "slewing" /\ durations' = durations
    BY <1>10 DEF MapFlow
  <2>2. PlannerTypeOK'
    BY <1>1, <1>6, <2>1 DEF PlannerInv, PlannerTypeOK
  <2>3. StageOK'
    <3>1. /\ (\A i \in DOMAIN desired : InBand(desired[i]))'
          /\ Len(desired') = Len(timeline')
      BY <1>1, <1>6, <1>7 DEF InBand
    <3>2. Len(achievable') = bucket' - 1
      BY <1>1, <1>2
    <3> QED BY <1>1, <1>2, <2>1, <3>1, <3>2 DEF StageOK, Started
  <2> QED BY <1>8, <2>2, <2>3 DEF PlannerInv
<1> QED BY <1>9, <1>10

\* The layer the cursor moves to is one of the layers.
LEMMA NextIsALayer ==
    ASSUME PlannerInv, stage = "cooling", NEW used \in Nat
    PROVE  /\ NextCursor(used) \in cursor .. Len(layers)
           /\ NextCursor(used) = Len(layers) \/ used < layers[NextCursor(used) + 1]
           /\ \A k \in cursor .. Len(layers) :
                 (k = Len(layers) \/ used < layers[k + 1]) => NextCursor(used) <= k
<1> DEFINE S == {k \in cursor .. Len(layers) : k = Len(layers) \/ used < layers[k + 1]}
<1>1. Len(layers) \in Nat /\ cursor \in Nat /\ cursor <= Len(layers)
  BY DEF PlannerInv, PlannerTypeOK, StageOK
<1>2. Len(layers) \in S /\ S \in SUBSET Nat
  BY <1>1
<1>3. NextCursor(used) = Min(S)
  BY DEF NextCursor
<1>4. Min(S) \in S /\ \A y \in S : Min(S) <= y
  <2> HIDE DEF S
  <2> QED BY <1>2, MinNat
<1> QED BY <1>3, <1>4

LEMMA FlooredInBand ==
    ASSUME filament \in FilamentProfile, ValidFilament(filament),
           NEW temperature \in Int, InBand(temperature), NEW drop \in Nat
    PROVE  Floored(temperature - drop) \in Int /\ InBand(Floored(temperature - drop))
BY DEF FilamentProfile, ValidFilament, InBand, Floored

LEMMA BucketIsCooled == ASSUME PlannerInv, CoolBucket PROVE PlannerInv'
<1> DEFINE used == timeline[bucket].usedFilament
           drop == CoolingDrop(durations[cursor'])
           cooled == Floored(desired[bucket] - drop)
<1>1. /\ stage = "cooling" /\ bucket <= Len(timeline)
      /\ cursor' = NextCursor(used)
      /\ desired' = [desired EXCEPT ![bucket] = cooled]
      /\ bucket' = bucket + 1
      /\ UNCHANGED <<timeline, layers, extruder, filament, stage, flow, durations, achievable>>
  BY DEF CoolBucket, plannerInputs
<1>2. /\ timeline \in Seq(FlowSecond) /\ layers \in Seq(Nat) /\ desired \in Seq(Int)
      /\ extruder \in ExtruderProfile /\ filament \in FilamentProfile
      /\ Len(timeline) \in Nat /\ Len(layers) \in Nat /\ bucket \in Nat /\ bucket >= 1
      /\ cursor \in Nat /\ cursor >= 1
  <2>1. /\ timeline \in Seq(FlowSecond) /\ layers \in Seq(Nat) /\ desired \in Seq(Int)
        /\ extruder \in ExtruderProfile /\ filament \in FilamentProfile
        /\ cursor \in 1 .. (Len(layers) + 1) /\ bucket \in 1 .. (Len(timeline) + 1)
    BY DEF PlannerInv, PlannerTypeOK
  <2>2. Len(timeline) \in Nat /\ Len(layers) \in Nat
    BY <2>1, LenProperties
  <2> QED BY <2>1, <2>2
<1>3. /\ ValidFilament(filament) /\ ValidExtruder(extruder) /\ timeline # <<>>
      /\ layers # <<>> /\ CoolingEnabled
      /\ durations = [k \in DOMAIN layers |-> LayerDuration(k)]
      /\ achievable = <<>>
      /\ Len(desired) = Len(timeline)
      /\ \A i \in DOMAIN desired : InBand(desired[i])
  BY <1>1 DEF PlannerInv, StageOK, Started
<1>4. bucket \in DOMAIN desired /\ DOMAIN desired = 1 .. Len(timeline)
  BY <1>1, <1>2, <1>3
<1>5. used \in Nat
  BY <1>1, <1>2, <1>3, TimelineNumbers DEF InputsOK
<1>6. cursor' \in cursor .. Len(layers)
  <2> HIDE DEF used
  <2> QED BY <1>1, <1>5, NextIsALayer
<1>7. durations[cursor'] \in Nat
  <2>1. cursor' \in DOMAIN layers
    BY <1>2, <1>6
  <2>2. durations[cursor'] = LayerDuration(cursor')
    BY <1>3, <2>1
  <2>3. \A k \in DOMAIN layers : LayerDuration(k) \in Nat
    BY <1>2, <1>3, DurationIsNat DEF InputsOK
  <2> QED BY <2>1, <2>2, <2>3
<1>8. drop \in Nat
  BY <1>2, <1>3, <1>7, DropIsNat
<1>9. cooled \in Int /\ InBand(cooled)
  <2>1. desired[bucket] \in Int /\ InBand(desired[bucket])
    BY <1>2, <1>3, <1>4
  <2> HIDE DEF drop
  <2> QED BY <1>2, <1>3, <1>8, <2>1, FlooredInBand
<1> HIDE DEF used, drop, cooled
<1>10. desired' \in Seq(Int) /\ Len(desired') = Len(timeline) /\ DOMAIN desired' = DOMAIN desired
  BY <1>1, <1>2, <1>3, <1>9
<1>11. \A i \in DOMAIN desired' : InBand(desired'[i])
  BY <1>1, <1>3, <1>4, <1>9, <1>10
<1>12. PlannerTypeOK'
  <2>1. cursor' \in 1 .. (Len(layers') + 1) /\ bucket' \in 1 .. (Len(timeline') + 1)
    BY <1>1, <1>2, <1>6
  <2> QED BY <1>1, <1>10, <2>1 DEF PlannerInv, PlannerTypeOK
<1>13. StageOK'
  <2>1. (CoolingEnabled)'
    BY <1>1, <1>3 DEF CoolingEnabled
  <2>2. (\A i \in DOMAIN desired : InBand(desired[i]))'
    BY <1>1, <1>11 DEF InBand
  <2>3. (durations = [k \in DOMAIN layers |-> LayerDuration(k)])'
    <3>1. timeline' = timeline /\ layers' = layers /\ durations' = durations
      BY <1>1
    <3>2. durations = [k \in DOMAIN layers |-> LayerDuration(k)]
      BY <1>3
    <3>3. ASSUME NEW k PROVE LayerDuration(k)' = LayerDuration(k)
      BY <3>1 DEF LayerDuration, TimeAtFilament
    <3> QED BY <3>1, <3>2, <3>3
  <2>4. cursor' <= Len(layers')
    BY <1>1, <1>2, <1>6
  <2> QED BY <1>1, <1>3, <1>10, <2>1, <2>2, <2>3, <2>4 DEF StageOK, Started
<1>14. CurveIsSlewed' /\ CurveIsCovered'
  BY <1>1, <1>2, <1>3, <1>10 DEF CurveIsSlewed, CurveIsCovered
<1> QED BY <1>12, <1>13, <1>14 DEF PlannerInv

LEMMA LayersAreCooled == ASSUME PlannerInv, Cooled PROVE PlannerInv'
<1>1. /\ stage = "cooling" /\ stage' = "slewing" /\ bucket' = 1
      /\ UNCHANGED <<timeline, layers, extruder, filament, flow, desired, durations, cursor,
                     achievable>>
  BY DEF Cooled, plannerInputs
<1>2. /\ ValidFilament(filament) /\ ValidExtruder(extruder) /\ timeline # <<>>
      /\ achievable = <<>> /\ Len(desired) = Len(timeline)
      /\ \A i \in DOMAIN desired : InBand(desired[i])
  BY <1>1 DEF PlannerInv, StageOK, Started
<1>3. PlannerTypeOK'
  <2>1. bucket' \in 1 .. (Len(timeline') + 1)
    BY <1>1 DEF PlannerInv, PlannerTypeOK
  <2> QED BY <1>1, <2>1 DEF PlannerInv, PlannerTypeOK
<1>4. StageOK'
  <2>1. (\A i \in DOMAIN desired : InBand(desired[i]))'
    BY <1>1, <1>2 DEF InBand
  <2> QED BY <1>1, <1>2, <2>1 DEF StageOK, Started
<1>5. CurveIsSlewed' /\ CurveIsCovered'
  BY <1>1, <1>2 DEF PlannerInv, CurveIsSlewed, CurveIsCovered
<1> QED BY <1>3, <1>4, <1>5 DEF PlannerInv

\* A nozzle that is on its way between two temperatures of the band is in it.
LEMMA SlewInBand ==
    ASSUME extruder \in ExtruderProfile, ValidExtruder(extruder), filament \in FilamentProfile,
           NEW before \in Int, NEW wanted \in Int, InBand(before), InBand(wanted)
    PROVE  Slew(before, wanted) \in Int /\ InBand(Slew(before, wanted))
BY DEF ExtruderProfile, ValidExtruder, FilamentProfile, InBand, Slew

LEMMA BucketIsSlewed == ASSUME PlannerInv, SlewBucket PROVE PlannerInv'
<1> DEFINE next == IF bucket = 1 THEN desired[1]
                   ELSE Slew(achievable[bucket - 1], desired[bucket])
<1>1. /\ stage = "slewing" /\ bucket <= Len(desired)
      /\ achievable' = Append(achievable, next)
      /\ bucket' = bucket + 1
      /\ UNCHANGED <<timeline, layers, extruder, filament, stage, flow, desired, durations,
                     cursor>>
  BY DEF SlewBucket, plannerInputs
<1>2. /\ desired \in Seq(Int) /\ achievable \in Seq(Int)
      /\ extruder \in ExtruderProfile /\ filament \in FilamentProfile
      /\ Len(timeline) \in Nat /\ bucket \in Nat /\ bucket >= 1
  BY DEF PlannerInv, PlannerTypeOK
<1>3. /\ ValidFilament(filament) /\ ValidExtruder(extruder) /\ timeline # <<>>
      /\ Len(achievable) = bucket - 1
      /\ Len(desired) = Len(timeline)
      /\ \A i \in DOMAIN desired : InBand(desired[i])
  BY <1>1 DEF PlannerInv, StageOK, Started
<1>4. \A i \in DOMAIN achievable : InBand(achievable[i]) /\ achievable[i] = SlewedFrom(i)
  BY DEF PlannerInv, CurveIsSlewed
<1>5. next \in Int /\ InBand(next)
  <2>1. desired[bucket] \in Int /\ InBand(desired[bucket])
    BY <1>1, <1>2, <1>3
  <2>2. CASE bucket = 1
    BY <2>1, <2>2
  <2>3. CASE bucket # 1
    <3>1. bucket - 1 \in DOMAIN achievable
      BY <1>2, <1>3, <2>3
    <3>2. achievable[bucket - 1] \in Int /\ InBand(achievable[bucket - 1])
      BY <1>2, <1>4, <3>1
    <3> QED BY <1>2, <1>3, <2>1, <2>3, <3>2, SlewInBand
  <2> QED BY <2>2, <2>3
<1>6. next = SlewedFrom(bucket)
  BY DEF SlewedFrom
<1> HIDE DEF next
<1>7. /\ achievable' \in Seq(Int) /\ Len(achievable') = bucket
      /\ DOMAIN achievable' = 1 .. bucket /\ achievable'[bucket] = next
      /\ \A i \in 1 .. (bucket - 1) : achievable'[i] = achievable[i]
  BY <1>1, <1>2, <1>3, <1>5
<1>8. PlannerTypeOK'
  <2>1. bucket' \in 1 .. (Len(timeline') + 1) /\ Len(achievable') <= Len(timeline')
    BY <1>1, <1>2, <1>3, <1>7
  <2> QED BY <1>1, <1>7, <2>1 DEF PlannerInv, PlannerTypeOK
<1>9. StageOK'
  <2>1. (\A i \in DOMAIN desired : InBand(desired[i]))'
    BY <1>1, <1>3 DEF InBand
  <2>2. Len(achievable') = bucket' - 1
    BY <1>1, <1>2, <1>7
  <2> QED BY <1>1, <1>3, <2>1, <2>2 DEF StageOK, Started
<1>10. CurveIsSlewed'
  <2>1. ASSUME NEW i \in DOMAIN achievable'
        PROVE  InBand(achievable'[i]) /\ achievable'[i] = SlewedFrom(i)'
    <3>1. SlewedFrom(i)' = SlewedFrom(i)
      <4>1. i \in 1 .. bucket
        BY <1>7, <2>1
      <4>2. i # 1 => achievable'[i - 1] = achievable[i - 1]
        <5>1. i # 1 => i - 1 \in 1 .. (bucket - 1)
          BY <1>2, <4>1
        <5> QED BY <1>7, <5>1
      <4>3. desired' = desired /\ extruder' = extruder
        BY <1>1
      <4> QED BY <4>2, <4>3 DEF SlewedFrom, Slew
    <3>2. CASE i = bucket
      BY <1>5, <1>6, <1>7, <3>1, <3>2
    <3>3. CASE i # bucket
      <4>1. i \in 1 .. (bucket - 1) /\ i \in DOMAIN achievable
        BY <1>2, <1>3, <1>7, <2>1, <3>3
      <4> QED BY <1>4, <1>7, <3>1, <4>1
    <3> QED BY <3>2, <3>3
  <2>2. (\A i \in DOMAIN achievable : InBand(achievable[i]))'
    BY <1>1, <2>1 DEF InBand
  <2>3. (\A i \in DOMAIN achievable : achievable[i] = SlewedFrom(i))'
    BY <2>1
  <2> QED BY <2>2, <2>3 DEF CurveIsSlewed
<1>11. CurveIsCovered'
  BY <1>1, <1>2, <1>7 DEF CurveIsCovered
<1> QED BY <1>8, <1>9, <1>10, <1>11 DEF PlannerInv

LEMMA CallEnds == ASSUME PlannerInv, Planned PROVE PlannerInv'
<1>1. /\ stage = "slewing" /\ stage' = "done"
      /\ UNCHANGED <<timeline, layers, extruder, filament, flow, desired, durations, cursor,
                     bucket, achievable>>
  BY DEF Planned, plannerInputs
<1>2. PlannerTypeOK'
  BY <1>1 DEF PlannerInv, PlannerTypeOK
<1>3. StageOK'
  BY <1>1 DEF PlannerInv, StageOK, Started, InBand
<1>4. CurveIsSlewed' /\ CurveIsCovered'
  BY <1>1 DEF PlannerInv, CurveIsSlewed, CurveIsCovered, SlewedFrom, Slew, InBand
<1> QED BY <1>2, <1>3, <1>4 DEF PlannerInv

LEMMA PlannerStandsStill == ASSUME PlannerInv, UNCHANGED plannerVars PROVE PlannerInv'
<1>1. UNCHANGED <<timeline, layers, extruder, filament, stage, flow, desired, durations,
                  cursor, bucket, achievable>>
  BY DEF plannerVars
<1>2. PlannerTypeOK'
  BY <1>1 DEF PlannerInv, PlannerTypeOK
<1>3. StageOK'
  <2>1. (durations = [k \in DOMAIN layers |-> LayerDuration(k)])'
           <=> durations = [k \in DOMAIN layers |-> LayerDuration(k)]
    BY <1>1 DEF LayerDuration, TimeAtFilament
  <2> QED BY <1>1, <2>1 DEF PlannerInv, StageOK, Started, InBand, CoolingEnabled
<1>4. CurveIsSlewed' /\ CurveIsCovered'
  BY <1>1 DEF PlannerInv, CurveIsSlewed, CurveIsCovered, SlewedFrom, Slew, InBand
<1> QED BY <1>2, <1>3, <1>4 DEF PlannerInv

LEMMA PlannerStep == ASSUME PlannerInv, [PlannerNext]_plannerVars PROVE PlannerInv'
BY PlanIsRefused, FlowIsBlended, FlowIsSmoothed, FlowIsMapped, BucketIsCooled, LayersAreCooled,
   BucketIsSlewed, CallEnds, PlannerStandsStill DEF PlannerNext

\* The step that each bucket's temperature is from the one before.
LEMMA SlewedIsRespected == PlannerInv => CurveInBand /\ SlewRespected
<1> SUFFICES ASSUME PlannerInv PROVE CurveInBand /\ SlewRespected
  OBVIOUS
<1>1. CurveInBand
  BY DEF PlannerInv, CurveIsSlewed, CurveInBand, InBand
<1>2. ASSUME NEW i \in DOMAIN achievable \ {1}
      PROVE  /\ achievable[i] - achievable[i - 1] <= extruder.maxRise
             /\ achievable[i - 1] - achievable[i] <= extruder.maxFall
             /\ \/ achievable[i - 1] <= achievable[i] /\ achievable[i] <= desired[i]
                \/ achievable[i - 1] >= achievable[i] /\ achievable[i] >= desired[i]
  <2>1. /\ achievable \in Seq(Int) /\ desired \in Seq(Int) /\ extruder \in ExtruderProfile
        /\ Len(achievable) <= Len(desired)
    BY DEF PlannerInv, PlannerTypeOK, CurveIsCovered
  <2>2. Started
    <3>1. achievable # <<>>
      BY <1>2, <2>1
    <3> QED BY <3>1 DEF PlannerInv, StageOK
  <2>3. extruder.maxRise > 0 /\ extruder.maxFall > 0
    BY <2>2 DEF PlannerInv, StageOK, ValidExtruder
  <2>4. extruder.maxRise \in Int /\ extruder.maxFall \in Int
    BY <2>1 DEF ExtruderProfile
  <2>5. achievable[i - 1] \in Int /\ achievable[i] \in Int /\ desired[i] \in Int
    BY <1>2, <2>1
  <2>6. achievable[i] = Slew(achievable[i - 1], desired[i])
    BY <1>2 DEF PlannerInv, CurveIsSlewed, SlewedFrom
  <2> QED BY <2>3, <2>4, <2>5, <2>6 DEF Slew
<1>3. SlewRespected
  BY <1>2, Zenon DEF SlewRespected
<1> QED BY <1>1, <1>3

-----------------------------------------------------------------------------
(***************************************************************************)
(* The time at a filament position grows with the position.                 *)
(***************************************************************************)

LEMMA FloorMonotone ==
    ASSUME NEW x \in Int, NEW y \in Int, x <= y, NEW d \in Nat, d > 0
    PROVE  x \div d <= y \div d
<1> DEFINE p == x \div d
           q == y \div d
<1>1. p \in Int /\ d * p <= x
  BY Floor
<1>2. q \in Int /\ y < d * q + d
  BY Floor
<1> HIDE DEF p, q
<1>3. ~(p >= q + 1)
  <2> SUFFICES ASSUME p >= q + 1 PROVE FALSE
    OBVIOUS
  <2>1. d * p >= d * (q + 1)
    BY <1>1, <1>2
  <2>2. d * (q + 1) = d * q + d
    BY <1>2
  <2>3. d * p \in Int /\ d * q \in Int
    BY <1>1, <1>2
  <2> QED BY <1>1, <1>2, <2>1, <2>2, <2>3
<1>4. p <= q
  BY <1>1, <1>2, <1>3
<1> QED BY <1>4 DEF p, q

LEMMA LerpMonotone ==
    ASSUME NEW a \in Int, NEW b \in Int, a <= b,
           NEW lo \in Int, NEW hi \in Int, lo < hi,
           NEW v \in Int, NEW w \in Int, v <= w
    PROVE  Lerp(a, b, v, lo, hi) <= Lerp(a, b, w, lo, hi)
<1> DEFINE x == (b - a) * (v - lo)
           y == (b - a) * (w - lo)
           d == hi - lo
<1>1. d \in Nat /\ d > 0 /\ x \in Int /\ y \in Int
  OBVIOUS
<1>2. x <= y
  <2>1. b - a \in Nat /\ v - lo \in Int /\ w - lo \in Int /\ v - lo <= w - lo
    OBVIOUS
  <2>2. \A m \in Nat, p, q \in Int : p <= q => m * p <= m * q
    OBVIOUS
  <2> QED BY <2>1, <2>2
<1>3. Lerp(a, b, v, lo, hi) = a + x \div d /\ Lerp(a, b, w, lo, hi) = a + y \div d
  BY DEF Lerp
<1> HIDE DEF x, y, d
<1>4. x \div d \in Int /\ y \div d \in Int /\ x \div d <= y \div d
  BY <1>1, <1>2, Floor, FloorMonotone
<1> QED BY <1>3, <1>4

\* Between two buckets it lies between their times.
LEMMA TimeBetween ==
    ASSUME InputsOK, SortedInputs, NEW used \in Nat, Between(used)
    PROVE  /\ FirstAt(used) \in 2 .. Len(timeline)
           /\ timeline[FirstAt(used) - 1].time <= TimeAtFilament(used)
           /\ TimeAtFilament(used) <= timeline[FirstAt(used)].time
<1>1. /\ Len(timeline) \in Nat /\ DOMAIN timeline = 1 .. Len(timeline)
      /\ \A i \in 1 .. Len(timeline) :
            timeline[i].time \in Nat /\ timeline[i].usedFilament \in Nat
  BY TimelineNumbers
<1>2. PICK hi \in 2 .. Len(timeline) : hi = FirstAt(used)
  BY FirstAtIsBetween
<1>3. timeline[hi - 1].usedFilament < used /\ used <= timeline[hi].usedFilament
  BY <1>2, FirstAtIsBetween
<1>4. TimeAtFilament(used) = Lerp(timeline[hi - 1].time, timeline[hi].time, used,
                                  timeline[hi - 1].usedFilament, timeline[hi].usedFilament)
  BY <1>2, TimeIsInterpolated DEF Between
<1>5. hi \in 1 .. Len(timeline) /\ hi - 1 \in 1 .. Len(timeline) /\ hi - 1 < hi
  BY <1>1
<1>6. timeline[hi - 1].time < timeline[hi].time
  BY <1>1, <1>5 DEF SortedInputs
<1>7. /\ timeline[hi - 1].time \in Int /\ timeline[hi].time \in Int /\ used \in Int
      /\ timeline[hi - 1].usedFilament \in Int /\ timeline[hi].usedFilament \in Int
      /\ timeline[hi - 1].time <= timeline[hi].time
      /\ timeline[hi - 1].usedFilament < timeline[hi].usedFilament
      /\ timeline[hi - 1].usedFilament <= used
  BY <1>1, <1>3, <1>5, <1>6
<1>8. /\ timeline[hi - 1].time <= TimeAtFilament(used)
      /\ TimeAtFilament(used) <= timeline[hi].time
  <2> DEFINE a == timeline[hi - 1].time
             b == timeline[hi].time
             lo == timeline[hi - 1].usedFilament
             up == timeline[hi].usedFilament
  <2>1. /\ a \in Int /\ b \in Int /\ a <= b /\ lo \in Int /\ up \in Int /\ lo < up
        /\ used \in Int /\ lo <= used /\ used <= up
    BY <1>3, <1>7
  <2>2. TimeAtFilament(used) = Lerp(a, b, used, lo, up)
    BY <1>4
  <2> HIDE DEF a, b, lo, up
  <2>3. a <= Lerp(a, b, used, lo, up) /\ Lerp(a, b, used, lo, up) <= b
    BY <2>1, LerpBetween
  <2> QED BY <2>2, <2>3 DEF a, b
<1> QED BY <1>2, <1>8

LEMMA TimeInThePrint ==
    ASSUME InputsOK, SortedInputs, NEW used \in Nat
    PROVE  TimeAtFilament(used) \in 0 .. timeline[Len(timeline)].time
<1>1. /\ Len(timeline) \in Nat /\ Len(timeline) > 0 /\ DOMAIN timeline = 1 .. Len(timeline)
      /\ \A i \in 1 .. Len(timeline) :
            timeline[i].time \in Nat /\ timeline[i].usedFilament \in Nat
  BY TimelineNumbers
<1>2. TimeAtFilament(used) \in Int /\ timeline[Len(timeline)].time \in Nat
  BY <1>1, TimeIsInt
<1>3. CASE ~Between(used)
  BY <1>2, <1>3, TimeIsInterpolated DEF Between
<1>4. CASE Between(used)
  <2>1. PICK hi \in 2 .. Len(timeline) : hi = FirstAt(used)
    BY <1>4, FirstAtIsBetween
  <2>2. /\ timeline[hi - 1].time <= TimeAtFilament(used)
        /\ TimeAtFilament(used) <= timeline[hi].time
    BY <1>4, <2>1, TimeBetween
  <2>3. timeline[hi - 1].time \in Nat /\ timeline[hi].time \in Nat
    BY <1>1
  <2>4. timeline[hi].time <= timeline[Len(timeline)].time
    <3>1. CASE hi = Len(timeline)
      BY <2>3, <3>1
    <3>2. CASE hi # Len(timeline)
      <4>1. hi \in DOMAIN timeline /\ Len(timeline) \in DOMAIN timeline /\ hi < Len(timeline)
        BY <1>1, <3>2
      <4>2. timeline[hi].time < timeline[Len(timeline)].time
        BY <4>1 DEF SortedInputs
      <4> QED BY <1>2, <2>3, <4>2
    <3> QED BY <3>1, <3>2
  <2> QED BY <1>2, <2>2, <2>3, <2>4
<1> QED BY <1>3, <1>4

LEMMA TimeMonotone ==
    ASSUME InputsOK, SortedInputs, NEW a \in Nat, NEW b \in Nat, a <= b
    PROVE  TimeAtFilament(a) <= TimeAtFilament(b)
<1>1. /\ Len(timeline) \in Nat /\ Len(timeline) > 0 /\ DOMAIN timeline = 1 .. Len(timeline)
      /\ \A i \in 1 .. Len(timeline) :
            timeline[i].time \in Nat /\ timeline[i].usedFilament \in Nat
  BY TimelineNumbers
<1>2. /\ TimeAtFilament(a) \in 0 .. timeline[Len(timeline)].time
      /\ TimeAtFilament(b) \in 0 .. timeline[Len(timeline)].time
  BY TimeInThePrint
<1>3. timeline[1].usedFilament \in Nat /\ timeline[Len(timeline)].usedFilament \in Nat
      /\ timeline[Len(timeline)].time \in Nat
  BY <1>1
<1>4. CASE ~Between(a)
  <2>1. CASE a <= timeline[1].usedFilament
    BY <1>2, <1>3, <2>1, TimeIsInterpolated
  <2>2. CASE ~(a <= timeline[1].usedFilament)
    <3>1. /\ ~(b <= timeline[1].usedFilament) /\ a >= timeline[Len(timeline)].usedFilament
          /\ b >= timeline[Len(timeline)].usedFilament
      BY <1>3, <1>4, <2>2 DEF Between
    <3>2. TimeAtFilament(b) = timeline[Len(timeline)].time
      BY <3>1, TimeIsInterpolated
    <3> QED BY <1>2, <1>3, <3>2
  <2> QED BY <2>1, <2>2
<1>5. CASE Between(a) /\ ~Between(b)
  <2>1. ~(b <= timeline[1].usedFilament) /\ b >= timeline[Len(timeline)].usedFilament
    BY <1>3, <1>5 DEF Between
  <2>2. TimeAtFilament(b) = timeline[Len(timeline)].time
    BY <2>1, TimeIsInterpolated
  <2> QED BY <1>2, <1>3, <2>2
<1>6. CASE Between(a) /\ Between(b)
  <2>1. PICK h \in 2 .. Len(timeline) : h = FirstAt(a)
    BY <1>6, FirstAtIsBetween
  <2>2. PICK k \in 2 .. Len(timeline) : k = FirstAt(b)
    BY <1>6, FirstAtIsBetween
  <2>3. h <= k
    <3>1. k \in 1 .. Len(timeline) /\ b <= timeline[k].usedFilament
      BY <1>1, <1>6, <2>2, FirstAtIsBetween
    <3>2. timeline[k].usedFilament >= a
      BY <1>1, <3>1
    <3> QED BY <1>6, <2>1, <3>1, <3>2, FirstAtIsBetween
  <2>4. /\ timeline[h].time \in Nat /\ timeline[k].time \in Nat
        /\ timeline[h - 1].time \in Nat /\ timeline[k - 1].time \in Nat
        /\ timeline[h].usedFilament \in Nat /\ timeline[h - 1].usedFilament \in Nat
    BY <1>1
  <2>5. CASE h = k
    <3>1. timeline[h - 1].usedFilament < a /\ a <= timeline[h].usedFilament
      BY <1>6, <2>1, FirstAtIsBetween
    <3>2. /\ TimeAtFilament(a) = Lerp(timeline[h - 1].time, timeline[h].time, a,
                                      timeline[h - 1].usedFilament, timeline[h].usedFilament)
          /\ TimeAtFilament(b) = Lerp(timeline[h - 1].time, timeline[h].time, b,
                                      timeline[h - 1].usedFilament, timeline[h].usedFilament)
      BY <1>6, <2>1, <2>2, <2>5, TimeIsInterpolated DEF Between
    <3>3. timeline[h - 1].time < timeline[h].time
      <4>1. h - 1 \in DOMAIN timeline /\ h \in DOMAIN timeline /\ h - 1 < h
        BY <1>1
      <4> QED BY <4>1 DEF SortedInputs
    <3> DEFINE lo == timeline[h - 1]
               hi == timeline[h]
    <3>4. /\ lo.time \in Nat /\ hi.time \in Nat /\ lo.time < hi.time
          /\ lo.usedFilament \in Nat /\ hi.usedFilament \in Nat
          /\ lo.usedFilament < a /\ a <= hi.usedFilament
      BY <2>4, <3>1, <3>3
    <3>5. /\ TimeAtFilament(a) = Lerp(lo.time, hi.time, a, lo.usedFilament, hi.usedFilament)
          /\ TimeAtFilament(b) = Lerp(lo.time, hi.time, b, lo.usedFilament, hi.usedFilament)
      BY <3>2
    <3> HIDE DEF lo, hi
    <3>6. /\ lo.time \in Int /\ hi.time \in Int /\ lo.time <= hi.time
          /\ lo.usedFilament \in Int /\ hi.usedFilament \in Int
          /\ lo.usedFilament < hi.usedFilament /\ a \in Int /\ b \in Int
      BY <3>4
    <3>7. Lerp(lo.time, hi.time, a, lo.usedFilament, hi.usedFilament)
            <= Lerp(lo.time, hi.time, b, lo.usedFilament, hi.usedFilament)
      BY <3>6, LerpMonotone
    <3> QED BY <3>5, <3>7
  <2>6. CASE h < k
    <3>1. TimeAtFilament(a) <= timeline[h].time /\ timeline[k - 1].time <= TimeAtFilament(b)
      BY <1>6, <2>1, <2>2, TimeBetween
    <3>2. timeline[h].time <= timeline[k - 1].time
      <4>1. CASE h = k - 1
        BY <2>4, <4>1
      <4>2. CASE h # k - 1
        <5>1. h \in DOMAIN timeline /\ k - 1 \in DOMAIN timeline /\ h < k - 1
          BY <1>1, <2>6, <4>2
        <5>2. timeline[h].time < timeline[k - 1].time
          BY <5>1 DEF SortedInputs
        <5> QED BY <2>4, <5>2
      <4> QED BY <4>1, <4>2
    <3> DEFINE u == timeline[h].time
               v == timeline[k - 1].time
               t == TimeAtFilament(a)
               w == TimeAtFilament(b)
    <3>3. u \in Nat /\ v \in Nat /\ t \in Int /\ w \in Int /\ t <= u /\ u <= v /\ v <= w
      BY <1>2, <2>4, <3>1, <3>2
    <3> HIDE DEF u, v, t, w
    <3>4. t <= w
      BY <3>3
    <3> QED BY <3>4 DEF t, w
  <2> QED BY <2>3, <2>5, <2>6
<1> QED BY <1>4, <1>5, <1>6

-----------------------------------------------------------------------------
(***************************************************************************)
(* The layers: each bucket is cooled for its own, and they share out the    *)
(* time of the print.                                                       *)
(***************************************************************************)

UsedBefore == timeline[bucket - 1].usedFilament

\* The cursor's layer has begun and the next one has not.
CursorOK ==
    stage = "cooling" =>
        /\ bucket = 1 => cursor = 1
        /\ bucket > 1 =>
              /\ cursor = 1 \/ layers[cursor] <= UsedBefore
              /\ \A k \in DOMAIN layers : k > cursor => UsedBefore < layers[k]

SortedInv == SortedInputs /\ CursorOK

LEMMA InputsAreKept ==
    ASSUME [PlannerNext]_plannerVars
    PROVE  UNCHANGED <<timeline, layers, extruder, filament>>
BY DEF PlannerNext, RefusePlan, BlendFlow, SmoothFlow, MapFlow, CoolBucket, Cooled,
   SlewBucket, Planned, plannerInputs, plannerVars

LEMMA CursorMoves == ASSUME PlannerInv, SortedInv, CoolBucket PROVE CursorOK'
<1>1. /\ timeline \in Seq(FlowSecond) /\ layers \in Seq(Nat)
      /\ Len(timeline) \in Nat /\ Len(layers) \in Nat
      /\ bucket \in Nat /\ bucket >= 1 /\ bucket <= Len(timeline)
      /\ cursor \in Nat /\ cursor >= 1 /\ cursor <= Len(layers)
      /\ timeline # <<>> /\ stage = "cooling"
  BY DEF PlannerInv, PlannerTypeOK, StageOK, Started, CoolBucket
<1>2. PICK used \in Nat : used = timeline[bucket].usedFilament
  BY <1>1, TimelineNumbers DEF InputsOK
<1>3. PICK next \in cursor .. Len(layers) : next = NextCursor(used)
  BY <1>1, NextIsALayer
<1>4. /\ cursor' = next /\ bucket' = bucket + 1 /\ stage' = "cooling"
      /\ timeline' = timeline /\ layers' = layers
  BY <1>1, <1>2, <1>3 DEF CoolBucket, plannerInputs
<1>5. UsedBefore' = used
  BY <1>1, <1>2, <1>4 DEF UsedBefore
<1>6. \A k \in DOMAIN layers : layers[k] \in Nat
  BY <1>1
<1>7. next = 1 \/ layers[next] <= used
  <2>1. CASE next = cursor /\ bucket = 1
    BY <1>1, <2>1 DEF SortedInv, CursorOK
  <2>2. CASE next = cursor /\ bucket > 1
    <3>1. cursor = 1 \/ layers[cursor] <= UsedBefore
      BY <1>1, <2>2 DEF SortedInv, CursorOK
    <3>2. UsedBefore \in Nat /\ UsedBefore <= used
      <4>1. bucket - 1 \in DOMAIN timeline /\ bucket \in DOMAIN timeline /\ bucket - 1 < bucket
        BY <1>1, <2>2
      <4>2. timeline[bucket - 1].usedFilament <= timeline[bucket].usedFilament
        BY <4>1 DEF SortedInv, SortedInputs
      <4>3. timeline[bucket - 1].usedFilament \in Nat
        BY <1>1, <4>1, TimelineNumbers DEF InputsOK
      <4> QED BY <1>2, <4>2, <4>3 DEF UsedBefore
    <3>3. layers[cursor] \in Nat
      BY <1>1, <1>6
    <3> QED BY <2>2, <3>1, <3>2, <3>3
  <2>3. CASE next # cursor
    <3>1. next - 1 \in cursor .. Len(layers) /\ next - 1 # Len(layers) /\ next - 1 < next
      BY <1>1, <1>3, <2>3
    <3>2. ~(used < layers[(next - 1) + 1])
      <4> SUFFICES ASSUME used < layers[(next - 1) + 1] PROVE FALSE
        OBVIOUS
      <4>1. \A k \in cursor .. Len(layers) :
               (k = Len(layers) \/ used < layers[k + 1]) => next <= k
        BY <1>1, <1>3, NextIsALayer
      <4>2. next <= next - 1
        BY <3>1, <4>1
      <4> QED BY <1>1, <1>3, <4>2
    <3>3. (next - 1) + 1 = next /\ layers[next] \in Nat
      BY <1>1, <1>3, <1>6
    <3> QED BY <3>2, <3>3
  <2> QED BY <1>1, <2>1, <2>2, <2>3
<1>8. \A k \in DOMAIN layers : k > next => used < layers[k]
  <2> SUFFICES ASSUME NEW k \in DOMAIN layers, k > next PROVE used < layers[k]
    OBVIOUS
  <2>1. next # Len(layers) /\ next + 1 \in DOMAIN layers /\ next + 1 <= k /\ k \in Nat
    BY <1>1, <1>3
  <2>2. used < layers[next + 1]
    BY <1>1, <1>3, <2>1, NextIsALayer
  <2>3. layers[next + 1] <= layers[k]
    <3>1. CASE next + 1 = k
      BY <1>6, <3>1
    <3>2. CASE next + 1 # k
      BY <2>1, <3>2 DEF SortedInv, SortedInputs
    <3> QED BY <3>1, <3>2
  <2> QED BY <1>6, <2>1, <2>2, <2>3
<1> QED BY <1>1, <1>4, <1>5, <1>7, <1>8 DEF CursorOK

LEMMA SortedStep ==
    ASSUME PlannerInv, SortedInv, [PlannerNext]_plannerVars
    PROVE  SortedInv'
<1>1. SortedInputs'
  BY InputsAreKept DEF SortedInv, SortedInputs
<1>2. CASE CoolBucket
  BY <1>1, <1>2, CursorMoves DEF SortedInv
<1>3. CASE MapFlow
  <2>1. cursor' = 1 /\ bucket' = 1
    BY <1>3 DEF MapFlow, PlannerInv, StageOK
  <2> QED BY <1>1, <2>1 DEF SortedInv, CursorOK
<1>4. CASE RefusePlan \/ BlendFlow \/ SmoothFlow \/ Cooled \/ Planned
  <2>1. stage' # "cooling"
    BY <1>4 DEF RefusePlan, BlendFlow, SmoothFlow, Cooled, Planned
  <2> QED BY <1>1, <2>1 DEF SortedInv, CursorOK
<1>5. CASE SlewBucket
  <2>1. stage' # "cooling"
    BY <1>5 DEF SlewBucket
  <2> QED BY <1>1, <2>1 DEF SortedInv, CursorOK
<1>6. CASE UNCHANGED plannerVars
  BY <1>1, <1>6 DEF SortedInv, CursorOK, UsedBefore, plannerVars
<1> QED BY <1>2, <1>3, <1>4, <1>5, <1>6 DEF PlannerNext

LEMMA CursorIsCurrent == PlannerInv /\ SortedInv => CoolsTheLayerItIsIn
<1> SUFFICES ASSUME PlannerInv, SortedInv, stage = "cooling", bucket > 1
             PROVE  cursor = Max({1} \cup {k \in DOMAIN layers : layers[k] <= UsedBefore})
  BY DEF CoolsTheLayerItIsIn, UsedBefore
<1> DEFINE S == {1} \cup {k \in DOMAIN layers : layers[k] <= UsedBefore}
<1>1. /\ layers \in Seq(Nat) /\ Len(layers) \in Nat /\ DOMAIN layers = 1 .. Len(layers)
      /\ timeline \in Seq(FlowSecond) /\ timeline # <<>>
      /\ cursor \in Nat /\ cursor >= 1 /\ cursor <= Len(layers)
      /\ bucket \in Nat /\ bucket - 1 \in DOMAIN timeline
  BY DEF PlannerInv, PlannerTypeOK, StageOK, Started
<1>2. UsedBefore \in Nat
  BY <1>1, TimelineNumbers DEF InputsOK, UsedBefore
<1>3. /\ cursor = 1 \/ layers[cursor] <= UsedBefore
      /\ \A k \in DOMAIN layers : k > cursor => UsedBefore < layers[k]
  BY DEF SortedInv, CursorOK
<1>4. cursor \in S /\ S \in SUBSET Int
  BY <1>1, <1>3
<1>5. ASSUME NEW k \in S PROVE k <= cursor
  <2>1. CASE k = 1
    BY <1>1, <2>1
  <2>2. CASE k # 1
    <3>1. k \in DOMAIN layers /\ layers[k] <= UsedBefore /\ layers[k] \in Nat /\ k \in Nat
      BY <1>1, <2>2
    <3> QED BY <1>1, <1>2, <1>3, <3>1
  <2> QED BY <2>1, <2>2
<1> HIDE DEF S
<1>6. Max(S) = cursor
  BY <1>4, <1>5, MaxIs
<1> QED BY <1>6 DEF S

LEMMA DurationsTelescope == PlannerInv /\ SortedInv => LayerTimesAddUp
<1> SUFFICES ASSUME PlannerInv, SortedInv, stage = "cooling"
             PROVE  MapThenSumSet(LAMBDA k : durations[k], DOMAIN durations)
                      = timeline[Len(timeline)].time - TimeAtFilament(layers[1])
  BY Zenon DEF LayerTimesAddUp
<1>1. /\ layers \in Seq(Nat) /\ layers # <<>> /\ InputsOK /\ SortedInputs
      /\ durations = [k \in DOMAIN layers |-> LayerDuration(k)]
  BY DEF PlannerInv, PlannerTypeOK, StageOK, Started, InputsOK, SortedInv
<1>2. PICK n \in Nat : n = Len(layers)
  BY <1>1
<1>3. n > 0 /\ DOMAIN layers = 1 .. n /\ (\A k \in 1 .. n : layers[k] \in Nat)
  BY <1>1, <1>2
<1> DEFINE last == timeline[Len(timeline)].time
           at == [k \in 0 .. n |-> IF k < n THEN TimeAtFilament(layers[k + 1]) ELSE last]
<1>4. last \in Nat
  BY <1>1, TimelineNumbers
<1>5. \A k \in 1 .. n : TimeAtFilament(layers[k]) \in 0 .. last
  BY <1>1, <1>3, TimeInThePrint
<1>6. at \in [0 .. n -> Int]
  <2>1. \A k \in 0 .. n : k < n => k + 1 \in 1 .. n
    OBVIOUS
  <2> HIDE DEF last
  <2> QED BY <1>4, <1>5, <2>1
<1>7. at[0] = TimeAtFilament(layers[1]) /\ at[n] = last
  BY <1>3
<1>8. ASSUME NEW k \in 1 .. n PROVE LayerDuration(k) = at[k] - at[k - 1]
  <2>1. at[k - 1] = TimeAtFilament(layers[k])
    OBVIOUS
  <2>2. CASE k < n
    <3>1. k + 1 \in 1 .. n /\ k \in DOMAIN layers /\ k + 1 \in DOMAIN layers /\ k < k + 1
      BY <1>3, <2>2
    <3>2. layers[k] \in Nat /\ layers[k + 1] \in Nat /\ layers[k] <= layers[k + 1]
      BY <1>1, <1>3, <3>1 DEF SortedInputs
    <3>3. TimeAtFilament(layers[k]) <= TimeAtFilament(layers[k + 1])
      BY <1>1, <3>2, TimeMonotone
    <3>4. at[k] = TimeAtFilament(layers[k + 1])
      BY <2>2
    <3>5. TimeAtFilament(layers[k]) \in Int /\ TimeAtFilament(layers[k + 1]) \in Int
      BY <1>5, <3>1
    <3> HIDE DEF at, last
    <3> QED BY <1>2, <2>1, <2>2, <3>3, <3>4, <3>5 DEF LayerDuration, AtLeastZero
  <2>3. CASE ~(k < n)
    <3>1. k = n /\ at[k] = last
      BY <2>3
    <3>2. TimeAtFilament(layers[k]) \in 0 .. last
      BY <1>5
    <3>3. LayerDuration(k) = AtLeastZero(last - TimeAtFilament(layers[k]))
      BY <1>2, <2>3 DEF LayerDuration
    <3> HIDE DEF at, last
    <3> QED BY <1>4, <2>1, <3>1, <3>2, <3>3 DEF AtLeastZero
  <2> QED BY <2>2, <2>3
<1>9. durations \in [1 .. n -> Int] /\ \A k \in 1 .. n : durations[k] = at[k] - at[k - 1]
  <2>1. \A k \in 1 .. n : LayerDuration(k) \in Nat
    BY <1>1, <1>3, DurationIsNat
  <2> HIDE DEF at
  <2> QED BY <1>1, <1>3, <1>8, <2>1
<1>10. DOMAIN durations = 1 .. n
  BY <1>9
<1>11. SumOver(durations, 1 .. n) = at[n] - at[0]
  <2> HIDE DEF at
  <2>1. n \in Nat /\ 0 \in Nat /\ 0 <= n /\ (0 + 1) .. n = 1 .. n
    BY <1>3
  <2>2. at[0] \in Int /\ \A k \in (0 + 1) .. n :
            at[k] \in Int /\ durations[k] = at[k] - at[k - 1]
    BY <1>6, <1>9, <2>1
  <2>3. Telescopes(durations, at, 0, n)
    BY <2>1, <2>2, SumTelescopes
  <2> QED BY <2>1, <2>3 DEF Telescopes
<1>12. MapThenSumSet(LAMBDA k : durations[k], 1 .. n) = SumOver(durations, 1 .. n)
  BY Zenon DEF MapThenSumSet, MapThenFoldSet, SumOver, IsRun, One
<1> HIDE DEF at, last
<1>13. MapThenSumSet(LAMBDA k : durations[k], 1 .. n) = last - TimeAtFilament(layers[1])
  BY <1>7, <1>11, <1>12, Zenon
<1> QED BY <1>10, <1>13, Zenon DEF last

-----------------------------------------------------------------------------
(***************************************************************************)
(* There and back: from a flow to its temperature and from there to the     *)
(* budget at that temperature.                                              *)
(***************************************************************************)

\* x of n steps, rounded down to steps of a finer scale of d, and back.
Back(n, d, x) == (n * ((d * x) \div n)) \div d

LEMMA BackLosesOne ==
    ASSUME NEW n \in Nat, NEW d \in Nat, NEW x \in Nat, 0 < n, n <= d
    PROVE  Back(n, d, x) \in {x - 1, x}
<1> DEFINE q == (d * x) \div n
           r == (n * q) \div d
<1>1. d * x \in Int /\ q \in Int /\ n * q \in Int /\ r \in Int /\ d > 0
  <2>1. d * x \in Int /\ d > 0
    OBVIOUS
  <2>2. q \in Int
    BY <2>1, Floor
  <2> HIDE DEF q
  <2>3. n * q \in Int
    BY <2>2
  <2>4. r \in Int
    BY <2>1, <2>3, Floor
  <2> QED BY <2>1, <2>2, <2>3, <2>4
<1>2. n * q <= d * x /\ d * x < n * q + n
  BY <1>1, Floor
<1> HIDE DEF q
<1>3. d * r <= n * q /\ n * q < d * r + d
  BY <1>1, Floor
<1> HIDE DEF r
<1>4. d * r \in Int /\ d * (r + 1) = d * r + d /\ d * (x - 1) = d * x - d
  BY <1>1
<1>5. d * r <= d * x /\ d * (x - 1) < d * (r + 1)
  BY <1>1, <1>2, <1>3, <1>4
<1>6. ~(r >= x + 1)
  <2> SUFFICES ASSUME r >= x + 1 PROVE FALSE
    OBVIOUS
  <2>1. d * r >= d * (x + 1)
    BY <1>1
  <2>2. d * (x + 1) = d * x + d
    OBVIOUS
  <2> QED BY <1>1, <1>4, <1>5, <2>1, <2>2
<1>7. ~(r + 1 <= x - 1)
  <2> SUFFICES ASSUME r + 1 <= x - 1 PROVE FALSE
    OBVIOUS
  <2>1. d * (r + 1) <= d * (x - 1)
    BY <1>1
  <2>2. d * (r + 1) \in Int /\ d * (x - 1) \in Int
    BY <1>1
  <2> QED BY <1>5, <2>1, <2>2
<1>8. r = x - 1 \/ r = x
  BY <1>1, <1>6, <1>7
<1> QED BY <1>8 DEF Back, q, r

LEMMA BackAtTheEnds ==
    ASSUME NEW n \in Nat, NEW d \in Nat, 0 < n, 0 < d
    PROVE  (n * 0) \div d = 0 /\ (n * d) \div d = n
<1>1. n * 0 = 0 /\ 0 \div d = 0
  <2> DEFINE q == 0 \div d
  <2>1. q \in Int /\ d * q <= 0 /\ 0 < d * q + d
    BY Floor
  <2> HIDE DEF q
  <2>2. ~(q >= 1) /\ ~(q <= -1)
    <3>1. q >= 1 => d * q >= d * 1
      BY <2>1
    <3>2. q <= -1 => d * q <= d * (-1)
      BY <2>1
    <3>3. d * (-1) = -d /\ d * 1 = d
      OBVIOUS
    <3> QED BY <2>1, <3>1, <3>2, <3>3
  <2>3. q = 0
    BY <2>1, <2>2
  <2> QED BY <2>3 DEF q
<1>2. (n * d) \div d = n
  <2> DEFINE x == n * d
             q == x \div d
  <2>1. x \in Int
    OBVIOUS
  <2>2. q \in Int /\ d * q <= x /\ x < d * q + d
    BY <2>1, Floor
  <2>3. x = d * n
    OBVIOUS
  <2> HIDE DEF q, x
  <2>4. ~(q >= n + 1) /\ ~(q <= n - 1)
    <3>1. q >= n + 1 => d * q >= d * (n + 1)
      BY <2>2
    <3>2. q <= n - 1 => d * q <= d * (n - 1)
      BY <2>2
    <3>3. d * (n + 1) = d * n + d /\ d * (n - 1) = d * n - d
      OBVIOUS
    <3>4. d * q \in Int /\ d * n \in Int
      BY <2>2
    <3> QED BY <2>2, <2>3, <3>1, <3>2, <3>3, <3>4
  <2>5. q = n
    BY <2>2, <2>4
  <2> QED BY <2>5 DEF q, x
<1> QED BY <1>1, <1>2

\* One segment: the temperature of a flow in it, and the flow of that temperature.
LEMMA SegmentBack ==
    ASSUME NEW lowF \in Int, NEW highF \in Int, lowF < highF,
           NEW lowT \in Int, NEW highT \in Int, highF - lowF <= highT - lowT,
           NEW w \in Int, lowF <= w, w <= highF,
           NEW t, t = Lerp(lowT, highT, w, lowF, highF)
    PROVE  /\ t \in Int /\ lowT <= t /\ t <= highT
           /\ Lerp(lowF, highF, t, lowT, highT) \in {w - 1, w}
           /\ t = lowT => Lerp(lowF, highF, t, lowT, highT) = lowF
           /\ t = highT => Lerp(lowF, highF, t, lowT, highT) = highF
<1> DEFINE n == highF - lowF
           d == highT - lowT
           x == w - lowF
           q == (d * x) \div n
<1>1. n \in Nat /\ d \in Nat /\ x \in Nat /\ 0 < n /\ n <= d /\ 0 < d /\ lowT < highT
  OBVIOUS
<1>2. t \in Int /\ lowT <= t /\ t <= highT
  <2>1. lowT <= highT
    BY <1>1
  <2> HIDE DEF n, d, x, q
  <2> QED BY <2>1, LerpBetween
<1>3. t = lowT + q /\ q \in Int
  <2>1. t = lowT + q
    BY DEF Lerp
  <2>2. d * x \in Int
    BY <1>1
  <2>3. q \in Int
    <3> DEFINE y == d * x
    <3> HIDE DEF y, n
    <3>1. y \div n \in Int
      BY <1>1, <2>2, Floor DEF y
    <3> QED BY <3>1 DEF y
  <2> QED BY <2>1, <2>3
<1>4. Lerp(lowF, highF, t, lowT, highT) = lowF + (n * (t - lowT)) \div d
  BY DEF Lerp
<1>5. t - lowT = q
  <2> HIDE DEF q
  <2> QED BY <1>3
<1>6. Lerp(lowF, highF, t, lowT, highT) = lowF + Back(n, d, x)
  <2>1. Back(n, d, x) = (n * q) \div d
    BY DEF Back
  <2> QED BY <1>4, <1>5, <2>1
<1>7. Back(n, d, x) \in {x - 1, x}
  <2> HIDE DEF n, d, x, q
  <2> QED BY <1>1, BackLosesOne
<1>8. lowF + Back(n, d, x) \in {w - 1, w}
  BY <1>7
<1>9. t = lowT => Lerp(lowF, highF, t, lowT, highT) = lowF
  <2> SUFFICES ASSUME t = lowT PROVE Lerp(lowF, highF, t, lowT, highT) = lowF
    OBVIOUS
  <2>1. t - lowT = 0
    OBVIOUS
  <2>2. (n * 0) \div d = 0
    <3> HIDE DEF n, d
    <3> QED BY <1>1, BackAtTheEnds
  <2> HIDE DEF n, d
  <2> QED BY <1>4, <2>1, <2>2
<1>10. t = highT => Lerp(lowF, highF, t, lowT, highT) = highF
  <2> SUFFICES ASSUME t = highT PROVE Lerp(lowF, highF, t, lowT, highT) = highF
    OBVIOUS
  <2>1. t - lowT = d /\ lowF + n = highF
    OBVIOUS
  <2>2. (n * d) \div d = n
    <3> HIDE DEF n, d
    <3> QED BY <1>1, BackAtTheEnds
  <2> HIDE DEF n, d
  <2> QED BY <1>4, <2>1, <2>2
<1> HIDE DEF n, d, x, q
<1> QED BY <1>2, <1>6, <1>8, <1>9, <1>10

Fine(f) ==
    /\ f.midFlow - f.lowFlow <= f.midTemp - f.lowTemp
    /\ f.highFlow - f.midFlow <= f.highTemp - f.midTemp

LEMMA BudgetIsNear ==
    ASSUME filament \in FilamentProfile, ValidFilament(filament), Fine(filament),
           NEW w \in filament.lowFlow .. filament.highFlow
    PROVE  Budget(w) \in {w - 1, w}
<1> DEFINE f == filament
           t == FlowToTemperature(f, w)
<1>1. /\ f.lowFlow \in Int /\ f.midFlow \in Int /\ f.highFlow \in Int
      /\ f.lowTemp \in Int /\ f.midTemp \in Int /\ f.highTemp \in Int
      /\ f.lowFlow < f.midFlow /\ f.midFlow < f.highFlow
      /\ f.midFlow - f.lowFlow <= f.midTemp - f.lowTemp
      /\ f.highFlow - f.midFlow <= f.highTemp - f.midTemp
      /\ f.lowTemp < f.midTemp /\ f.midTemp < f.highTemp
  BY DEF FilamentProfile, ValidFilament, Fine
<1>2. w \in Int /\ f.lowFlow <= w /\ w <= f.highFlow
  BY <1>1
<1>3. Budget(w) = AtTemperature(f, t, f.lowFlow, f.midFlow, f.highFlow)
  BY DEF Budget, TemperatureToFlow
<1>4. CASE w <= f.lowFlow
  <2>1. t = f.lowTemp /\ w = f.lowFlow
    BY <1>1, <1>2, <1>4 DEF FlowToTemperature
  <2> HIDE DEF t
  <2> QED BY <1>1, <1>3, <2>1 DEF AtTemperature
<1>5. CASE ~(w <= f.lowFlow) /\ w >= f.highFlow
  <2>1. t = f.highTemp /\ w = f.highFlow
    BY <1>1, <1>2, <1>5 DEF FlowToTemperature
  <2> HIDE DEF t
  <2> QED BY <1>1, <1>3, <2>1 DEF AtTemperature
<1>6. CASE ~(w <= f.lowFlow) /\ ~(w >= f.highFlow) /\ w <= f.midFlow
  <2> DEFINE b == Lerp(f.lowFlow, f.midFlow, t, f.lowTemp, f.midTemp)
  <2>1. t = Lerp(f.lowTemp, f.midTemp, w, f.lowFlow, f.midFlow)
    BY <1>6 DEF FlowToTemperature
  <2> HIDE DEF t
  <2>2. /\ t \in Int /\ f.lowTemp <= t /\ t <= f.midTemp
        /\ b \in {w - 1, w}
        /\ t = f.lowTemp => b = f.lowFlow
    <3> DEFINE lowF == f.lowFlow
               highF == f.midFlow
               lowT == f.lowTemp
               highT == f.midTemp
    <3>1. /\ lowF \in Int /\ highF \in Int /\ lowF < highF
          /\ lowT \in Int /\ highT \in Int /\ highF - lowF <= highT - lowT
          /\ w \in Int /\ lowF <= w /\ w <= highF
          /\ t = Lerp(lowT, highT, w, lowF, highF)
      BY <1>1, <1>2, <1>6, <2>1
    <3>2. b = Lerp(lowF, highF, t, lowT, highT)
      OBVIOUS
    <3> HIDE DEF lowF, highF, lowT, highT, b
    <3>3. /\ t \in Int /\ lowT <= t /\ t <= highT
          /\ Lerp(lowF, highF, t, lowT, highT) \in {w - 1, w}
          /\ t = lowT => Lerp(lowF, highF, t, lowT, highT) = lowF
          /\ t = highT => Lerp(lowF, highF, t, lowT, highT) = highF
      BY <3>1, SegmentBack
    <3> QED BY <3>2, <3>3 DEF lowF, highF, lowT, highT
  <2>3. Budget(w) = IF t <= f.lowTemp THEN f.lowFlow ELSE b
    BY <1>1, <1>3, <2>2 DEF AtTemperature
  <2>4. t <= f.lowTemp => t = f.lowTemp
    BY <1>1, <2>2
  <2> HIDE DEF b
  <2> QED BY <2>2, <2>3, <2>4
<1>7. CASE ~(w <= f.lowFlow) /\ ~(w >= f.highFlow) /\ ~(w <= f.midFlow)
  <2> DEFINE b == Lerp(f.midFlow, f.highFlow, t, f.midTemp, f.highTemp)
  <2>1. t = Lerp(f.midTemp, f.highTemp, w, f.midFlow, f.highFlow)
    BY <1>7 DEF FlowToTemperature
  <2> HIDE DEF t
  <2>2. /\ t \in Int /\ f.midTemp <= t /\ t <= f.highTemp
        /\ b \in {w - 1, w}
        /\ t = f.midTemp => b = f.midFlow
        /\ t = f.highTemp => b = f.highFlow
    <3> DEFINE lowF == f.midFlow
               highF == f.highFlow
               lowT == f.midTemp
               highT == f.highTemp
    <3>1. /\ lowF \in Int /\ highF \in Int /\ lowF < highF
          /\ lowT \in Int /\ highT \in Int /\ highF - lowF <= highT - lowT
          /\ w \in Int /\ lowF <= w /\ w <= highF
          /\ t = Lerp(lowT, highT, w, lowF, highF)
      BY <1>1, <1>2, <1>7, <2>1
    <3>2. b = Lerp(lowF, highF, t, lowT, highT)
      OBVIOUS
    <3> HIDE DEF lowF, highF, lowT, highT, b
    <3>3. /\ t \in Int /\ lowT <= t /\ t <= highT
          /\ Lerp(lowF, highF, t, lowT, highT) \in {w - 1, w}
          /\ t = lowT => Lerp(lowF, highF, t, lowT, highT) = lowF
          /\ t = highT => Lerp(lowF, highF, t, lowT, highT) = highF
      BY <3>1, SegmentBack
    <3> QED BY <3>2, <3>3 DEF lowF, highF, lowT, highT
  <2>3. CASE t >= f.highTemp
    <3>1. t = f.highTemp /\ ~(t <= f.lowTemp)
      BY <1>1, <2>2, <2>3
    <3>2. Budget(w) = f.highFlow
      BY <1>3, <2>3, <3>1 DEF AtTemperature
    <3> HIDE DEF b
    <3> QED BY <2>2, <3>1, <3>2
  <2>4. CASE t <= f.midTemp
    <3> DEFINE c == Lerp(f.lowFlow, f.midFlow, t, f.lowTemp, f.midTemp)
    <3>1. t = f.midTemp /\ ~(t <= f.lowTemp) /\ ~(t >= f.highTemp)
      BY <1>1, <2>2, <2>4
    <3>2. Budget(w) = c
      BY <1>3, <2>4, <3>1 DEF AtTemperature
    <3>3. c = f.midFlow
      <4> DEFINE n == f.midFlow - f.lowFlow
                 d == f.midTemp - f.lowTemp
      <4>1. c = f.lowFlow + (n * d) \div d
        BY <3>1 DEF Lerp
      <4>2. n \in Nat /\ d \in Nat /\ 0 < n /\ 0 < d /\ f.lowFlow + n = f.midFlow
        BY <1>1
      <4> HIDE DEF n, d, c
      <4>3. (n * d) \div d = n
        BY <4>2, BackAtTheEnds
      <4> QED BY <4>1, <4>2, <4>3
    <3> HIDE DEF b, c
    <3> QED BY <2>2, <3>1, <3>2, <3>3
  <2>5. CASE ~(t >= f.highTemp) /\ ~(t <= f.midTemp)
    <3>1. ~(t <= f.lowTemp)
      BY <1>1, <2>2, <2>5
    <3>2. Budget(w) = b
      BY <1>3, <2>5, <3>1 DEF AtTemperature
    <3> HIDE DEF b
    <3> QED BY <2>2, <3>2
  <2> QED BY <2>3, <2>4, <2>5
<1> QED BY <1>4, <1>5, <1>6, <1>7

LEMMA BudgetRecovers == PlannerInv /\ filament \in Filaments => BudgetRecoversFlow
<1> SUFFICES ASSUME PlannerInv, filament \in Filaments, ValidFilament(filament),
                    filament.lowTemp < filament.midTemp, filament.midTemp < filament.highTemp
             PROVE  \A w \in filament.lowFlow .. filament.highFlow : Budget(w) \in {w - 1, w}
  BY DEF BudgetRecoversFlow
<1>1. filament \in FilamentProfile
  BY DEF PlannerInv, PlannerTypeOK
<1>2. Fine(filament)
  BY UnitsOfACurve DEF Fine
<1> QED BY <1>1, <1>2, BudgetIsNear

-----------------------------------------------------------------------------
(***************************************************************************)
(* The plans, of the analysis' timeline and of a caller's.                  *)
(***************************************************************************)

PlanInv == PlannerInv /\ SortedInv /\ filament \in Filaments

LEMMA PlanInit == PipelineInit => PlanInv
<1> SUFFICES ASSUME PipelineInit PROVE PlanInv
  OBVIOUS
<1>1. extruder \in Extruders /\ filament \in Filaments /\ (At("called") \/ At("awaited"))
  BY DEF PipelineInit, PlanAwaited, PlannerInit
<1>2. \/ timeline = <<>> /\ layers = <<>>
      \/ timeline \in Timelines /\ layers \in LayerLists
  BY DEF PipelineInit, PlanAwaited, PlannerInit
<1>3. /\ timeline \in Seq(FlowSecond) /\ layers \in Seq(Nat)
      /\ extruder \in ExtruderProfile /\ filament \in FilamentProfile
  <2>1. extruder \in ExtruderProfile /\ filament \in FilamentProfile
    BY <1>1, PlannerAssumption
  <2>2. CASE timeline = <<>> /\ layers = <<>>
    BY <2>1, <2>2
  <2>3. CASE timeline \in Timelines /\ layers \in LayerLists
    BY <2>1, <2>3, PlannerAssumption
  <2> QED BY <1>2, <2>2, <2>3
<1>4. PlannerInv
  BY <1>1, <1>3, NothingPlanned
<1>5. SortedInputs
  BY <1>2, OrderOfThePrint DEF SortedInputs
<1>6. CursorOK
  BY <1>1 DEF At, CursorOK
<1> QED BY <1>1, <1>4, <1>5, <1>6 DEF PlanInv, SortedInv

\* What the analysis hands over is a timeline as the planner expects it.
LEMMA PlanStepKeeps ==
    ASSUME PlanInv, [PipelineNext]_pipelineVars, TimelineTypeOK, TimelineSorted
    PROVE  PlanInv'
<1>1. CASE PlanStep \/ UNCHANGED pipelineVars \/ Analyse
  <2>1. [PlannerNext]_plannerVars
    BY <1>1 DEF PlanStep, Analyse, pipelineVars
  <2> QED BY <2>1, PlannerStep, SortedStep, InputsAreKept DEF PlanInv
<1>2. CASE HandOver
  <2>1. /\ stage = "awaited" /\ stage' = "called"
        /\ timeline' = seconds /\ layers' \in LayerLists
        /\ UNCHANGED <<extruder, filament, flow, desired, durations, cursor, bucket,
                       achievable>>
    BY <1>2 DEF HandOver
  <2>2. /\ flow' = <<>> /\ desired' = <<>> /\ durations' = <<>> /\ achievable' = <<>>
        /\ bucket' = 1 /\ cursor' = 1
    BY <2>1 DEF PlanInv, PlannerInv, StageOK, Started
  <2>3. At("called")'
    BY <2>1, <2>2 DEF At
  <2>4. /\ timeline' \in Seq(FlowSecond) /\ layers' \in Seq(Nat)
        /\ extruder' \in ExtruderProfile /\ filament' \in FilamentProfile
    BY <2>1, PlannerAssumption DEF TimelineTypeOK, PlanInv, PlannerInv, PlannerTypeOK
  <2>5. PlannerInv'
    BY <2>1, <2>2, <2>4 DEF PlannerInv, PlannerTypeOK, StageOK, Started, CurveIsSlewed,
       CurveIsCovered
  <2>6. SortedInputs'
    BY <2>1, OrderOfThePrint DEF SortedInputs, TimelineSorted
  <2>7. CursorOK'
    BY <2>1 DEF CursorOK
  <2> QED BY <2>1, <2>5, <2>6, <2>7 DEF PlanInv, SortedInv
<1> QED BY <1>1, <1>2 DEF PipelineNext

LEMMA PlanHolds == PipelineSpec => []PlanInv
<1>1. PlanInv /\ TimelineTypeOK /\ TimelineSorted /\ [PipelineNext]_pipelineVars => PlanInv'
  BY PlanStepKeeps
<1> QED
  BY <1>1, PlanInit, PipelineImplementsTimeline, AnalysisIsSorted, Shape, PTL DEF PipelineSpec

\* Every value of the pipeline has its type, and all of a plan's vectors are as
\* long as the timeline it was made of.
THEOREM PipelineIsTyped == PipelineSpec => []PipelineTypeOK
<1>1. PlanInv /\ TimelineTypeOK => PipelineTypeOK
  BY DEF PlanInv, PlannerInv, PipelineTypeOK
<1> QED
  BY <1>1, PlanHolds, PipelineImplementsTimeline, Shape, PTL

\* No smoothing, cooling or slewing leaves the calibrated band.
THEOREM PlanStaysInBand == PipelineSpec => []CurveInBand
<1>1. PlanInv => CurveInBand
  BY SlewedIsRespected DEF PlanInv
<1> QED BY <1>1, PlanHolds, PTL

\* No bucket asks the hotend for more than its rates, or passes what was wanted.
THEOREM PlanIsSlewable == PipelineSpec => []SlewRespected
<1>1. PlanInv => SlewRespected
  BY SlewedIsRespected DEF PlanInv
<1> QED BY <1>1, PlanHolds, PTL

\* However many layers begin in one bucket, it is cooled for its last.
THEOREM CursorNeverLags == PipelineSpec => []CoolsTheLayerItIsIn
<1>1. PlanInv => CoolsTheLayerItIsIn
  BY CursorIsCurrent DEF PlanInv
<1> QED BY <1>1, PlanHolds, PTL

\* The durations of the layers add up to the print.
THEOREM LayersShareThePrint == PipelineSpec => []LayerTimesAddUp
<1>1. PlanInv => LayerTimesAddUp
  BY DurationsTelescope DEF PlanInv
<1> QED BY <1>1, PlanHolds, PTL

\* The two maps of a calibration are each other's inverse, but for one unit.
THEOREM BudgetIsTheFlow == PipelineSpec => []BudgetRecoversFlow
<1>1. PlanInv => BudgetRecoversFlow
  BY BudgetRecovers DEF PlanInv
<1> QED BY <1>1, PlanHolds, PTL

\* The averages account for the filament also of a timeline that was parsed.
COROLLARY AnalysisAccounts == PipelineSpec => []AveragesAccountForFilament
  BY PipelineImplementsTimeline, TimelineAccounts, PTL

-----------------------------------------------------------------------------
(***************************************************************************)
(* The parser of the dump.  It remembers one flow and one flag; they are    *)
(* what the whole of the dump before says of the next Time line.            *)
(***************************************************************************)

SignedBefore(n) == {j \in 1 .. (n - 1) : dump[j].is = "some"}
FlowsBefore(n) == {m \in 1 .. (n - 1) : IsFlow(dump[m])}
PairsBefore(n) == {m \in 1 .. (n - 1) : IsFlow(dump[m]) \/ dump[m].is = "time"}
TimesUpTo(n) == {t \in 1 .. n : dump[t].is = "time"}

\* The last signed flow before a line is a retraction.
Retracting(n) == SignedBefore(n) # {} /\ dump[Max(SignedBefore(n))].value < 0

\* The flow a Time line's move has.
FlowAt(n) ==
    IF PairedFlow(n) # None /\ CountsAsExtrusion(Max(FlowsBefore(n)))
    THEN PairedFlow(n).value ELSE 0

DumpTyped ==
    /\ dump \in Seq(DumpLines)
    /\ moves \in Seq([duration : Nat, flow : Int])
    /\ pendingFlow \in Int

MovesOfTheDump ==
    /\ Len(moves) = Cardinality(TimesUpTo(Len(dump)))
    /\ \A n \in TimesUpTo(Len(dump)) :
           /\ moves[Cardinality(TimesUpTo(n))].duration = dump[n].value
           /\ moves[Cardinality(TimesUpTo(n))].flow = FlowAt(n)

DumpInv ==
    /\ DumpTyped
    /\ retracted <=> Retracting(Len(dump) + 1)
    /\ SampleFlow = FlowAt(Len(dump) + 1)
    /\ MovesOfTheDump

LEMMA LinesOfADump ==
    ASSUME NEW line \in DumpLines
    PROVE  /\ line.value \in Int
           /\ line.is = "time" => line.value \in Nat
           /\ line.is = "none" => line = None
           /\ line.is # "some" /\ IsFlow(line) => line.value = 0
           /\ line.is = "some" => line.value \in Flows
           /\ line # None <=> line.is # "none"
BY DumpAssumption DEF DumpAssumption, DumpLines, Some, None, BadFlow, Time, BadTime, Comment,
   Junk, IsFlow

\* A line read stands behind those read before.
LEMMA OneLineRead ==
    ASSUME DumpTyped, NEW line \in DumpLines, dump' = Append(dump, line)
    PROVE  /\ dump' \in Seq(DumpLines) /\ Len(dump) \in Nat /\ Len(dump') = Len(dump) + 1
           /\ dump'[Len(dump) + 1] = line
           /\ \A m \in 1 .. Len(dump) : dump'[m] = dump[m]
           /\ \A m \in 1 .. Len(dump) : dump[m] \in DumpLines
<1>1. dump \in Seq(DumpLines) /\ Len(dump) \in Nat
  BY LenProperties DEF DumpTyped
<1>2. \A m \in 1 .. Len(dump) : dump[m] \in DumpLines
  BY <1>1, ElementOfSeq
<1> QED BY <1>1, <1>2, AppendProperties

LEMMA LastOf ==
    ASSUME NEW n \in Nat, NEW S \in SUBSET (1 .. n), S # {}
    PROVE  Max(S) \in 1 .. n /\ Max(S) \in S /\ \A y \in S : y <= Max(S)
<1>1. S \in SUBSET (0 .. n)
  OBVIOUS
<1> QED BY <1>1, MaxNat

LEMMA LastIs ==
    ASSUME NEW n \in Nat, NEW S \in SUBSET (1 .. n), n \in S
    PROVE  Max(S) = n
<1>1. S \in SUBSET Int /\ \A y \in S : y <= n
  OBVIOUS
<1> QED BY <1>1, MaxIs

\* What is said of a line is said of the lines before it.
LEMMA TheRestIsKept ==
    ASSUME DumpTyped, NEW line \in DumpLines, dump' = Append(dump, line),
           NEW n \in 1 .. (Len(dump) + 1)
    PROVE  /\ Retracting(n)' <=> Retracting(n)
           /\ FlowAt(n)' = FlowAt(n)
           /\ n <= Len(dump) => TimesUpTo(n)' = TimesUpTo(n)
<1> DEFINE len == Len(dump)
<1>1. /\ len \in Nat /\ n \in Nat /\ n - 1 \in Nat /\ n - 1 <= len
      /\ \A m \in 1 .. len : dump'[m] = dump[m]
  BY OneLineRead
<1> HIDE DEF len
<1>2. \A m \in 1 .. (n - 1) : m \in 1 .. len /\ dump'[m] = dump[m]
  BY <1>1
<1>3. ASSUME NEW k \in 1 .. (len + 1)
      PROVE  SignedBefore(k)' = SignedBefore(k) /\ (Retracting(k)' <=> Retracting(k))
  <2> DEFINE S == SignedBefore(k)
             last == Max(S)
  <2>0. k \in Nat /\ k - 1 \in Nat /\ k - 1 <= len
    BY <1>1
  <2>1. \A m \in 1 .. (k - 1) : m \in 1 .. len /\ dump'[m] = dump[m]
    <3> SUFFICES ASSUME NEW m \in 1 .. (k - 1)
                 PROVE  m \in 1 .. len /\ dump'[m] = dump[m]
      OBVIOUS
    <3>1. m \in 1 .. len
      BY <1>1, <2>0
    <3> QED BY <1>1, <3>1
  <2>2. SignedBefore(k)' = S /\ S \in SUBSET (1 .. (k - 1)) /\ k - 1 \in Nat
    BY <2>0, <2>1 DEF SignedBefore
  <2> HIDE DEF S
  <2>3. S # {} => last \in 1 .. (k - 1)
    BY <2>2, LastOf
  <2> HIDE DEF last
  <2>4. S # {} => dump'[last] = dump[last]
    BY <2>1, <2>3
  <2>5. Retracting(k) <=> S # {} /\ dump[last].value < 0
    BY DEF Retracting, S, last
  <2>6. Retracting(k)' <=> S # {} /\ dump'[last].value < 0
    BY <2>2 DEF Retracting, last
  <2>7. Retracting(k)' <=> Retracting(k)
    BY <2>4, <2>5, <2>6
  <2> QED BY <2>2, <2>7 DEF S
<1>4. ASSUME NEW m \in 1 .. len
      PROVE  CountsAsExtrusion(m)' <=> CountsAsExtrusion(m)
  <2> DEFINE S == SignedBefore(m)
             last == Max(S)
  <2>0. m \in Nat /\ m - 1 \in Nat /\ m \in 1 .. (len + 1)
    BY <1>1
  <2>1. m \in 1 .. (len + 1) /\ dump'[m] = dump[m] /\ m - 1 \in Nat
    BY <1>1, <2>0
  <2>2. SignedBefore(m)' = S /\ S \in SUBSET (1 .. (m - 1))
    BY <1>3, <2>1 DEF SignedBefore
  <2>3. /\ CountsAsExtrusion(m) <=> dump[m].value > 0 /\ (S # {} => dump[last].value >= 0)
        /\ CountsAsExtrusion(m)'
               <=> dump'[m].value > 0 /\ (S # {} => dump'[last].value >= 0)
    <3>1. CountsAsExtrusion(m) <=> dump[m].value > 0 /\ (S # {} => dump[last].value >= 0)
      BY DEF CountsAsExtrusion, SignedBefore
    <3>2. SignedBefore(m)' = {j \in 1 .. (m - 1) : dump'[j].is = "some"}
      BY DEF SignedBefore
    <3> HIDE DEF S
    <3>3. CountsAsExtrusion(m)'
              <=> dump'[m].value > 0 /\ (S # {} => dump'[last].value >= 0)
      BY <2>2, <3>2 DEF CountsAsExtrusion
    <3> QED BY <3>1, <3>3
  <2> HIDE DEF S
  <2>4. S # {} => last \in 1 .. (m - 1)
    BY <2>1, <2>2, LastOf
  <2> HIDE DEF last
  <2>5. S # {} => dump'[last] = dump[last]
    <3> SUFFICES ASSUME last \in 1 .. (m - 1) PROVE dump'[last] = dump[last]
      BY <2>4
    <3>1. last \in 1 .. len
      BY <1>1, <2>0
    <3> QED BY <1>1, <3>1
  <2> QED BY <2>1, <2>3, <2>5
<1>5. FlowsBefore(n)' = FlowsBefore(n) /\ FlowsBefore(n) \in SUBSET (1 .. (n - 1))
  BY <1>2 DEF FlowsBefore
<1>6. PairedFlow(n)' = PairedFlow(n)
  <2> DEFINE S == PairsBefore(n)
             last == Max(S)
  <2>1. PairsBefore(n)' = S /\ S \in SUBSET (1 .. (n - 1))
    BY <1>2 DEF PairsBefore
  <2>2. PairedFlow(n) = IF S = {} THEN None
                        ELSE IF IsFlow(dump[last]) THEN dump[last] ELSE None
    BY DEF PairedFlow, PairsBefore
  <2>3. PairedFlow(n)' = IF S = {} THEN None
                         ELSE IF IsFlow(dump'[last]) THEN dump'[last] ELSE None
    <3>1. PairsBefore(n)' = {m \in 1 .. (n - 1) : IsFlow(dump'[m]) \/ dump'[m].is = "time"}
      BY DEF PairsBefore
    <3> HIDE DEF S
    <3> QED BY <2>1, <3>1 DEF PairedFlow
  <2> HIDE DEF S
  <2>4. S # {} => last \in 1 .. (n - 1)
    BY <1>1, <2>1, LastOf
  <2> HIDE DEF last
  <2>5. S # {} => dump'[last] = dump[last]
    BY <1>2, <2>4
  <2> QED BY <2>2, <2>3, <2>5
<1>7. FlowAt(n)' = FlowAt(n)
  <2>1. CASE PairedFlow(n) = None
    BY <1>6, <2>1 DEF FlowAt
  <2>2. CASE PairedFlow(n) # None
    <3>1. FlowsBefore(n) # {}
      <4> DEFINE T == PairsBefore(n)
                 end == Max(T)
      <4>1. T # {} /\ IsFlow(dump[end])
        BY <2>2 DEF PairedFlow, PairsBefore
      <4>2. T \in SUBSET (1 .. (n - 1))
        BY DEF PairsBefore
      <4> HIDE DEF T
      <4>3. end \in 1 .. (n - 1)
        BY <1>1, <4>1, <4>2, LastOf
      <4> HIDE DEF end
      <4> QED BY <4>1, <4>3 DEF FlowsBefore
    <3>2. PICK x \in 1 .. len : x = Max(FlowsBefore(n))
      <4>1. Max(FlowsBefore(n)) \in 1 .. (n - 1)
        BY <1>1, <1>5, <3>1, LastOf
      <4>2. Max(FlowsBefore(n)) \in 1 .. len
        BY <1>1, <4>1
      <4> QED BY <4>2
    <3>3. Max(FlowsBefore(n))' = x
      BY <1>5, <3>2
    <3>4. FlowAt(n) = IF CountsAsExtrusion(x) THEN PairedFlow(n).value ELSE 0
      BY <2>2, <3>2 DEF FlowAt
    <3>5. FlowAt(n)' = IF CountsAsExtrusion(x)' THEN PairedFlow(n)'.value ELSE 0
      BY <1>6, <2>2, <3>3 DEF FlowAt
    <3>6. CountsAsExtrusion(x)' <=> CountsAsExtrusion(x)
      BY <1>4
    <3> QED BY <1>6, <3>4, <3>5, <3>6
  <2> QED BY <2>1, <2>2
<1>8. n <= len => TimesUpTo(n)' = TimesUpTo(n)
  BY <1>1 DEF TimesUpTo
<1> QED BY <1>1, <1>3, <1>7, <1>8 DEF len

\* What a line does to what the dump says of the next one.
LEMMA WhatALineAdds ==
    ASSUME DumpTyped, NEW line \in DumpLines, dump' = Append(dump, line),
           NEW n \in Nat, n = Len(dump) + 1
    PROVE  /\ Retracting(n + 1)'
                  <=> IF line.is = "some" THEN line.value < 0 ELSE Retracting(n)
           /\ FlowAt(n + 1)' =
                  IF IsFlow(line)
                  THEN IF line.is = "some" /\ line.value > 0 /\ ~Retracting(n)
                       THEN line.value ELSE 0
                  ELSE IF line.is = "time" THEN 0 ELSE FlowAt(n)
           /\ TimesUpTo(n)' = IF line.is = "time" THEN TimesUpTo(n - 1) \cup {n}
                              ELSE TimesUpTo(n - 1)
<1>1. /\ n \in Nat /\ n - 1 \in Nat /\ n \in 1 .. (Len(dump) + 1) /\ (n + 1) - 1 = n
      /\ dump'[n] = line /\ \A m \in 1 .. (n - 1) : dump'[m] = dump[m]
  BY OneLineRead
<1>2. \A m \in 1 .. n : m \in 1 .. (n - 1) \/ m = n
  BY <1>1
<1>3. n \in 1 .. n /\ n \notin 1 .. (n - 1) /\ \A m \in 1 .. (n - 1) : m \in 1 .. n
  BY <1>1
<1>4. (Retracting(n)' <=> Retracting(n)) /\ FlowAt(n)' = FlowAt(n)
  BY <1>1, TheRestIsKept
<1>5. /\ SignedBefore(n + 1)' = {j \in 1 .. n : dump'[j].is = "some"}
      /\ FlowsBefore(n + 1)' = {j \in 1 .. n : IsFlow(dump'[j])}
      /\ PairsBefore(n + 1)' = {j \in 1 .. n : IsFlow(dump'[j]) \/ dump'[j].is = "time"}
  BY <1>1 DEF SignedBefore, FlowsBefore, PairsBefore
<1>6. /\ SignedBefore(n)' = {j \in 1 .. (n - 1) : dump'[j].is = "some"}
      /\ FlowsBefore(n)' = {j \in 1 .. (n - 1) : IsFlow(dump'[j])}
      /\ PairsBefore(n)' = {j \in 1 .. (n - 1) : IsFlow(dump'[j]) \/ dump'[j].is = "time"}
  BY DEF SignedBefore, FlowsBefore, PairsBefore
<1>7. Retracting(n + 1)' <=> IF line.is = "some" THEN line.value < 0 ELSE Retracting(n)
  <2>1. CASE line.is = "some"
    <3>1. n \in SignedBefore(n + 1)' /\ SignedBefore(n + 1)' \in SUBSET (1 .. n)
      BY <1>1, <1>3, <1>5, <2>1
    <3>2. Max(SignedBefore(n + 1)') = n
      BY <1>1, <3>1, LastIs
    <3> QED BY <1>1, <2>1, <3>1, <3>2 DEF Retracting
  <2>2. CASE line.is # "some"
    <3>1. SignedBefore(n + 1)' = SignedBefore(n)'
      <4> DEFINE all == 1 .. n
                 D == 1 .. (n - 1)
      <4>1. all = D \cup {n} /\ dump'[n].is # "some"
        BY <1>1, <1>2, <1>3, <2>2
      <4>2. /\ SignedBefore(n + 1)' = {j \in all : dump'[j].is = "some"}
            /\ SignedBefore(n)' = {j \in D : dump'[j].is = "some"}
        BY <1>5, <1>6
      <4> HIDE DEF all, D
      <4> QED BY <4>1, <4>2
    <3>2. Retracting(n + 1)' <=> Retracting(n)'
      BY <3>1 DEF Retracting
    <3> QED BY <1>4, <2>2, <3>2
  <2> QED BY <2>1, <2>2
<1>8. PairedFlow(n + 1)' = IF PairsBefore(n + 1)' = {} THEN None
                           ELSE IF IsFlow(dump'[Max(PairsBefore(n + 1)')])
                                THEN dump'[Max(PairsBefore(n + 1)')] ELSE None
  BY <1>1, <1>5 DEF PairedFlow
<1>9. FlowAt(n + 1)' = IF IsFlow(line)
                       THEN IF line.is = "some" /\ line.value > 0 /\ ~Retracting(n)
                            THEN line.value ELSE 0
                       ELSE IF line.is = "time" THEN 0 ELSE FlowAt(n)
  <2>1. CASE IsFlow(line)
    <3>1. /\ n \in PairsBefore(n + 1)' /\ PairsBefore(n + 1)' \in SUBSET (1 .. n)
          /\ n \in FlowsBefore(n + 1)' /\ FlowsBefore(n + 1)' \in SUBSET (1 .. n)
      BY <1>1, <1>3, <1>5, <2>1
    <3>2. Max(PairsBefore(n + 1)') = n /\ Max(FlowsBefore(n + 1)') = n
      BY <1>1, <3>1, LastIs
    <3>3. PairedFlow(n + 1)' = line
      BY <1>1, <1>8, <2>1, <3>1, <3>2
    <3>4. FlowAt(n + 1)' = IF line # None /\ CountsAsExtrusion(n)' THEN line.value ELSE 0
      BY <3>2, <3>3 DEF FlowAt
    <3>5. CountsAsExtrusion(n)' <=> line.value > 0 /\ ~Retracting(n)
      <4>1. CountsAsExtrusion(n)'
                <=> dump'[n].value > 0
                    /\ (SignedBefore(n)' # {} => dump'[Max(SignedBefore(n)')].value >= 0)
        BY <1>6 DEF CountsAsExtrusion
      <4>2. SignedBefore(n)' # {} => dump'[Max(SignedBefore(n)')].value \in Int
        <5> SUFFICES ASSUME SignedBefore(n)' # {}
                     PROVE  dump'[Max(SignedBefore(n)')].value \in Int
          OBVIOUS
        <5>1. Max(SignedBefore(n)') \in 1 .. (n - 1)
          BY <1>1, <1>6, LastOf
        <5>2. \A m \in 1 .. (n - 1) : dump'[m] \in DumpLines
          BY <1>1, OneLineRead
        <5>3. dump'[Max(SignedBefore(n)')] \in DumpLines
          BY <5>1, <5>2
        <5> QED BY <5>3, LinesOfADump
      <4>3. Retracting(n)'
                <=> SignedBefore(n)' # {} /\ dump'[Max(SignedBefore(n)')].value < 0
        BY DEF Retracting
      <4>4. dump'[n].value = line.value
        BY <1>1
      <4> DEFINE S == SignedBefore(n)'
                 v == dump'[Max(SignedBefore(n)')].value
      <4>5. S # {} => v \in Int
        BY <4>2
      <4>6. Retracting(n) <=> S # {} /\ v < 0
        BY <1>4, <4>3
      <4>7. CountsAsExtrusion(n)' <=> line.value > 0 /\ (S # {} => v >= 0)
        BY <4>1, <4>4
      <4> HIDE DEF S, v
      <4>8. CASE S = {}
        BY <4>6, <4>7, <4>8
      <4>9. CASE S # {}
        <5>1. v \in Int
          BY <4>5, <4>9
        <5>2. v >= 0 <=> ~(v < 0)
          BY <5>1
        <5> QED BY <4>6, <4>7, <4>9, <5>2
      <4> QED BY <4>8, <4>9
    <3>6. line.value > 0 => line # None /\ line.is = "some"
      BY <2>1, LinesOfADump DEF None
    <3> QED BY <2>1, <3>4, <3>5, <3>6
  <2>2. CASE ~IsFlow(line) /\ line.is = "time"
    <3>1. n \in PairsBefore(n + 1)' /\ PairsBefore(n + 1)' \in SUBSET (1 .. n)
      BY <1>1, <1>3, <1>5, <2>2
    <3>2. Max(PairsBefore(n + 1)') = n
      BY <1>1, <3>1, LastIs
    <3>3. PairedFlow(n + 1)' = None
      BY <1>1, <1>8, <2>2, <3>1, <3>2
    <3> QED BY <2>2, <3>3 DEF FlowAt
  <2>3. CASE ~IsFlow(line) /\ line.is # "time"
    <3>1. /\ FlowsBefore(n + 1)' = FlowsBefore(n)'
          /\ PairsBefore(n + 1)' = PairsBefore(n)'
      <4> DEFINE all == 1 .. n
                 D == 1 .. (n - 1)
      <4>1. all = D \cup {n} /\ ~IsFlow(dump'[n]) /\ dump'[n].is # "time"
        BY <1>1, <1>2, <1>3, <2>3
      <4>2. /\ FlowsBefore(n + 1)' = {j \in all : IsFlow(dump'[j])}
            /\ FlowsBefore(n)' = {j \in D : IsFlow(dump'[j])}
        BY <1>5, <1>6
      <4>3. /\ PairsBefore(n + 1)' = {j \in all : IsFlow(dump'[j]) \/ dump'[j].is = "time"}
            /\ PairsBefore(n)' = {j \in D : IsFlow(dump'[j]) \/ dump'[j].is = "time"}
        BY <1>5, <1>6
      <4> HIDE DEF all, D
      <4>4. FlowsBefore(n + 1)' = FlowsBefore(n)'
        BY <4>1, <4>2
      <4>5. PairsBefore(n + 1)' = PairsBefore(n)'
        BY <4>1, <4>3
      <4> QED BY <4>4, <4>5
    <3>2. PairedFlow(n)' = IF PairsBefore(n)' = {} THEN None
                           ELSE IF IsFlow(dump'[Max(PairsBefore(n)')])
                                THEN dump'[Max(PairsBefore(n)')] ELSE None
      BY <1>6 DEF PairedFlow
    <3>3. PairedFlow(n + 1)' = PairedFlow(n)'
      BY <1>8, <3>1, <3>2
    <3>4. FlowAt(n + 1)' = FlowAt(n)'
      BY <3>1, <3>3 DEF FlowAt
    <3> QED BY <1>4, <2>3, <3>4
  <2> QED BY <2>1, <2>2, <2>3
<1>10. TimesUpTo(n)' = IF line.is = "time" THEN TimesUpTo(n - 1) \cup {n}
                       ELSE TimesUpTo(n - 1)
  <2>1. TimesUpTo(n)' = {t \in 1 .. n : dump'[t].is = "time"}
    BY DEF TimesUpTo
  <2>2. TimesUpTo(n - 1) = {t \in 1 .. (n - 1) : dump[t].is = "time"}
    BY DEF TimesUpTo
  <2> DEFINE all == 1 .. n
             D == 1 .. (n - 1)
  <2>3. all = D \cup {n}
    BY <1>2, <1>3
  <2>4. dump'[n] = line /\ \A m \in D : dump'[m] = dump[m]
    BY <1>1
  <2>5. /\ TimesUpTo(n)' = {t \in all : dump'[t].is = "time"}
        /\ TimesUpTo(n - 1) = {t \in D : dump[t].is = "time"}
    BY <2>1, <2>2
  <2> HIDE DEF all, D
  <2>6. {t \in D : dump'[t].is = "time"} = {t \in D : dump[t].is = "time"}
    BY <2>4
  <2>7. line.is = "time" => {t \in all : dump'[t].is = "time"}
                                = {t \in D : dump'[t].is = "time"} \cup {n}
    BY <2>3, <2>4
  <2>8. line.is # "time" => {t \in all : dump'[t].is = "time"} = {t \in D : dump'[t].is = "time"}
    BY <2>3, <2>4
  <2> QED BY <2>5, <2>6, <2>7, <2>8
<1> QED BY <1>7, <1>9, <1>10

LEMMA TimesAreCounted ==
    ASSUME NEW n \in Nat, NEW k \in 0 .. n
    PROVE  /\ IsFiniteSet(TimesUpTo(n)) /\ Cardinality(TimesUpTo(n)) \in Nat
           /\ Cardinality(TimesUpTo(k)) \in Nat
           /\ Cardinality(TimesUpTo(k)) <= Cardinality(TimesUpTo(n))
           /\ k \in TimesUpTo(n) => Cardinality(TimesUpTo(k)) # 0
<1>1. k \in Nat /\ TimesUpTo(k) \in SUBSET TimesUpTo(n)
  BY DEF TimesUpTo
<1>2. IsFiniteSet(1 .. n) /\ TimesUpTo(n) \in SUBSET (1 .. n)
  BY FS_Interval DEF TimesUpTo
<1>3. IsFiniteSet(TimesUpTo(n)) /\ Cardinality(TimesUpTo(n)) \in Nat
  BY <1>2, FS_Subset, FS_CardinalityType
<1>4. /\ IsFiniteSet(TimesUpTo(k)) /\ Cardinality(TimesUpTo(k)) \in Nat
      /\ Cardinality(TimesUpTo(k)) <= Cardinality(TimesUpTo(n))
  BY <1>1, <1>3, FS_Subset, FS_CardinalityType
<1>5. k \in TimesUpTo(n) => TimesUpTo(k) # {}
  BY <1>1 DEF TimesUpTo
<1> QED BY <1>3, <1>4, <1>5, FS_EmptySet

LEMMA DumpBegins == DumpInit => DumpInv
<1> SUFFICES ASSUME DumpInit PROVE DumpInv
  OBVIOUS
<1>1. /\ dump = <<>> /\ moves = <<>> /\ pendingFlow = 0 /\ haveFlow = FALSE
      /\ retracted = FALSE
  BY DEF DumpInit
<1>2. Len(dump) = 0 /\ Len(moves) = 0 /\ 1 .. 0 = {} /\ 1 - 1 = 0 /\ 0 + 1 = 1
  BY <1>1, EmptySeq
<1>3. SignedBefore(1) = {} /\ TimesUpTo(0) = {} /\ PairedFlow(1) = None
  BY <1>2 DEF SignedBefore, TimesUpTo, PairedFlow
<1>4. DumpTyped
  BY <1>1, EmptySeq DEF DumpTyped
<1>5. MovesOfTheDump
  BY <1>2, <1>3, FS_EmptySet DEF MovesOfTheDump
<1>6. SampleFlow = 0 /\ FlowAt(1) = 0 /\ ~Retracting(1)
  BY <1>1, <1>3 DEF SampleFlow, FlowAt, Retracting
<1> QED BY <1>1, <1>2, <1>4, <1>5, <1>6 DEF DumpInv

LEMMA LineKeepsDump ==
    ASSUME DumpInv, NEW line \in DumpLines, ReadFlow(line) \/ ReadTime(line) \/ SkipLine(line)
    PROVE  DumpInv'
<1>1. PICK n \in Nat : n = Len(dump) + 1
  BY LenProperties DEF DumpInv, DumpTyped
<1>2. DumpTyped /\ dump' = Append(dump, line)
  BY DEF DumpInv, ReadFlow, ReadTime, SkipLine, Read
<1>3. /\ dump' \in Seq(DumpLines) /\ Len(dump) = n - 1 /\ Len(dump') = n /\ n - 1 \in Nat
      /\ dump'[n] = line /\ \A m \in 1 .. (n - 1) : dump'[m] = dump[m]
  BY <1>1, <1>2, OneLineRead
<1>4. /\ Retracting(n + 1)'
             <=> IF line.is = "some" THEN line.value < 0 ELSE Retracting(n)
      /\ FlowAt(n + 1)' =
             IF IsFlow(line)
             THEN IF line.is = "some" /\ line.value > 0 /\ ~Retracting(n)
                  THEN line.value ELSE 0
             ELSE IF line.is = "time" THEN 0 ELSE FlowAt(n)
      /\ TimesUpTo(n)' = IF line.is = "time" THEN TimesUpTo(n - 1) \cup {n}
                         ELSE TimesUpTo(n - 1)
  BY <1>1, <1>2, WhatALineAdds
<1>5. (retracted <=> Retracting(n)) /\ SampleFlow = FlowAt(n) /\ SampleFlow \in Int
  BY <1>1 DEF DumpInv, DumpTyped, SampleFlow
<1>6. /\ moves \in Seq([duration : Nat, flow : Int])
      /\ Len(moves) \in Nat
      /\ Len(moves) = Cardinality(TimesUpTo(n - 1))
      /\ \A t \in TimesUpTo(n - 1) :
             /\ moves[Cardinality(TimesUpTo(t))].duration = dump[t].value
             /\ moves[Cardinality(TimesUpTo(t))].flow = FlowAt(t)
  BY <1>3, LenProperties DEF DumpInv, DumpTyped, MovesOfTheDump
<1>7. \A t \in 1 .. (n - 1) : /\ FlowAt(t)' = FlowAt(t) /\ TimesUpTo(t)' = TimesUpTo(t)
  <2>1. \A t \in 1 .. (n - 1) : t \in 1 .. (Len(dump) + 1) /\ t <= Len(dump)
    BY <1>3
  <2> QED BY <1>2, <2>1, TheRestIsKept
<1>8. \A t \in TimesUpTo(n - 1) : t \in 1 .. (n - 1) /\ dump'[t] = dump[t]
  BY <1>3 DEF TimesUpTo
<1>9. ASSUME moves' = moves, line.is # "time" PROVE MovesOfTheDump'
  <2>1. TimesUpTo(n)' = TimesUpTo(n - 1)
    BY <1>4, <1>9
  <2>2. \A t \in TimesUpTo(n)' :
            /\ moves'[Cardinality(TimesUpTo(t)')].duration = dump'[t].value
            /\ moves'[Cardinality(TimesUpTo(t)')].flow = FlowAt(t)'
    BY <1>6, <1>7, <1>8, <1>9, <2>1
  <2>3. Len(moves') = Cardinality(TimesUpTo(n)')
    BY <1>6, <1>9, <2>1
  <2> QED BY <1>3, <2>2, <2>3 DEF MovesOfTheDump
<1>10. CASE ReadFlow(line)
  <2>1. /\ moves' = moves /\ haveFlow' = TRUE /\ retracted' = Arms(line) /\ IsFlow(line)
        /\ line.is # "time"
        /\ pendingFlow' = IF line.is = "some" /\ ~Suppressed(line.value)
                          THEN line.value ELSE 0
    BY <1>10 DEF ReadFlow, IsFlow
  <2>2. line.value \in Int /\ pendingFlow' \in Int
    BY <2>1, LinesOfADump
  <2>3. DumpTyped'
    BY <1>2, <1>3, <2>1, <2>2 DEF DumpTyped
  <2>4. retracted' <=> Retracting(n + 1)'
    BY <1>4, <1>5, <2>1 DEF Arms
  <2>5. SampleFlow' = FlowAt(n + 1)'
    <3>1. SampleFlow' = pendingFlow'
      BY <2>1 DEF SampleFlow
    <3>2. pendingFlow' = IF line.is = "some" /\ line.value > 0 /\ ~Retracting(n)
                         THEN line.value ELSE 0
      BY <1>5, <2>1, <2>2 DEF Suppressed
    <3> QED BY <1>4, <2>1, <3>1, <3>2
  <2> QED BY <1>3, <1>9, <2>1, <2>3, <2>4, <2>5 DEF DumpInv
<1>11. CASE ReadTime(line)
  <2> DEFINE sample == [duration |-> line.value, flow |-> SampleFlow]
  <2>1. /\ moves' = Append(moves, sample) /\ haveFlow' = FALSE /\ pendingFlow' = 0
        /\ retracted' = retracted /\ line.is = "time" /\ ~IsFlow(line)
    BY <1>11 DEF ReadTime, IsFlow
  <2>2. sample \in [duration : Nat, flow : Int]
    BY <1>5, <2>1, LinesOfADump
  <2>3. sample.duration = line.value /\ sample.flow = FlowAt(n)
    BY <1>5
  <2> HIDE DEF sample
  <2>4. /\ moves' \in Seq([duration : Nat, flow : Int]) /\ Len(moves') = Len(moves) + 1
        /\ moves'[Len(moves) + 1] = sample
        /\ \A k \in 1 .. Len(moves) : moves'[k] = moves[k]
    BY <1>6, <2>1, <2>2, AppendProperties
  <2>5. DumpTyped'
    BY <1>2, <1>3, <2>1, <2>4 DEF DumpTyped
  <2>6. (retracted' <=> Retracting(n + 1)') /\ SampleFlow' = FlowAt(n + 1)'
    BY <1>4, <1>5, <2>1 DEF SampleFlow
  <2>7. TimesUpTo(n)' = TimesUpTo(n - 1) \cup {n}
    BY <1>4, <2>1
  <2>8. Cardinality(TimesUpTo(n)') = Len(moves) + 1
    <3>1. n \notin TimesUpTo(n - 1)
      BY <1>3 DEF TimesUpTo
    <3>2. IsFiniteSet(TimesUpTo(n - 1))
      BY <1>3, TimesAreCounted
    <3>3. Cardinality(TimesUpTo(n - 1) \cup {n}) = Cardinality(TimesUpTo(n - 1)) + 1
      BY <3>1, <3>2, FS_AddElement
    <3> QED BY <1>6, <2>7, <3>3
  <2>9. ASSUME NEW t \in TimesUpTo(n - 1)
        PROVE  /\ moves'[Cardinality(TimesUpTo(t)')].duration = dump'[t].value
               /\ moves'[Cardinality(TimesUpTo(t)')].flow = FlowAt(t)'
    <3> DEFINE k == Cardinality(TimesUpTo(t))
    <3>1. t \in 0 .. (n - 1) /\ t \in TimesUpTo(n - 1)
      BY <1>3 DEF TimesUpTo
    <3>2. k \in 1 .. Len(moves)
      BY <1>3, <1>6, <3>1, TimesAreCounted
    <3>3. TimesUpTo(t)' = TimesUpTo(t) /\ FlowAt(t)' = FlowAt(t) /\ dump'[t] = dump[t]
      BY <1>7, <1>8
    <3>4. moves[k].duration = dump[t].value /\ moves[k].flow = FlowAt(t)
      BY <1>6
    <3>5. Cardinality(TimesUpTo(t)') = k
      BY <3>3
    <3> HIDE DEF k
    <3>6. moves'[k] = moves[k]
      BY <2>4, <3>2
    <3> QED BY <3>3, <3>4, <3>5, <3>6
  <2>10. /\ moves'[Cardinality(TimesUpTo(n)')].duration = dump'[n].value
         /\ moves'[Cardinality(TimesUpTo(n)')].flow = FlowAt(n)'
    <3>1. FlowAt(n)' = FlowAt(n)
      <4>1. n \in 1 .. (Len(dump) + 1)
        BY <1>1, <1>3
      <4> QED BY <1>2, <4>1, TheRestIsKept
    <3> QED BY <1>3, <2>3, <2>4, <2>8, <3>1
  <2>11. \A t \in TimesUpTo(n)' :
            /\ moves'[Cardinality(TimesUpTo(t)')].duration = dump'[t].value
            /\ moves'[Cardinality(TimesUpTo(t)')].flow = FlowAt(t)'
    BY <2>7, <2>9, <2>10
  <2>12. MovesOfTheDump'
    BY <1>3, <2>4, <2>8, <2>11 DEF MovesOfTheDump
  <2> QED BY <1>3, <2>5, <2>6, <2>12 DEF DumpInv
<1>12. CASE SkipLine(line)
  <2>1. /\ UNCHANGED <<moves, pendingFlow, haveFlow, retracted>>
        /\ ~IsFlow(line) /\ line.is # "time" /\ line.is # "some"
    BY <1>12 DEF SkipLine, IsFlow
  <2>2. DumpTyped'
    BY <1>2, <1>3, <2>1 DEF DumpTyped
  <2>3. (retracted' <=> Retracting(n + 1)') /\ SampleFlow' = FlowAt(n + 1)'
    BY <1>4, <1>5, <2>1 DEF SampleFlow
  <2> QED BY <1>3, <1>9, <2>1, <2>2, <2>3 DEF DumpInv
<1> QED BY <1>10, <1>11, <1>12

LEMMA DumpStandsStill ==
    ASSUME DumpInv, UNCHANGED <<dump, moves, pendingFlow, haveFlow, retracted>>
    PROVE  DumpInv'
<1>1. \A n : /\ (Retracting(n)' <=> Retracting(n)) /\ FlowAt(n)' = FlowAt(n)
             /\ TimesUpTo(n)' = TimesUpTo(n)
  BY DEF Retracting, SignedBefore, FlowAt, PairedFlow, FlowsBefore, CountsAsExtrusion, TimesUpTo
<1>2. Len(dump') = Len(dump) /\ SampleFlow' = SampleFlow
  BY DEF SampleFlow
<1>3. DumpTyped'
  BY DEF DumpInv, DumpTyped
<1>4. MovesOfTheDump'
  BY <1>1, <1>2 DEF DumpInv, MovesOfTheDump
<1> QED BY <1>1, <1>2, <1>3, <1>4 DEF DumpInv

LEMMA DumpStep == ASSUME DumpInv, [DumpNext]_dumpVars PROVE DumpInv'
<1>1. CASE \E line \in DumpLines : ReadFlow(line) \/ ReadTime(line) \/ SkipLine(line)
  BY <1>1, LineKeepsDump
<1>2. CASE EndOfDump \/ UNCHANGED dumpVars
  BY <1>2, DumpStandsStill DEF EndOfDump, dumpVars
<1> QED BY <1>1, <1>2 DEF DumpNext

\* The parser does not see what is done with its moves.
LEMMA DumpAlways == PipelineSpec => []DumpInv
<1>1. PipelineInit => DumpInv
  BY DumpBegins DEF PipelineInit, AnalysisInit
<1>2. DumpInv /\ [PipelineNext]_pipelineVars => DumpInv'
  <2>1. [PipelineNext]_pipelineVars => [DumpNext]_dumpVars
    BY DEF PipelineNext, pipelineVars, analysisVars, Analyse, AnalysisNext, Parse, NextMove,
       Split, Finish, HandOver, PlanStep
  <2> QED BY <2>1, DumpStep
<1> QED BY <1>1, <1>2, PTL DEF PipelineSpec

\* For every dump, whatever the order of its lines: one move per Time line, with
\* the duration of that line and the flow of the Flow line it is paired with.
THEOREM DumpIsPaired == PipelineSpec => []ParsesPairs
<1>1. DumpInv => ParsesPairs
  <2> SUFFICES ASSUME DumpInv PROVE ParsesPairs
    OBVIOUS
  <2> DEFINE times == {n \in DOMAIN dump : dump[n].is = "time"}
  <2>1. Len(dump) \in Nat /\ DOMAIN dump = 1 .. Len(dump)
    BY LenProperties DEF DumpInv, DumpTyped
  <2>2. times = TimesUpTo(Len(dump))
    BY <2>1 DEF TimesUpTo
  <2>3. \A n \in times : {t \in times : t <= n} = TimesUpTo(n)
    BY <2>1 DEF TimesUpTo
  <2>4. /\ Len(moves) = Cardinality(times)
        /\ \A n \in times :
               /\ moves[Cardinality(TimesUpTo(n))].duration = dump[n].value
               /\ moves[Cardinality(TimesUpTo(n))].flow = FlowAt(n)
    BY <2>2 DEF DumpInv, MovesOfTheDump
  <2> HIDE DEF times
  <2>5. ASSUME NEW n \in times
        PROVE  LET sample == moves[Cardinality({t \in times : t <= n})]
                   flows == {m \in 1 .. (n - 1) : IsFlow(dump[m])}
               IN  /\ sample.duration = dump[n].value
                   /\ sample.flow = (IF PairedFlow(n) # None
                                       /\ CountsAsExtrusion(Max(flows))
                                    THEN PairedFlow(n).value ELSE 0)
    <3>1. {t \in times : t <= n} = TimesUpTo(n)
      BY <2>3
    <3>2. FlowAt(n) = IF PairedFlow(n) # None
                         /\ CountsAsExtrusion(Max({m \in 1 .. (n - 1) : IsFlow(dump[m])}))
                      THEN PairedFlow(n).value ELSE 0
      BY DEF FlowAt, FlowsBefore
    <3> QED BY <2>4, <3>1, <3>2
  <2> QED BY <2>4, <2>5 DEF ParsesPairs, times
<1> QED BY <1>1, DumpAlways, PTL

-----------------------------------------------------------------------------
(***************************************************************************)
(* A dump of pairs.  Its k-th Flow line is line 2k - 1, so that the last    *)
(* signed flow before a line is the one before a move.                     *)
(***************************************************************************)

LEMMA OddNumber ==
    ASSUME NEW y \in Nat, y % 2 = 1
    PROVE  \E j \in Nat : y = 2 * j + 1
<1>1. y \div 2 \in Nat /\ y = 2 * (y \div 2) + 1
  OBVIOUS
<1> QED BY <1>1

LEMMA Halves ==
    ASSUME NEW len \in Nat, NEW k \in 0 .. (len \div 2)
    PROVE  /\ k \in Nat /\ 2 * k \in Nat /\ 2 * k <= len
           /\ (2 * k) % 2 = 0
           /\ k > 0 => 2 * k \in 1 .. len /\ 2 * k - 1 \in 1 .. len /\ (2 * k - 1) % 2 = 1
OBVIOUS

LEMMA PairsAreRead ==
    ASSUME DumpInv, WellFormed,
           NEW pairs, pairs = Len(dump) \div 2,
           NEW signed, signed = [k \in 1 .. pairs |-> dump[2 * k - 1].value],
           NEW k \in 1 .. pairs,
           NEW zero, zero <=> SomesBefore(k) # {} /\ signed[Max(SomesBefore(k))] = 0
    PROVE  moves[k].flow = IF signed[k] > 0 /\ RetractedBefore(signed, k) /\ zero
                           THEN signed[k] ELSE Samples(signed)[k]
<1> DEFINE len == Len(dump)
<1>1. /\ len \in Nat /\ DOMAIN dump = 1 .. len /\ pairs \in Nat
      /\ \A n \in 1 .. len : dump[n] \in DumpLines
  <2>1. dump \in Seq(DumpLines)
    BY DEF DumpInv, DumpTyped
  <2>2. len \in Nat /\ DOMAIN dump = 1 .. len /\ \A n \in 1 .. len : dump[n] \in DumpLines
    BY <2>1, LenProperties, ElementOfSeq
  <2>3. pairs \in Nat
    BY <2>2
  <2> QED BY <2>2, <2>3
<1>2. \A n \in 1 .. len : /\ n % 2 = 1 => dump[n].is \in {"some", "none"}
                          /\ n % 2 # 1 => dump[n].is = "time"
  BY <1>1 DEF WellFormed
<1>3. \A i \in 0 .. pairs : /\ 2 * i \in Nat /\ 2 * i <= len /\ i \in Nat /\ (2 * i) % 2 = 0
                            /\ i > 0 => 2 * i \in 1 .. len /\ 2 * i - 1 \in 1 .. len
                                        /\ (2 * i - 1) % 2 = 1
  BY <1>1, Halves
<1> HIDE DEF len
<1>4. \A i \in 1 .. pairs : /\ i \in 0 .. pairs /\ i > 0
                            /\ 2 * i \in 1 .. len /\ 2 * i - 1 \in 1 .. len
                            /\ dump[2 * i].is = "time" /\ dump[2 * i - 1].is \in {"some", "none"}
                            /\ dump[2 * i - 1] \in DumpLines
                            /\ signed[i] = dump[2 * i - 1].value
  <2> SUFFICES ASSUME NEW i \in 1 .. pairs
               PROVE  /\ i \in 0 .. pairs /\ i > 0
                      /\ 2 * i \in 1 .. len /\ 2 * i - 1 \in 1 .. len
                      /\ dump[2 * i].is = "time" /\ dump[2 * i - 1].is \in {"some", "none"}
                      /\ dump[2 * i - 1] \in DumpLines
                      /\ signed[i] = dump[2 * i - 1].value
    OBVIOUS
  <2>1. i \in 0 .. pairs /\ i > 0
    BY <1>1
  <2> DEFINE a == 2 * i
             b == 2 * i - 1
  <2>2. a \in 1 .. len /\ b \in 1 .. len /\ a % 2 = 0 /\ b % 2 = 1
    BY <1>3, <2>1
  <2>3. signed[i] = dump[b].value
    OBVIOUS
  <2> HIDE DEF a, b
  <2>4. dump[a].is = "time" /\ dump[b].is \in {"some", "none"} /\ dump[b] \in DumpLines
    <3>1. a % 2 # 1 /\ b % 2 = 1
      BY <2>2
    <3>2. dump[a].is = "time"
      BY <1>2, <2>2, <3>1
    <3>3. dump[b].is \in {"some", "none"}
      BY <1>2, <2>2, <3>1
    <3>4. dump[b] \in DumpLines
      BY <1>1, <2>2
    <3> QED BY <3>2, <3>3, <3>4
  <2> QED BY <2>1, <2>2, <2>3, <2>4 DEF a, b
<1>5. Cardinality(TimesUpTo(2 * k)) = k
  <2> DEFINE G == {i \in Nat : i <= pairs => Cardinality(TimesUpTo(2 * i)) = i}
  <2>1. 0 \in G
    <3>1. TimesUpTo(2 * 0) = {}
      BY DEF TimesUpTo
    <3> QED BY <3>1, FS_EmptySet
  <2>2. ASSUME NEW i \in Nat, i \in G PROVE i + 1 \in G
    <3> SUFFICES ASSUME i + 1 <= pairs PROVE Cardinality(TimesUpTo(2 * (i + 1))) = i + 1
      OBVIOUS
    <3> DEFINE n == 2 * i
    <3>1. n \in Nat /\ 2 * (i + 1) = n + 2 /\ 2 * (i + 1) - 1 = n + 1
          /\ i \in 0 .. pairs /\ i + 1 \in 1 .. pairs
      BY <1>1
    <3>2. /\ dump[2 * (i + 1)].is = "time" /\ dump[2 * (i + 1) - 1].is \in {"some", "none"}
      BY <1>4, <3>1
    <3>3. dump[n + 2].is = "time" /\ dump[n + 1].is # "time"
      BY <3>1, <3>2
    <3>4. Cardinality(TimesUpTo(n)) = i
      BY <1>1, <2>2, <3>1
    <3> HIDE DEF n
    <3>5. TimesUpTo(n + 2) = TimesUpTo(n) \cup {n + 2} /\ n + 2 \notin TimesUpTo(n)
      <4>1. \A t \in 1 .. (n + 2) : t \in 1 .. n \/ t = n + 1 \/ t = n + 2
        BY <3>1
      <4>2. n + 2 \in 1 .. (n + 2) /\ n + 2 \notin 1 .. n /\ \A t \in 1 .. n : t \in 1 .. (n + 2)
        BY <3>1
      <4> QED BY <3>3, <4>1, <4>2 DEF TimesUpTo
    <3>6. IsFiniteSet(TimesUpTo(n)) /\ n \in 0 .. n
      BY <3>1, TimesAreCounted
    <3>7. Cardinality(TimesUpTo(n + 2)) = i + 1
      BY <3>4, <3>5, <3>6, FS_AddElement
    <3> QED BY <3>1, <3>7
  <2>3. \A i \in Nat : i \in G
    <3> HIDE DEF G
    <3> QED BY <2>1, <2>2, Successors
  <2>4. k \in G /\ k <= pairs
    <3> HIDE DEF G
    <3> QED BY <1>1, <2>3
  <2> QED BY <2>4
<1> DEFINE a == 2 * k
           b == 2 * k - 1
           v == signed[k]
<1>6. /\ a \in 1 .. len /\ b \in 1 .. len /\ a \in Nat /\ b \in Nat /\ a - 1 = b /\ b - 1 \in Nat
      /\ dump[a].is = "time" /\ dump[b].is \in {"some", "none"} /\ dump[b] \in DumpLines
      /\ v = dump[b].value /\ Cardinality(TimesUpTo(a)) = k
  <2>1. /\ a \in Nat /\ b \in Nat /\ a - 1 = b /\ b - 1 \in Nat
    BY <1>1
  <2>2. /\ a \in 1 .. len /\ b \in 1 .. len
        /\ dump[a].is = "time" /\ dump[b].is \in {"some", "none"} /\ dump[b] \in DumpLines
        /\ v = dump[b].value
    BY <1>4
  <2> QED BY <1>5, <2>1, <2>2
<1> DEFINE S == SomesBefore(k)
<1>16. /\ S \in SUBSET (1 .. (k - 1)) /\ k - 1 \in Nat
       /\ \A j \in 1 .. (k - 1) : /\ j \in 1 .. pairs /\ 2 * j - 1 \in 1 .. (b - 1) /\ j \in Nat
                                  /\ signed[j] = dump[2 * j - 1].value
  <2>1. \A j \in 1 .. (k - 1) : j \in 1 .. pairs /\ 2 * j - 1 \in 1 .. (b - 1) /\ j \in Nat
    BY <1>1
  <2> QED BY <1>1, <1>4, <2>1 DEF SomesBefore
<1>7. Retracting(b) <=> S # {} /\ signed[Max(S)] < 0
  <2> DEFINE U == SignedBefore(b)
             m == Max(S)
  <2>3. \A j \in S : 2 * j - 1 \in U
    BY <1>16 DEF SignedBefore, SomesBefore
  <2>4. \A y \in U : \E j \in S : y = 2 * j - 1
    <3> SUFFICES ASSUME NEW y \in U PROVE \E j \in S : y = 2 * j - 1
      OBVIOUS
    <3>1. y \in 1 .. (b - 1) /\ dump[y].is = "some"
      BY DEF SignedBefore
    <3>2. y \in 1 .. len /\ y \in Nat
      BY <1>1, <1>6, <3>1
    <3>3. y % 2 = 1
      BY <1>2, <3>1, <3>2
    <3>4. PICK i \in Nat : y = 2 * i + 1
      BY <3>2, <3>3, OddNumber
    <3> DEFINE j == i + 1
    <3>5. j \in 1 .. (k - 1) /\ y = 2 * j - 1
      BY <1>1, <3>1, <3>4
    <3> HIDE DEF j
    <3>6. j \in S
      BY <3>1, <3>5 DEF SomesBefore
    <3> QED BY <3>5, <3>6
  <2>6. Retracting(b) <=> U # {} /\ dump[Max(U)].value < 0
    BY DEF Retracting
  <2>7. U \in SUBSET (1 .. (b - 1))
    BY DEF SignedBefore
  <2> HIDE DEF S, U
  <2>8. CASE S = {}
    BY <2>4, <2>6, <2>8
  <2>9. CASE S # {}
    <3>1. m \in S /\ m \in 1 .. (k - 1) /\ \A j \in S : j <= m
      BY <1>16, <2>9, LastOf
    <3> HIDE DEF m
    <3> DEFINE u == 2 * m - 1
    <3>2. u \in U
      BY <2>3, <3>1
    <3>3. \A y \in U : y <= u
      <4> SUFFICES ASSUME NEW y \in U PROVE y <= u
        OBVIOUS
      <4>1. PICK j \in S : y = 2 * j - 1
        BY <2>4
      <4>2. j \in Nat /\ m \in Nat /\ j <= m
        BY <1>16, <3>1
      <4> QED BY <4>1, <4>2
    <3>4. signed[m] = dump[u].value
      BY <1>16, <3>1
    <3>5. U \in SUBSET Int
      BY <2>7
    <3> HIDE DEF u
    <3>6. Max(U) = u
      BY <3>2, <3>3, <3>5, MaxIs
    <3> QED BY <2>6, <2>9, <3>2, <3>4, <3>6 DEF m
  <2> QED BY <2>8, <2>9
<1>17. ~zero => (RetractedBefore(signed, k) <=> Retracting(b))
  <2> DEFINE T == {j \in 1 .. (k - 1) : signed[j] # 0}
             m == Max(S)
  <2>1. T \subseteq S
    <3> SUFFICES ASSUME NEW j \in T PROVE j \in S
      OBVIOUS
    <3> DEFINE line == dump[2 * j - 1]
    <3>1. /\ line.is \in {"some", "none"} /\ line \in DumpLines /\ line.value # 0
      BY <1>4, <1>16
    <3> HIDE DEF line
    <3>2. line.is = "none" => line.value = 0
      BY <3>1, LinesOfADump DEF None
    <3> QED BY <1>16, <3>1, <3>2 DEF line, SomesBefore
  <2>2. RetractedBefore(signed, k) <=> T # {} /\ signed[Max(T)] < 0
    BY DEF RetractedBefore
  <2>3. T \in SUBSET Int
    BY <1>16
  <2>4. CASE S = {}
    BY <1>7, <2>1, <2>2, <2>4
  <2>5. ASSUME S # {}, ~zero PROVE Max(T) = m /\ T # {}
    <3>1. m \in S /\ m \in 1 .. (k - 1) /\ \A j \in S : j <= m
      BY <1>16, <2>5, LastOf
    <3>2. signed[m] # 0
      BY <2>5
    <3>3. m \in T /\ \A j \in T : j <= m
      BY <2>1, <3>1, <3>2
    <3> HIDE DEF m, T
    <3> QED BY <2>3, <3>3, MaxIs
  <2> HIDE DEF S, T
  <2> QED BY <1>7, <2>2, <2>4, <2>5 DEF m
<1>18. zero => ~Retracting(b)
  BY <1>7
<1> HIDE DEF S
<1> HIDE DEF a, b, v
<1>8. Max(PairsBefore(a)) = b /\ Max(FlowsBefore(a)) = b /\ PairedFlow(a) = dump[b]
  <2>1. IsFlow(dump[b]) /\ b \in 1 .. b
    BY <1>6 DEF IsFlow
  <2>2. /\ PairsBefore(a) \in SUBSET (1 .. b) /\ b \in PairsBefore(a)
        /\ FlowsBefore(a) \in SUBSET (1 .. b) /\ b \in FlowsBefore(a)
    BY <1>6, <2>1 DEF PairsBefore, FlowsBefore
  <2>3. Max(PairsBefore(a)) = b /\ Max(FlowsBefore(a)) = b
    BY <1>6, <2>2, LastIs
  <2>4. PairedFlow(a) = IF PairsBefore(a) = {} THEN None
                        ELSE IF IsFlow(dump[Max(PairsBefore(a))])
                             THEN dump[Max(PairsBefore(a))] ELSE None
    BY DEF PairedFlow, PairsBefore
  <2> QED BY <2>1, <2>2, <2>3, <2>4
<1>9. v \in Int /\ (v > 0 => dump[b] # None)
  BY <1>6, LinesOfADump DEF None
<1>10. CountsAsExtrusion(b) <=> v > 0 /\ ~Retracting(b)
  <2> DEFINE U == SignedBefore(b)
             w == dump[Max(U)].value
  <2>1. CountsAsExtrusion(b) <=> v > 0 /\ (U # {} => w >= 0)
    BY <1>6 DEF CountsAsExtrusion, SignedBefore
  <2>2. Retracting(b) <=> U # {} /\ w < 0
    BY DEF Retracting
  <2>3. U # {} => w \in Int
    <3> SUFFICES ASSUME U # {} PROVE w \in Int
      OBVIOUS
    <3>1. U \in SUBSET (1 .. (b - 1))
      BY DEF SignedBefore
    <3> HIDE DEF U
    <3>2. Max(U) \in 1 .. (b - 1)
      BY <1>6, <3>1, LastOf
    <3>3. Max(U) \in 1 .. len
      BY <1>1, <1>6, <3>2
    <3>4. dump[Max(U)] \in DumpLines
      BY <1>1, <3>3
    <3> QED BY <3>4, LinesOfADump
  <2> HIDE DEF U, w
  <2>4. CASE U = {}
    BY <2>1, <2>2, <2>4
  <2>5. CASE U # {}
    <3>1. w \in Int
      BY <2>3, <2>5
    <3>2. w >= 0 <=> ~(w < 0)
      BY <3>1
    <3> QED BY <2>1, <2>2, <2>5, <3>2
  <2> QED BY <2>4, <2>5
<1>11. FlowAt(a) = IF v > 0 /\ ~Retracting(b) THEN v ELSE 0
  <2>1. FlowAt(a) = IF dump[b] # None /\ CountsAsExtrusion(b) THEN v ELSE 0
    BY <1>6, <1>8 DEF FlowAt
  <2> QED BY <1>9, <1>10, <2>1
<1>12. moves[k].flow = FlowAt(a)
  <2>1. a \in TimesUpTo(len)
    BY <1>6 DEF TimesUpTo
  <2>2. \A n \in TimesUpTo(len) : moves[Cardinality(TimesUpTo(n))].flow = FlowAt(n)
    BY DEF DumpInv, MovesOfTheDump, len
  <2> QED BY <1>6, <2>1, <2>2
<1>13. Samples(signed)[k] = IF v < 0 \/ RetractedBefore(signed, k) THEN 0 ELSE v
  <2>1. k \in DOMAIN signed
    OBVIOUS
  <2> QED BY <2>1 DEF Samples, v
<1>14. moves[k].flow = IF v > 0 /\ ~Retracting(b) THEN v ELSE 0
  BY <1>11, <1>12
<1>15. CASE zero
  BY <1>9, <1>13, <1>14, <1>15, <1>18 DEF v
<1>19. CASE ~zero
  BY <1>9, <1>13, <1>14, <1>17, <1>19 DEF v
<1> QED BY <1>15, <1>19

\* Of every dump of pairs: the parser reads the flows that estimateMoves would have
\* made of the same moves, but for the extrusions behind a retraction and a Some
\* that holds zero, which it counts in full.
THEOREM DumpAndEstimatorPart == PipelineSpec => []PathsPartAtZero
<1>1. DumpInv => PathsPartAtZero
  <2> SUFFICES ASSUME DumpInv, WellFormed PROVE PathsPartAtZero
    BY DEF PathsPartAtZero
  <2> DEFINE pairs == Len(dump) \div 2
             signed == FlowsOfPairs
  <2>1. pairs = Len(dump) \div 2 /\ signed = [k \in 1 .. pairs |-> dump[2 * k - 1].value]
        /\ DOMAIN signed = 1 .. pairs
    BY DEF FlowsOfPairs
  <2>2. \A k : ZeroLast(k) <=> SomesBefore(k) # {} /\ signed[Max(SomesBefore(k))] = 0
    BY DEF ZeroLast
  <2>3. PathsPartAtZero <=>
            \A k \in 1 .. pairs :
                moves[k].flow = IF signed[k] > 0 /\ RetractedBefore(signed, k) /\ ZeroLast(k)
                                THEN signed[k] ELSE Samples(signed)[k]
    BY <2>1 DEF PathsPartAtZero
  <2> HIDE DEF pairs, signed
  <2> SUFFICES ASSUME NEW k \in 1 .. pairs
               PROVE  moves[k].flow = IF signed[k] > 0 /\ RetractedBefore(signed, k) /\ ZeroLast(k)
                                      THEN signed[k] ELSE Samples(signed)[k]
    BY <2>3
  <2>4. PICK z : z = ZeroLast(k)
    OBVIOUS
  <2>5. z <=> SomesBefore(k) # {} /\ signed[Max(SomesBefore(k))] = 0
    BY <2>2, <2>4
  <2>6. moves[k].flow = IF signed[k] > 0 /\ RetractedBefore(signed, k) /\ z
                        THEN signed[k] ELSE Samples(signed)[k]
    BY <2>1, <2>5, PairsAreRead
  <2> QED BY <2>4, <2>6
<1> QED BY <1>1, DumpAlways, PTL
=============================================================================
